--------------------------- MODULE WorkerPoolProofs ---------------------------
(***************************************************************************)
(* Theorems about the inference worker pool, for any number of captures,   *)
(* workers and scopes and any capacity.                                    *)
(***************************************************************************)
EXTENDS WorkerPool, FiniteSetTheorems, TLAPS

-----------------------------------------------------------------------------
(* Lemmas about the queue.                                                 *)

\* Any set of jobs can be counted, and a smaller one counts no more.
LEMMA JobSetsFinite ==
    ASSUME NEW S \in SUBSET Jobs, NEW T \in SUBSET S
    PROVE  /\ IsFiniteSet(S)
           /\ Cardinality(S) \in Nat /\ Cardinality(T) \in Nat
           /\ Cardinality(T) <= Cardinality(S)
<1>1. IsFiniteSet(Jobs)
  BY JobAssumption
<1>2. IsFiniteSet(S)
  BY <1>1, FS_Subset
<1>3. IsFiniteSet(T) /\ Cardinality(T) <= Cardinality(S)
  BY <1>2, FS_Subset
<1> QED
  BY <1>2, <1>3, FS_CardinalityType

\* An enqueue below the capacity does not exceed it; a removal never does.
LEMMA InsertKeepsCapacity ==
    ASSUME NEW j \in Jobs, queued \subseteq Jobs, ~Full, Insert(j)
    PROVE  Cardinality(queued') <= Capacity
<1>1. IsFiniteSet(queued) /\ Cardinality(queued) \in Nat
  <2>1. queued \in SUBSET Jobs /\ queued \in SUBSET queued
    OBVIOUS
  <2> QED
    BY <2>1, JobSetsFinite
<1>2. Cardinality(queued \cup {j}) <= Cardinality(queued) + 1
  BY <1>1, FS_AddElement
<1>3. Cardinality(queued \cup {j}) \in Nat
  BY <1>1, FS_AddElement, FS_CardinalityType
<1> QED
  BY <1>1, <1>2, <1>3, JobAssumption DEF Full, Insert

\* A queue that loses jobs stays within its capacity.
LEMMA RemovalKeepsCapacity ==
    ASSUME queued \subseteq Jobs, queued' \subseteq queued, Cardinality(queued) <= Capacity
    PROVE  Cardinality(queued') <= Capacity
  BY JobSetsFinite, JobAssumption

-----------------------------------------------------------------------------
(* Type correctness.                                                       *)

\* The pool starts in its types.
LEMMA InitTyped == Init => TypeOK
<1> SUFFICES ASSUME Init PROVE TypeOK
  OBVIOUS
<1> USE DEF Init, QueueInit
<1>1. QueueTypeOK
  BY DEF QueueTypeOK
<1>2. Cardinality(queued) <= Capacity
  BY FS_EmptySet, JobAssumption
<1>3. /\ producer \in [Jobs -> ProducerPhases]
      /\ worker \in [Workers -> WorkerPhases]
  BY DEF ProducerPhases, WorkerPhases
<1>4. /\ held \in [Workers -> Jobs \cup {None}]
      /\ verdict \in [Workers -> {"none", "success", "failure", "canceled", "oom"}]
      /\ outcome \in [Jobs -> Outcomes]
  BY DEF Outcomes
<1> QED
  BY <1>1, <1>2, <1>3, <1>4 DEF TypeOK

\* What a notification does to the phases of the threads.
LEMMA NotifyTyped ==
    ASSUME TypeOK, NotifyAll
    PROVE  /\ producer' \in [Jobs -> ProducerPhases]
           /\ worker' \in [Workers -> WorkerPhases]
  BY DEF TypeOK, NotifyAll, WakeProducers, WakeWorkers, ProducerPhases, WorkerPhases

\* notify_all, as a worker calls it, keeps the types,
LEMMA NotifyFromTyped ==
    ASSUME TypeOK, NEW w \in Workers, NEW to \in WorkerPhases, NotifyAllFrom(w, to)
    PROVE  /\ producer' \in [Jobs -> ProducerPhases]
           /\ worker' \in [Workers -> WorkerPhases]
  BY DEF TypeOK, NotifyAllFrom, WakeProducers, ProducerPhases, WorkerPhases

\* ... and so does notify.
LEMMA NotifyOneTyped ==
    ASSUME TypeOK, NEW j \in Jobs, NotifyOneFrom(j)
    PROVE  /\ producer' \in [Jobs -> ProducerPhases]
           /\ worker' \in [Workers -> WorkerPhases]
  BY DEF TypeOK, NotifyOneFrom, WakeWorkers, SleepingWorkers, SleepingProducers,
         ProducerPhases, WorkerPhases

\* Every step keeps the types.
LEMMA NextTyped == TypeOK /\ [Next]_vars => TypeOK'
<1> SUFFICES ASSUME TypeOK, [Next]_vars PROVE TypeOK'
  OBVIOUS
<1> USE DEF TypeOK, QueueTypeOK, sweepVars, cancelVars, stopVars, queueVars
<1>1. ASSUME NEW j \in Jobs, CaptureSaved(j) PROVE TypeOK'
  BY <1>1 DEF CaptureSaved, ProducerPhases
<1>2. ASSUME NEW j \in Jobs, TryEnqueue(j) PROVE TypeOK'
  <2>1. CASE MayEnqueue(j) /\ Insert(j) /\ NotifyOneFrom(j)
    <3>1. Cardinality(queued') <= Capacity
      BY <2>1, InsertKeepsCapacity DEF MayEnqueue
    <3>2. QueueTypeOK'
      BY <2>1 DEF Insert
    <3> QED
      BY <1>2, <2>1, <3>1, <3>2, NotifyOneTyped DEF TryEnqueue
  <2>2. CASE ~MayEnqueue(j)
    BY <1>2, <2>2 DEF TryEnqueue, ProducerPhases
  <2> QED
    BY <1>2, <2>1, <2>2 DEF TryEnqueue
<1>3. ASSUME NEW j \in Jobs, CheckRefusal(j) PROVE TypeOK'
  BY <1>3 DEF CheckRefusal, ProducerPhases
<1>4. ASSUME NEW j \in Jobs, WaitForSpace(j) PROVE TypeOK'
  BY <1>4 DEF WaitForSpace, ProducerPhases
<1>5. ASSUME NEW j \in Jobs, WaitTimesOut(j) PROVE TypeOK'
  BY <1>5 DEF WaitTimesOut, ProducerPhases
<1>6. ASSUME NEW j \in Jobs, DeadlinePasses(j) PROVE TypeOK'
  BY <1>6 DEF DeadlinePasses
<1>7. ASSUME NEW j \in Jobs, SweepFail(j) PROVE TypeOK'
  BY <1>7 DEF SweepFail, Outcomes
<1>8. ASSUME NEW w \in Workers, WorkerGet(w) PROVE TypeOK'
  <2>1. CASE queueVars' = queueVars /\ held' = held
    BY <1>8, <2>1 DEF WorkerGet, NotifyAllFrom, WakeProducers, WorkerPhases, ProducerPhases
  <2>2. ASSUME NEW j \in queued, Remove({j}), held' = [held EXCEPT ![w] = j],
               NotifyAllFrom(w, "popped")
        PROVE  TypeOK'
    <3>1. Cardinality(queued') <= Capacity /\ QueueTypeOK'
      BY <2>2, RemovalKeepsCapacity DEF Remove
    <3>2. /\ producer' \in [Jobs -> ProducerPhases]
          /\ worker' \in [Workers -> WorkerPhases]
      BY <2>2, NotifyFromTyped DEF WorkerPhases
    <3> QED
      BY <1>8, <2>2, <3>1, <3>2 DEF WorkerGet
  <2> QED
    BY <1>8, <2>1, <2>2 DEF WorkerGet
<1>9. ASSUME NEW w \in Workers, WorkerRegister(w) PROVE TypeOK'
  BY <1>9 DEF WorkerRegister, WorkerSame, WorkerPhases
<1>10. ASSUME NEW w \in Workers, WorkerLoad(w) PROVE TypeOK'
  BY <1>10 DEF WorkerLoad, ChecksThen, GoReport, GoOn, WorkerSame, WorkerPhases
<1>11. ASSUME NEW w \in Workers, WorkerForward(w) PROVE TypeOK'
  BY <1>11 DEF WorkerForward, ChecksThen, GoReport, GoOn, WorkerSame, WorkerPhases
<1>12. ASSUME NEW w \in Workers, WorkerCheckInferred(w) PROVE TypeOK'
  BY <1>12 DEF WorkerCheckInferred, ChecksThen, GoReport, WorkerSame, WorkerPhases
<1>13. ASSUME NEW w \in Workers, WorkerReport(w) PROVE TypeOK'
  <2>1. ReportOutcomes(verdict[w]) \subseteq Outcomes
    BY DEF ReportOutcomes, Outcomes
  <2> QED
    <3>1. PICK o \in Outcomes : outcome' = [outcome EXCEPT ![held[w]] = o]
      BY <1>13, <2>1 DEF WorkerReport
    <3>2. outcome' \in [Jobs -> Outcomes]
      BY <3>1
    <3> QED
      BY <1>13, <3>2 DEF WorkerReport, WorkerPhases
<1>14. ASSUME NEW w \in Workers, WorkerOomDrain(w) PROVE TypeOK'
  <2>1. Cardinality(queued') <= Capacity /\ QueueTypeOK'
    BY <1>14, RemovalKeepsCapacity DEF WorkerOomDrain, Remove
  <2>2. /\ producer' \in [Jobs -> ProducerPhases]
        /\ worker' \in [Workers -> WorkerPhases]
    BY <1>14, NotifyFromTyped DEF WorkerOomDrain, WorkerPhases
  <2> QED
    BY <1>14, <2>1, <2>2 DEF WorkerOomDrain, Outcomes
<1>15. ASSUME NEW w \in Workers, WorkerOomClose(w) PROVE TypeOK'
  <2>1. /\ producer' \in [Jobs -> ProducerPhases]
        /\ worker' \in [Workers -> WorkerPhases]
    BY <1>15, NotifyFromTyped DEF WorkerOomClose, WorkerPhases
  <2> QED
    BY <1>15, <2>1 DEF WorkerOomClose, Close
<1>16. ASSUME NEW w \in Workers, WorkerFinish(w) PROVE TypeOK'
  BY <1>16 DEF WorkerFinish, WorkerPhases
<1>17. CASE Sweep
  <2>1. Cardinality(queued') <= Capacity /\ QueueTypeOK'
    BY <1>17, RemovalKeepsCapacity DEF Sweep, Remove
  <2> QED
    BY <1>17, <2>1, NotifyTyped DEF Sweep
<1>18. ASSUME NEW scope \in CancelScopes, CancelBegin(scope) PROVE TypeOK'
  BY <1>18, WorkerAssumption DEF CancelBegin
<1>19. CASE CancelQueue
  <2>1. Cardinality(queued') <= Capacity
    BY <1>19, RemovalKeepsCapacity DEF CancelQueue, InstallScope
  <2>2. QueueTypeOK'
    BY <1>19 DEF CancelQueue, InstallScope
  <2>3. outcome' \in [Jobs -> Outcomes]
    BY <1>19 DEF CancelQueue, Outcomes
  <2>4. /\ producer' \in [Jobs -> ProducerPhases]
        /\ worker' \in [Workers -> WorkerPhases]
    BY <1>19, NotifyTyped DEF CancelQueue
  <2> QED
    BY <1>19, <2>1, <2>2, <2>3, <2>4 DEF CancelQueue
<1>20. CASE CancelAck
  BY <1>20 DEF CancelAck
<1>21. CASE StopBegin
  BY <1>21 DEF StopBegin
<1>22. CASE StopDrain
  <2>1. Cardinality(queued') <= Capacity /\ QueueTypeOK'
    BY <1>22, RemovalKeepsCapacity DEF StopDrain, Remove
  <2> QED
    BY <1>22, <2>1, NotifyTyped DEF StopDrain
<1>23. ASSUME NEW j \in Jobs, StopReport(j) PROVE TypeOK'
  BY <1>23 DEF StopReport, Outcomes
<1>24. CASE StopClose
  BY <1>24, NotifyTyped DEF StopClose, Close
<1>25. CASE StopJoin
  BY <1>25 DEF StopJoin
<1>26. CASE UNCHANGED vars
  BY <1>26 DEF vars
<1> QED
  BY <1>1, <1>2, <1>3, <1>4, <1>5, <1>6, <1>7, <1>8, <1>9, <1>10, <1>11, <1>12, <1>13,
     <1>14, <1>15, <1>16, <1>17, <1>18, <1>19, <1>20, <1>21, <1>22, <1>23, <1>24, <1>25,
     <1>26 DEF Next, ProducerStep, WorkerStep, StopStep

\* Every variable keeps its type and the queue its capacity, under any schedule
\* of the threads.
THEOREM TypeCorrect == Spec => []TypeOK
  BY InitTyped, NextTyped, PTL DEF Spec

-----------------------------------------------------------------------------
(* A producer sleeps only while the queue is full and open.  Whatever      *)
(* removes a job or closes the queue wakes every producer, and an enqueue  *)
(* needs room, which a sleeping producer rules out.                        *)

\* notify_all leaves no capture asleep.
LEMMA AllProducersWoken ==
    ASSUME TypeOK, WakeProducers(SleepingProducers)
    PROVE  SleepingProducers' = {}
  BY DEF TypeOK, WakeProducers, SleepingProducers

\* The steps that leave the queue alone and put no producer to sleep.
LEMMA QuietStepKeepsSleepers ==
    ASSUME TypeOK, ProducerSleepsOnlyWhenFull, queued' = queued, closed' = closed,
           SleepingProducers' \subseteq SleepingProducers
    PROVE  ProducerSleepsOnlyWhenFull'
  BY DEF ProducerSleepsOnlyWhenFull

\* Whatever makes room or closes the queue wakes the captures.
LEMMA NextSleepsOnlyWhenFull ==
    TypeOK /\ ProducerSleepsOnlyWhenFull /\ [Next]_vars => ProducerSleepsOnlyWhenFull'
<1> SUFFICES ASSUME TypeOK, ProducerSleepsOnlyWhenFull, [Next]_vars
             PROVE  ProducerSleepsOnlyWhenFull'
  OBVIOUS
<1> DEFINE Quiet == /\ queued' = queued /\ closed' = closed
                    /\ SleepingProducers' \subseteq SleepingProducers
<1>a. Quiet => ProducerSleepsOnlyWhenFull'
  BY QuietStepKeepsSleepers
<1>b. WakeProducers(SleepingProducers) => ProducerSleepsOnlyWhenFull'
  BY AllProducersWoken DEF ProducerSleepsOnlyWhenFull
<1> USE DEF queueVars, sweepVars, cancelVars, stopVars
<1>1. ASSUME NEW j \in Jobs, CaptureSaved(j) PROVE Quiet
  BY <1>1 DEF CaptureSaved, SleepingProducers, TypeOK
<1>2. ASSUME NEW j \in Jobs, TryEnqueue(j) PROVE ProducerSleepsOnlyWhenFull'
  <2>1. CASE MayEnqueue(j) /\ Insert(j) /\ NotifyOneFrom(j)
    <3>1. SleepingProducers = {}
      <4>1. Cardinality(queued) \in Nat
        <5>1. queued \in SUBSET Jobs /\ queued \in SUBSET queued
          BY DEF TypeOK, QueueTypeOK
        <5> QED
          BY <5>1, JobSetsFinite
      <4> QED
        BY <2>1, <4>1, JobAssumption DEF MayEnqueue, Full, ProducerSleepsOnlyWhenFull
    <3>2. SleepingProducers' = {}
      BY <2>1, <3>1 DEF NotifyOneFrom, SleepingProducers, WakeWorkers, TypeOK
    <3> QED
      BY <3>2 DEF ProducerSleepsOnlyWhenFull
  <2>2. CASE ~MayEnqueue(j)
    BY <1>2, <1>a, <2>2 DEF TryEnqueue, SleepingProducers, TypeOK
  <2> QED
    BY <1>2, <2>1, <2>2 DEF TryEnqueue
<1>3. ASSUME NEW j \in Jobs, CheckRefusal(j) PROVE Quiet
  BY <1>3 DEF CheckRefusal, SleepingProducers, TypeOK
<1>4. ASSUME NEW j \in Jobs, WaitForSpace(j) PROVE ProducerSleepsOnlyWhenFull'
  <2>1. CASE closed \/ ~Full
    BY <1>4, <1>a, <2>1 DEF WaitForSpace, SleepingProducers, TypeOK
  <2>2. CASE ~closed /\ Full
    <3>1. Cardinality(queued) \in Nat
      <4>1. queued \in SUBSET Jobs /\ queued \in SUBSET queued
        BY DEF TypeOK, QueueTypeOK
      <4> QED
        BY <4>1, JobSetsFinite
    <3>2. Cardinality(queued) = Capacity
      BY <2>2, <3>1, JobAssumption DEF Full, TypeOK
    <3> QED
      BY <1>4, <2>2, <3>2 DEF WaitForSpace, ProducerSleepsOnlyWhenFull
  <2> QED
    BY <2>1, <2>2
<1>5. ASSUME NEW j \in Jobs, WaitTimesOut(j) PROVE Quiet
  BY <1>5 DEF WaitTimesOut, SleepingProducers, TypeOK
<1>6. ASSUME NEW j \in Jobs, DeadlinePasses(j) \/ SweepFail(j) \/ StopReport(j) PROVE Quiet
  BY <1>6 DEF DeadlinePasses, SweepFail, StopReport, SleepingProducers
<1>7. ASSUME NEW w \in Workers, WorkerStep(w)
      PROVE  Quiet \/ WakeProducers(SleepingProducers)
  BY <1>7 DEF WorkerStep, WorkerGet, WorkerRegister, WorkerLoad, WorkerForward,
     WorkerCheckInferred, WorkerReport, WorkerOomDrain, WorkerOomClose, WorkerFinish,
     WorkerSame, NotifyAllFrom, SleepingProducers
<1>8. CASE Sweep \/ StopDrain \/ StopClose
  BY <1>8, <1>b DEF Sweep, StopDrain, StopClose, NotifyAll
<1>9. ASSUME NEW scope \in CancelScopes, CancelBegin(scope) PROVE Quiet
  BY <1>9 DEF CancelBegin, SleepingProducers
<1>10. CASE CancelQueue
  <2>1. \/ WakeProducers(SleepingProducers)
        \/ queued' = queued /\ closed' = closed /\ producer' = producer
    BY <1>10 DEF CancelQueue, InstallScope, NotifyAll
  <2> QED
    BY <1>a, <1>b, <2>1 DEF SleepingProducers
<1>11. CASE CancelAck \/ StopBegin \/ StopJoin \/ UNCHANGED vars
  <2>1. Quiet
    BY <1>11 DEF CancelAck, StopBegin, StopJoin, vars, SleepingProducers
  <2> QED
    BY <1>a, <2>1
<1> QED
  BY <1>a, <1>b, <1>1, <1>2, <1>3, <1>4, <1>5, <1>6, <1>7, <1>8, <1>9, <1>10, <1>11
     DEF Next, ProducerStep, StopStep

\* The one notify of try_enqueue is never spent on a producer.
THEOREM SleepersOnlyWhenFull == Spec => []ProducerSleepsOnlyWhenFull
<1>1. Init => ProducerSleepsOnlyWhenFull
  BY DEF Init, ProducerSleepsOnlyWhenFull, SleepingProducers
<1> QED
  BY <1>1, TypeCorrect, NextSleepsOnlyWhenFull, PTL DEF Spec

-----------------------------------------------------------------------------
(* Cancellation: a scope the queue has installed has no job left in it.    *)

\* Every step keeps canceled scopes out of the queue.
LEMMA NextLeavesQueue ==
    CanceledScopeLeavesQueue /\ [Next]_vars => CanceledScopeLeavesQueue'
<1> SUFFICES ASSUME CanceledScopeLeavesQueue, [Next]_vars PROVE CanceledScopeLeavesQueue'
  OBVIOUS
<1> USE DEF CanceledScopeLeavesQueue, Canceled
<1>1. ASSUME queued' \subseteq queued, scopes' = scopes PROVE CanceledScopeLeavesQueue'
  BY <1>1
<1>2. ASSUME NEW j \in Jobs, TryEnqueue(j) PROVE CanceledScopeLeavesQueue'
  BY <1>2 DEF TryEnqueue, MayEnqueue, Insert, queueVars
<1>3. CASE CancelQueue
  BY <1>3 DEF CancelQueue, InstallScope
<1>4. ASSUME NEW w \in Workers, WorkerStep(w) PROVE CanceledScopeLeavesQueue'
  BY <1>1, <1>4 DEF WorkerStep, WorkerGet, WorkerRegister, WorkerLoad, WorkerForward,
     WorkerCheckInferred, WorkerReport, WorkerOomDrain, WorkerOomClose, WorkerFinish,
     WorkerSame, Remove, Close, queueVars
<1>5. CASE Sweep \/ StopDrain \/ StopClose
  BY <1>1, <1>5 DEF Sweep, StopDrain, StopClose, Remove, Close
<1>6. ASSUME NEW j \in Jobs,
             \/ CaptureSaved(j) \/ CheckRefusal(j) \/ WaitForSpace(j) \/ WaitTimesOut(j)
             \/ DeadlinePasses(j) \/ SweepFail(j) \/ StopReport(j)
      PROVE  CanceledScopeLeavesQueue'
  BY <1>1, <1>6 DEF CaptureSaved, CheckRefusal, WaitForSpace, WaitTimesOut, DeadlinePasses,
     SweepFail, StopReport, queueVars
<1>7. ASSUME NEW scope \in CancelScopes, CancelBegin(scope) PROVE CanceledScopeLeavesQueue'
  BY <1>1, <1>7 DEF CancelBegin, queueVars
<1>8. CASE CancelAck \/ StopBegin \/ StopJoin \/ UNCHANGED vars
  BY <1>1, <1>8 DEF CancelAck, StopBegin, StopJoin, vars, queueVars
<1> QED
  BY <1>2, <1>3, <1>4, <1>5, <1>6, <1>7, <1>8 DEF Next, ProducerStep, StopStep

\* Once a scope is canceled no job of it waits in the queue (cancel_scope).
THEOREM QueueHonoursCancellation == Spec => []CanceledScopeLeavesQueue
<1>1. Init => CanceledScopeLeavesQueue
  BY DEF Init, QueueInit, CanceledScopeLeavesQueue
<1> QED
  BY <1>1, NextLeavesQueue, PTL DEF Spec

-----------------------------------------------------------------------------
(* One owner per pending job, hence one report per job.  The invariant is  *)
(* inductive once it also says that stop() holds jobs only while it        *)
(* reports them, and that only an accepted job is reported.                *)

Accounted ==
    /\ SingleOwner
    /\ stopper # "report" => stopJobs = {}
    /\ \A j \in Jobs : outcome[j] # "none" => producer[j] = "done"

\* Notifications leave the accepted jobs accepted and the busy workers busy.
LEMMA NotifyKeepsOwners ==
    ASSUME TypeOK, NotifyAll
    PROVE  /\ \A j \in Jobs : producer'[j] = "done" <=> producer[j] = "done"
           /\ \A w \in Workers : Busy(w)' <=> Busy(w)
  BY DEF TypeOK, NotifyAll, WakeProducers, WakeWorkers, SleepingProducers, SleepingWorkers, Busy

\* A wakeup moves no job,
LEMMA NotifyFromKeepsOwners ==
    ASSUME TypeOK, NEW w \in Workers, NEW to, NotifyAllFrom(w, to)
    PROVE  /\ \A j \in Jobs : producer'[j] = "done" <=> producer[j] = "done"
           /\ \A v \in Workers \ {w} : Busy(v)' <=> Busy(v)
           /\ worker'[w] = to
  BY DEF TypeOK, NotifyAllFrom, WakeProducers, SleepingProducers, SleepingWorkers, Busy

\* ... nor does waking one.
LEMMA NotifyOneKeepsOwners ==
    ASSUME TypeOK, NEW j \in Jobs, NotifyOneFrom(j), producer[j] # "asleep"
    PROVE  /\ \A i \in Jobs : producer'[i] = "done" <=> i = j \/ producer[i] = "done"
           /\ \A w \in Workers : Busy(w)' <=> Busy(w)
  BY DEF TypeOK, NotifyOneFrom, WakeWorkers, SleepingProducers, SleepingWorkers, Busy

\* A step that moves no job.
LEMMA NobodyMoves ==
    ASSUME TypeOK, Accounted,
           queued' = queued, sweeping' = sweeping, stopJobs' = stopJobs, outcome' = outcome,
           held' = held, stopper' = stopper,
           \A j \in Jobs : producer'[j] = "done" <=> producer[j] = "done",
           \A w \in Workers : Busy(w)' <=> Busy(w)
    PROVE  Accounted'
<1> USE DEF Accounted, SingleOwner, TypeOK, QueueTypeOK
<1>1. \A j \in Jobs : Pending(j)' <=> Pending(j)
  BY DEF Pending
<1>2. OwnedIsPending'
  BY <1>1 DEF OwnedIsPending
<1>3. OwnersDisjoint'
  BY DEF OwnersDisjoint
<1>4. PendingIsOwned'
  BY <1>1 DEF PendingIsOwned
<1> QED
  BY <1>2, <1>3, <1>4

\* A job enters the deque.
LEMMA EnqueueMoves ==
    ASSUME TypeOK, Accounted, NEW j \in Jobs, TryEnqueue(j)
    PROVE  Accounted'
<1> USE DEF Accounted, SingleOwner
<1>1. CASE MayEnqueue(j) /\ Insert(j) /\ NotifyOneFrom(j)
  <2>1. /\ \A i \in Jobs : producer'[i] = "done" <=> i = j \/ producer[i] = "done"
        /\ \A w \in Workers : Busy(w)' <=> Busy(w)
    BY <1>1, NotifyOneKeepsOwners DEF TryEnqueue
  <2>2. /\ queued' = queued \cup {j}
        /\ UNCHANGED <<sweeping, stopJobs, stopper, held, outcome>>
    BY <1>1 DEF TryEnqueue, Insert, sweepVars, stopVars
  <2>3. producer[j] # "done" /\ outcome[j] = "none" /\ ~Pending(j)
    BY DEF TryEnqueue, Pending
  <2>4. \A i \in Jobs : Pending(i)' <=> i = j \/ Pending(i)
    BY <2>1, <2>2, <2>3 DEF Pending
  <2>5. OwnedIsPending'
    BY <2>1, <2>2, <2>4 DEF OwnedIsPending, TypeOK, QueueTypeOK
  <2>6. OwnersDisjoint'
    BY <2>1, <2>2, <2>3 DEF OwnersDisjoint, OwnedIsPending, TypeOK, QueueTypeOK
  <2>7. PendingIsOwned'
    BY <2>1, <2>2, <2>4 DEF PendingIsOwned
  <2> QED
    BY <2>1, <2>2, <2>5, <2>6, <2>7
<1>2. CASE ~MayEnqueue(j)
  <2>1. /\ \A i \in Jobs : producer'[i] = "done" <=> producer[i] = "done"
        /\ \A w \in Workers : Busy(w)' <=> Busy(w)
    BY <1>2 DEF TryEnqueue, Busy, TypeOK
  <2> QED
    BY <1>2, <2>1, NobodyMoves DEF TryEnqueue, queueVars, sweepVars, stopVars
<1> QED
  BY <1>1, <1>2 DEF TryEnqueue

\* A worker pops a job.
LEMMA PopMoves ==
    ASSUME TypeOK, Accounted, NEW w \in Workers, ~Busy(w), NEW j \in queued,
           Remove({j}), held' = [held EXCEPT ![w] = j], NotifyAllFrom(w, "popped"),
           UNCHANGED <<sweeping, stopJobs, stopper, outcome>>
    PROVE  Accounted'
<1> USE DEF Accounted, SingleOwner, TypeOK, QueueTypeOK
<1>1. /\ \A i \in Jobs : producer'[i] = "done" <=> producer[i] = "done"
      /\ \A v \in Workers \ {w} : Busy(v)' <=> Busy(v)
      /\ worker'[w] = "popped"
  BY NotifyFromKeepsOwners
<1>2. Busy(w)' /\ held'[w] = j /\ \A v \in Workers \ {w} : held'[v] = held[v]
  BY <1>1 DEF Busy
<1>3. queued' = queued \ {j}
  BY DEF Remove
<1>4. \A i \in Jobs : Pending(i)' <=> Pending(i)
  BY <1>1 DEF Pending
<1>5. OwnedIsPending'
  BY <1>1, <1>2, <1>3, <1>4 DEF OwnedIsPending
<1>6. OwnersDisjoint'
  BY <1>1, <1>2, <1>3 DEF OwnersDisjoint
<1>7. PendingIsOwned'
  BY <1>1, <1>2, <1>3, <1>4 DEF PendingIsOwned
<1> QED
  BY <1>1, <1>5, <1>6, <1>7

\* Jobs leave the deque for the sweeper, for stop(), or reported.
LEMMA RemovalMoves ==
    ASSUME TypeOK, Accounted, NEW gone \in SUBSET queued, queued' = queued \ gone,
           \A i \in Jobs : producer'[i] = "done" <=> producer[i] = "done",
           \A v \in Workers : Busy(v)' <=> Busy(v),
           held' = held,
           \/ /\ sweeping' = sweeping \cup gone
              /\ UNCHANGED <<stopJobs, stopper, outcome>>
           \/ /\ stopJobs' = stopJobs \cup gone /\ stopper' = "report"
              /\ UNCHANGED <<sweeping, outcome>>
           \/ /\ \A i \in Jobs : outcome'[i] = "none" <=> outcome[i] = "none" /\ i \notin gone
              /\ UNCHANGED <<sweeping, stopJobs, stopper>>
    PROVE  Accounted'
<1> USE DEF Accounted, SingleOwner, TypeOK, QueueTypeOK
<1>1. queued' = queued \ gone
  OBVIOUS
<1>2. \A i \in gone : Pending(i) /\ i \in Jobs
  BY DEF OwnedIsPending
<1>3. CASE sweeping' = sweeping \cup gone /\ UNCHANGED <<stopJobs, stopper, outcome>>
  <2>1. \A i \in Jobs : Pending(i)' <=> Pending(i)
    BY <1>3 DEF Pending
  <2>2. OwnedIsPending'
    BY <1>1, <1>2, <1>3, <2>1 DEF OwnedIsPending
  <2>3. OwnersDisjoint'
    BY <1>1, <1>3 DEF OwnersDisjoint
  <2>4. PendingIsOwned'
    BY <1>1, <1>3, <2>1 DEF PendingIsOwned
  <2> QED
    BY <1>3, <2>2, <2>3, <2>4
<1>4. CASE stopJobs' = stopJobs \cup gone /\ stopper' = "report" /\ UNCHANGED <<sweeping, outcome>>
  <2>1. \A i \in Jobs : Pending(i)' <=> Pending(i)
    BY <1>4 DEF Pending
  <2>2. OwnedIsPending'
    BY <1>1, <1>2, <1>4, <2>1 DEF OwnedIsPending
  <2>3. OwnersDisjoint'
    BY <1>1, <1>4 DEF OwnersDisjoint
  <2>4. PendingIsOwned'
    BY <1>1, <1>4, <2>1 DEF PendingIsOwned
  <2> QED
    BY <1>4, <2>2, <2>3, <2>4
<1>5. CASE /\ \A i \in Jobs : outcome'[i] = "none" <=> outcome[i] = "none" /\ i \notin gone
           /\ UNCHANGED <<sweeping, stopJobs, stopper>>
  <2>1. \A i \in Jobs : Pending(i)' <=> Pending(i) /\ i \notin gone
    BY <1>5 DEF Pending
  <2>2. OwnedIsPending'
    BY <1>1, <1>5, <2>1 DEF OwnedIsPending, OwnersDisjoint
  <2>3. OwnersDisjoint'
    BY <1>1, <1>5 DEF OwnersDisjoint
  <2>4. PendingIsOwned'
    BY <1>1, <1>5, <2>1 DEF PendingIsOwned
  <2>5. \A i \in Jobs : outcome'[i] # "none" => producer'[i] = "done"
    BY <1>2, <1>5 DEF Pending
  <2> QED
    BY <1>5, <2>2, <2>3, <2>4, <2>5
<1> QED
  BY <1>3, <1>4, <1>5

\* A worker reports its job.
LEMMA ReportMoves ==
    ASSUME TypeOK, Accounted, NEW w \in Workers, WorkerReport(w)
    PROVE  Accounted'
<1> USE DEF Accounted, SingleOwner, TypeOK, QueueTypeOK
<1>1. /\ UNCHANGED <<queued, sweeping, stopJobs, stopper, held, producer>>
      /\ Busy(w) /\ ~Busy(w)'
      /\ \A v \in Workers \ {w} : Busy(v)' <=> Busy(v)
  BY DEF WorkerReport, Busy, queueVars, sweepVars, stopVars
<1>2. held[w] \in Jobs /\ Pending(held[w])
  BY <1>1 DEF OwnedIsPending
<1>3. PICK o \in ReportOutcomes(verdict[w]) : outcome' = [outcome EXCEPT ![held[w]] = o]
  BY DEF WorkerReport
<1>4. o # "none"
  BY <1>3 DEF ReportOutcomes
<1>5. \A i \in Jobs : Pending(i)' <=> Pending(i) /\ i # held[w]
  BY <1>1, <1>3, <1>4 DEF Pending
<1>6. OwnedIsPending'
  BY <1>1, <1>5 DEF OwnedIsPending, OwnersDisjoint
<1>7. OwnersDisjoint'
  BY <1>1 DEF OwnersDisjoint
<1>8. PendingIsOwned'
  BY <1>1, <1>5 DEF PendingIsOwned
<1>9. \A i \in Jobs : outcome'[i] # "none" => producer'[i] = "done"
  BY <1>1, <1>2, <1>3 DEF Pending
<1> QED
  BY <1>1, <1>6, <1>7, <1>8, <1>9

\* The sweeper or stop() reports one of the jobs it took.
LEMMA HandedReportMoves ==
    ASSUME TypeOK, Accounted, NEW j \in Jobs, SweepFail(j) \/ StopReport(j)
    PROVE  Accounted'
<1> USE DEF Accounted, SingleOwner, TypeOK, QueueTypeOK
<1>1. /\ UNCHANGED <<queued, held, producer, worker, stopper>>
      /\ sweeping' \cup stopJobs' = (sweeping \cup stopJobs) \ {j}
      /\ sweeping' \subseteq sweeping /\ stopJobs' \subseteq stopJobs
      /\ j \in sweeping \cup stopJobs
  BY DEF SweepFail, StopReport, queueVars, sweepVars, stopVars, OwnersDisjoint
<1>2. Pending(j)
  BY <1>1 DEF OwnedIsPending
<1>3. \A i \in Jobs : outcome'[i] = "none" <=> outcome[i] = "none" /\ i # j
  BY DEF SweepFail, StopReport
<1>4. \A i \in Jobs : Pending(i)' <=> Pending(i) /\ i # j
  BY <1>1, <1>3 DEF Pending
<1>5. \A w \in Workers : Busy(w)' <=> Busy(w)
  BY <1>1 DEF Busy
<1>6. OwnedIsPending'
  BY <1>1, <1>4, <1>5 DEF OwnedIsPending, OwnersDisjoint
<1>7. OwnersDisjoint'
  BY <1>1, <1>5 DEF OwnersDisjoint
<1>8. PendingIsOwned'
  BY <1>1, <1>4, <1>5 DEF PendingIsOwned
<1> QED
  BY <1>1, <1>2, <1>3, <1>6, <1>7, <1>8 DEF Pending

\* Every step keeps the account of the jobs: the lemmas above, one per move.
LEMMA NextAccounted == TypeOK /\ Accounted /\ [Next]_vars => Accounted'
<1> SUFFICES ASSUME TypeOK, Accounted, [Next]_vars PROVE Accounted'
  OBVIOUS
<1> USE DEF queueVars, sweepVars, cancelVars, stopVars
<1>1. ASSUME NEW j \in Jobs,
             CaptureSaved(j) \/ CheckRefusal(j) \/ WaitForSpace(j) \/ WaitTimesOut(j)
      PROVE  Accounted'
  <2>1. \A i \in Jobs : producer'[i] = "done" <=> producer[i] = "done"
    BY <1>1 DEF TypeOK, CaptureSaved, CheckRefusal, WaitForSpace, WaitTimesOut
  <2>2. \A w \in Workers : Busy(w)' <=> Busy(w)
    BY <1>1 DEF Busy, CaptureSaved, CheckRefusal, WaitForSpace, WaitTimesOut
  <2> QED
    BY <1>1, <2>1, <2>2, NobodyMoves DEF CaptureSaved, CheckRefusal, WaitForSpace, WaitTimesOut
<1>2. ASSUME NEW j \in Jobs, TryEnqueue(j) PROVE Accounted'
  BY <1>2, EnqueueMoves
<1>3. ASSUME NEW j \in Jobs, SweepFail(j) \/ StopReport(j) PROVE Accounted'
  BY <1>3, HandedReportMoves
<1>4. ASSUME NEW w \in Workers, WorkerGet(w) PROVE Accounted'
  <2>1. ASSUME NEW to \in {"exited", "asleep"}, worker' = [worker EXCEPT ![w] = to],
               UNCHANGED <<queueVars, producer, held>>
        PROVE  Accounted'
    <3>1. \A v \in Workers : Busy(v)' <=> Busy(v)
      BY <1>4, <2>1 DEF WorkerGet, Busy, TypeOK
    <3> QED
      BY <1>4, <2>1, <3>1, NobodyMoves DEF WorkerGet
  <2>2. ASSUME NEW j \in queued, Remove({j}), held' = [held EXCEPT ![w] = j],
               NotifyAllFrom(w, "popped")
        PROVE  Accounted'
    BY <1>4, <2>2, PopMoves DEF WorkerGet, Busy
  <2> QED
    BY <1>4, <2>1, <2>2 DEF WorkerGet
<1>5. ASSUME NEW w \in Workers,
             \/ WorkerRegister(w) \/ WorkerLoad(w) \/ WorkerForward(w) \/ WorkerCheckInferred(w)
      PROVE  Accounted'
  <2>1. \A v \in Workers : Busy(v)' <=> Busy(v)
    BY <1>5 DEF TypeOK, WorkerRegister, WorkerLoad, WorkerForward, WorkerCheckInferred,
       ChecksThen, GoReport, GoOn, Busy
  <2>2. UNCHANGED WorkerSame
    BY <1>5 DEF WorkerRegister, WorkerLoad, WorkerForward, WorkerCheckInferred
  <2> QED
    BY <2>1, <2>2, NobodyMoves DEF WorkerSame
<1>6. ASSUME NEW w \in Workers, WorkerReport(w) PROVE Accounted'
  BY <1>6, ReportMoves
<1>7. ASSUME NEW w \in Workers, WorkerOomDrain(w) PROVE Accounted'
  <2>1. /\ \A i \in Jobs : producer'[i] = "done" <=> producer[i] = "done"
        /\ \A v \in Workers : Busy(v)' <=> Busy(v)
    BY <1>7, NotifyFromKeepsOwners DEF WorkerOomDrain, Busy
  <2>2. \A i \in Jobs : outcome'[i] = "none" <=> outcome[i] = "none" /\ i \notin queued
    BY <1>7 DEF WorkerOomDrain
  <2> QED
    BY <1>7, <2>1, <2>2, RemovalMoves DEF WorkerOomDrain, Remove
<1>8. ASSUME NEW w \in Workers, WorkerOomClose(w) PROVE Accounted'
  <2>1. /\ \A i \in Jobs : producer'[i] = "done" <=> producer[i] = "done"
        /\ \A v \in Workers : Busy(v)' <=> Busy(v)
    BY <1>8, NotifyFromKeepsOwners DEF WorkerOomClose, Busy
  <2> QED
    BY <1>8, <2>1, NobodyMoves DEF WorkerOomClose, Close
<1>9. ASSUME NEW w \in Workers, WorkerFinish(w) PROVE Accounted'
  <2>1. /\ \A v \in Workers : Busy(v)' <=> Busy(v)
        /\ \A v \in Workers : Busy(v) => held'[v] = held[v]
        /\ UNCHANGED <<queued, sweeping, stopJobs, stopper, outcome, producer>>
    BY <1>9 DEF WorkerFinish, Busy, TypeOK
  <2>2. \A i \in Jobs : Pending(i)' <=> Pending(i)
    BY <2>1 DEF Pending
  <2>3. OwnedIsPending'
    BY <2>1, <2>2 DEF Accounted, SingleOwner, OwnedIsPending, TypeOK, QueueTypeOK
  <2>4. OwnersDisjoint'
    BY <2>1 DEF Accounted, SingleOwner, OwnersDisjoint
  <2>5. PendingIsOwned'
    BY <2>1, <2>2 DEF Accounted, SingleOwner, PendingIsOwned
  <2> QED
    BY <2>1, <2>3, <2>4, <2>5 DEF Accounted, SingleOwner
<1>10. CASE Sweep
  <2>1. \A i \in Jobs : producer'[i] = "done" <=> producer[i] = "done"
    BY <1>10, NotifyKeepsOwners DEF Sweep
  <2>2. \A v \in Workers : Busy(v)' <=> Busy(v)
    BY <1>10, NotifyKeepsOwners DEF Sweep
  <2> QED
    BY <1>10, <2>1, <2>2, RemovalMoves DEF Sweep, Remove
<1>11. CASE CancelQueue
  <2> DEFINE removed == {j \in queued : InScope(j, cancelling)}
  <2>1. /\ \A i \in Jobs : producer'[i] = "done" <=> producer[i] = "done"
        /\ \A v \in Workers : Busy(v)' <=> Busy(v)
    BY <1>11, NotifyKeepsOwners DEF CancelQueue, Busy
  <2>2. \A i \in Jobs : outcome'[i] = "none" <=> outcome[i] = "none" /\ i \notin removed
    BY <1>11 DEF CancelQueue
  <2>3. queued' = queued \ removed
    BY <1>11 DEF CancelQueue, InstallScope
  <2> QED
    BY <1>11, <2>1, <2>2, <2>3, RemovalMoves DEF CancelQueue
<1>12. CASE StopDrain
  <2>1. /\ \A i \in Jobs : producer'[i] = "done" <=> producer[i] = "done"
        /\ \A v \in Workers : Busy(v)' <=> Busy(v)
    BY <1>12, NotifyKeepsOwners DEF StopDrain
  <2>2. stopJobs' = stopJobs \cup queued
    BY <1>12 DEF StopDrain, Accounted
  <2> QED
    BY <1>12, <2>1, <2>2, RemovalMoves DEF StopDrain, Remove
<1>13. CASE StopClose \/ StopBegin \/ StopJoin
  <2>1. /\ \A i \in Jobs : producer'[i] = "done" <=> producer[i] = "done"
        /\ \A v \in Workers : Busy(v)' <=> Busy(v)
    BY <1>13, NotifyKeepsOwners DEF StopClose, StopBegin, StopJoin, Busy
  <2>2. /\ UNCHANGED <<queued, sweeping, stopJobs, held, outcome>>
        /\ stopJobs = {}
    BY <1>13 DEF StopClose, StopBegin, StopJoin, Close, Accounted
  <2>3. \A i \in Jobs : Pending(i)' <=> Pending(i)
    BY <2>1, <2>2 DEF Pending
  <2>4. OwnedIsPending'
    BY <2>1, <2>2, <2>3 DEF Accounted, SingleOwner, OwnedIsPending, TypeOK, QueueTypeOK
  <2>5. OwnersDisjoint'
    BY <2>1, <2>2 DEF Accounted, SingleOwner, OwnersDisjoint
  <2>6. PendingIsOwned'
    BY <2>1, <2>2, <2>3 DEF Accounted, SingleOwner, PendingIsOwned
  <2> QED
    BY <2>1, <2>2, <2>4, <2>5, <2>6 DEF Accounted, SingleOwner
<1>14. ASSUME NEW j \in Jobs, DeadlinePasses(j) PROVE Accounted'
  BY <1>14, NobodyMoves DEF DeadlinePasses, Busy
<1>15. ASSUME NEW scope \in CancelScopes, CancelBegin(scope) PROVE Accounted'
  BY <1>15, NobodyMoves DEF CancelBegin, Busy
<1>16. CASE CancelAck \/ UNCHANGED vars
  BY <1>16, NobodyMoves DEF CancelAck, vars, Busy
<1> QED
  BY <1>1, <1>2, <1>3, <1>4, <1>5, <1>6, <1>7, <1>8, <1>9, <1>10, <1>11, <1>12, <1>13,
     <1>14, <1>15, <1>16 DEF Next, ProducerStep, WorkerStep, StopStep

\* No job is accepted in the beginning.
LEMMA InitAccounted == Init => Accounted
  BY DEF Init, QueueInit, Accounted, SingleOwner, OwnedIsPending, OwnersDisjoint,
     PendingIsOwned, Pending, Busy

\* Every job is accounted for at all times.
LEMMA AlwaysAccounted == Spec => []Accounted
  BY InitAccounted, TypeCorrect, NextAccounted, PTL DEF Spec

\* A job accepted and not yet reported has exactly one owner.
THEOREM EveryJobHasOneOwner == Spec => []SingleOwner
<1>1. Accounted => SingleOwner
  BY DEF Accounted
<1> QED
  BY <1>1, AlwaysAccounted, PTL

-----------------------------------------------------------------------------
(* What a step may never do.                                               *)

\* At most one report per job: every report is made by the job's one owner,
\* which takes it off the pending jobs.
THEOREM AtMostOneReport == Spec => OutcomeFinal
<1> DEFINE Kept == \A j \in Jobs : outcome[j] # "none" => outcome'[j] = outcome[j]
<1>1. TypeOK /\ Accounted /\ [Next]_vars => [Kept]_vars
  <2> SUFFICES ASSUME TypeOK, Accounted, [Next]_vars PROVE Kept
    OBVIOUS
  <2> USE DEF Accounted, SingleOwner, OwnedIsPending, Pending, TypeOK, QueueTypeOK
  <2>1. ASSUME outcome' = outcome PROVE Kept
    BY <2>1
  <2>2. ASSUME NEW w \in Workers, WorkerReport(w) PROVE Kept
    <3>1. held[w] \in Jobs /\ outcome[held[w]] = "none"
      BY <2>2 DEF WorkerReport, Busy
    <3> QED
      BY <2>2, <3>1 DEF WorkerReport
  <2>3. ASSUME NEW w \in Workers, WorkerOomDrain(w) PROVE Kept
    BY <2>3 DEF WorkerOomDrain
  <2>4. ASSUME NEW j \in Jobs, SweepFail(j) \/ StopReport(j) PROVE Kept
    BY <2>4 DEF SweepFail, StopReport
  <2>5. CASE CancelQueue
    BY <2>5 DEF CancelQueue
  <2>6. ASSUME NEW w \in Workers, WorkerStep(w), ~WorkerReport(w), ~WorkerOomDrain(w)
        PROVE  Kept
    BY <2>1, <2>6 DEF WorkerStep, WorkerGet, WorkerRegister, WorkerLoad, WorkerForward,
       WorkerCheckInferred, WorkerOomClose, WorkerFinish, WorkerSame
  <2>7. ASSUME NEW j \in Jobs, ProducerStep(j) \/ WaitTimesOut(j) \/ DeadlinePasses(j)
        PROVE  Kept
    BY <2>1, <2>7 DEF ProducerStep, CaptureSaved, TryEnqueue, CheckRefusal, WaitForSpace,
       WaitTimesOut, DeadlinePasses
  <2>8. ASSUME NEW scope \in CancelScopes, CancelBegin(scope) PROVE Kept
    BY <2>1, <2>8 DEF CancelBegin
  <2>9. CASE Sweep \/ CancelAck \/ StopBegin \/ StopDrain \/ StopClose \/ StopJoin \/ UNCHANGED vars
    BY <2>1, <2>9 DEF Sweep, CancelAck, StopBegin, StopDrain, StopClose, StopJoin, vars
  <2> QED
    BY <2>2, <2>3, <2>4, <2>5, <2>6, <2>7, <2>8, <2>9 DEF Next, StopStep
<1> QED
  BY <1>1, TypeCorrect, AlwaysAccounted, PTL DEF Spec, OutcomeFinal

\* A canceled job becomes a success only through the window between a worker's
\* last check and its report.
THEOREM OneCancelWindow == Spec => CancelClosesAllButOneWindow
<1> DEFINE Closed == \A j \in Jobs : Canceled(j) /\ ~Committed(j) => ~Committed(j)'
<1>1. TypeOK /\ [Next]_vars => [Closed]_vars
  <2> SUFFICES ASSUME TypeOK, [Next]_vars,
                      NEW j \in Jobs, Canceled(j), ~Committed(j), Committed(j)'
               PROVE  FALSE
    BY DEF Closed
  <2> DEFINE Reporting(w) == worker[w] = "report" /\ verdict[w] = "success"
             NoNewReport == \A w \in Workers : Reporting(w)' => Reporting(w) /\ held'[w] = held[w]
  <2>a. ASSUME NoNewReport, outcome'[j] = "success" => outcome[j] = "success" PROVE FALSE
    BY <2>a DEF Committed
  <2> HIDE DEF Reporting, NoNewReport
  <2>1. ASSUME NEW i \in Jobs, ProducerStep(i) \/ WaitTimesOut(i) \/ DeadlinePasses(i) PROVE FALSE
    <3>1. NoNewReport
      BY <2>1 DEF ProducerStep, CaptureSaved, TryEnqueue, NotifyOneFrom, WakeWorkers,
         CheckRefusal, WaitForSpace, WaitTimesOut, DeadlinePasses, NoNewReport, Reporting
    <3>2. outcome' = outcome
      BY <2>1 DEF ProducerStep, CaptureSaved, TryEnqueue, CheckRefusal, WaitForSpace,
         WaitTimesOut, DeadlinePasses
    <3> QED
      BY <2>a, <3>1, <3>2
  <2>2. ASSUME NEW i \in Jobs, SweepFail(i) \/ StopReport(i) PROVE FALSE
    BY <2>a, <2>2 DEF SweepFail, StopReport, NoNewReport, Reporting, TypeOK
  <2>3. ASSUME NEW w \in Workers, WorkerGet(w) PROVE FALSE
    BY <2>a, <2>3 DEF WorkerGet, NotifyAllFrom, NoNewReport, Reporting, TypeOK
  <2>4. ASSUME NEW w \in Workers, WorkerRegister(w) \/ WorkerLoad(w) \/ WorkerForward(w) PROVE FALSE
    BY <2>a, <2>4 DEF WorkerRegister, WorkerLoad, WorkerForward, ChecksThen, GoReport, GoOn,
       WorkerSame, NoNewReport, Reporting, TypeOK
  <2>5. ASSUME NEW w \in Workers, WorkerCheckInferred(w) PROVE FALSE
    <3>1. \A v \in Workers : Reporting(v)' => Reporting(v) \/ v = w
      BY <2>5 DEF WorkerCheckInferred, ChecksThen, GoReport, Reporting, TypeOK
    <3>2. Reporting(w)' => ~Canceled(held[w])
      BY <2>5 DEF WorkerCheckInferred, ChecksThen, GoReport, Reporting, TypeOK
    <3>3. held' = held /\ outcome' = outcome
      BY <2>5 DEF WorkerCheckInferred, WorkerSame
    <3> QED
      BY <3>1, <3>2, <3>3 DEF Committed, Reporting
  <2>6. ASSUME NEW w \in Workers, WorkerReport(w) PROVE FALSE
    <3>1. NoNewReport
      BY <2>6 DEF WorkerReport, NoNewReport, Reporting, TypeOK
    <3>2. held[w] = j => outcome'[j] # "success"
      BY <2>6 DEF WorkerReport, ReportOutcomes, Committed, TypeOK
    <3>3. held[w] # j => outcome'[j] = outcome[j]
      BY <2>6 DEF WorkerReport, TypeOK
    <3> QED
      BY <2>a, <3>1, <3>2, <3>3
  <2>7. ASSUME NEW w \in Workers, WorkerOomDrain(w) \/ WorkerOomClose(w) PROVE FALSE
    BY <2>a, <2>7 DEF WorkerOomDrain, WorkerOomClose, NotifyAllFrom, NoNewReport, Reporting, TypeOK
  <2>8. ASSUME NEW w \in Workers, WorkerFinish(w) PROVE FALSE
    BY <2>a, <2>8 DEF WorkerFinish, NoNewReport, Reporting, TypeOK
  <2>9. CASE Sweep \/ StopDrain \/ StopClose \/ CancelQueue
    <3>1. NoNewReport
      BY <2>9 DEF Sweep, StopDrain, StopClose, CancelQueue, NotifyAll, WakeWorkers,
         NoNewReport, Reporting
    <3>2. outcome'[j] = "success" => outcome[j] = "success"
      BY <2>9 DEF Sweep, StopDrain, StopClose, CancelQueue, TypeOK
    <3> QED
      BY <2>a, <3>1, <3>2
  <2>10. ASSUME NEW scope \in CancelScopes, CancelBegin(scope) PROVE FALSE
    BY <2>a, <2>10 DEF CancelBegin, NoNewReport, Reporting
  <2>11. CASE CancelAck \/ StopBegin \/ StopJoin \/ UNCHANGED vars
    BY <2>a, <2>11 DEF CancelAck, StopBegin, StopJoin, vars, NoNewReport, Reporting
  <2> QED
    BY <2>1, <2>2, <2>3, <2>4, <2>5, <2>6, <2>7, <2>8, <2>9, <2>10, <2>11
       DEF Next, WorkerStep, StopStep
<1> QED
  BY <1>1, TypeCorrect, PTL DEF Spec, CancelClosesAllButOneWindow

-----------------------------------------------------------------------------
(* No lost wakeup: every removal wakes all the workers, and the notify of  *)
(* an enqueue adds one worker to those on their way to get(), because no   *)
(* producer can be asleep to take it.                                      *)

Fetching == {w \in Workers : worker[w] = "get"}

\* The workers on their way to get() are counted.
LEMMA FetchingCounts ==
    IsFiniteSet(Fetching) /\ Cardinality(Fetching) \in Nat
  BY WorkerAssumption, FS_Subset, FS_CardinalityType DEF Fetching

\* The steps that leave the queue alone and take no worker away from get().
LEMMA FetchingGrows ==
    ASSUME TypeOK, NoLostWakeup, queued' = queued, closed' = closed,
           SleepingWorkers' \subseteq SleepingWorkers, Fetching \subseteq Fetching'
    PROVE  NoLostWakeup'
<1>1. Fetching' \in SUBSET Workers
  BY DEF Fetching
<1>2. IsFiniteSet(Fetching')
  BY <1>1, WorkerAssumption, FS_Subset
<1>3. Cardinality(Fetching) <= Cardinality(Fetching')
  BY <1>2, FS_Subset
<1>4. Cardinality(queued) \in Nat /\ Cardinality(Fetching) \in Nat /\ Cardinality(Fetching') \in Nat
  <2>1. queued \in SUBSET Jobs /\ queued \in SUBSET queued
    BY DEF TypeOK, QueueTypeOK
  <2> QED
    BY <1>2, <2>1, FetchingCounts, JobSetsFinite, FS_CardinalityType
<1> QED
  BY <1>3, <1>4 DEF NoLostWakeup, Fetching

\* notify_all leaves no worker asleep.
LEMMA AllWorkersWoken ==
    ASSUME TypeOK,
           NotifyAll \/ (\E w \in Workers, to \in WorkerPhases \ {"asleep"} : NotifyAllFrom(w, to))
    PROVE  NoLostWakeup'
<1>1. SleepingWorkers' = {}
  BY DEF NotifyAll, NotifyAllFrom, WakeWorkers, SleepingWorkers
<1> QED
  BY <1>1 DEF NoLostWakeup

\* Every step keeps as many workers on their way as jobs wait.
LEMMA NextNotLost ==
    ASSUME TypeOK, ProducerSleepsOnlyWhenFull, NoLostWakeup, [Next]_vars
    PROVE  NoLostWakeup'
<1> DEFINE Quiet == /\ queued' = queued /\ closed' = closed
                    /\ SleepingWorkers' \subseteq SleepingWorkers /\ Fetching \subseteq Fetching'
<1>a. Quiet => NoLostWakeup'
  BY FetchingGrows
<1> HIDE DEF Quiet
<1> USE DEF queueVars, sweepVars, cancelVars, stopVars
<1>1. ASSUME NEW j \in Jobs, TryEnqueue(j) PROVE NoLostWakeup'
  <2>0. Cardinality(queued) \in Nat /\ IsFiniteSet(queued)
    <3>1. queued \in SUBSET Jobs /\ queued \in SUBSET queued
      BY DEF TypeOK, QueueTypeOK
    <3> QED
      BY <3>1, JobSetsFinite
  <2>1. CASE MayEnqueue(j) /\ Insert(j) /\ NotifyOneFrom(j)
    <3>1. SleepingProducers = {}
      BY <2>0, <2>1, JobAssumption DEF MayEnqueue, Full, ProducerSleepsOnlyWhenFull
    <3>2. CASE SleepingWorkers = {} /\ UNCHANGED worker
      BY <3>2 DEF NoLostWakeup, SleepingWorkers
    <3>3. ASSUME NEW w \in SleepingWorkers, WakeWorkers({w}) PROVE NoLostWakeup'
      <4>1. Fetching' = Fetching \cup {w} /\ w \notin Fetching
        BY <3>3 DEF WakeWorkers, Fetching, SleepingWorkers
      <4>2. Cardinality(Fetching') = Cardinality(Fetching) + 1
        BY <4>1, FetchingCounts, FS_AddElement
      <4>3. Cardinality(queued') <= Cardinality(queued) + 1 /\ Cardinality(queued') \in Nat
        <5>1. queued' = queued \cup {j}
          BY <2>1 DEF Insert
        <5>2. /\ IsFiniteSet(queued \cup {j})
              /\ Cardinality(queued \cup {j}) = Cardinality(queued)
                 \/ Cardinality(queued \cup {j}) = Cardinality(queued) + 1
          BY <2>0, FS_AddElement
        <5> QED
          BY <2>0, <5>1, <5>2
      <4>4. ~closed => Cardinality(queued) <= Cardinality(Fetching)
        BY <3>3 DEF NoLostWakeup, Fetching
      <4>5. closed' = closed
        BY <2>1 DEF Insert
      <4> QED
        BY <2>0, <4>2, <4>3, <4>4, <4>5, FetchingCounts DEF NoLostWakeup, Fetching
    <3> QED
      BY <2>1, <3>1, <3>2, <3>3 DEF NotifyOneFrom
  <2>2. CASE ~MayEnqueue(j)
    BY <1>1, <1>a, <2>2 DEF TryEnqueue, Quiet, SleepingWorkers, Fetching
  <2> QED
    BY <1>1, <2>1, <2>2 DEF TryEnqueue
<1>2. ASSUME NEW w \in Workers, WorkerGet(w) PROVE NoLostWakeup'
  <2>1. CASE closed /\ closed' = closed
    BY <2>1 DEF NoLostWakeup
  <2>2. CASE queued = {} /\ queued' = queued
    <3>1. Fetching' \in SUBSET Workers
      BY DEF Fetching
    <3>2. Cardinality(Fetching') \in Nat
      BY <3>1, WorkerAssumption, FS_Subset, FS_CardinalityType
    <3> QED
      BY <2>2, <3>2, FS_EmptySet DEF NoLostWakeup, Fetching
  <2>3. CASE NotifyAllFrom(w, "popped")
    BY <2>3, AllWorkersWoken DEF WorkerPhases
  <2> QED
    BY <1>2, <2>1, <2>2, <2>3 DEF WorkerGet
<1>3. ASSUME NEW w \in Workers, WorkerStep(w), ~WorkerGet(w) PROVE NoLostWakeup'
  <2>1. CASE WorkerOomDrain(w) \/ WorkerOomClose(w)
    BY <2>1, AllWorkersWoken DEF WorkerOomDrain, WorkerOomClose, WorkerPhases
  <2>2. CASE ~WorkerOomDrain(w) /\ ~WorkerOomClose(w)
    <3>1. /\ UNCHANGED queueVars
          /\ \E to \in WorkerPhases \ {"asleep"} :
                worker[w] # "get" /\ worker' = [worker EXCEPT ![w] = to]
      BY <1>3, <2>2 DEF WorkerStep, WorkerRegister, WorkerLoad, WorkerForward,
         WorkerCheckInferred, WorkerReport, WorkerFinish, ChecksThen, GoReport, GoOn,
         WorkerSame, WorkerPhases
    <3>2. Quiet
      BY <3>1 DEF Quiet, SleepingWorkers, Fetching, TypeOK
    <3> QED
      BY <1>a, <3>2
  <2> QED
    BY <2>1, <2>2
<1>4. CASE Sweep \/ StopDrain \/ StopClose
  BY <1>4, AllWorkersWoken DEF Sweep, StopDrain, StopClose
<1>5. CASE CancelQueue
  <2>1. NotifyAll \/ (queued' = queued /\ UNCHANGED <<closed, worker>>)
    BY <1>5 DEF CancelQueue, InstallScope
  <2> QED
    BY <1>a, <2>1, AllWorkersWoken DEF Quiet, SleepingWorkers, Fetching
<1>6. ASSUME NEW j \in Jobs,
             \/ CaptureSaved(j) \/ CheckRefusal(j) \/ WaitForSpace(j) \/ WaitTimesOut(j)
             \/ DeadlinePasses(j) \/ SweepFail(j) \/ StopReport(j)
      PROVE  NoLostWakeup'
  BY <1>6, <1>a DEF CaptureSaved, CheckRefusal, WaitForSpace, WaitTimesOut, DeadlinePasses,
     SweepFail, StopReport, Quiet, SleepingWorkers, Fetching
<1>7. ASSUME NEW scope \in CancelScopes, CancelBegin(scope) PROVE NoLostWakeup'
  BY <1>7, <1>a DEF CancelBegin, Quiet, SleepingWorkers, Fetching
<1>8. CASE CancelAck \/ StopBegin \/ StopJoin \/ UNCHANGED vars
  BY <1>8, <1>a DEF CancelAck, StopBegin, StopJoin, vars, Quiet, SleepingWorkers, Fetching
<1> QED
  BY <1>1, <1>2, <1>3, <1>4, <1>5, <1>6, <1>7, <1>8 DEF Next, ProducerStep, StopStep

\* No job waits while every worker sleeps through it.
THEOREM NoWakeupIsLost == Spec => []NoLostWakeup
<1>1. Init => NoLostWakeup
  BY DEF Init, NoLostWakeup, SleepingWorkers
<1>2. TypeOK /\ ProducerSleepsOnlyWhenFull /\ NoLostWakeup /\ [Next]_vars => NoLostWakeup'
  BY NextNotLost
<1> QED
  BY <1>1, <1>2, TypeCorrect, SleepersOnlyWhenFull, PTL DEF Spec
=============================================================================

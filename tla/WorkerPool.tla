------------------------------ MODULE WorkerPool ------------------------------
(***************************************************************************)
(* The threads around the inference FIFO: the capture actions that enqueue *)
(* (vision_node.py, _execute_capture), the inference workers, the deadline *)
(* sweeper, the cancellation handlers and stop(), all sharing one          *)
(* condition variable (inference_queue.py).                                *)
(*                                                                         *)
(* A step is one critical section of the condition's lock, or one callback *)
(* between two of them.  A thread in Condition.wait is "asleep"; notify    *)
(* wakes any one sleeper, a producer or a worker alike, since both wait on *)
(* the same condition.                                                     *)
(***************************************************************************)
EXTENDS InferenceQueue

CONSTANTS
    Workers,     \* the inference worker threads
    None,        \* no job held
    TimedJobs,   \* jobs with a queue_total_timeout_ms
    CancelScopes,\* the scopes the Master cancels or locks
    OomPossible  \* whether a forward may raise CUDA out of memory

ASSUME WorkerAssumption ==
    /\ Workers # {} /\ IsFiniteSet(Workers)
    /\ None \notin Jobs
    /\ TimedJobs \subseteq Jobs
    /\ CancelScopes \subseteq Scopes
    /\ OomPossible \in BOOLEAN

VARIABLES
    producer,    \* [Jobs -> phase of the capture action of the job]
    worker,      \* [Workers -> phase of the thread]
    held,        \* [Workers -> the job popped, or None]
    verdict,     \* [Workers -> what the worker is about to report]
    expired,     \* jobs whose queue_total_timeout_ms has passed
    sweeping,    \* jobs the sweeper removed and has not failed yet
    sweepDue,    \* the sweeper got past its wait before stop() set the event
    nodeScopes,  \* the node's own _canceled_station_scopes
    cancelling,  \* the cancellation handler's scope, or NoScope
    cancelPhase, \* "idle", "queue" or "ack"
    stopper,     \* the phase of stop()
    stopJobs,    \* waiting jobs stop() removed and has not reported yet
    outcome      \* [Jobs -> what was reported for the job]

sweepVars == <<sweeping, sweepDue>>
cancelVars == <<nodeScopes, cancelling, cancelPhase>>
stopVars == <<stopper, stopJobs>>
vars == <<queueVars, producer, worker, held, verdict, expired, sweepVars, cancelVars,
          stopVars, outcome>>

NoScope == <<"no", "scope">>

ProducerPhases == {"capturing", "enqueue", "refused", "blocked", "asleep", "done", "aborted"}
WorkerPhases == {"get", "asleep", "popped", "check", "loaded", "inferred", "report",
                 "oomDrain", "oomClose", "finish", "exited"}
Outcomes == {"none", "success", "failure", "canceled", "removed", "dropped", "suppressed"}

\* Every variable has its type, and the queue never holds more than its
\* capacity, whoever enqueues between a producer's wakeup and its retry.
TypeOK ==
    /\ QueueTypeOK
    /\ Cardinality(queued) <= Capacity
    /\ producer \in [Jobs -> ProducerPhases]
    /\ worker \in [Workers -> WorkerPhases]
    /\ held \in [Workers -> Jobs \cup {None}]
    /\ verdict \in [Workers -> {"none", "success", "failure", "canceled", "oom"}]
    /\ expired \subseteq Jobs
    /\ sweeping \subseteq Jobs
    /\ sweepDue \in BOOLEAN
    /\ nodeScopes \subseteq Scopes
    /\ cancelling \in Scopes \cup {NoScope}
    /\ cancelPhase \in {"idle", "queue", "ack"}
    /\ cancelPhase # "idle" => cancelling \in Scopes
    /\ stopper \in {"running", "drain", "report", "join", "stopped"}
    /\ stopJobs \subseteq Jobs
    /\ outcome \in [Jobs -> Outcomes]

Init ==
    /\ QueueInit
    /\ producer = [j \in Jobs |-> "capturing"]
    /\ worker = [w \in Workers |-> "get"]
    /\ held = [w \in Workers |-> None]
    /\ verdict = [w \in Workers |-> "none"]
    /\ expired = {} /\ sweeping = {} /\ sweepDue = FALSE /\ nodeScopes = {}
    /\ cancelling = NoScope /\ cancelPhase = "idle"
    /\ stopper = "running" /\ stopJobs = {}
    /\ outcome = [j \in Jobs |-> "none"]

-----------------------------------------------------------------------------
(* Condition variable.  A woken producer returns from wait_for_space and   *)
(* tries again; a woken worker re-evaluates the loop of get().             *)

SleepingProducers == {j \in Jobs : producer[j] = "asleep"}
SleepingWorkers == {w \in Workers : worker[w] = "asleep"}

WakeProducers(who) == producer' = [j \in Jobs |-> IF j \in who THEN "enqueue" ELSE producer[j]]
WakeWorkers(who) == worker' = [w \in Workers |-> IF w \in who THEN "get" ELSE worker[w]]

NotifyAll == WakeProducers(SleepingProducers) /\ WakeWorkers(SleepingWorkers)

\* Slip: get() and the other callers forget notify_all.
NotifyNoneFrom(w, to) ==
    /\ UNCHANGED producer
    /\ worker' = [worker EXCEPT ![w] = to]

\* notify_all called by worker w, which moves on to phase `to'.
NotifyAllFrom(w, to) ==
    /\ WakeProducers(SleepingProducers)
    /\ worker' = [v \in Workers |-> IF v = w THEN to
                                    ELSE IF v \in SleepingWorkers THEN "get" ELSE worker[v]]

\* Slip: try_enqueue forgets notify.
NotifyNobody(j) ==
    /\ producer' = [producer EXCEPT ![j] = "done"]
    /\ UNCHANGED worker

\* notify called by producer j, whose enqueue succeeded.
NotifyOneFrom(j) ==
    \/ /\ SleepingProducers \cup SleepingWorkers = {}
       /\ producer' = [producer EXCEPT ![j] = "done"]
       /\ UNCHANGED worker
    \/ \E w \in SleepingWorkers :
       /\ producer' = [producer EXCEPT ![j] = "done"]
       /\ WakeWorkers({w})
    \/ \E i \in SleepingProducers :
       /\ producer' = [producer EXCEPT ![j] = "done", ![i] = "enqueue"]
       /\ UNCHANGED worker

-----------------------------------------------------------------------------
(* The capture action of a job.  One capture per station is past its       *)
(* station lock at a time.                                                 *)

HoldsStationLock(j) == producer[j] \in {"enqueue", "refused", "blocked", "asleep"}

\* The FrameBatch is saved and the action reaches its enqueue loop.
CaptureSaved(j) ==
    /\ producer[j] = "capturing"
    /\ \A i \in Jobs : HoldsStationLock(i) => StationOf[i] # StationOf[j]
    /\ producer' = [producer EXCEPT ![j] = "enqueue"]
    /\ UNCHANGED <<queueVars, worker, held, verdict, expired, sweepVars, cancelVars, stopVars, outcome>>

TryEnqueue(j) ==
    /\ producer[j] = "enqueue"
    /\ \/ MayEnqueue(j) /\ Insert(j) /\ NotifyOneFrom(j)
       \/ /\ ~MayEnqueue(j)
          /\ producer' = [producer EXCEPT ![j] = "refused"]
          /\ UNCHANGED <<queueVars, worker>>
    /\ UNCHANGED <<held, verdict, expired, sweepVars, cancelVars, stopVars, outcome>>

\* After a refusal: a closed queue, a canceled scope or a cancelled goal ends
\* the action (the goal may be cancelled at any time), otherwise it reports
\* ENQUEUE_BLOCKED and goes on to wait.
NodeCanceled(j) == \E scope \in nodeScopes : InScope(j, scope)

CheckRefusal(j) ==
    /\ producer[j] = "refused"
    /\ \E goalCancelled \in BOOLEAN :
         producer' = [producer EXCEPT ![j] =
            IF closed \/ NodeCanceled(j) \/ goalCancelled THEN "aborted" ELSE "blocked"]
    /\ UNCHANGED <<queueVars, worker, held, verdict, expired, sweepVars, cancelVars, stopVars, outcome>>

\* wait_for_space: one critical section up to the wait.
WaitForSpace(j) ==
    /\ producer[j] = "blocked"
    /\ producer' = [producer EXCEPT ![j] = IF closed \/ ~Full THEN "enqueue" ELSE "asleep"]
    /\ UNCHANGED <<queueVars, worker, held, verdict, expired, sweepVars, cancelVars, stopVars, outcome>>

\* The 0.1 s timeout of the wait.
WaitTimesOut(j) ==
    /\ producer[j] = "asleep"
    /\ producer' = [producer EXCEPT ![j] = "enqueue"]
    /\ UNCHANGED <<queueVars, worker, held, verdict, expired, sweepVars, cancelVars, stopVars, outcome>>

\* The total deadline of an enqueued job passes.
DeadlinePasses(j) ==
    /\ j \in TimedJobs /\ enqueuedAt[j] > 0 /\ outcome[j] = "none" /\ j \notin expired
    /\ expired' = expired \cup {j}
    /\ UNCHANGED <<queueVars, producer, worker, held, verdict, sweepVars, cancelVars, stopVars, outcome>>

-----------------------------------------------------------------------------
(* A worker thread.                                                        *)

\* get(): the loop, up to the next wait or to the return.
WorkerGet(w) ==
    /\ worker[w] = "get"
    /\ \/ /\ closed
          /\ worker' = [worker EXCEPT ![w] = "exited"]
          /\ UNCHANGED <<queueVars, producer, held>>
       \/ /\ ~closed /\ queued = {}
          /\ worker' = [worker EXCEPT ![w] = "asleep"]
          /\ UNCHANGED <<queueVars, producer, held>>
       \/ /\ ~closed
          /\ \E j \in queued :
               /\ IsFront(j)
               /\ Remove({j})
               /\ held' = [held EXCEPT ![w] = j]
          /\ NotifyAllFrom(w, "popped")
    /\ UNCHANGED <<verdict, expired, sweepVars, cancelVars, stopVars, outcome>>

WorkerSame == <<queueVars, producer, held, expired, sweepVars, cancelVars, stopVars, outcome>>

\* _active_jobs[worker_id] = job
WorkerRegister(w) ==
    /\ worker[w] = "popped"
    /\ worker' = [worker EXCEPT ![w] = "check"]
    /\ UNCHANGED <<WorkerSame, verdict>>

GoReport(w, what) ==
    /\ worker' = [worker EXCEPT ![w] = "report"]
    /\ verdict' = [verdict EXCEPT ![w] = what]

GoOn(w, to) ==
    /\ worker' = [worker EXCEPT ![w] = to]
    /\ UNCHANGED verdict

\* The two guards _execute_job repeats before load, before forward and after it.
ChecksThen(w, Passed) ==
    \/ Canceled(held[w]) /\ GoReport(w, "canceled")
    \/ ~Canceled(held[w]) /\ held[w] \in expired /\ GoReport(w, "failure")
    \/ ~Canceled(held[w]) /\ held[w] \notin expired /\ Passed

\* _load_job_images may fail after its one retry: a read error, a preprocessing
\* error or the deadline.  Scopes and deadlines only grow, so a check and the
\* load or forward that follows it are one step.
WorkerLoad(w) ==
    /\ worker[w] = "check"
    /\ ChecksThen(w, GoOn(w, "loaded") \/ GoReport(w, "failure"))
    /\ UNCHANGED WorkerSame

\* _infer_once: a result, an exception or deadline, or CUDA out of memory.
WorkerForward(w) ==
    /\ worker[w] = "loaded"
    /\ ChecksThen(w, \/ GoOn(w, "inferred")
                     \/ GoReport(w, "failure")
                     \/ OomPossible /\ GoReport(w, "oom"))
    /\ UNCHANGED WorkerSame

\* Slip: no second look at the cancellations after the forward.
WorkerSkipCheck(w) ==
    /\ worker[w] = "inferred"
    /\ GoReport(w, IF held[w] \in expired THEN "failure" ELSE "success")
    /\ UNCHANGED WorkerSame

\* The deadline may also pass between the two checks.
WorkerCheckInferred(w) ==
    /\ worker[w] = "inferred"
    /\ ChecksThen(w, \/ GoReport(w, "success")
                     \/ held[w] \in TimedJobs /\ GoReport(w, "failure"))
    /\ UNCHANGED WorkerSame

\* on_success, on_failure and on_canceled of the node.  A result is suppressed
\* when the durable spool refuses it, and a success with a bad output contract
\* becomes a failure; an OOM failure goes on to empty and close the queue.
ReportOutcomes(what) ==
    IF what = "canceled" THEN {"canceled"}
    ELSE {"failure", "suppressed"} \cup (IF what = "success" THEN {"success"} ELSE {})

WorkerReport(w) ==
    /\ worker[w] = "report"
    /\ \E o \in ReportOutcomes(verdict[w]) : outcome' = [outcome EXCEPT ![held[w]] = o]
    /\ worker' = [worker EXCEPT ![w] = IF verdict[w] = "oom" THEN "oomDrain" ELSE "finish"]
    /\ verdict' = [verdict EXCEPT ![w] = "none"]
    /\ UNCHANGED <<queueVars, producer, held, expired, sweepVars, cancelVars, stopVars>>

\* cancel_all_waiting in _on_inference_failure: nobody reports these jobs.
WorkerOomDrain(w) ==
    /\ worker[w] = "oomDrain"
    /\ Remove(queued)
    /\ outcome' = [j \in Jobs |-> IF j \in queued THEN "dropped" ELSE outcome[j]]
    /\ NotifyAllFrom(w, "oomClose")
    /\ UNCHANGED <<held, verdict, expired, sweepVars, cancelVars, stopVars>>

WorkerOomClose(w) ==
    /\ worker[w] = "oomClose"
    /\ Close
    /\ NotifyAllFrom(w, "finish")
    /\ UNCHANGED <<held, verdict, expired, sweepVars, cancelVars, stopVars, outcome>>

\* _active_jobs.pop
WorkerFinish(w) ==
    /\ worker[w] = "finish"
    /\ worker' = [worker EXCEPT ![w] = "get"]
    /\ held' = [held EXCEPT ![w] = None]
    /\ UNCHANGED <<queueVars, producer, verdict, expired, sweepVars, cancelVars, stopVars, outcome>>

WorkerStep(w) ==
    \/ WorkerGet(w) \/ WorkerRegister(w) \/ WorkerLoad(w) \/ WorkerForward(w)
    \/ WorkerCheckInferred(w) \/ WorkerReport(w) \/ WorkerOomDrain(w) \/ WorkerOomClose(w) \/ WorkerFinish(w)

-----------------------------------------------------------------------------
(* The deadline sweeper, which runs until stop() sets its event.  Its wait *)
(* and its sweep are one step, except for the last: stop() may set the     *)
(* event between them.                                                     *)

\* Slip: discard_expired returns the jobs and leaves them in the deque.
SweepInPlace ==
    /\ stopper = "running" \/ sweepDue
    /\ sweeping = {}
    /\ queued \cap expired # {}
    /\ sweeping' = queued \cap expired
    /\ sweepDue' = FALSE
    /\ NotifyAll
    /\ UNCHANGED <<queueVars, held, verdict, expired, cancelVars, stopVars, outcome>>

Sweep ==
    /\ stopper = "running" \/ sweepDue
    /\ sweeping = {}
    /\ queued \cap expired # {}
    /\ Remove(queued \cap expired)
    /\ sweeping' = queued \cap expired
    /\ sweepDue' = FALSE
    /\ NotifyAll
    /\ UNCHANGED <<held, verdict, expired, cancelVars, stopVars, outcome>>

SweepFail(j) ==
    /\ j \in sweeping
    /\ sweeping' = sweeping \ {j}
    /\ \E o \in {"failure", "suppressed"} : outcome' = [outcome EXCEPT ![j] = o]
    /\ UNCHANGED <<queueVars, producer, worker, held, verdict, expired, sweepDue, cancelVars, stopVars>>

-----------------------------------------------------------------------------
(* The node's cancellation and product-lock handlers.  They share the      *)
(* default callback group, so one runs at a time.                          *)

\* The node's own set first, under its own lock.
CancelBegin(scope) ==
    /\ cancelPhase = "idle" /\ scope \notin scopes
    /\ nodeScopes' = nodeScopes \cup {scope}
    /\ cancelling' = scope
    /\ cancelPhase' = "queue"
    /\ UNCHANGED <<queueVars, producer, worker, held, verdict, expired, sweepVars, stopVars, outcome>>

\* cancel_scope notifies only when it removed a job; lock_product always does.
CancelQueue ==
    LET removed == {j \in queued : InScope(j, cancelling)} IN
    /\ cancelPhase = "queue"
    /\ cancelPhase' = "ack"
    /\ InstallScope(cancelling)
    /\ outcome' = [j \in Jobs |-> IF j \in removed THEN "removed" ELSE outcome[j]]
    /\ \/ (removed # {} \/ cancelling[2] = 0) /\ NotifyAll
       \/ removed = {} /\ UNCHANGED <<producer, worker>>
    /\ UNCHANGED <<held, verdict, expired, sweepVars, nodeScopes, cancelling, stopVars>>

\* has_active_job is read and the acknowledgement published.
CancelAck ==
    /\ cancelPhase = "ack"
    /\ cancelPhase' = "idle"
    /\ cancelling' = NoScope
    /\ UNCHANGED <<queueVars, producer, worker, held, verdict, expired, sweepVars, nodeScopes, stopVars, outcome>>

-----------------------------------------------------------------------------
(* stop(): set the event, empty the queue and report, close, join.         *)

StopBegin ==
    /\ stopper = "running"
    /\ stopper' = "drain"
    /\ sweepDue' \in {FALSE, sweeping = {}}
    /\ UNCHANGED <<queueVars, producer, worker, held, verdict, expired, sweeping, cancelVars, stopJobs, outcome>>

\* Slip: cancel_all_waiting copies the jobs and does not clear the deque.
StopDrainCopy ==
    /\ stopper = "drain"
    /\ stopper' = "report"
    /\ stopJobs' = queued
    /\ NotifyAll
    /\ UNCHANGED <<queueVars, held, verdict, expired, sweepVars, cancelVars, outcome>>

StopDrain ==
    /\ stopper = "drain"
    /\ stopper' = "report"
    /\ Remove(queued)
    /\ stopJobs' = queued
    /\ NotifyAll
    /\ UNCHANGED <<held, verdict, expired, sweepVars, cancelVars, outcome>>

StopReport(j) ==
    /\ stopper = "report" /\ j \in stopJobs
    /\ stopJobs' = stopJobs \ {j}
    /\ outcome' = [outcome EXCEPT ![j] = "canceled"]
    /\ UNCHANGED <<queueVars, producer, worker, held, verdict, expired, sweepVars, cancelVars, stopper>>

\* Slip: close() sets the flag without notify_all.
StopCloseQuiet ==
    /\ stopper = "report" /\ stopJobs = {}
    /\ stopper' = "join"
    /\ Close
    /\ UNCHANGED <<producer, worker, held, verdict, expired, sweepVars, cancelVars, stopJobs, outcome>>

StopClose ==
    /\ stopper = "report" /\ stopJobs = {}
    /\ stopper' = "join"
    /\ Close
    /\ NotifyAll
    /\ UNCHANGED <<held, verdict, expired, sweepVars, cancelVars, stopJobs, outcome>>

\* The soft timeout only sets a flag: the join of every worker is unbounded.
StopJoin ==
    /\ stopper = "join"
    /\ \A w \in Workers : worker[w] = "exited"
    /\ stopper' = "stopped"
    /\ UNCHANGED <<queueVars, producer, worker, held, verdict, expired, sweepVars, cancelVars, stopJobs, outcome>>

StopStep == StopDrain \/ (\E j \in Jobs : StopReport(j)) \/ StopClose \/ StopJoin

ProducerStep(j) == CaptureSaved(j) \/ TryEnqueue(j) \/ CheckRefusal(j) \/ WaitForSpace(j)

Next ==
    \/ \E j \in Jobs : ProducerStep(j) \/ WaitTimesOut(j) \/ DeadlinePasses(j) \/ SweepFail(j)
    \/ \E w \in Workers : WorkerStep(w)
    \/ Sweep
    \/ \E scope \in CancelScopes : CancelBegin(scope)
    \/ CancelQueue \/ CancelAck
    \/ StopBegin \/ StopStep

\* Every thread is an operating-system thread the scheduler keeps running; a
\* goal may be cancelled, a deadline may pass and stop() may be called, or not.
Fairness ==
    /\ \A j \in Jobs : WF_vars(ProducerStep(j)) /\ WF_vars(SweepFail(j))
    /\ \A w \in Workers : WF_vars(WorkerStep(w))
    /\ WF_vars(CancelQueue) /\ WF_vars(CancelAck) /\ WF_vars(StopStep)

Spec == Init /\ [][Next]_vars
FairSpec == Spec /\ Fairness

-----------------------------------------------------------------------------
(* Properties                                                              *)

\* try_enqueue wakes a single waiter, and producers wait on the same condition
\* as workers, so the one wakeup could be spent on a producer.  It never is:
\* a producer sleeps only while the queue is full, and whatever makes room
\* wakes everybody.
ProducerSleepsOnlyWhenFull ==
    SleepingProducers # {} => Cardinality(queued) = Capacity /\ ~closed

\* No lost wakeup: while jobs wait and the queue is open, there are at least as
\* many workers on their way to get() as jobs, or no worker sleeps at all.
NoLostWakeup ==
    (~closed /\ SleepingWorkers # {}) =>
        Cardinality(queued) <= Cardinality({w \in Workers : worker[w] = "get"})

\* A job the queue accepted and nobody has reported is in one place only: in the
\* deque, with one worker, with the sweeper or with stop().
Pending(j) == producer[j] = "done" /\ outcome[j] = "none"
Busy(w) == worker[w] \in {"popped", "check", "loaded", "inferred", "report"}

OwnedIsPending ==
    /\ \A j \in queued \cup sweeping \cup stopJobs : Pending(j)
    /\ \A w \in Workers : Busy(w) => held[w] \in Jobs /\ Pending(held[w])

OwnersDisjoint ==
    /\ queued \cap sweeping = {} /\ queued \cap stopJobs = {} /\ sweeping \cap stopJobs = {}
    /\ \A w \in Workers : Busy(w) => held[w] \notin queued \cup sweeping \cup stopJobs
    /\ \A v, w \in Workers : Busy(v) /\ Busy(w) /\ held[v] = held[w] => v = w

PendingIsOwned ==
    \A j \in Jobs : Pending(j) =>
        \/ j \in queued \cup sweeping \cup stopJobs
        \/ \E w \in Workers : Busy(w) /\ held[w] = j

SingleOwner == OwnedIsPending /\ OwnersDisjoint /\ PendingIsOwned

\* At most one terminal report per job, whatever the sweeper, the workers,
\* cancellation and stop() do at the same time.
OutcomeFinal == [][\A j \in Jobs : outcome[j] # "none" => outcome'[j] = outcome[j]]_vars

\* A scope the queue has installed has no job left in the deque, and none gets in.
CanceledScopeLeavesQueue == \A j \in queued : ~Canceled(j)

\* A job canceled before a worker has passed its last check never becomes a
\* published success: the checks of _execute_job leave that one window only.
\* (cancel_scope's docstring promises no window; a result published in it is
\* ignored by the Master, which has the product's Station B closed or locked.)
Committed(j) ==
    \/ outcome[j] = "success"
    \/ \E w \in Workers : held[w] = j /\ worker[w] = "report" /\ verdict[w] = "success"

CancelClosesAllButOneWindow ==
    [][\A j \in Jobs : Canceled(j) /\ ~Committed(j) => ~Committed(j)']_vars

\* stop() returns: no worker stays asleep or busy for ever.
StopTerminates == (stopper # "running") ~> (stopper = "stopped")

\* A job the capture action announced as accepted is reported, unless the pool
\* is being stopped or its queue was closed after an out-of-memory.
AcceptedJobReported ==
    \A j \in Jobs : (producer[j] = "done") ~> (outcome[j] # "none" \/ closed \/ stopper # "running")
=============================================================================

----------------------- MODULE WorkerSupervisionProofs -----------------------
(* Theorems about WorkerSupervision, for any number of restarts, lost heartbeats
   and late answers, and whatever the bound on the command epoch.              *)
EXTENDS WorkerSupervision, TLAPS

Mirrors ==
    [phase : Phases, deadline : BOOLEAN, poll : BOOLEAN,
     call : {"none", "asked", "lost", "answered"}, answer : Status, status : Status,
     actionReady : BOOLEAN, verified : BOOLEAN, ready : BOOLEAN,
     instance : Nat, beatReady : BOOLEAN, fresh : BOOLEAN, outage : BOOLEAN]
Processes ==
    [up : BOOLEAN, instance : Nat, health : Healths, session : Nat, epoch : Nat,
     hears : BOOLEAN]
Rpcs ==
    [goals : SUBSET Goal, executing : Goal, result : {"none", "success", "failure"}]

\* How the fields of a mirror belong together: what TypeOK says of it, and that a
\* worker in READY has answered its initialization.
Coherent(s) ==
    /\ s.phase = "READY" => s.ready /\ s.actionReady
    /\ s.ready => s.phase \in {"READY", "WAITING_STATUS"}
    /\ s.deadline => s.phase \in Waiting

Typed ==
    /\ me \in Roles /\ sys \in SysStates /\ session \in Nat /\ epoch \in Nat
    /\ peersReady \in BOOLEAN
    /\ sup \in Mirrors /\ proc \in Processes /\ rpc \in Rpcs
    /\ reset \in [epoch : Nat, session : Nat]
    /\ trouble \subseteq Troubles

\* Goals reach the worker in the order they were sent: none of an older session than
\* the one it has is on its way or being executed.
GoalsInOrder ==
    /\ 1 <= session /\ proc.session <= session
    /\ \A g \in rpc.goals :
          1 <= g.session /\ proc.session <= g.session /\ g.session <= session
    /\ rpc.executing # NoGoal =>
          /\ 1 <= rpc.executing.session
          /\ proc.session <= rpc.executing.session /\ rpc.executing.session <= session
          /\ \A g \in rpc.goals : rpc.executing.session <= g.session

\* A RESET on its way was sent by this Master for no later epoch, or by a former one.
ResetNotAhead ==
    /\ reset.session <= session
    /\ reset.session = session => reset.epoch <= epoch

\* What an answer to GetNodeStatus still says of the worker when it is looked at: the
\* process it names, if it is still the one that runs, has kept its session, and its
\* epoch has not passed the Master's or the one it reported.
Evidence(st) ==
    /\ st.instance <= proc.instance
    /\ st.ready => st.instance # 0
    /\ proc.up /\ st.instance = proc.instance /\ st.session = session /\ st.ready
          => /\ proc.session = session /\ st.epoch <= proc.epoch
             /\ proc.epoch <= epoch \/ proc.epoch <= st.epoch

\* What a mirror may rest on: evidence, and readiness that the worker lives up to.
Founded(s) ==
    /\ s.instance <= proc.instance
    /\ Evidence(s.answer) /\ Evidence(s.status)
    /\ s.ready => s.instance # 0
    /\ s.ready /\ proc.up /\ proc.instance = s.instance
          => proc.session = session /\ proc.epoch = epoch

IInv ==
    /\ Typed /\ Coherent(sup) /\ Founded(sup) /\ proc.instance # 0
    /\ GoalsInOrder /\ ResetNotAhead

-----------------------------------------------------------------------------
(* What WorkerRuntimeState does to a mirror. *)

\* A mirror t that s may become without a new answer: evidence only goes or is
\* recorded, and the worker is made ready by CanMarkReady alone.
Derived(s, t) ==
    /\ t \in Mirrors
    /\ t.instance \in {0, s.instance}
    /\ t.status \in {NoStatus, s.status, s.answer}
    /\ t.answer \in {NoStatus, s.answer}
    /\ t.ready => (s.ready /\ t.instance = s.instance) \/ CanMarkReady(t)

\* The record of no evidence is a status.
LEMMA NoStatusTyped == NoStatus \in Status
BY DEF NoStatus, Status

\* The mirror of a worker the Master knows nothing of.
LEMMA UnknownDerived ==
    ASSUME NEW s \in Mirrors
    PROVE  Derived(s, UnknownWorker) /\ Coherent(UnknownWorker)
BY NoStatusTyped DEF Derived, Coherent, UnknownWorker, Mirrors, Phases, Waiting

\* begin_attempt and schedule_retry start over: neither needs anything of the mirror.
LEMMA StartOver ==
    ASSUME NEW s \in Mirrors
    PROVE  /\ Derived(s, BeginAttempt(s)) /\ Coherent(BeginAttempt(s))
           /\ Derived(s, ScheduleRetry(s)) /\ Coherent(ScheduleRetry(s))
           /\ ~ScheduleRetry(s).ready
<1>1. /\ BeginAttempt(s) \in Mirrors
      /\ BeginAttempt(s).instance = s.instance
      /\ BeginAttempt(s).status = NoStatus /\ BeginAttempt(s).answer = NoStatus
      /\ BeginAttempt(s).phase = "WAITING_GOAL_RESPONSE" /\ BeginAttempt(s).ready = FALSE
  BY NoStatusTyped DEF BeginAttempt, NotAsking, Unverified, Mirrors, Phases
<1>2. /\ ScheduleRetry(s) \in Mirrors
      /\ ScheduleRetry(s).instance = s.instance
      /\ ScheduleRetry(s).status = NoStatus /\ ScheduleRetry(s).answer = NoStatus
      /\ ScheduleRetry(s).phase = "RETRY_WAIT" /\ ScheduleRetry(s).ready = FALSE
      /\ ScheduleRetry(s).deadline = FALSE
  BY NoStatusTyped DEF ScheduleRetry, NotAsking, Unverified, Mirrors, Phases
<1> QED BY <1>1, <1>2 DEF Derived, Coherent, Waiting

\* begin_status_check and schedule_status_poll keep a ready worker ready.
LEMMA AskAgain ==
    ASSUME NEW s \in Mirrors, NEW call \in {"asked", "lost"}
    PROVE  /\ Derived(s, BeginStatusCheck(s, call)) /\ Coherent(BeginStatusCheck(s, call))
           /\ Derived(s, ScheduleStatusPoll(s)) /\ Coherent(ScheduleStatusPoll(s))
<1>1. /\ BeginStatusCheck(s, call) \in Mirrors
      /\ BeginStatusCheck(s, call).instance = s.instance
      /\ BeginStatusCheck(s, call).status = s.status
      /\ BeginStatusCheck(s, call).answer = NoStatus
      /\ BeginStatusCheck(s, call).phase = "WAITING_STATUS"
      /\ BeginStatusCheck(s, call).ready = s.ready
  BY NoStatusTyped DEF BeginStatusCheck, Mirrors, Phases
<1>2. /\ ScheduleStatusPoll(s) \in Mirrors
      /\ ScheduleStatusPoll(s).instance = s.instance
      /\ ScheduleStatusPoll(s).status = s.status /\ ScheduleStatusPoll(s).answer = NoStatus
      /\ ScheduleStatusPoll(s).phase = "WAITING_STATUS"
      /\ ScheduleStatusPoll(s).ready = s.ready
  BY NoStatusTyped DEF ScheduleStatusPoll, NotAsking, Mirrors, Phases
<1> QED BY <1>1, <1>2 DEF Derived, Coherent, Waiting

\* _request_worker_status, whichever way it ends.
LEMMA StatusRequest ==
    ASSUME NEW s \in Mirrors, NEW t \in StatusRequested(s)
    PROVE  Derived(s, t) /\ Coherent(t)
BY AskAgain DEF StatusRequested

\* _send_initialize_goal, whichever way it ends.
LEMMA Attempt ==
    ASSUME NEW s \in Mirrors, NEW t \in Attempts(s)
    PROVE  Derived(s, t) /\ Coherent(t)
BY StartOver DEF Attempts

\* mark_goal_accepted, mark_action_ready and record_status.
LEMMA Progress ==
    ASSUME NEW s \in Mirrors, ~s.ready \/ s.phase = "WAITING_STATUS"
    PROVE  /\ ~s.ready => Derived(s, MarkGoalAccepted(s)) /\ Coherent(MarkGoalAccepted(s))
           /\ Derived(s, MarkActionReady(s)) /\ MarkActionReady(s) \in Mirrors
           /\ Derived(s, RecordStatus(s)) /\ RecordStatus(s) \in Mirrors
           /\ s.phase = "WAITING_STATUS" => Coherent(RecordStatus(s))
<1>1. /\ MarkGoalAccepted(s) \in Mirrors
      /\ MarkGoalAccepted(s).instance = s.instance
      /\ MarkGoalAccepted(s).status = s.status /\ MarkGoalAccepted(s).answer = s.answer
      /\ MarkGoalAccepted(s).phase = "WAITING_RESULT"
      /\ MarkGoalAccepted(s).ready = s.ready
  BY DEF MarkGoalAccepted, Mirrors, Phases
<1>2. /\ MarkActionReady(s) \in Mirrors
      /\ MarkActionReady(s).instance = s.instance
      /\ MarkActionReady(s).status = s.status /\ MarkActionReady(s).answer = s.answer
      /\ MarkActionReady(s).ready = s.ready
  BY DEF MarkActionReady, Mirrors, Phases
<1>3. /\ RecordStatus(s) \in Mirrors
      /\ RecordStatus(s).instance = s.instance
      /\ RecordStatus(s).status = s.answer /\ RecordStatus(s).answer = NoStatus
      /\ RecordStatus(s).phase = s.phase
      /\ RecordStatus(s).ready = s.ready
  BY NoStatusTyped DEF RecordStatus, NotAsking, Mirrors, Phases
<1> QED BY <1>1, <1>2, <1>3 DEF Derived, Coherent, Waiting

\* mark_ready, where it may be called.
LEMMA Ready ==
    ASSUME NEW s \in Mirrors, CanMarkReady(s)
    PROVE  Derived(s, MarkReady(s)) /\ Coherent(MarkReady(s))
<1>1. /\ MarkReady(s) \in Mirrors
      /\ MarkReady(s).instance = s.instance
      /\ MarkReady(s).status = s.status /\ MarkReady(s).answer = s.answer
      /\ MarkReady(s).phase = "READY" /\ MarkReady(s).ready = TRUE
      /\ MarkReady(s).deadline = FALSE /\ MarkReady(s).actionReady = s.actionReady
      /\ MarkReady(s).verified = s.verified /\ MarkReady(s).beatReady = s.beatReady
      /\ MarkReady(s).fresh = s.fresh
  BY DEF MarkReady, Mirrors, Phases
<1>2. CanMarkReady(MarkReady(s)) BY <1>1 DEF CanMarkReady
<1> QED BY <1>1, <1>2 DEF Derived, Coherent, Waiting, CanMarkReady

\* invalidate_epoch_evidence: the worker is not ready any more.
LEMMA Invalidated ==
    ASSUME NEW s \in Mirrors, Coherent(s)
    PROVE  /\ Derived(s, InvalidateEpochEvidence(s)) /\ Coherent(InvalidateEpochEvidence(s))
           /\ ~InvalidateEpochEvidence(s).ready
<1> DEFINE dropped == [NotAsking(Unverified(s)) EXCEPT !.deadline = FALSE]
<1>1. /\ dropped \in Mirrors /\ dropped.instance = s.instance
      /\ dropped.status = NoStatus /\ dropped.answer = NoStatus
      /\ dropped.phase = s.phase /\ dropped.ready = FALSE /\ dropped.deadline = FALSE
  BY NoStatusTyped DEF NotAsking, Unverified, Mirrors
<1>2. ~s.actionReady => s.phase # "READY" BY DEF Coherent
<1>3. InvalidateEpochEvidence(s)
        = IF s.actionReady THEN ScheduleStatusPoll(dropped) ELSE dropped
  BY DEF InvalidateEpochEvidence
<1> HIDE DEF dropped
<1>4. /\ ScheduleStatusPoll(dropped) \in Mirrors
      /\ ScheduleStatusPoll(dropped).instance = dropped.instance
      /\ ScheduleStatusPoll(dropped).status = dropped.status
      /\ ScheduleStatusPoll(dropped).answer = NoStatus
      /\ ScheduleStatusPoll(dropped).phase = "WAITING_STATUS"
      /\ ScheduleStatusPoll(dropped).ready = dropped.ready
  BY <1>1, NoStatusTyped DEF ScheduleStatusPoll, NotAsking, Mirrors, Phases
<1> QED BY <1>1, <1>2, <1>3, <1>4 DEF Derived, Coherent, Waiting

\* _handle_worker_unavailable.
LEMMA Lost ==
    ASSUME NEW s \in Mirrors, s.phase = "RETRY_WAIT" => ~s.deadline
    PROVE  /\ Derived(s, Unavailable(s)) /\ Coherent(Unavailable(s))
           /\ ~Unavailable(s).ready
<1> DEFINE known == [Unverified(s) EXCEPT !.outage = TRUE]
<1>1. /\ known \in Mirrors /\ known.instance = s.instance
      /\ known.status = NoStatus /\ known.answer = s.answer
      /\ known.phase = s.phase /\ known.ready = FALSE /\ known.deadline = s.deadline
  BY NoStatusTyped DEF Unverified, Mirrors
<1>2. Unavailable(s)
        = IF sys = "INITIALIZING" /\ s.phase = "RETRY_WAIT" THEN known
          ELSE ScheduleRetry(known)
  BY DEF Unavailable
<1> HIDE DEF known
<1>3. Derived(known, ScheduleRetry(known)) /\ Coherent(ScheduleRetry(known))
      /\ ~ScheduleRetry(known).ready
  BY <1>1, StartOver
<1>4. Derived(s, ScheduleRetry(known)) BY <1>1, <1>3 DEF Derived
<1> QED BY <1>1, <1>2, <1>3, <1>4 DEF Derived, Coherent, Waiting
-----------------------------------------------------------------------------
(* What keeps a mirror founded. *)

\* Nothing new but what CanMarkReady asks for: evidence of this session and epoch.
LEMMA DerivedIsFounded ==
    ASSUME Typed, NEW s \in Mirrors, Founded(s), NEW t, Derived(s, t)
    PROVE  Founded(t)
<1>1. Evidence(NoStatus) BY DEF Typed, Processes, Evidence, NoStatus
<1>2. Evidence(t.answer) /\ Evidence(t.status) BY <1>1 DEF Founded, Derived
<1>3. t.instance <= proc.instance
  BY DEF Typed, Processes, Founded, Derived
<1>4. CASE t.ready /\ ~CanMarkReady(t) BY <1>2, <1>3, <1>4 DEF Founded, Derived
<1>5. CASE CanMarkReady(t)
  <2>1. /\ t.status.instance = t.instance /\ t.status.session = session
        /\ t.status.epoch = epoch /\ t.status.ready
    BY <1>5 DEF CanMarkReady
  <2>2. proc.epoch \in Nat /\ epoch \in Nat BY DEF Typed, Processes
  <2>3. t.instance # 0 BY <1>2, <2>1 DEF Evidence
  <2>4. proc.up /\ proc.instance = t.instance => proc.session = session /\ proc.epoch = epoch
    BY <1>2, <2>1, <2>2 DEF Evidence
  <2> QED BY <1>2, <1>3, <2>3, <2>4 DEF Founded
<1>6. CASE ~t.ready BY <1>2, <1>3, <1>6 DEF Founded
<1> QED BY <1>4, <1>5, <1>6

\* A later epoch, for a worker that is not ready.
LEMMA EpochAdvances ==
    ASSUME Typed, NEW s \in Mirrors, Founded(s), ~s.ready,
           epoch' \in Nat, epoch <= epoch', UNCHANGED <<proc, session>>
    PROVE  Founded(s)'
<1>1. ASSUME NEW st \in Status, Evidence(st) PROVE Evidence(st)'
  BY <1>1 DEF Evidence, Typed, Processes, Status
<1>2. s.answer \in Status /\ s.status \in Status BY DEF Mirrors
<1> QED BY <1>1, <1>2 DEF Founded

\* The worker's own steps: it leaves neither its session nor, backwards or past the
\* Master's, its epoch.
LEMMA WorkerMoves ==
    ASSUME Typed, proc' \in Processes, NEW s \in Mirrors, Founded(s),
           UNCHANGED <<session, epoch>>,
           proc'.up = proc.up, proc'.instance = proc.instance,
           proc.session = session => /\ proc'.session = session /\ proc.epoch <= proc'.epoch
                                     /\ proc'.epoch <= epoch \/ proc'.epoch = proc.epoch
    PROVE  Founded(s)'
<1>1. /\ proc.epoch \in Nat /\ proc'.epoch \in Nat /\ epoch \in Nat
  BY DEF Typed, Processes
<1>2. ASSUME NEW st \in Status, Evidence(st) PROVE Evidence(st)'
  BY <1>1, <1>2 DEF Evidence, Status
<1>3. s.answer \in Status /\ s.status \in Status BY DEF Mirrors
<1> QED BY <1>1, <1>2, <1>3 DEF Founded

\* accept_heartbeat: a process seen for the first time, or again, is what the mirror
\* rests on; of another one nothing is kept.
LEMMA HeartbeatAccepted ==
    ASSUME Typed, Founded(sup), proc.instance # 0
    PROVE  LET s == AcceptHeartbeat(sup, proc)
           IN  /\ s \in Mirrors /\ Founded(s)
               /\ s.phase = sup.phase /\ s.deadline = sup.deadline
               /\ ~Restarted(sup, proc) => s.ready = sup.ready /\ s.actionReady = sup.actionReady
<1> DEFINE s == AcceptHeartbeat(sup, proc)
           kept == IF Restarted(sup, proc)
                   THEN [Unverified(sup) EXCEPT !.actionReady = FALSE] ELSE sup
<1>1. /\ kept \in Mirrors /\ kept.phase = sup.phase /\ kept.deadline = sup.deadline
      /\ kept.answer = sup.answer /\ kept.status \in {NoStatus, sup.status}
      /\ Restarted(sup, proc) => kept.ready = FALSE
      /\ ~Restarted(sup, proc) => kept = sup
  <2>1. CASE Restarted(sup, proc)
    <3>1. kept = [[sup EXCEPT !.verified = FALSE, !.ready = FALSE, !.status = NoStatus]
                  EXCEPT !.actionReady = FALSE]
      BY <2>1 DEF Unverified
    <3> QED BY <2>1, <3>1, NoStatusTyped DEF Mirrors, Typed
  <2>2. CASE ~Restarted(sup, proc)
    BY <2>2 DEF Typed
  <2> QED BY <2>1, <2>2
<1>2. s = [kept EXCEPT !.instance = proc.instance, !.fresh = TRUE, !.outage = FALSE,
                       !.beatReady = (proc.health = "READY" /\ proc.session = session),
                       !.status.ahead = FALSE, !.answer.ahead = FALSE]
  BY DEF AcceptHeartbeat
<1> HIDE DEF s, kept
<1>3. ASSUME NEW st \in Status
      PROVE  /\ [st EXCEPT !.ahead = FALSE] \in Status
             /\ [st EXCEPT !.ahead = FALSE].instance = st.instance
             /\ [st EXCEPT !.ahead = FALSE].session = st.session
             /\ [st EXCEPT !.ahead = FALSE].epoch = st.epoch
             /\ [st EXCEPT !.ahead = FALSE].ready = st.ready
  BY DEF Status
<1>4. kept.status \in Status /\ kept.answer \in Status BY <1>1 DEF Mirrors
<1>5. (proc.health = "READY" /\ proc.session = session) \in BOOLEAN OBVIOUS
<1>6. proc.instance \in Nat BY DEF Typed, Processes
<1>7. /\ s \in Mirrors /\ s.phase = kept.phase /\ s.deadline = kept.deadline
      /\ s.ready = kept.ready /\ s.actionReady = kept.actionReady
      /\ s.instance = proc.instance
      /\ s.status = [kept.status EXCEPT !.ahead = FALSE]
      /\ s.answer = [kept.answer EXCEPT !.ahead = FALSE]
  <2>1. s = [kept EXCEPT !.instance = proc.instance, !.fresh = TRUE, !.outage = FALSE,
                         !.beatReady = (proc.health = "READY" /\ proc.session = session),
                         !.status = [kept.status EXCEPT !.ahead = FALSE],
                         !.answer = [kept.answer EXCEPT !.ahead = FALSE]]
    BY <1>1, <1>2 DEF Mirrors
  <2>2. /\ [kept.status EXCEPT !.ahead = FALSE] \in Status
        /\ [kept.answer EXCEPT !.ahead = FALSE] \in Status
    BY <1>3, <1>4
  <2> QED BY <1>1, <1>5, <1>6, <2>1, <2>2 DEF Mirrors
<1>8. Evidence(NoStatus) BY DEF Typed, Processes, Evidence, NoStatus
<1>9. Evidence(kept.status) /\ Evidence(kept.answer) BY <1>1, <1>8 DEF Founded
<1>10. Evidence(s.status) /\ Evidence(s.answer) BY <1>3, <1>4, <1>7, <1>9 DEF Evidence
<1>11. s.ready => sup.ready /\ sup.instance = proc.instance
  BY <1>1, <1>7 DEF Restarted, Founded
<1>12. Founded(s) BY <1>6, <1>7, <1>10, <1>11 DEF Founded
<1> QED BY <1>1, <1>7, <1>12 DEF s
-----------------------------------------------------------------------------
(* The steps, one lemma for each group of actions.  The first one is what all the
   steps of the Master that look at the mirror alone have in common.          *)

\* The mirror becomes what may be derived from a founded one.
LEMMA MirrorStep ==
    ASSUME Typed, NEW s \in Mirrors, Founded(s), Derived(s, sup'), Coherent(sup'),
           UNCHANGED <<session, epoch, proc>>
    PROVE  sup' \in Mirrors /\ Founded(sup)' /\ Coherent(sup)'
<1>1. Founded(sup') BY DerivedIsFounded
<1>2. sup' \in Mirrors BY DEF Derived
<1>3. Evidence(sup.answer)' /\ Evidence(sup.status)' BY <1>1 DEF Founded, Evidence
<1> QED BY <1>1, <1>2, <1>3 DEF Founded, Coherent

\* _try_mark_worker_ready.
LEMMA MarkedReady ==
    ASSUME Typed, NEW s \in Mirrors, Founded(s), Coherent(s),
           TryMarkReady(s), UNCHANGED <<session, epoch, proc>>
    PROVE  sup' \in Mirrors /\ Founded(sup)' /\ Coherent(sup)' /\ sys' \in SysStates
<1>1. sys' \in SysStates BY DEF TryMarkReady, Typed, SysStates
<1>2. CASE CanMarkReady(s) /\ ~s.ready
  <2>1. sup' = MarkReady(s) BY <1>2 DEF TryMarkReady
  <2> QED BY <1>1, <1>2, <2>1, Ready, MirrorStep
<1>3. CASE ~(CanMarkReady(s) /\ ~s.ready)
  <2>1. sup' = s BY <1>3 DEF TryMarkReady
  <2>2. Derived(s, s) BY DEF Derived
  <2> QED BY <1>1, <1>3, <2>1, <2>2, MirrorStep
<1> QED BY <1>2, <1>3

\* The line after an outage is in a state of the Master.
LEMMA OutageTypes == ASSUME Typed, NEW w PROVE AfterOutage(w) \in SysStates
BY DEF Typed, AfterOutage, SysStates

\* The goals of a former request keep their order and their sessions.
LEMMA AbandonedGoals ==
    ASSUME Typed
    PROVE  /\ Abandoned(rpc) \in Rpcs
           /\ \A g \in Abandoned(rpc).goals : \E h \in rpc.goals : g.session = h.session
           /\ Abandoned(rpc).executing.session = rpc.executing.session
           /\ Abandoned(rpc).executing # NoGoal => rpc.executing # NoGoal
<1> DEFINE goals == {[g EXCEPT !.current = FALSE] : g \in rpc.goals}
           executing == [rpc.executing EXCEPT !.current = FALSE]
<1>1. /\ rpc.goals \subseteq Goal /\ rpc.executing \in Goal /\ rpc \in Rpcs
  BY DEF Typed, Rpcs
<1>2. goals \subseteq Goal /\ executing \in Goal /\ executing.session = rpc.executing.session
  BY <1>1 DEF Goal
<1>3. \A g \in goals : \E h \in rpc.goals : g.session = h.session
  BY <1>1 DEF Goal
<1>4. rpc.executing = NoGoal => executing = NoGoal
  <2>1. ASSUME NEW g \in Goal PROVE g = [current |-> g.current, session |-> g.session]
    BY DEF Goal
  <2>2. executing.current = FALSE BY <1>1 DEF Goal
  <2>3. executing = [current |-> executing.current, session |-> executing.session]
    BY <1>2, <2>1
  <2> HIDE DEF executing
  <2>4. rpc.executing = NoGoal => rpc.executing.session = 0 BY DEF NoGoal
  <2> QED BY <1>2, <2>2, <2>3, <2>4 DEF NoGoal
<1>5. Abandoned(rpc) = [rpc EXCEPT !.goals = goals, !.executing = executing, !.result = "none"]
  BY <1>1 DEF Abandoned, Rpcs
<1> HIDE DEF goals, executing
<1>6. /\ Abandoned(rpc) \in Rpcs /\ Abandoned(rpc).goals = goals
      /\ Abandoned(rpc).executing = executing
  BY <1>1, <1>2, <1>5 DEF Rpcs
<1> QED BY <1>2, <1>3, <1>4, <1>6

\* A goal of this session comes after all the others.
LEMMA GoalsSent ==
    ASSUME Typed, GoalsInOrder, rpc' = GoalSent, UNCHANGED <<session, proc>>
    PROVE  rpc' \in Rpcs /\ GoalsInOrder'
<1> DEFINE old == Abandoned(rpc)
           new == IF proc.up THEN old.goals \cup {[current |-> TRUE, session |-> session]}
                  ELSE old.goals
<1>1. /\ old \in Rpcs /\ old.executing.session = rpc.executing.session
      /\ \A g \in old.goals : \E h \in rpc.goals : g.session = h.session
      /\ old.executing # NoGoal => rpc.executing # NoGoal
  BY AbandonedGoals
<1>2. rpc' = [old EXCEPT !.goals = new] BY <1>1 DEF GoalSent, Rpcs
<1>3. [current |-> TRUE, session |-> session] \in Goal BY DEF Typed, Goal
<1> HIDE DEF old
<1>4. new \subseteq Goal BY <1>1, <1>3 DEF Rpcs
<1>5. \A g \in new : g.session = session \/ \E h \in rpc.goals : g.session = h.session
  BY <1>1
<1> HIDE DEF new
<1>6. /\ rpc' \in Rpcs /\ rpc'.goals = new /\ rpc'.executing = old.executing
  BY <1>1, <1>2, <1>4 DEF Rpcs
<1>7. session \in Nat /\ proc.session \in Nat BY DEF Typed, Processes
<1>8. \A g \in rpc'.goals :
         1 <= g.session /\ proc.session <= g.session /\ g.session <= session
  BY <1>5, <1>6, <1>7 DEF GoalsInOrder
<1>9. rpc'.executing # NoGoal =>
         /\ 1 <= rpc'.executing.session /\ proc.session <= rpc'.executing.session
         /\ rpc'.executing.session <= session
         /\ \A g \in rpc'.goals : rpc'.executing.session <= g.session
  BY <1>1, <1>5, <1>6, <1>7 DEF GoalsInOrder
<1> QED BY <1>6, <1>8, <1>9 DEF GoalsInOrder
\* Steps that only move the line: its requests, its faults, the peers' readiness.
LineStep ==
    \/ PauseConfirmed \/ Run \/ PauseRequest \/ ResetDone \/ LineFault \/ PeersGetReady

\* The line moves between the states of the Master.
LEMMA LineStepKeepsIInv == ASSUME IInv, LineStep PROVE IInv'
<1>1. UNCHANGED <<me, session, epoch, sup, proc, rpc, reset>>
  BY DEF LineStep, PauseConfirmed, Run, PauseRequest, ResetDone, LineFault, PeersGetReady, Sys
<1>2. sys' \in SysStates
  BY DEF LineStep, PauseConfirmed, Run, PauseRequest, ResetDone, LineFault, PeersGetReady, Sys,
         IInv, Typed, SysStates
<1>3. peersReady' \in BOOLEAN
  BY Zenon DEF LineStep, PauseConfirmed, Run, PauseRequest, ResetDone, LineFault,
               PeersGetReady, Sys, IInv, Typed
<1>4. trouble' \subseteq Troubles
  BY DEF LineStep, PauseConfirmed, Run, PauseRequest, ResetDone, LineFault, PeersGetReady, Sys,
         Trouble, IInv, Typed
<1>5. Founded(sup)' BY <1>1 DEF IInv, Founded, Evidence
<1> QED BY <1>1, <1>2, <1>3, <1>4, <1>5
        DEF IInv, Typed, Coherent, GoalsInOrder, ResetNotAhead

\* What the steps of the Master that look at the mirror alone have to show.
LEMMA MasterFrame ==
    ASSUME IInv, UNCHANGED <<me, session, epoch, proc, reset>>,
           sys' \in SysStates, peersReady' \in BOOLEAN, trouble' \subseteq Troubles,
           UNCHANGED rpc \/ (rpc' \in Rpcs /\ GoalsInOrder'),
           sup' \in Mirrors /\ Founded(sup)' /\ Coherent(sup)'
    PROVE  IInv'
BY DEF IInv, Typed, GoalsInOrder, ResetNotAhead

\* _start_worker_initialization and a retry that is due.
LEMMA AttemptKeepsIInv == ASSUME IInv, Initialize \/ RetryDue PROVE IInv'
<1>1. UNCHANGED <<me, session, epoch, proc, reset, trouble>> BY DEF Initialize, RetryDue
<1>2. rpc' \in Rpcs /\ GoalsInOrder'
  BY <1>1, GoalsSent DEF Initialize, RetryDue, IInv
<1>3. sys' \in SysStates BY DEF Initialize, RetryDue, IInv, Typed, SysStates
<1>4. peersReady' \in BOOLEAN BY Zenon DEF Initialize, RetryDue, IInv, Typed
<1>5. PICK s \in {sup, UnknownWorker} : sup' \in Attempts(s) BY DEF Initialize, RetryDue
<1>6. s \in Mirrors /\ Founded(s)
  BY UnknownDerived, DerivedIsFounded DEF IInv, Typed, Derived
<1>7. sup' \in Mirrors /\ Founded(sup)' /\ Coherent(sup)'
  BY <1>1, <1>5, <1>6, Attempt, MirrorStep DEF IInv
<1> QED BY <1>1, <1>2, <1>3, <1>4, <1>7, MasterFrame DEF IInv, Typed

\* _handle_initialize_goal and its response.
LEMMA TakeGoalKeepsIInv == ASSUME IInv, TakeGoal PROVE IInv'
<1>1. UNCHANGED <<me, peersReady, sys, session, epoch, proc, reset, trouble>> BY DEF TakeGoal
<1>2. PICK g \in rpc.goals :
        LET accepted == rpc.executing = NoGoal
        IN  /\ \A h \in rpc.goals : g.session <= h.session /\ (g.current => h.current)
            /\ rpc' = [rpc EXCEPT !.goals = @ \ {g}, !.executing = IF accepted THEN g ELSE @]
            /\ sup' = IF ~g.current \/ sup.phase # "WAITING_GOAL_RESPONSE" THEN sup
                      ELSE IF accepted THEN MarkGoalAccepted(sup) ELSE ScheduleRetry(sup)
  BY DEF TakeGoal
<1>3. /\ rpc \in Rpcs /\ rpc.goals \subseteq Goal /\ g \in Goal /\ sup \in Mirrors
  BY DEF IInv, Typed, Rpcs
<1>4. /\ rpc' \in Rpcs /\ rpc'.goals = rpc.goals \ {g}
      /\ rpc'.executing = IF rpc.executing = NoGoal THEN g ELSE rpc.executing
  BY <1>2, <1>3 DEF Rpcs
<1>5. GoalsInOrder' BY <1>1, <1>2, <1>4 DEF IInv, GoalsInOrder
<1>6. Derived(sup, sup') /\ Coherent(sup')
  <2>1. Derived(sup, sup) BY <1>3 DEF Derived
  <2>2. sup.phase = "WAITING_GOAL_RESPONSE" => ~sup.ready BY DEF IInv, Coherent
  <2> QED BY <1>2, <1>3, <2>1, <2>2, Progress, StartOver DEF IInv
<1> QED BY <1>1, <1>3, <1>4, <1>5, <1>6, MirrorStep, MasterFrame DEF IInv, Typed

\* _handle_initialize_result.
LEMMA InitializeResultKeepsIInv == ASSUME IInv, InitializeResult PROVE IInv'
<1>1. UNCHANGED <<me, peersReady, sys, session, epoch, proc, reset, trouble>>
  BY DEF InitializeResult
<1>2. rpc' = [rpc EXCEPT !.result = "none"] BY DEF InitializeResult
<1>3. rpc' \in Rpcs /\ rpc'.goals = rpc.goals /\ rpc'.executing = rpc.executing
  BY <1>2 DEF IInv, Typed, Rpcs
<1>4. GoalsInOrder' BY <1>1, <1>3 DEF IInv, GoalsInOrder
<1>5. sup \in Mirrors /\ Derived(sup, sup) BY DEF IInv, Typed, Derived
<1>6. CASE sup.phase = "WAITING_RESULT" /\ rpc.result = "success"
  <2>1. ~sup.ready BY <1>6 DEF IInv, Coherent
  <2>2. Derived(sup, MarkActionReady(sup)) /\ MarkActionReady(sup) \in Mirrors
    BY <1>5, <2>1, Progress
  <2>3. Founded(MarkActionReady(sup)) BY <1>5, <2>2, DerivedIsFounded DEF IInv
  <2>4. sup' \in StatusRequested(MarkActionReady(sup))
    BY <1>6 DEF InitializeResult, RequestStatus
  <2> QED BY <1>1, <1>3, <1>4, <2>2, <2>3, <2>4, StatusRequest, MirrorStep, MasterFrame
          DEF IInv, Typed
<1>7. CASE ~(sup.phase = "WAITING_RESULT" /\ rpc.result = "success")
  <2>1. sup' = sup \/ sup' = ScheduleRetry(sup) BY <1>7 DEF InitializeResult
  <2> QED BY <1>1, <1>3, <1>4, <1>5, <2>1, StartOver, MirrorStep, MasterFrame DEF IInv, Typed
<1> QED BY <1>6, <1>7

\* _handle_worker_status: an answer is recorded, and may make the worker ready.
LEMMA StatusAnswerKeepsIInv == ASSUME IInv, StatusAnswer PROVE IInv'
<1> DEFINE recorded == RecordStatus(sup)
<1>1. UNCHANGED <<me, peersReady, session, epoch, proc, rpc, reset, trouble>>
  BY DEF StatusAnswer
<1>2. sup \in Mirrors /\ sup.phase = "WAITING_STATUS" BY DEF StatusAnswer, IInv, Typed
<1>3. Derived(sup, recorded) /\ recorded \in Mirrors /\ Coherent(recorded)
  BY <1>2, Progress
<1>4. Founded(recorded) BY <1>2, <1>3, DerivedIsFounded DEF IInv
<1>5. \/ sup' = ScheduleRetry(sup) /\ UNCHANGED sys
      \/ TryMarkReady(recorded)
      \/ sup' = ScheduleStatusPoll(recorded) /\ UNCHANGED sys
  BY DEF StatusAnswer
<1> HIDE DEF recorded
<1>6. CASE sup' = ScheduleRetry(sup) /\ UNCHANGED sys
  BY <1>1, <1>2, <1>6, StartOver, MirrorStep, MasterFrame DEF IInv, Typed
<1>7. CASE TryMarkReady(recorded)
  <2>1. sup' \in Mirrors /\ Founded(sup)' /\ Coherent(sup)' /\ sys' \in SysStates
    BY <1>1, <1>3, <1>4, <1>7, MarkedReady DEF IInv
  <2> QED BY <1>1, <2>1, MasterFrame DEF IInv, Typed
<1>8. CASE sup' = ScheduleStatusPoll(recorded) /\ UNCHANGED sys
  BY <1>1, <1>3, <1>4, <1>8, AskAgain, MirrorStep, MasterFrame DEF IInv, Typed
<1> QED BY <1>5, <1>6, <1>7, <1>8
\* The deadlines, the polls and the watchdog.
TimerStep ==
    \/ InitializationTimesOut \/ StatusPollDue \/ ReadyExpires \/ OutageFound
    \/ HeartbeatGoesStale

\* Each asks again, starts over, or forgets a heartbeat.
LEMMA TimerStepKeepsIInv == ASSUME IInv, TimerStep PROVE IInv'
<1>1. UNCHANGED <<me, peersReady, session, epoch, proc, rpc, reset>>
  BY DEF TimerStep, InitializationTimesOut, StatusPollDue, ReadyExpires, OutageFound,
         HeartbeatGoesStale
<1>2. trouble' \subseteq Troubles
  BY DEF TimerStep, InitializationTimesOut, StatusPollDue, ReadyExpires, OutageFound,
         HeartbeatGoesStale, Trouble, IInv, Typed
<1>3. sup \in Mirrors BY DEF IInv, Typed
<1>4. CASE sup' = ScheduleRetry(sup) /\ UNCHANGED sys
  BY <1>1, <1>2, <1>3, <1>4, StartOver, MirrorStep, MasterFrame DEF IInv, Typed
<1>5. CASE StatusPollDue
  BY <1>1, <1>2, <1>3, <1>5, StatusRequest, MirrorStep, MasterFrame
     DEF IInv, Typed, StatusPollDue, RequestStatus
<1>6. CASE OutageFound
  <2>1. sup.phase = "RETRY_WAIT" => ~sup.deadline BY DEF IInv, Coherent, Waiting
  <2> QED BY <1>1, <1>2, <1>3, <1>6, <2>1, Lost, OutageTypes, MirrorStep, MasterFrame
          DEF IInv, Typed, OutageFound
<1>7. CASE HeartbeatGoesStale
  <2>1. sup' = [sup EXCEPT !.fresh = FALSE] /\ UNCHANGED sys BY <1>7 DEF HeartbeatGoesStale
  <2>2. /\ sup' \in Mirrors /\ sup'.instance = sup.instance /\ sup'.status = sup.status
        /\ sup'.answer = sup.answer /\ sup'.ready = sup.ready /\ sup'.phase = sup.phase
        /\ sup'.deadline = sup.deadline /\ sup'.actionReady = sup.actionReady
    BY <1>3, <2>1 DEF Mirrors
  <2>3. Derived(sup, sup') /\ Coherent(sup') BY <2>2 DEF Derived, Coherent, IInv
  <2> QED BY <1>1, <1>2, <1>3, <2>1, <2>3, MirrorStep, MasterFrame DEF IInv, Typed
<1> QED BY <1>4, <1>5, <1>6, <1>7 DEF TimerStep, InitializationTimesOut, ReadyExpires

\* What a step has to show that advances the epoch and leaves the worker not ready.
LEMMA EpochFrame ==
    ASSUME IInv, UNCHANGED <<me, session, proc, rpc>>, epoch' = epoch + 1,
           sys' \in SysStates, peersReady' \in BOOLEAN, trouble' \subseteq Troubles,
           UNCHANGED reset \/ reset' = NoReset
               \/ reset' = [epoch |-> epoch + 1, session |-> session],
           NEW s \in Mirrors, Founded(s), Derived(s, sup'), Coherent(sup'), ~sup'.ready
    PROVE  IInv'
<1>1. epoch \in Nat /\ epoch' \in Nat /\ session \in Nat BY DEF IInv, Typed
<1>2. reset' \in [epoch : Nat, session : Nat] BY <1>1 DEF IInv, Typed, NoReset
<1>3. ResetNotAhead' BY <1>1 DEF IInv, Typed, ResetNotAhead, NoReset, GoalsInOrder
<1>4. Founded(sup') /\ sup' \in Mirrors BY DerivedIsFounded DEF IInv, Derived
<1>5. ASSUME NEW t \in Mirrors, Founded(t), ~t.ready PROVE Founded(t)'
  BY <1>1, <1>5, EpochAdvances DEF IInv
<1>6. /\ Evidence(sup'.answer) /\ Evidence(sup'.status) /\ sup'.instance <= proc.instance
  BY <1>4 DEF Founded
<1>7. ASSUME NEW st \in Status, Evidence(st)
      PROVE  /\ st.instance <= proc'.instance
             /\ st.ready => st.instance # 0
             /\ proc'.up /\ st.instance = proc'.instance /\ st.session = session' /\ st.ready
                  => /\ proc'.session = session' /\ st.epoch <= proc'.epoch
                     /\ proc'.epoch <= epoch' \/ proc'.epoch <= st.epoch
  BY <1>1, <1>7 DEF Evidence, IInv, Typed, Processes, Status
<1>8. sup'.answer \in Status /\ sup'.status \in Status BY <1>4 DEF Mirrors
<1>9. Founded(sup)' BY <1>6, <1>7, <1>8 DEF Founded, Evidence
<1> QED BY <1>1, <1>2, <1>3, <1>4, <1>9 DEF IInv, Typed, Coherent, GoalsInOrder

\* _handle_worker_heartbeat: a restart starts a new epoch, a worker that is not READY is
\* lost, one that is back is asked for its status, a READY one may be ready.
LEMMA HeartbeatKeepsIInv == ASSUME IInv, WorkerHeartbeat PROVE IInv'
<1> DEFINE s == AcceptHeartbeat(sup, proc)
<1>1. /\ s \in Mirrors /\ Founded(s) /\ s.phase = sup.phase /\ s.deadline = sup.deadline
      /\ ~Restarted(sup, proc) => s.ready = sup.ready /\ s.actionReady = sup.actionReady
  BY HeartbeatAccepted DEF IInv
<1>2. ~Restarted(sup, proc) => Coherent(s) BY <1>1 DEF Coherent, IInv
<1>3. s.phase = "RETRY_WAIT" => ~s.deadline BY <1>1 DEF IInv, Coherent, Waiting
<1>4. UNCHANGED <<me, session, proc, rpc, reset, trouble>> BY DEF WorkerHeartbeat
<1>5. \/ /\ epoch' = epoch + 1 /\ peersReady' = FALSE
         /\ sup' = Unavailable(s) /\ sys' = AfterOutage(me)
      \/ /\ UNCHANGED <<epoch, peersReady>>
         /\ \/ sup' = Unavailable(s) /\ sys' = AfterOutage(me)
            \/ sup' \in StatusRequested(s) /\ UNCHANGED sys
            \/ ~Restarted(sup, proc) /\ TryMarkReady(s)
            \/ ~Restarted(sup, proc) /\ sup' = s /\ UNCHANGED sys
  BY DEF WorkerHeartbeat, RequestStatus
<1> HIDE DEF s
<1>6. /\ Derived(s, Unavailable(s)) /\ Coherent(Unavailable(s)) /\ ~Unavailable(s).ready
      /\ AfterOutage(me) \in SysStates
  BY <1>1, <1>3, Lost, OutageTypes DEF IInv
<1>7. CASE /\ epoch' = epoch + 1 /\ peersReady' = FALSE
           /\ sup' = Unavailable(s) /\ sys' = AfterOutage(me)
  BY <1>1, <1>4, <1>6, <1>7, EpochFrame DEF IInv, Typed
<1>8. CASE UNCHANGED <<epoch, peersReady>> /\ sup' = Unavailable(s) /\ sys' = AfterOutage(me)
  BY <1>1, <1>4, <1>6, <1>8, MirrorStep, MasterFrame DEF IInv, Typed
<1>9. CASE UNCHANGED <<epoch, peersReady, sys>> /\ sup' \in StatusRequested(s)
  BY <1>1, <1>4, <1>9, StatusRequest, MirrorStep, MasterFrame DEF IInv, Typed
<1>10. CASE UNCHANGED <<epoch, peersReady>> /\ ~Restarted(sup, proc) /\ TryMarkReady(s)
  <2>1. sup' \in Mirrors /\ Founded(sup)' /\ Coherent(sup)' /\ sys' \in SysStates
    BY <1>1, <1>2, <1>4, <1>10, MarkedReady DEF IInv
  <2> QED BY <1>4, <1>10, <2>1, MasterFrame DEF IInv, Typed
<1>11. CASE UNCHANGED <<epoch, peersReady, sys>> /\ ~Restarted(sup, proc) /\ sup' = s
  <2>1. Derived(s, s) BY <1>1 DEF Derived
  <2> QED BY <1>1, <1>2, <1>4, <1>11, <2>1, MirrorStep, MasterFrame DEF IInv, Typed
<1> QED BY <1>5, <1>7, <1>8, <1>9, <1>10, <1>11
\* request_reset, and a peer that falls silent or restarts.
EpochStep == ResetRequest \/ \E w \in Roles : PeerUnavailable(w)

\* A new epoch leaves no worker ready that has not shown it has it.
LEMMA EpochStepKeepsIInv == ASSUME IInv, EpochStep PROVE IInv'
<1>1. sup \in Mirrors /\ Founded(sup) /\ Coherent(sup) BY DEF IInv, Typed
<1>2. CASE ResetRequest
  <2>1. /\ UNCHANGED <<me, session, proc, rpc, trouble>> /\ epoch' = epoch + 1
        /\ peersReady' = FALSE /\ sys' = "RESETTING" /\ sup' = ScheduleRetry(sup)
        /\ reset' = NoReset \/ reset' = [epoch |-> epoch + 1, session |-> session]
    BY <1>2 DEF ResetRequest
  <2> QED BY <1>1, <2>1, StartOver, EpochFrame DEF IInv, Typed, SysStates
<1>3. ASSUME NEW w \in Roles, PeerUnavailable(w) PROVE IInv'
  <2>1. /\ UNCHANGED <<me, session, proc, rpc, reset>> /\ peersReady' = FALSE
        /\ sys' = AfterOutage(w) /\ trouble' \subseteq Troubles
    BY <1>3 DEF PeerUnavailable, Trouble, IInv, Typed
  <2>2. sys' \in SysStates BY <2>1, OutageTypes DEF IInv
  <2>3. CASE UNCHANGED <<epoch, sup>>
    <3>1. Founded(sup)' /\ Coherent(sup)' BY <1>1, <2>1, <2>3 DEF Founded, Evidence, Coherent
    <3> QED BY <1>1, <2>1, <2>2, <2>3, <3>1, MasterFrame
  <2>4. CASE epoch' = epoch + 1 /\ sup' = InvalidateEpochEvidence(sup)
    BY <1>1, <2>1, <2>2, <2>4, Invalidated, EpochFrame
  <2> QED BY <1>3, <2>3, <2>4 DEF PeerUnavailable
<1> QED BY <1>2, <1>3 DEF EpochStep

\* What the worker's own steps have to show.
LEMMA WorkerFrame ==
    ASSUME IInv, UNCHANGED <<me, peersReady, sys, session, epoch>>,
           trouble' \subseteq Troubles,
           proc' \in Processes /\ proc'.up = proc.up /\ proc'.instance = proc.instance,
           proc.session = session => /\ proc'.session = session /\ proc.epoch <= proc'.epoch
                                     /\ proc'.epoch <= epoch \/ proc'.epoch = proc.epoch,
           UNCHANGED sup,
           rpc' \in Rpcs /\ GoalsInOrder',
           UNCHANGED reset \/ reset' = NoReset
    PROVE  IInv'
<1>1. sup \in Mirrors /\ Founded(sup) BY DEF IInv, Typed
<1>2. Founded(sup)' BY <1>1, WorkerMoves DEF IInv, Founded, Evidence
<1>3. reset' \in [epoch : Nat, session : Nat] /\ ResetNotAhead'
  BY DEF IInv, Typed, ResetNotAhead, NoReset, GoalsInOrder
<1> QED BY <1>2, <1>3 DEF IInv, Typed, Coherent

\* _execute_initialize: the session of a goal is not older than the one it replaces.
LEMMA ExecuteKeepsIInv == ASSUME IInv, ExecuteInitialize PROVE IInv'
<1> DEFINE g == rpc.executing
<1>1. /\ UNCHANGED <<me, peersReady, sys, session, epoch, sup, reset>> /\ g # NoGoal
      /\ trouble' \subseteq Troubles
  BY DEF ExecuteInitialize, Trouble, IInv, Typed
<1>2. PICK outcome \in {"success", "failure"} :
        rpc' = [rpc EXCEPT !.executing = NoGoal, !.result = IF g.current THEN outcome ELSE @]
  BY DEF ExecuteInitialize
<1>3. \/ proc' = [proc EXCEPT !.session = g.session, !.health = "READY"]
      \/ proc' = [proc EXCEPT !.health = "INIT_BLOCKED"]
  BY DEF ExecuteInitialize
<1>4. /\ proc \in Processes /\ rpc \in Rpcs /\ g \in Goal /\ session \in Nat
      /\ rpc.goals \subseteq Goal
  BY DEF IInv, Typed, Rpcs
<1>5. NoGoal \in Goal BY DEF NoGoal, Goal
<1>6. /\ rpc' \in Rpcs /\ rpc'.goals = rpc.goals /\ rpc'.executing = NoGoal
  BY <1>2, <1>4, <1>5 DEF Rpcs
<1>7. /\ 1 <= g.session /\ proc.session <= g.session /\ g.session <= session
      /\ \A h \in rpc.goals : g.session <= h.session
  BY <1>1 DEF IInv, GoalsInOrder
<1>8. /\ proc' \in Processes /\ proc'.up = proc.up /\ proc'.instance = proc.instance
      /\ proc'.epoch = proc.epoch
      /\ proc'.session = g.session \/ proc'.session = proc.session
  <2>1. g.session \in Nat BY <1>4 DEF Goal
  <2>2. CASE proc' = [proc EXCEPT !.session = g.session, !.health = "READY"]
    <3> HIDE DEF g
    <3> QED BY <1>4, <2>1, <2>2 DEF Processes, Healths
  <2>3. CASE proc' = [proc EXCEPT !.health = "INIT_BLOCKED"]
    BY <1>4, <2>3 DEF Processes, Healths
  <2> QED BY <1>3, <2>2, <2>3
<1> HIDE DEF g
<1>9. g.session \in Nat /\ proc.session \in Nat /\ proc.epoch \in Nat
  BY <1>4 DEF Goal, Processes
<1>10. GoalsInOrder'
  BY <1>1, <1>6, <1>7, <1>8, <1>9 DEF IInv, GoalsInOrder
<1>11. proc.session = session => proc'.session = session BY <1>4, <1>7, <1>8, <1>9
<1> QED BY <1>1, <1>6, <1>8, <1>9, <1>10, <1>11, WorkerFrame

\* The other steps of a worker's process.
LEMMA ProcessKeepsIInv ==
    ASSUME IInv, HearMaster \/ MasterFallsSilent \/ TakeReset PROVE IInv'
<1>1. /\ UNCHANGED <<me, peersReady, sys, session, epoch, sup, rpc>>
      /\ UNCHANGED reset \/ reset' = NoReset
      /\ trouble' \subseteq Troubles
  BY DEF HearMaster, MasterFallsSilent, TakeReset, Trouble, IInv, Typed
<1>2. /\ proc \in Processes /\ epoch \in Nat /\ proc.epoch \in Nat
      /\ reset \in [epoch : Nat, session : Nat]
  BY DEF IInv, Typed, Processes
<1>3. CASE HearMaster
  <2>1. proc' = [proc EXCEPT !.epoch = epoch, !.hears = TRUE] /\ proc.epoch <= epoch
    BY <1>2, <1>3 DEF HearMaster, CanHear
  <2>2. /\ proc' \in Processes /\ proc'.up = proc.up /\ proc'.instance = proc.instance
        /\ proc'.session = proc.session /\ proc'.epoch = epoch
    BY <1>2, <2>1 DEF Processes
  <2>3. GoalsInOrder' BY <1>1, <2>2 DEF IInv, GoalsInOrder
  <2> QED BY <1>1, <1>2, <2>1, <2>2, <2>3, WorkerFrame DEF IInv, Typed
<1>4. CASE MasterFallsSilent
  <2>1. proc' = [proc EXCEPT !.hears = FALSE,
                             !.health = IF @ = "READY" THEN "DEGRADED" ELSE @]
    BY <1>4 DEF MasterFallsSilent
  <2>2. /\ proc' \in Processes /\ proc'.up = proc.up /\ proc'.instance = proc.instance
        /\ proc'.session = proc.session /\ proc'.epoch = proc.epoch
    BY <1>2, <2>1 DEF Processes, Healths
  <2>3. GoalsInOrder' BY <1>1, <2>2 DEF IInv, GoalsInOrder
  <2> QED BY <1>1, <1>2, <2>2, <2>3, WorkerFrame DEF IInv, Typed
<1>5. CASE TakeReset
  <2>1. \/ proc' = proc
        \/ /\ proc.session = reset.session /\ proc.epoch <= reset.epoch
           /\ proc' = [proc EXCEPT !.epoch = reset.epoch, !.health = "RECOVERING"]
    BY <1>2, <1>5 DEF TakeReset
  <2>2. /\ proc' \in Processes /\ proc'.up = proc.up /\ proc'.instance = proc.instance
        /\ proc'.session = proc.session
        /\ \/ proc'.epoch = proc.epoch
           \/ /\ proc.session = reset.session /\ proc.epoch <= reset.epoch
              /\ proc'.epoch = reset.epoch
    <3>1. CASE proc' = proc
      BY <1>2, <3>1
    <3>2. CASE /\ proc.session = reset.session /\ proc.epoch <= reset.epoch
               /\ proc' = [proc EXCEPT !.epoch = reset.epoch, !.health = "RECOVERING"]
      <4>1. reset.epoch \in Nat BY DEF IInv, Typed
      <4> QED BY <1>2, <3>2, <4>1 DEF Processes, Healths
    <3> QED BY <2>1, <3>1, <3>2
  <2>3. proc.session = session => /\ proc.epoch <= proc'.epoch
                                  /\ proc'.epoch <= epoch \/ proc'.epoch = proc.epoch
    BY <1>2, <2>2 DEF IInv, ResetNotAhead
  <2>4. GoalsInOrder' BY <1>1, <2>2 DEF IInv, GoalsInOrder
  <2> QED BY <1>1, <2>2, <2>3, <2>4, WorkerFrame DEF IInv, Typed
<1> QED BY <1>3, <1>4, <1>5

\* _handle_get_status: the answer is true when it is given.
LEMMA AnswerKeepsIInv == ASSUME IInv, AnswerStatus PROVE IInv'
<1>1. UNCHANGED <<me, peersReady, sys, session, epoch, proc, rpc, reset, trouble>> /\ proc.up
  BY DEF AnswerStatus
<1>2. PICK ahead \in BOOLEAN :
        sup' = [sup EXCEPT !.call = "answered",
                  !.answer = [instance |-> proc.instance, epoch |-> proc.epoch,
                              session |-> proc.session, ahead |-> ahead,
                              ready |-> /\ proc.health = "READY" /\ proc.hears
                                        /\ proc.session = session]]
  BY DEF AnswerStatus
<1> DEFINE given == [instance |-> proc.instance, epoch |-> proc.epoch,
                     session |-> proc.session, ahead |-> ahead,
                     ready |-> /\ proc.health = "READY" /\ proc.hears
                               /\ proc.session = session]
<1>3. proc \in Processes /\ sup \in Mirrors BY DEF IInv, Typed
<1>4. given \in Status BY <1>3 DEF Processes, Status
<1>5. Evidence(given) BY <1>3 DEF Evidence, IInv, Processes
<1>6. sup' = [sup EXCEPT !.call = "answered", !.answer = given] BY <1>2
<1> HIDE DEF given
<1>7. /\ sup' \in Mirrors /\ sup'.answer = given /\ sup'.status = sup.status
      /\ sup'.instance = sup.instance /\ sup'.ready = sup.ready /\ sup'.phase = sup.phase
      /\ sup'.deadline = sup.deadline /\ sup'.actionReady = sup.actionReady
  BY <1>3, <1>4, <1>6 DEF Mirrors
<1>8. Coherent(sup)' BY <1>7 DEF IInv, Coherent
<1>9. Founded(sup') BY <1>5, <1>7 DEF IInv, Founded
<1>10. Founded(sup)' BY <1>1, <1>9 DEF Founded, Evidence
<1> QED BY <1>1, <1>7, <1>8, <1>10, MasterFrame DEF IInv, Typed
\* A process that is not up, or has just been started, is not one a mirror speaks of.
LEMMA CrashKeepsIInv == ASSUME IInv, Crash \/ Restart PROVE IInv'
<1>1. /\ UNCHANGED <<me, peersReady, sys, session, epoch>> /\ trouble' \subseteq Troubles
      /\ UNCHANGED reset \/ reset' = NoReset
      /\ UNCHANGED rpc \/ rpc' = NoRpc
  BY DEF Crash, Restart, Trouble, IInv, Typed
<1>2. /\ proc \in Processes /\ sup \in Mirrors /\ rpc \in Rpcs /\ session \in Nat
      /\ proc.instance \in Nat
  BY DEF IInv, Typed, Processes
<1>3. /\ proc' \in Processes /\ proc'.session = 0 /\ proc'.instance # 0
      /\ \/ proc'.instance = proc.instance /\ ~proc'.up
         \/ proc'.instance = proc.instance + 1
  <2>1. NewProcess(proc.instance) \in Processes /\ NewProcess(proc.instance + 1) \in Processes
    BY <1>2 DEF NewProcess, Processes, Healths
  <2>2. CASE Crash
    <3>1. proc' = [NewProcess(proc.instance) EXCEPT !.up = FALSE] BY <2>2 DEF Crash
    <3> QED BY <1>2, <2>1, <3>1 DEF NewProcess, Processes, IInv
  <2>3. CASE Restart
    <3>1. proc' = NewProcess(proc.instance + 1) BY <2>3 DEF Restart
    <3> QED BY <1>2, <2>1, <3>1 DEF NewProcess
  <2> QED BY <2>2, <2>3
<1>4. /\ sup' \in Mirrors /\ sup'.answer = sup.answer /\ sup'.status = sup.status
      /\ sup'.instance = sup.instance /\ sup'.ready = sup.ready /\ sup'.phase = sup.phase
      /\ sup'.deadline = sup.deadline /\ sup'.actionReady = sup.actionReady
  BY <1>2 DEF Crash, Restart, Mirrors
<1>5. Coherent(sup)' BY <1>4 DEF IInv, Coherent
<1>6. Founded(sup)'
  <2>1. sup.answer \in Status /\ sup.status \in Status /\ sup.instance \in Nat
    BY <1>2 DEF Mirrors
  <2>2. ASSUME NEW st \in Status, Evidence(st)
        PROVE  /\ st.instance <= proc'.instance /\ (st.ready => st.instance # 0)
               /\ ~(proc'.up /\ st.instance = proc'.instance)
    BY <1>2, <1>3, <2>2 DEF Evidence, Status
  <2>3. Evidence(sup.answer)' /\ Evidence(sup.status)'
    <3>1. Evidence(sup.answer) /\ Evidence(sup.status) BY DEF IInv, Founded
    <3>2. ASSUME NEW st \in {sup.answer, sup.status}
          PROVE  /\ st.instance <= proc'.instance /\ (st.ready => st.instance # 0)
                 /\ ~(proc'.up /\ st.instance = proc'.instance)
      BY <2>1, <2>2, <3>1
    <3> QED BY <1>4, <3>2 DEF Evidence
  <2>4. sup'.instance <= proc'.instance /\ (proc'.up => proc'.instance # sup'.instance)
    BY <1>2, <1>3, <1>4, <2>1 DEF IInv, Founded
  <2> QED BY <1>4, <2>3, <2>4 DEF IInv, Founded
<1>7. rpc' \in Rpcs /\ GoalsInOrder'
  <2>1. CASE UNCHANGED rpc
    <3>1. rpc.goals \subseteq Goal /\ rpc.executing \in Goal BY <1>2 DEF Rpcs
    <3> QED BY <1>1, <1>2, <1>3, <2>1, <3>1 DEF IInv, GoalsInOrder, Goal
  <2>2. CASE rpc' = NoRpc
    BY <1>1, <1>2, <1>3, <2>2 DEF IInv, GoalsInOrder, NoRpc, NoGoal, Rpcs, Goal
  <2> QED BY <1>1, <2>1, <2>2
<1>8. reset' \in [epoch : Nat, session : Nat] /\ ResetNotAhead'
  BY <1>1 DEF IInv, Typed, ResetNotAhead, NoReset, GoalsInOrder
<1> QED BY <1>1, <1>3, <1>4, <1>5, <1>6, <1>7, <1>8 DEF IInv, Typed

\* A Master that is started again knows nothing, and everything under way is of a former
\* session.
LEMMA MasterRestartKeepsIInv == ASSUME IInv, MasterRestarts PROVE IInv'
<1>1. /\ UNCHANGED <<me, proc, reset>> /\ sys' = "BOOT" /\ session' = session + 1
      /\ epoch' = 0 /\ peersReady' = FALSE /\ sup' = UnknownWorker /\ rpc' = Abandoned(rpc)
      /\ trouble' \subseteq Troubles
  BY DEF MasterRestarts, Trouble, IInv, Typed
<1>2. /\ proc \in Processes /\ session \in Nat /\ reset \in [epoch : Nat, session : Nat]
  BY DEF IInv, Typed
<1>3. sup' \in Mirrors /\ Coherent(sup)'
  BY <1>1, UnknownDerived DEF IInv, Typed, Derived, Coherent
<1>4. Founded(sup)'
  BY <1>1, <1>2 DEF Founded, Evidence, UnknownWorker, NoStatus, Processes
<1>5. rpc' \in Rpcs /\ GoalsInOrder'
  <2>1. rpc.goals \subseteq Goal /\ rpc.executing \in Goal BY DEF IInv, Typed, Rpcs
  <2>2. /\ rpc' \in Rpcs /\ rpc'.executing.session = rpc.executing.session
        /\ \A g \in rpc'.goals : \E h \in rpc.goals : g.session = h.session
        /\ rpc'.executing # NoGoal => rpc.executing # NoGoal
    BY <1>1, AbandonedGoals DEF IInv
  <2>3. 1 <= session' /\ proc.session \in Nat /\ proc'.session <= session'
    BY <1>1, <1>2 DEF IInv, GoalsInOrder, Processes
  <2>4. \A g \in rpc'.goals :
           1 <= g.session /\ proc'.session <= g.session /\ g.session <= session'
    BY <1>1, <1>2, <2>1, <2>2 DEF IInv, GoalsInOrder, Goal
  <2>5. rpc'.executing # NoGoal =>
           /\ 1 <= rpc'.executing.session /\ proc'.session <= rpc'.executing.session
           /\ rpc'.executing.session <= session'
           /\ \A g \in rpc'.goals : rpc'.executing.session <= g.session
    BY <1>1, <1>2, <2>1, <2>2 DEF IInv, GoalsInOrder, Goal
  <2> QED BY <2>2, <2>3, <2>4, <2>5 DEF GoalsInOrder
<1>6. ResetNotAhead' BY <1>1, <1>2 DEF IInv, ResetNotAhead
<1>7. me' \in Roles /\ session' \in Nat /\ epoch' \in Nat /\ proc'.instance # 0
  BY <1>1, <1>2 DEF IInv, Typed
<1>8. Typed' BY <1>1, <1>2, <1>3, <1>5, <1>7 DEF Typed, SysStates
<1> QED BY <1>3, <1>4, <1>5, <1>6, <1>7, <1>8 DEF IInv

-----------------------------------------------------------------------------
(* The inductive invariant. *)

\* Nobody is ready at first, and nothing is under way.
LEMMA InitIInv == Init => IInv
<1> SUFFICES ASSUME Init PROVE IInv OBVIOUS
<1>1. sup \in Mirrors /\ Coherent(sup)
  BY UnknownDerived, NoStatusTyped
     DEF Init, Coherent, UnknownWorker, Mirrors, Phases, Waiting
<1>2. /\ proc \in Processes /\ proc.instance = 1 /\ proc.session = 0 /\ proc.epoch = 0
  BY DEF Init, NewProcess, Processes, Healths
<1>3. rpc \in Rpcs BY DEF Init, NoRpc, NoGoal, Rpcs, Goal
<1>4. reset \in [epoch : Nat, session : Nat] /\ ResetNotAhead
  BY DEF Init, NoReset, ResetNotAhead
<1>5. Typed BY <1>1, <1>2, <1>3, <1>4 DEF Init, Typed, SysStates
<1>6. Founded(sup) BY <1>2 DEF Init, Founded, Evidence, UnknownWorker, NoStatus
<1>7. GoalsInOrder BY <1>2 DEF Init, GoalsInOrder, NoRpc
<1> QED BY <1>1, <1>2, <1>4, <1>5, <1>6, <1>7 DEF IInv

\* Every step keeps it.
LEMMA NextIInv == IInv /\ [Next]_vars => IInv'
<1> SUFFICES ASSUME IInv, [Next]_vars PROVE IInv' OBVIOUS
<1>1. CASE MasterStep
  BY <1>1, TakeGoalKeepsIInv, InitializeResultKeepsIInv, StatusAnswerKeepsIInv,
     HeartbeatKeepsIInv, TimerStepKeepsIInv, AttemptKeepsIInv DEF MasterStep, TimerStep
<1>2. CASE WorkerStep
  BY <1>2, ExecuteKeepsIInv, ProcessKeepsIInv, AnswerKeepsIInv DEF WorkerStep
<1>3. CASE Operator \/ PauseConfirmed \/ LineFault \/ PeersGetReady
  BY <1>3, LineStepKeepsIInv, EpochStepKeepsIInv DEF Operator, LineStep, EpochStep
<1>4. CASE \E w \in Roles : PeerUnavailable(w) BY <1>4, EpochStepKeepsIInv DEF EpochStep
<1>5. CASE Initialize BY <1>5, AttemptKeepsIInv
<1>6. CASE MasterRestarts BY <1>6, MasterRestartKeepsIInv
<1>7. CASE Crash \/ Restart BY <1>7, CrashKeepsIInv
<1>8. CASE UNCHANGED vars
  BY <1>8 DEF vars, IInv, Typed, Coherent, Founded, Evidence, GoalsInOrder, ResetNotAhead
<1> QED BY <1>1, <1>2, <1>3, <1>4, <1>5, <1>6, <1>7, <1>8 DEF Next

\* The inductive invariant holds in every state.
LEMMA Invariance == Spec => []IInv
BY InitIInv, NextIInv, PTL DEF Spec

-----------------------------------------------------------------------------
(* The theorems. *)

\* Types, and the shape of a mirror: a ready worker is in the phase READY or asked for
\* its status once more, and a deadline runs only while something is awaited
\* (WorkerRuntimeState).
THEOREM MirrorShape == Spec => []TypeOK
<1>1. IInv => TypeOK BY DEF IInv, Typed, Coherent, TypeOK, Mirrors, Processes, Rpcs
<1> QED BY <1>1, Invariance, PTL

\* A worker the Master counts as ready has its session and its command epoch, whatever
\* crashed and however often (can_mark_ready, invalidate_epoch_evidence).
THEOREM ReadyMeansObedient == Spec => []ReadyWorkerObeys
<1>1. IInv => ReadyWorkerObeys BY DEF IInv, Founded, ReadyWorkerObeys
<1> QED BY <1>1, Invariance, PTL
===============================================================================

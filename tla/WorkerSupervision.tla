-------------------------- MODULE WorkerSupervision --------------------------
(* How the Master brings a worker (Control, Vision or Log) to READY and keeps it
   there: the InitializeNode action, the GetNodeStatus cross-check, the heartbeats
   of both directions and the command epoch (worker_supervision.py, the worker
   block of master_node.py, and the worker's half in node_base.py).  Processes
   crash and restart, heartbeats go missing, answers come after their deadline.

   One worker, `me`, is followed; its two peers touch it only through the command
   epoch, the system state and whether they are ready.  Time is reduced to what it
   decides: a deadline that is set, a heartbeat that is fresh.  A heartbeat is
   handled as it is published; that an older one is the last to have arrived is
   `ahead`, the comparison of the sequence numbers.                            *)
EXTENDS Naturals, FiniteSets

CONSTANTS Troubles,    \* the troubles that may happen, each at most once
          MaxTroubles, \* how many of them in one run
          MaxEpoch     \* bound on the command epoch a RESET may start

ASSUME SupervisionAssumption ==
    /\ Troubles \subseteq {"crash", "late", "initfails", "silence", "peer", "linefault",
                           "master"}
    /\ MaxTroubles \in Nat /\ MaxEpoch \in Nat

VARIABLES me,         \* the worker that is followed
          sys,        \* the Master's system state
          session,    \* its session, one per Master process
          epoch,      \* its command epoch
          peersReady, \* the other two workers are ready, with fresh evidence
          sup,        \* the Master's mirror of the worker (WorkerRuntimeState)
          proc,       \* the worker process
          rpc,        \* its InitializeNode goals and results
          reset,      \* the RESET command on its way, if any
          trouble     \* the troubles so far

vars == <<me, sys, session, epoch, peersReady, sup, proc, rpc, reset, trouble>>

Roles == {"control", "vision", "log"}
Phases == {"IDLE", "WAITING_GOAL_RESPONSE", "WAITING_RESULT", "WAITING_STATUS",
           "RETRY_WAIT", "READY"}
SysStates == {"BOOT", "INITIALIZING", "READY", "RUN_SYS", "PAUSING", "PAUSED",
              "FAULT_STOP", "RESETTING"}
Healths == {"STARTING", "READY", "DEGRADED", "INIT_BLOCKED", "RECOVERING"}

\* What GetNodeStatus reports.  ready: READY, in the Master's session and hearing
\* it.  ahead: the worker's last heartbeat had not reached the Master.
NoStatus == [instance |-> 0, session |-> 0, epoch |-> 0, ahead |-> FALSE, ready |-> FALSE]
NoGoal == [current |-> FALSE, session |-> 0]
NoReset == [epoch |-> 0, session |-> 0]
NoRpc == [goals |-> {}, executing |-> NoGoal, result |-> "none"]

\* `call` and `answer` are the GetNodeStatus call of status_request_id, `status`
\* its recorded outcome while status_verified; `beatReady` says that the last
\* heartbeat was READY in this session.
UnknownWorker ==
    [phase |-> "IDLE", deadline |-> FALSE, poll |-> FALSE,
     call |-> "none", answer |-> NoStatus, status |-> NoStatus,
     actionReady |-> FALSE, verified |-> FALSE, ready |-> FALSE,
     instance |-> 0, beatReady |-> FALSE, fresh |-> FALSE, outage |-> FALSE]

NewProcess(n) ==
    [up |-> TRUE, instance |-> n, health |-> "STARTING", session |-> 0, epoch |-> 0,
     hears |-> FALSE]

Init ==
    /\ me \in Roles
    /\ sys = "BOOT" /\ session = 1 /\ epoch = 0
    /\ peersReady = FALSE
    /\ sup = UnknownWorker
    /\ proc = NewProcess(1)
    /\ rpc = NoRpc
    /\ reset = NoReset
    /\ trouble = {}

Trouble(kind) ==
    /\ kind \in Troubles \ trouble /\ Cardinality(trouble) < MaxTroubles
    /\ trouble' = trouble \cup {kind}

-----------------------------------------------------------------------------
(* WorkerRuntimeState: the transitions of one mirror. *)

\* Slip: the evidence goes, the worker stays ready.
UnverifiedStillReady(s) == [s EXCEPT !.verified = FALSE, !.status = NoStatus]

Unverified(s) == [s EXCEPT !.verified = FALSE, !.ready = FALSE, !.status = NoStatus]
NotAsking(s) == [s EXCEPT !.call = "none", !.answer = NoStatus]

BeginAttempt(s) ==
    [NotAsking(Unverified(s)) EXCEPT
        !.phase = "WAITING_GOAL_RESPONSE", !.deadline = TRUE, !.poll = FALSE,
        !.actionReady = FALSE]

MarkGoalAccepted(s) == [s EXCEPT !.phase = "WAITING_RESULT"]

MarkActionReady(s) ==
    [s EXCEPT !.phase = "WAITING_STATUS", !.actionReady = TRUE, !.deadline = TRUE]

BeginStatusCheck(s, call) ==
    [s EXCEPT !.phase = "WAITING_STATUS", !.call = call, !.answer = NoStatus,
              !.poll = FALSE]

\* Slip: the poll is never due.
ScheduleStatusPollUndue(s) == [NotAsking(s) EXCEPT !.phase = "WAITING_STATUS"]

ScheduleStatusPoll(s) == [NotAsking(s) EXCEPT !.phase = "WAITING_STATUS", !.poll = TRUE]

\* Slip: what was confirmed for the former epoch still counts.
InvalidateEpochEvidenceOnlyPolls(s) ==
    IF s.actionReady THEN ScheduleStatusPoll([s EXCEPT !.deadline = FALSE]) ELSE s

InvalidateEpochEvidence(s) ==
    LET dropped == [NotAsking(Unverified(s)) EXCEPT !.deadline = FALSE]
    IN  IF s.actionReady THEN ScheduleStatusPoll(dropped) ELSE dropped

RecordStatus(s) == [NotAsking(s) EXCEPT !.verified = TRUE, !.status = s.answer]

ScheduleRetry(s) ==
    [NotAsking(Unverified(s)) EXCEPT
        !.phase = "RETRY_WAIT", !.deadline = FALSE, !.poll = FALSE, !.actionReady = FALSE]

Restarted(s, p) == s.instance # 0 /\ s.instance # p.instance

AcceptHeartbeat(s, p) ==
    LET kept == IF Restarted(s, p) THEN [Unverified(s) EXCEPT !.actionReady = FALSE] ELSE s
    IN  [kept EXCEPT !.instance = p.instance, !.fresh = TRUE, !.outage = FALSE,
                     !.beatReady = (p.health = "READY" /\ p.session = session),
                     !.status.ahead = FALSE, !.answer.ahead = FALSE]

CanMarkReady(s) ==
    /\ s.actionReady
    /\ s.verified
    /\ s.status.instance = s.instance
    /\ s.status.session = session
    /\ s.status.epoch = epoch
    /\ ~s.status.ahead
    /\ s.status.ready
    /\ s.beatReady
    /\ s.fresh

MarkReady(s) ==
    [s EXCEPT !.phase = "READY", !.ready = TRUE, !.deadline = FALSE, !.poll = FALSE]

\* _all_workers_ready_for_session, with the worker's mirror at s.
AllWorkersReady(s) == peersReady /\ s.ready /\ CanMarkReady(s)

-----------------------------------------------------------------------------
(* Steps the Master's handlers share. *)

InitializationAllowed ==
    \/ sys \in {"INITIALIZING", "READY", "PAUSED", "RESETTING"}
    \/ sys = "RUN_SYS" /\ me = "log"

\* _try_mark_worker_ready with the mirror at s, and the end of INITIALIZING.
TryMarkReady(s) ==
    LET marked == IF CanMarkReady(s) /\ ~s.ready THEN MarkReady(s) ELSE s
    IN  /\ sup' = marked
        /\ sys' = IF sys = "INITIALIZING" /\ AllWorkersReady(marked) THEN "READY" ELSE sys

\* _handle_worker_unavailable: the mirror, and what becomes of the line.
Unavailable(s) ==
    LET known == [Unverified(s) EXCEPT !.outage = TRUE]
    IN  IF sys = "INITIALIZING" /\ s.phase = "RETRY_WAIT" THEN known ELSE ScheduleRetry(known)

\* Slip: only Control's outages touch the line.
AfterOutageOfControl(w) ==
    IF w = "control" /\ sys \in {"RUN_SYS", "PAUSING"} THEN "FAULT_STOP" ELSE sys

AfterOutage(w) ==
    IF w = "control" /\ sys \in {"RUN_SYS", "PAUSING"} THEN "FAULT_STOP"
    ELSE IF w = "vision" /\ sys = "RUN_SYS" THEN "PAUSING"
    ELSE sys

\* _request_worker_status: the service takes the call, is away, or dies with it.
StatusRequested(s) ==
    IF proc.up THEN {BeginStatusCheck(s, "asked")}
    ELSE {ScheduleStatusPoll(s), BeginStatusCheck(s, "lost")}

RequestStatus(s) == sup' \in StatusRequested(s)

\* The goals of a former request stay on their way, and nobody waits for them.
Abandoned(r) ==
    [r EXCEPT !.goals = {[g EXCEPT !.current = FALSE] : g \in @},
              !.executing.current = FALSE, !.result = "none"]

\* _send_initialize_goal: the server takes the goal, is away, or dies with it.
Attempts(s) ==
    IF proc.up THEN {BeginAttempt(s)} ELSE {BeginAttempt(s), ScheduleRetry(s)}
GoalSent ==
    [Abandoned(rpc) EXCEPT
        !.goals = IF proc.up THEN @ \cup {[current |-> TRUE, session |-> session]} ELSE @]

-----------------------------------------------------------------------------
(* The Master: initialization. *)

\* request_initialize and _start_worker_initialization.
Initialize ==
    /\ sys = "BOOT"
    /\ sys' = "INITIALIZING"
    /\ peersReady' = FALSE
    /\ sup' \in Attempts(UnknownWorker)
    /\ rpc' = GoalSent
    /\ UNCHANGED <<me, session, epoch, proc, reset, trouble>>

\* _handle_initialize_goal at the worker, and _handle_initialize_goal_response.
\* Goals arrive in the order they were sent.
TakeGoal ==
    \E g \in rpc.goals :
        LET accepted == rpc.executing = NoGoal
        IN  /\ \A h \in rpc.goals : g.session <= h.session /\ (g.current => h.current)
            /\ rpc' = [rpc EXCEPT !.goals = @ \ {g},
                                  !.executing = IF accepted THEN g ELSE @]
            /\ sup' = IF ~g.current \/ sup.phase # "WAITING_GOAL_RESPONSE" THEN sup
                      ELSE IF accepted THEN MarkGoalAccepted(sup) ELSE ScheduleRetry(sup)
            /\ UNCHANGED <<me, peersReady, sys, session, epoch, proc, reset, trouble>>

\* _handle_initialize_result.
InitializeResult ==
    /\ rpc.result # "none"
    /\ rpc' = [rpc EXCEPT !.result = "none"]
    /\ IF sup.phase # "WAITING_RESULT" THEN UNCHANGED sup
       ELSE IF rpc.result = "success" THEN RequestStatus(MarkActionReady(sup))
       ELSE sup' = ScheduleRetry(sup)
    /\ UNCHANGED <<me, peersReady, sys, session, epoch, proc, reset, trouble>>

\* _handle_worker_status.
StatusAnswer ==
    LET recorded == RecordStatus(sup)
    IN  /\ sup.phase = "WAITING_STATUS" /\ sup.call = "answered"
        /\ \/ /\ sup.answer.session # session
              /\ sup' = ScheduleRetry(sup)
              /\ UNCHANGED sys
           \/ /\ sup.answer.session = session
              /\ CanMarkReady(recorded)
              /\ TryMarkReady(recorded)
           \/ /\ sup.answer.session = session
              /\ ~CanMarkReady(recorded)
              /\ sup' = ScheduleStatusPoll(recorded)
              /\ UNCHANGED sys
        /\ UNCHANGED <<me, peersReady, session, epoch, proc, rpc, reset, trouble>>

-----------------------------------------------------------------------------
(* The Master: heartbeats of the workers and the watchdog. *)

\* _handle_worker_heartbeat.
WorkerHeartbeat ==
    LET s == AcceptHeartbeat(sup, proc)
        recovered == sup.outage
        ready == proc.health = "READY"
    IN  /\ proc.up
        /\ \/ /\ Restarted(sup, proc)
              /\ epoch' = epoch + 1
              /\ peersReady' = FALSE
              /\ sup' = Unavailable(s)
              /\ sys' = AfterOutage(me)
           \/ /\ ~Restarted(sup, proc) /\ ~ready /\ s.ready
              /\ sup' = Unavailable(s)
              /\ sys' = AfterOutage(me)
              /\ UNCHANGED <<epoch, peersReady>>
           \/ /\ ~Restarted(sup, proc) /\ ready /\ recovered /\ s.actionReady
              /\ RequestStatus(s)
              /\ UNCHANGED <<epoch, peersReady, sys>>
           \/ /\ ~Restarted(sup, proc)
              /\ IF ready THEN ~(recovered /\ s.actionReady) ELSE ~s.ready
              /\ IF ready /\ s.verified THEN TryMarkReady(s)
                 ELSE sup' = s /\ UNCHANGED sys
              /\ UNCHANGED <<epoch, peersReady>>
        /\ UNCHANGED <<me, session, proc, rpc, reset, trouble>>

\* Two seconds without a heartbeat of the worker.
HeartbeatGoesStale ==
    /\ sup.fresh
    /\ IF proc.up THEN Trouble("late") ELSE UNCHANGED trouble
    /\ sup' = [sup EXCEPT !.fresh = FALSE]
    /\ UNCHANGED <<me, peersReady, sys, session, epoch, proc, rpc, reset>>

\* What the Master waits for from w can no longer arrive.
Overdue ==
    CASE sup.phase = "WAITING_GOAL_RESPONSE" -> \A g \in rpc.goals : ~g.current
      [] sup.phase = "WAITING_RESULT" ->
            rpc.result = "none" /\ ~rpc.executing.current
      [] OTHER -> \/ sup.call = "lost"
                  \/ ~(proc.up /\ proc.health = "READY" /\ proc.hears)

\* _advance_worker_initialization: a deadline that has passed.
InitializationTimesOut ==
    /\ sup.phase \in {"WAITING_GOAL_RESPONSE", "WAITING_RESULT", "WAITING_STATUS"}
    /\ sup.deadline
    /\ IF Overdue THEN UNCHANGED trouble ELSE Trouble("late")
    /\ sup' = ScheduleRetry(sup)
    /\ UNCHANGED <<me, peersReady, sys, session, epoch, proc, rpc, reset>>

\* ... a status poll that is due.
StatusPollDue ==
    /\ sup.phase = "WAITING_STATUS" /\ sup.call = "none" /\ sup.poll
    /\ sup.actionReady
    /\ RequestStatus(sup)
    /\ UNCHANGED <<me, peersReady, sys, session, epoch, proc, rpc, reset, trouble>>

\* ... a retry that is due.  A RESET command is there within the retry interval.
RetryDue ==
    /\ sup.phase = "RETRY_WAIT" /\ reset = NoReset
    /\ InitializationAllowed
    /\ sup' \in Attempts(sup)
    /\ rpc' = GoalSent
    /\ UNCHANGED <<me, peersReady, sys, session, epoch, proc, reset, trouble>>

\* ... a worker that fell silent before INITIALIZING was over.
ReadyExpires ==
    /\ sys = "INITIALIZING" /\ sup.phase = "READY" /\ ~sup.fresh
    /\ sup' = ScheduleRetry(sup)
    /\ UNCHANGED <<me, peersReady, sys, session, epoch, proc, rpc, reset, trouble>>

\* _check_worker_heartbeats: an outage not reported yet.
OutageFound ==
    /\ sys \notin {"BOOT", "INITIALIZING", "FAULT_STOP"}
    /\ ~sup.fresh /\ ~sup.outage
    /\ sup' = Unavailable(sup)
    /\ sys' = AfterOutage(me)
    /\ UNCHANGED <<me, peersReady, session, epoch, proc, rpc, reset, trouble>>

-----------------------------------------------------------------------------
(* The Master: the operator's requests, as far as the workers see them. *)

Sys(from, to) ==
    /\ sys \in from
    /\ sys' \in to
    /\ UNCHANGED <<me, peersReady, session, epoch, sup, proc, rpc, reset, trouble>>

\* A START or RESUME whose guard holds, and its confirmation (MasterSystem has
\* what lies between the two).
Run == AllWorkersReady(sup) /\ Sys({"READY", "PAUSED"}, {"RUN_SYS"})
PauseRequest == Sys({"RUN_SYS"}, {"PAUSING"})
PauseConfirmed == Sys({"PAUSING"}, {"PAUSED"})
\* confirm_reset_completed: it does not wait for the workers.
ResetDone == Sys({"RESETTING"}, {"READY", "PAUSED"})

\* A critical fault of the line.
LineFault ==
    /\ Trouble("linefault")
    /\ sys \in {"RUN_SYS", "PAUSING"}
    /\ sys' = "FAULT_STOP"
    /\ UNCHANGED <<me, peersReady, session, epoch, sup, proc, rpc, reset>>

\* request_reset and _start_reset_sequence: a new epoch, every worker initialized
\* again, and the RESET command.
ResetRequest ==
    /\ sys = "FAULT_STOP" /\ epoch < MaxEpoch
    /\ sys' = "RESETTING"
    /\ epoch' = epoch + 1
    /\ peersReady' = FALSE
    /\ sup' = ScheduleRetry(sup)
    /\ reset' = IF proc.up THEN [epoch |-> epoch + 1, session |-> session] ELSE NoReset
    /\ UNCHANGED <<me, session, proc, rpc, trouble>>

\* The Master process is started again: a new session, command epoch zero.
MasterRestarts ==
    /\ Trouble("master")
    /\ sys' = "BOOT" /\ session' = session + 1 /\ epoch' = 0
    /\ peersReady' = FALSE
    /\ sup' = UnknownWorker
    /\ rpc' = Abandoned(rpc)
    /\ UNCHANGED <<me, proc, reset>>

-----------------------------------------------------------------------------
(* The peers, as their handlers touch this worker. *)

\* A peer is READY again (_try_mark_worker_ready), and INITIALIZING may end.
PeersGetReady ==
    /\ sys # "BOOT" /\ ~peersReady
    /\ peersReady' = TRUE
    /\ sys' = IF sys = "INITIALIZING" /\ sup.ready /\ CanMarkReady(sup) THEN "READY" ELSE sys
    /\ UNCHANGED <<me, session, epoch, sup, proc, rpc, reset, trouble>>

\* A peer falls silent or restarts; a restart advances the epoch for the others
\* (_advance_command_epoch).
PeerUnavailable(w) ==
    /\ Trouble("peer")
    /\ sys # "BOOT" /\ w # me
    /\ peersReady' = FALSE
    /\ sys' = AfterOutage(w)
    /\ \/ UNCHANGED <<epoch, sup>>
       \/ /\ epoch' = epoch + 1
          /\ sup' = InvalidateEpochEvidence(sup)
    /\ UNCHANGED <<me, session, proc, rpc, reset>>

-----------------------------------------------------------------------------
(* The worker (node_base.py). *)

\* _execute_initialize.
ExecuteInitialize ==
    LET g == rpc.executing
        Finished(outcome) == rpc' = [rpc EXCEPT !.executing = NoGoal,
                                               !.result = IF g.current THEN outcome ELSE @]
    IN  /\ g # NoGoal
        /\ \/ /\ proc' = [proc EXCEPT !.session = g.session, !.health = "READY"]
              /\ Finished("success")
              /\ UNCHANGED trouble
           \/ /\ Trouble("initfails")
              /\ proc' = [proc EXCEPT !.health = "INIT_BLOCKED"]
              /\ Finished("failure")
        /\ UNCHANGED <<me, peersReady, sys, session, epoch, sup, reset>>

\* A heartbeat of the Master that _handle_master_heartbeat does not drop.
CanHear == proc.session \in {0, session} /\ epoch >= proc.epoch

HearMaster ==
    /\ proc.up /\ CanHear
    /\ proc.epoch # epoch \/ ~proc.hears
    /\ proc' = [proc EXCEPT !.epoch = epoch, !.hears = TRUE]
    /\ UNCHANGED <<me, peersReady, sys, session, epoch, sup, rpc, reset, trouble>>

\* _check_master_heartbeat: two seconds without one.
MasterFallsSilent ==
    /\ proc.up
    /\ proc.hears \/ proc.health = "READY"
    /\ IF CanHear THEN Trouble("silence") ELSE UNCHANGED trouble
    /\ proc' = [proc EXCEPT !.hears = FALSE,
                            !.health = IF @ = "READY" THEN "DEGRADED" ELSE @]
    /\ UNCHANGED <<me, peersReady, sys, session, epoch, sup, rpc, reset>>

\* _handle_system_command with RESET.
TakeReset ==
    /\ reset # NoReset
    /\ reset' = NoReset
    /\ proc' = IF proc.session # reset.session \/ reset.epoch < proc.epoch THEN proc
               ELSE [proc EXCEPT !.epoch = reset.epoch, !.health = "RECOVERING"]
    /\ UNCHANGED <<me, peersReady, sys, session, epoch, sup, rpc, trouble>>

\* _handle_get_status.
AnswerStatus ==
    /\ proc.up /\ sup.call = "asked"
    /\ \E ahead \in BOOLEAN :
          sup' = [sup EXCEPT !.call = "answered",
                    !.answer = [instance |-> proc.instance, epoch |-> proc.epoch,
                                   session |-> proc.session, ahead |-> ahead,
                                   ready |-> /\ proc.health = "READY" /\ proc.hears
                                             /\ proc.session = session]]
    /\ UNCHANGED <<me, peersReady, sys, session, epoch, proc, rpc, reset, trouble>>

\* A worker process dies: what it was sent or was about to answer is lost.
Crash ==
    /\ Trouble("crash")
    /\ proc.up
    /\ proc' = [NewProcess(proc.instance) EXCEPT !.up = FALSE]
    /\ rpc' = NoRpc
    /\ sup' = [sup EXCEPT !.call = IF @ = "asked" THEN "lost" ELSE @]
    /\ reset' = NoReset
    /\ UNCHANGED <<me, peersReady, sys, session, epoch>>

Restart ==
    /\ ~proc.up
    /\ proc' = NewProcess(proc.instance + 1)
    /\ UNCHANGED <<me, peersReady, sys, session, epoch, sup, rpc, reset, trouble>>

-----------------------------------------------------------------------------
\* What the Master, the workers and the network do by themselves.
MasterStep ==
    \/ TakeGoal \/ InitializeResult \/ StatusAnswer \/ WorkerHeartbeat
    \/ InitializationTimesOut \/ StatusPollDue \/ RetryDue
    \/ ReadyExpires \/ OutageFound \/ HeartbeatGoesStale

WorkerStep ==
    \/ ExecuteInitialize \/ HearMaster \/ MasterFallsSilent
    \/ TakeReset \/ AnswerStatus

Operator == Run \/ PauseRequest \/ ResetRequest \/ ResetDone

Next ==
    \/ Initialize \/ PauseConfirmed \/ Operator \/ LineFault \/ MasterRestarts
    \/ MasterStep \/ WorkerStep \/ Crash \/ Restart
    \/ PeersGetReady \/ \E w \in Roles : PeerUnavailable(w)

Spec == Init /\ [][Next]_vars

-----------------------------------------------------------------------------
(* Fairness: the executors of the Master and of the worker run what is due, the
   network delivers, time passes; a crashed process need not come back, the
   operator need not ask for anything.                                         *)
Fairness ==
    /\ WF_vars(Initialize) /\ WF_vars(PauseConfirmed) /\ WF_vars(PeersGetReady)
    /\ WF_vars(TakeGoal) /\ WF_vars(InitializeResult) /\ WF_vars(StatusAnswer)
    /\ WF_vars(WorkerHeartbeat) /\ WF_vars(HeartbeatGoesStale) /\ WF_vars(InitializationTimesOut)
    /\ WF_vars(StatusPollDue) /\ WF_vars(RetryDue) /\ WF_vars(ReadyExpires)
    /\ WF_vars(OutageFound) /\ WF_vars(ExecuteInitialize) /\ WF_vars(HearMaster)
    /\ WF_vars(MasterFallsSilent) /\ WF_vars(TakeReset) /\ WF_vars(AnswerStatus)

FairSpec == Spec /\ Fairness

-----------------------------------------------------------------------------
(* Properties. *)

Status == [instance : Nat, session : Nat, epoch : Nat, ahead : BOOLEAN, ready : BOOLEAN]
Goal == [current : BOOLEAN, session : Nat]
Waiting == {"WAITING_GOAL_RESPONSE", "WAITING_RESULT", "WAITING_STATUS"}

\* Types, and how the fields of a mirror belong together: a ready worker is in the
\* phase READY, or asked for its status once more by the heartbeat after an outage; a
\* deadline runs only while something is awaited (worker_supervision.py).
TypeOK ==
    /\ me \in Roles /\ sys \in SysStates /\ session \in Nat /\ epoch \in Nat
    /\ peersReady \in BOOLEAN
    /\ sup \in [phase : Phases, deadline : BOOLEAN, poll : BOOLEAN,
                call : {"none", "asked", "lost", "answered"},
                answer : Status, status : Status,
                actionReady : BOOLEAN, verified : BOOLEAN, ready : BOOLEAN,
                instance : Nat, beatReady : BOOLEAN, fresh : BOOLEAN, outage : BOOLEAN]
    /\ sup.phase = "READY" => sup.ready
    /\ sup.ready => sup.phase \in {"READY", "WAITING_STATUS"}
    /\ sup.deadline => sup.phase \in Waiting
    /\ proc \in [up : BOOLEAN, instance : Nat, health : Healths, session : Nat,
                 epoch : Nat, hears : BOOLEAN]
    /\ rpc.goals \subseteq Goal /\ rpc.executing \in Goal
    /\ rpc.result \in {"none", "success", "failure"}
    /\ reset \in [epoch : Nat, session : Nat]
    /\ trouble \subseteq Troubles

\* A worker the Master counts as ready would take its commands: the process whose
\* heartbeats the Master hears was initialized in this session and has this command
\* epoch, so validate_command_header refuses nothing.  Restarts of the worker, of a
\* peer and of the Master lie between the three pieces of evidence.
ReadyWorkerObeys ==
    sup.ready /\ proc.up /\ proc.instance = sup.instance
        => proc.session = session /\ proc.epoch = epoch

\* Left by invalidate_epoch_evidence without a deadline and not READY: nothing
\* initializes it again (README, section 5).
Forsaken == sup.phase \in Waiting /\ ~sup.deadline /\ proc.health # "READY"
\* A command epoch from a former Master: every heartbeat of this one is dropped.
Deaf == proc.epoch > epoch
Away == ~proc.up \/ sys = "FAULT_STOP"

\* Whatever happened, a live worker becomes ready again by itself (or the line is in
\* FAULT_STOP), except in the two states named above: retries, polls and timeouts of
\* _advance_worker_initialization leave no other way to stay behind.
WorkerSettles == (~sup.ready /\ ~Away) ~> (sup.ready \/ Away \/ Forsaken \/ Deaf)

\* A line that runs without its Control or Vision (dead, or a new process that was
\* never initialized) is stopped (_handle_worker_unavailable).
LineStopsWithoutWorker ==
    (sys = "RUN_SYS" /\ me # "log" /\ ~(proc.up /\ proc.session = session))
        ~> (sys # "RUN_SYS")
=============================================================================

----------------------------- MODULE MasterSystem -----------------------------
(***************************************************************************)
(* The Master's system state machine with everything that drives it:       *)
(* operator requests, worker outages, the queue pause, the deadlines of    *)
(* the 0.1 s timer, shutdown, and the conveyors behind Control             *)
(* (master_node.py, system_fsm.py), in the hardware profile.               *)
(*                                                                         *)
(* The Master's callbacks share one mutually exclusive group: each action  *)
(* below is one whole callback.  What the product tracking reports to the  *)
(* state machine (an integrity fault, a recoverable pause, a targeted      *)
(* RESUME, a failed alignment check) is a choice here and modelled in      *)
(* MasterLine.                                                             *)
(***************************************************************************)
EXTENDS Integers, Sequences, FiniteSets, Functions

CONSTANTS
    Conveyors,     \* UPPER and LOWER
    CanFail,       \* the workers that may fail or restart, and the Mega
    Stations,      \* the stations whose captures may block on the queue
    LineFaults,    \* whether the product tracking may report a fault
    Exits,         \* whether the operator may ask the process to exit
    MaxOrders      \* bound: commands under way to Control

Workers == {"control", "vision", "log"}

ASSUME SystemAssumption ==
    /\ Conveyors # {}
    /\ CanFail \subseteq Workers \cup {"mega"}
    /\ LineFaults \in BOOLEAN /\ Exits \in BOOLEAN
    /\ MaxOrders \in Nat \ {0}

VARIABLES
    systemState,
    pendingRun,        \* _pending_run_confirmation
    pauseReason,
    recoveryPolicy,
    lineClearConfirmed,\* equipment.line_clear_confirmed
    mirror,            \* equipment.conveyor_running / conveyor_stopped
    deadlines,         \* the armed ones of the pause, run and shutdown deadlines
    shutdownPhase

fsmVars == <<systemState, pendingRun, pauseReason, recoveryPolicy, lineClearConfirmed,
             mirror, deadlines, shutdownPhase>>

VARIABLES
    pausedByQueue, queueRecovered,
    ready,             \* workers READY for the session and epoch
    initializing       \* workers whose InitializeNode or status poll is under way

VARIABLES              \* outside the Master
    orders,            \* conveyor commands published and not yet applied
    conveyor,          \* what each conveyor does: "run", "hold" or "stop"
    report,            \* the last EquipmentState (keep-last 1) and if it is unread
    controlSession,    \* Control has a session: it obeys commands and is believed
    capture,           \* of each station: whether Vision is "taking" it, has it
                       \* "blocked" on the queue or "enqueued"
    feedback,          \* stations with an ENQUEUE_BLOCKED feedback under way
    queueReport        \* the last VisionQueueState and whether it is unread

VARIABLES              \* history
    ordered,           \* the last command published for each conveyor
    runRequester,      \* who asked for the run that is awaited
    tainted            \* a LINE_CLEAR fault happened and the ledger is not cleared

queueVars == <<pausedByQueue, queueRecovered>>
workerVars == <<ready, initializing, controlSession>>
plantVars == <<conveyor, report>>
orderVars == <<orders, ordered>>
visionVars == <<capture, feedback, queueReport>>
historyVars == <<runRequester, tainted>>
vars == <<fsmVars, queueVars, workerVars, plantVars, orderVars, visionVars, historyVars>>

SystemStates == {"BOOT", "INITIALIZING", "READY", "RUN_SYS", "PAUSING", "PAUSED",
                 "FAULT_STOP", "RESETTING"}
\* DEVICE_RECOVERY_AUTO is "AUTO"; after any other reason only the operator
\* resumes, and "MANUAL" stands for them all.
PauseReasons == {"NONE", "AUTO", "MANUAL"}
Policies == {"NONE", "LINE_CLEAR", "EQUIPMENT_CHECK"}
Motions == {"run", "hold", "stop"}

\* Every variable has its type.
TypeOK ==
    /\ systemState \in SystemStates
    /\ pendingRun \in BOOLEAN
    /\ pauseReason \in PauseReasons
    /\ recoveryPolicy \in Policies
    /\ lineClearConfirmed \in BOOLEAN
    /\ mirror \in [Conveyors -> Motions \cup {"unknown"}]
    /\ deadlines \subseteq {"pause", "run", "shutdown"}
    /\ shutdownPhase \in {"IDLE", "WAITING_STOP", "BLOCKED", "READY_TO_EXIT"}
    /\ pausedByQueue \in BOOLEAN /\ queueRecovered \in BOOLEAN
    /\ ready \subseteq Workers /\ initializing \subseteq Workers
    /\ controlSession \in BOOLEAN
    /\ orders \in Seq([to : {"run", "stop"}, who : SUBSET Conveyors])
    /\ ordered \in [Conveyors -> {"run", "stop"}]
    /\ conveyor \in [Conveyors -> Motions]
    /\ report \in [value : [Conveyors -> Motions], unread : BOOLEAN]
    /\ capture \in [Stations -> {"none", "taking", "blocked", "enqueued"}]
    /\ feedback \subseteq Stations
    /\ queueReport \in [value : {"ACCEPTING", "ENQUEUE_BLOCKED"}, unread : BOOLEAN]
    /\ runRequester \in {"none", "operator", "auto"}
    /\ tainted \in BOOLEAN

Init ==
    /\ systemState = "BOOT" /\ pendingRun = FALSE
    /\ pauseReason = "NONE" /\ recoveryPolicy = "NONE" /\ lineClearConfirmed = FALSE
    /\ mirror = [c \in Conveyors |-> "unknown"]
    /\ deadlines = {} /\ shutdownPhase = "IDLE"
    /\ pausedByQueue = FALSE /\ queueRecovered = FALSE
    /\ ready = {} /\ initializing = {} /\ controlSession = FALSE
    /\ orders = <<>> /\ ordered = [c \in Conveyors |-> "stop"]
    /\ conveyor = [c \in Conveyors |-> "stop"]
    /\ report = [value |-> conveyor, unread |-> FALSE]
    /\ capture = [s \in Stations |-> "none"] /\ feedback = {}
    /\ queueReport = [value |-> "ACCEPTING", unread |-> FALSE]
    /\ runRequester = "none" /\ tainted = FALSE

AllStopped(motions) == \A c \in Conveyors : motions[c] = "stop"
AllRunning(motions) == \A c \in Conveyors : motions[c] = "run"

-----------------------------------------------------------------------------
(* What the operations share.                                              *)

\* Slip: the new command replaces what is known of the other conveyors.
OrderForgetsOthers(to, who) ==
    /\ Len(orders) < MaxOrders
    /\ orders' = Append(orders, [to |-> to, who |-> who])
    /\ ordered' = [c \in who |-> to]

\* _publish_system_command, to some or all conveyors.
Order(to, who) ==
    /\ Len(orders) < MaxOrders
    /\ orders' = Append(orders, [to |-> to, who |-> who])
    /\ ordered' = [c \in Conveyors |-> IF c \in who THEN to ELSE ordered[c]]

StopAll == Order("stop", Conveyors)

\* _request_conveyor_run: RESUME is published and its confirmation awaited.
RequestRun(requester, expired) ==
    /\ Order("run", Conveyors)
    /\ pendingRun' = TRUE
    /\ runRequester' = requester
    /\ deadlines' = (deadlines \ expired) \cup {"run"}

\* request_pause and request_recoverable_device_pause in RUN_SYS.
Pausing(reason) ==
    /\ systemState = "RUN_SYS"
    /\ systemState' = "PAUSING"
    /\ pauseReason' = reason
    /\ pendingRun' = FALSE /\ runRequester' = "none"
    /\ StopAll

\* Slip: the policy of the first fault is kept.
CriticalFaultKeepsPolicy(policy, expired) ==
    LET kept == IF recoveryPolicy = "NONE" THEN policy ELSE recoveryPolicy IN
    /\ systemState' = "FAULT_STOP"
    /\ deadlines' = deadlines \ (expired \cup {"pause"})
    /\ recoveryPolicy' = kept
    /\ pendingRun' = FALSE /\ runRequester' = "none"
    /\ StopAll
    /\ lineClearConfirmed' = (lineClearConfirmed /\ policy # "LINE_CLEAR")
    /\ tainted' = (tainted \/ policy = "LINE_CLEAR")

\* report_critical_fault.  `expired' are the deadlines its caller clears.
CriticalFault(policy, expired) ==
    /\ systemState' = "FAULT_STOP"
    /\ deadlines' = deadlines \ (expired \cup {"pause"})
    /\ recoveryPolicy' = policy
    /\ pendingRun' = FALSE /\ runRequester' = "none"
    /\ StopAll
    /\ lineClearConfirmed' = (lineClearConfirmed /\ policy # "LINE_CLEAR")
    /\ tainted' = (tainted \/ policy = "LINE_CLEAR")

\* _verify_resume_conditions, in the state PAUSED with the mirror `seen'.
MayResume(seen) ==
    /\ ready = Workers
    /\ AllStopped(seen)
    /\ recoveryPolicy # "LINE_CLEAR"

-----------------------------------------------------------------------------
(* Operator requests.                                                      *)

OperatorSame == <<mirror, workerVars, plantVars, visionVars, tainted>>

RequestInitialize ==
    /\ systemState = "BOOT"
    /\ systemState' = "INITIALIZING"
    /\ initializing' = Workers
    /\ UNCHANGED <<pendingRun, pauseReason, recoveryPolicy, lineClearConfirmed, mirror, deadlines,
                   shutdownPhase, queueVars, ready, controlSession, plantVars, orderVars,
                   visionVars, historyVars>>

\* request_run.  An empty ledger, clear sensors and a safe actuator are asked
\* for as well: a request they refuse changes nothing.
RequestStart ==
    /\ systemState = "READY"
    /\ ready = Workers /\ lineClearConfirmed /\ AllStopped(mirror)
    /\ RequestRun("operator", {})
    /\ UNCHANGED <<systemState, pauseReason, recoveryPolicy, lineClearConfirmed, shutdownPhase,
                   queueVars, OperatorSame>>

\* Slip: the confirmation of the stop has no deadline.
RequestPauseUnarmed ==
    /\ Pausing("MANUAL")
    /\ UNCHANGED <<deadlines, recoveryPolicy, lineClearConfirmed, shutdownPhase, queueVars,
                   OperatorSame>>

RequestPause ==
    /\ Pausing("MANUAL")
    /\ deadlines' = deadlines \cup {"pause"}
    /\ UNCHANGED <<recoveryPolicy, lineClearConfirmed, shutdownPhase, queueVars, OperatorSame>>

RequestResume ==
    /\ systemState = "PAUSED"
    /\ MayResume(mirror)
    /\ ~(pausedByQueue /\ ~queueRecovered)
    /\ RequestRun("operator", {})
    /\ UNCHANGED <<systemState, pauseReason, recoveryPolicy, lineClearConfirmed, shutdownPhase,
                   queueVars, OperatorSame>>

\* request_reset.  The alignment check and the sensors may refuse it as well.  The
\* operator asks when no command is under way any more: delivery takes
\* milliseconds, clearing a fault takes a person.
RequestReset ==
    /\ orders = <<>>
    /\ systemState = "FAULT_STOP"
    /\ AllStopped(mirror)
    /\ recoveryPolicy = "LINE_CLEAR" => lineClearConfirmed
    /\ systemState' = "RESETTING"
    /\ ready' = {} /\ initializing' = {}
    /\ UNCHANGED <<pendingRun, pauseReason, recoveryPolicy, lineClearConfirmed, mirror, deadlines,
                   shutdownPhase, queueVars, controlSession, plantVars, orderVars, visionVars,
                   historyVars>>

ConfirmLineCleared ==
    /\ systemState \in {"READY", "FAULT_STOP"}
    /\ lineClearConfirmed' = TRUE
    /\ UNCHANGED <<systemState, pendingRun, pauseReason, recoveryPolicy, deadlines, shutdownPhase,
                   queueVars, orderVars, runRequester, OperatorSame>>

OperatorStep ==
    \/ RequestInitialize \/ RequestStart \/ RequestPause
    \/ RequestResume \/ RequestReset \/ ConfirmLineCleared

-----------------------------------------------------------------------------
(* Worker supervision.                                                     *)

\* _worker_initialization_allowed: a goal is sent for a worker in RETRY_WAIT.
SendInitialize(w) ==
    /\ w \notin ready \cup initializing
    /\ \/ systemState \in {"INITIALIZING", "READY", "PAUSED", "RESETTING"}
       \/ systemState = "RUN_SYS" /\ w = "log"
    /\ initializing' = initializing \cup {w}
    /\ UNCHANGED <<fsmVars, queueVars, ready, controlSession, plantVars, orderVars, visionVars,
                   historyVars>>

\* Action, status and heartbeat agree.  An initialized Control has a session and
\* publishes its latest EquipmentState again; the last worker ends INITIALIZING.
WorkerReady(w) ==
    /\ w \in initializing
    /\ initializing' = initializing \ {w}
    /\ ready' = ready \cup {w}
    /\ IF w = "control"
       THEN controlSession' = TRUE /\ report' = [report EXCEPT !.unread = TRUE]
       ELSE UNCHANGED <<controlSession, report>>
    /\ systemState' = IF systemState = "INITIALIZING" /\ ready' = Workers
                      THEN "READY" ELSE systemState
    /\ UNCHANGED <<pendingRun, pauseReason, recoveryPolicy, lineClearConfirmed, mirror, deadlines,
                   shutdownPhase, queueVars, conveyor, orderVars, visionVars, historyVars>>

\* _handle_worker_unavailable.  A restart invalidates every worker's evidence;
\* the others keep their initialization and are polled again.
WorkerUnavailable(w) ==
    /\ w \in CanFail
    /\ systemState # "BOOT"
    /\ \E restarted \in BOOLEAN :
       /\ ready' = IF restarted THEN {} ELSE ready \ {w}
       /\ initializing' = IF restarted THEN (initializing \cup ready) \ {w}
                          ELSE initializing \ {w}
       /\ controlSession' = (controlSession /\ ~(restarted /\ w = "control"))
       /\ \/ /\ w = "control" /\ systemState \in {"RUN_SYS", "PAUSING"}
             /\ CriticalFault("LINE_CLEAR", {})
             /\ UNCHANGED pauseReason
          \/ /\ w = "vision"
             /\ Pausing(IF restarted THEN "MANUAL" ELSE "AUTO")
             /\ deadlines' = deadlines \cup {"pause"}
             /\ UNCHANGED <<recoveryPolicy, lineClearConfirmed, tainted>>
          \/ /\ w = "control" => systemState \notin {"RUN_SYS", "PAUSING"}
             /\ w = "vision" => systemState # "RUN_SYS"
             /\ UNCHANGED <<systemState, pendingRun, pauseReason, recoveryPolicy,
                            lineClearConfirmed, deadlines, orderVars, historyVars>>
    /\ UNCHANGED <<mirror, shutdownPhase, queueVars, plantVars, visionVars>>

-----------------------------------------------------------------------------
(* What the product tracking asks of the state machine.                    *)

LineSame == <<mirror, shutdownPhase, queueVars, workerVars, plantVars>>

\* _fault_stop: sensors, results and actuation that contradict the ledger.
LineFault ==
    /\ LineFaults
    /\ systemState \notin {"BOOT", "FAULT_STOP"}
    /\ CriticalFault("LINE_CLEAR", {})
    /\ UNCHANGED <<pauseReason, LineSame, visionVars>>

\* A device problem that keeps the tracking, or a full log spool.
LinePause ==
    /\ \E reason \in {"AUTO", "MANUAL"} : Pausing(reason)
    /\ deadlines' = deadlines \cup {"pause"}
    /\ UNCHANGED <<recoveryPolicy, lineClearConfirmed, tainted, LineSame, visionVars>>

\* Slip: the state is not asked, as by a callback that began in RUN_SYS.
LineResumeAnyState(c) ==
    /\ conveyor[c] = "hold"
    /\ [to |-> "run", who |-> {c}] \notin Range(orders)
    /\ Order("run", {c})
    /\ UNCHANGED <<fsmVars, historyVars, queueVars, workerVars, plantVars, visionVars>>

\* _resume_conveyor_after_capture, once for each product held.
LineResume(c) ==
    /\ systemState = "RUN_SYS"
    /\ conveyor[c] = "hold"
    /\ [to |-> "run", who |-> {c}] \notin Range(orders)
    /\ Order("run", {c})
    /\ UNCHANGED <<fsmVars, historyVars, queueVars, workerVars, plantVars, visionVars>>

\* _request_capture
LineCapture(s) ==
    /\ systemState = "RUN_SYS"
    /\ capture[s] = "none"
    /\ capture' = [capture EXCEPT ![s] = "taking"]
    /\ UNCHANGED <<fsmVars, historyVars, queueVars, workerVars, plantVars, orderVars, feedback,
                   queueReport>>

\* The capture succeeded and its conveyor runs again.  Feedback that arrives later
\* names a capture that is over.
LineCycleEnds(s) ==
    /\ systemState = "RUN_SYS"
    /\ capture[s] = "enqueued"
    /\ capture' = [capture EXCEPT ![s] = "none"]
    /\ feedback' = feedback \ {s}
    /\ UNCHANGED <<fsmVars, historyVars, queueVars, workerVars, plantVars, orderVars, queueReport>>

-----------------------------------------------------------------------------
(* _handle_equipment_state: the mirror, then the confirmations it allows.  *)
(* At most one of them applies to a report, except that a stop is recorded *)
(* before a reset is completed.                                            *)

\* Slip: running conveyors are taken for a run that was asked for.
ConfirmRunningUnasked(seen) ==
    /\ AllRunning(seen)
    /\ systemState' = "RUN_SYS"
    /\ pendingRun' = FALSE /\ runRequester' = "none"
    /\ pauseReason' = "NONE"
    /\ deadlines' = deadlines \ {"run"}
    /\ lineClearConfirmed' = (lineClearConfirmed /\ systemState # "READY")
    /\ UNCHANGED <<recoveryPolicy, shutdownPhase, tainted, queueVars, orderVars, visionVars>>

\* confirm_all_conveyors_running.  An empty line is confirmed for one start.
ConfirmRunning(seen) ==
    /\ pendingRun /\ AllRunning(seen)
    /\ systemState \in {"READY", "PAUSED"}
    /\ systemState' = "RUN_SYS"
    /\ pendingRun' = FALSE /\ runRequester' = "none"
    /\ pauseReason' = "NONE"
    /\ deadlines' = deadlines \ {"run"}
    /\ lineClearConfirmed' = (lineClearConfirmed /\ systemState # "READY")
    /\ UNCHANGED <<recoveryPolicy, shutdownPhase, tainted, queueVars, orderVars, visionVars>>

\* _resume_after_queue_recovery: an automatic RESUME, which the sensors or the
\* alignment check may refuse.
AutoResume(seen, expired) ==
    \/ /\ pauseReason = "AUTO" /\ MayResume(seen)
       /\ RequestRun("auto", expired)
       /\ pausedByQueue' = FALSE /\ queueRecovered' = FALSE
    \/ /\ queueRecovered' = TRUE
       /\ deadlines' = deadlines \ expired
       /\ UNCHANGED <<pausedByQueue, pendingRun, runRequester, orderVars>>

\* confirm_all_conveyors_stopped, for each place it may stop at.
ProductsMisaligned ==
    /\ systemState = "PAUSING"
    /\ CriticalFault("LINE_CLEAR", {})
    /\ UNCHANGED <<pauseReason, shutdownPhase, queueVars, visionVars>>

\* Whatever follows in the callback, the process exits.
ShutdownFinalized ==
    /\ shutdownPhase # "IDLE"
    /\ shutdownPhase' = "READY_TO_EXIT"
    /\ systemState' = IF systemState = "PAUSING" THEN "PAUSED" ELSE systemState
    /\ deadlines' = deadlines \ {"pause", "shutdown"}
    /\ UNCHANGED <<pendingRun, pauseReason, recoveryPolicy, lineClearConfirmed, queueVars,
                   orderVars, historyVars, visionVars>>

PausedNow(seen) ==
    /\ shutdownPhase = "IDLE"
    /\ systemState \in {"PAUSING", "PAUSED"}
    /\ systemState' = "PAUSED"
    /\ IF pausedByQueue /\ queueRecovered
       THEN AutoResume(seen, {"pause"})
       ELSE /\ deadlines' = deadlines \ {"pause"}
            /\ UNCHANGED <<pendingRun, runRequester, orderVars, queueVars>>
    /\ UNCHANGED <<pauseReason, recoveryPolicy, lineClearConfirmed, shutdownPhase, tainted,
                   visionVars>>

\* confirm_reset_completed: the ledger is cleared, or the products stay where
\* they are unless _prepare_in_place_recovery finds one whose place is unknown.
ResetCompleted ==
    /\ systemState = "RESETTING" /\ shutdownPhase = "IDLE"
    /\ \/ /\ \/ /\ recoveryPolicy = "LINE_CLEAR" /\ lineClearConfirmed
                /\ systemState' = "READY" /\ pauseReason' = "NONE" /\ tainted' = FALSE
             \/ /\ recoveryPolicy = "EQUIPMENT_CHECK"
                /\ systemState' = "PAUSED" /\ pauseReason' = "MANUAL"
                /\ UNCHANGED tainted
          /\ recoveryPolicy' = "NONE"
          /\ pausedByQueue' = FALSE /\ queueRecovered' = FALSE
          /\ deadlines' = deadlines \ {"pause"}
          /\ capture' = [s \in Stations |-> "none"] /\ feedback' = {}
          /\ UNCHANGED <<pendingRun, runRequester, lineClearConfirmed, orderVars, queueReport>>
       \/ /\ recoveryPolicy = "EQUIPMENT_CHECK"
          /\ CriticalFault("LINE_CLEAR", {})
          /\ UNCHANGED <<pauseReason, queueVars, visionVars>>
    /\ UNCHANGED shutdownPhase

\* A guard that fails leaves RESETTING as it is.
NothingConfirmed(seen) ==
    /\ AllStopped(seen) => shutdownPhase = "IDLE" /\ systemState \notin {"PAUSING", "PAUSED"}
    /\ ~(pendingRun /\ AllRunning(seen) /\ systemState \in {"READY", "PAUSED"})
    /\ deadlines' = IF AllStopped(seen) THEN deadlines \ {"pause"} ELSE deadlines
    /\ UNCHANGED <<systemState, pendingRun, pauseReason, recoveryPolicy, lineClearConfirmed,
                   shutdownPhase, queueVars, orderVars, historyVars, visionVars>>

\* Slip: one stopped conveyor is enough.
StoppedOnAnyReport ==
    LET seen == report.value IN
    /\ report.unread
    /\ report' = [report EXCEPT !.unread = FALSE]
    /\ mirror' = seen
    /\ \/ ConfirmRunning(seen)
       \/ (\E c \in Conveyors : seen[c] # "run")
          /\ (ProductsMisaligned \/ ShutdownFinalized \/ PausedNow(seen) \/ ResetCompleted)
       \/ NothingConfirmed(seen)
    /\ UNCHANGED <<workerVars, conveyor>>

HandleEquipmentState ==
    LET seen == report.value IN
    /\ report.unread
    /\ report' = [report EXCEPT !.unread = FALSE]
    /\ mirror' = seen
    /\ \/ ConfirmRunning(seen)
       \/ AllStopped(seen) /\ (ProductsMisaligned \/ ShutdownFinalized \/ PausedNow(seen)
                               \/ ResetCompleted)
       \/ NothingConfirmed(seen)
    /\ UNCHANGED <<workerVars, conveyor>>

-----------------------------------------------------------------------------
(* The Vision queue, as the Master hears of it.  FAULT_STOP ignores both.  *)

\* _pause: only RUN_SYS pauses; the other states take note.
QueuePause ==
    \/ Pausing("AUTO") /\ deadlines' = deadlines \cup {"pause"}
    \/ /\ systemState # "RUN_SYS"
       /\ UNCHANGED <<systemState, pauseReason, pendingRun, runRequester, deadlines, orderVars>>

QueueSame == <<recoveryPolicy, lineClearConfirmed, mirror, shutdownPhase, workerVars, plantVars,
               tainted, capture>>

HandleCaptureFeedback(s) ==
    /\ s \in feedback
    /\ feedback' = feedback \ {s}
    /\ \/ /\ systemState # "FAULT_STOP" /\ capture[s] # "none"
          /\ pausedByQueue' = TRUE /\ queueRecovered' = FALSE
          /\ QueuePause
       \/ /\ systemState = "FAULT_STOP" \/ capture[s] = "none"
          /\ UNCHANGED <<systemState, pauseReason, pendingRun, runRequester, deadlines, orderVars,
                         queueVars>>
    /\ UNCHANGED <<QueueSame, queueReport>>

HandleQueueState ==
    /\ queueReport.unread
    /\ queueReport' = [queueReport EXCEPT !.unread = FALSE]
    /\ \/ /\ systemState # "FAULT_STOP"
          /\ queueReport.value = "ENQUEUE_BLOCKED" /\ ~pausedByQueue
          /\ pausedByQueue' = TRUE /\ queueRecovered' = FALSE
          /\ QueuePause
       \/ /\ systemState # "FAULT_STOP"
          /\ queueReport.value = "ACCEPTING" /\ pausedByQueue
          /\ IF systemState = "PAUSED"
             THEN AutoResume(mirror, {})
             ELSE /\ queueRecovered' = TRUE
                  /\ UNCHANGED <<pausedByQueue, pendingRun, runRequester, deadlines, orderVars>>
          /\ UNCHANGED <<systemState, pauseReason>>
       \/ /\ systemState = "FAULT_STOP" \/ pausedByQueue = (queueReport.value = "ENQUEUE_BLOCKED")
          /\ UNCHANGED <<systemState, pauseReason, pendingRun, runRequester, deadlines, orderVars,
                         queueVars>>
    /\ UNCHANGED <<QueueSame, feedback>>

-----------------------------------------------------------------------------
(* The 0.1 s timer, _check_operation_deadlines.                            *)

TimerSame == <<mirror, queueVars, workerVars, plantVars, visionVars>>

\* The stop was not confirmed: report_pause_failed.
PauseTimesOut ==
    /\ "pause" \in deadlines /\ systemState = "PAUSING"
    /\ systemState' = "FAULT_STOP"
    /\ recoveryPolicy' = "EQUIPMENT_CHECK"
    /\ deadlines' = deadlines \ {"pause"}
    /\ StopAll
    /\ UNCHANGED <<pendingRun, pauseReason, lineClearConfirmed, shutdownPhase, historyVars, TimerSame>>

\* Slip: the run is given up and still awaited.
RunTimesOutKeepsPending ==
    /\ "run" \in deadlines /\ pendingRun
    /\ runRequester' = "none"
    /\ deadlines' = deadlines \ {"run"}
    /\ UNCHANGED <<systemState, pendingRun, pauseReason, recoveryPolicy, lineClearConfirmed,
                   shutdownPhase, tainted, orderVars, TimerSame>>

\* The run was not confirmed: report_run_failed keeps the state, and nothing else.
RunTimesOut ==
    /\ "run" \in deadlines /\ pendingRun
    /\ pendingRun' = FALSE /\ runRequester' = "none"
    /\ deadlines' = deadlines \ {"run"}
    /\ UNCHANGED <<systemState, pauseReason, recoveryPolicy, lineClearConfirmed, shutdownPhase,
                   tainted, orderVars, TimerSame>>

\* Slip: only a shutdown that paused the line is timed.
ShutdownTimesOutInPausing ==
    /\ "shutdown" \in deadlines /\ shutdownPhase = "WAITING_STOP" /\ systemState = "PAUSING"
    /\ shutdownPhase' = "BLOCKED"
    /\ CriticalFault("EQUIPMENT_CHECK", {"shutdown"})
    /\ UNCHANGED <<pauseReason, TimerSame>>

ShutdownTimesOut ==
    /\ "shutdown" \in deadlines /\ shutdownPhase = "WAITING_STOP"
    /\ shutdownPhase' = "BLOCKED"
    /\ CriticalFault("EQUIPMENT_CHECK", {"shutdown"})
    /\ UNCHANGED <<pauseReason, TimerSame>>

-----------------------------------------------------------------------------
(* Ctrl+C: request_shutdown, _begin_shutdown_sequence.                     *)

RequestShutdown ==
    /\ Exits /\ shutdownPhase = "IDLE"
    /\ \/ /\ Pausing("MANUAL")
          /\ shutdownPhase' = "WAITING_STOP"
          /\ deadlines' = deadlines \cup {"pause", "shutdown"}
       \/ /\ \/ systemState = "PAUSING"
             \/ systemState # "RUN_SYS" /\ ~AllStopped(mirror)
          /\ StopAll
          /\ shutdownPhase' = "WAITING_STOP"
          /\ deadlines' = (deadlines \ {"pause"}) \cup {"shutdown"}
                          \cup (IF systemState = "PAUSING" THEN {"pause"} ELSE {})
          /\ UNCHANGED <<systemState, pauseReason, pendingRun, runRequester>>
       \/ /\ systemState \notin {"RUN_SYS", "PAUSING"} /\ AllStopped(mirror)
          /\ shutdownPhase' = "READY_TO_EXIT"
          /\ UNCHANGED <<systemState, pauseReason, pendingRun, runRequester, deadlines, orderVars>>
    /\ UNCHANGED <<recoveryPolicy, lineClearConfirmed, tainted, TimerSame>>

-----------------------------------------------------------------------------
(* Control, the conveyors and Vision (outside the Master).                 *)

MasterSame == <<fsmVars, queueVars, ready, initializing, historyVars>>

\* A command reaches Control, which drops it without a session.
DeliverOrder ==
    /\ orders # <<>>
    /\ orders' = Tail(orders)
    /\ conveyor' = [c \in Conveyors |->
         IF controlSession /\ c \in Head(orders).who THEN Head(orders).to ELSE conveyor[c]]
    /\ UNCHANGED <<MasterSame, controlSession, ordered, report, visionVars>>

\* The Mega does not carry a command out.
OrderLost ==
    /\ "mega" \in CanFail
    /\ orders # <<>>
    /\ orders' = Tail(orders)
    /\ UNCHANGED <<MasterSame, controlSession, ordered, plantVars, visionVars>>

\* The Mega positions a product by itself and holds its conveyor.
HoldConveyor(c) ==
    /\ conveyor[c] = "run"
    /\ conveyor' = [conveyor EXCEPT ![c] = "hold"]
    /\ UNCHANGED <<MasterSame, controlSession, orderVars, report, visionVars>>

\* EquipmentState is sent on a change; the topic keeps the last sample only.
PublishReport ==
    /\ controlSession /\ report.value # conveyor
    /\ report' = [value |-> conveyor, unread |-> TRUE]
    /\ UNCHANGED <<MasterSame, controlSession, orderVars, conveyor, visionVars>>

\* The enqueue loop of a capture: feedback and state are repeated while the
\* queue is full; ACCEPTING is published once, when the capture succeeds.
VisionBlocked(s) ==
    /\ capture[s] \in {"taking", "blocked"}
    /\ capture' = [capture EXCEPT ![s] = "blocked"]
    /\ feedback' = feedback \cup {s}
    /\ queueReport' = [value |-> "ENQUEUE_BLOCKED", unread |-> TRUE]
    /\ UNCHANGED <<MasterSame, controlSession, orderVars, plantVars>>

VisionAccepted(s) ==
    /\ capture[s] \in {"taking", "blocked"}
    /\ capture' = [capture EXCEPT ![s] = "enqueued"]
    /\ queueReport' = [value |-> "ACCEPTING", unread |-> TRUE]
    /\ UNCHANGED <<MasterSame, controlSession, orderVars, plantVars, feedback>>

-----------------------------------------------------------------------------

TimerStep == PauseTimesOut \/ RunTimesOut \/ ShutdownTimesOut

WorkerStep == \E w \in Workers : SendInitialize(w) \/ WorkerReady(w) \/ WorkerUnavailable(w)

LineStep ==
    \/ LineFault \/ LinePause
    \/ \E c \in Conveyors : LineResume(c)
    \/ \E s \in Stations : LineCapture(s) \/ LineCycleEnds(s)

QueueStep == HandleQueueState \/ \E s \in Stations : HandleCaptureFeedback(s)

\* The process handles no callback once it may exit.
MasterStep ==
    /\ shutdownPhase # "READY_TO_EXIT"
    /\ OperatorStep \/ RequestShutdown \/ WorkerStep \/ LineStep
       \/ HandleEquipmentState \/ QueueStep \/ TimerStep

OutsideStep ==
    \/ DeliverOrder \/ OrderLost \/ PublishReport
    \/ \E c \in Conveyors : HoldConveyor(c)
    \/ \E s \in Stations : VisionBlocked(s) \/ VisionAccepted(s)

Next == MasterStep \/ OutsideStep

Spec == Init /\ [][Next]_vars

\* The 0.1 s timer runs while the process does, and commands and reports arrive.
\* The timer's fairness is strong only because the bound on the commands under
\* way may disable, for a moment, a deadline that sends a stop.
FairSpec ==
    /\ Spec
    /\ SF_vars(TimerStep /\ shutdownPhase # "READY_TO_EXIT")
    /\ WF_vars(HandleEquipmentState /\ shutdownPhase # "READY_TO_EXIT")
    /\ WF_vars(DeliverOrder \/ OrderLost) /\ WF_vars(PublishReport)

-----------------------------------------------------------------------------
(* Properties                                                              *)

\* What the Master believes agrees with what it has ordered.  While it is stopping,
\* faulted or resetting, the last command published for each conveyor is a stop (no
\* targeted RESUME, automatic resume or late confirmation slips in behind it), and it
\* believes the line to run only while every conveyor is ordered to.
BeliefMatchesOrders ==
    /\ systemState \in {"PAUSING", "FAULT_STOP", "RESETTING"} =>
           \A c \in Conveyors : ordered[c] = "stop"
    /\ systemState = "RUN_SYS" /\ shutdownPhase = "IDLE" =>
           \A c \in Conveyors : ordered[c] = "run"

\* Products are handled by people once the Master shows PAUSED: it says so after
\* a pause only when every conveyor has really stopped, not on an older report.
\* (An exit asked for while a start is awaited stops the line under a pending run,
\* and the race that follows is ExitLeavesLineStopped's.)
PausedOnlyWhenStopped ==
    [][systemState = "PAUSING" /\ systemState' = "PAUSED" /\ shutdownPhase = "IDLE" =>
            AllStopped(conveyor)]_vars

\* The line starts only for a request made since it last stopped, failed to start
\* or faulted, and without the operator only out of an automatic pause.
RunOnlyOnRequest ==
    [][systemState # "RUN_SYS" /\ systemState' = "RUN_SYS" =>
        \/ runRequester = "operator"
        \/ runRequester = "auto" /\ pauseReason = "AUTO"]_vars

\* After a LINE_CLEAR fault the process does not leave FAULT_STOP and RESETTING
\* before its ledger has been cleared, unless it exits: not even when a shutdown
\* that times out replaces the policy by an equipment check.
TaintedLineStaysStopped ==
    tainted => systemState \in {"FAULT_STOP", "RESETTING"} \/ shutdownPhase = "READY_TO_EXIT"

\* Waiting for a stop ends, confirmed or timed out: a pause in PAUSED or a fault, a
\* shutdown with the exit or the report that it is blocked.
StopWaitsEnd ==
    /\ systemState = "PAUSING" ~> systemState # "PAUSING"
    /\ shutdownPhase = "WAITING_STOP" ~> shutdownPhase \in {"READY_TO_EXIT", "BLOCKED"}

\* The exit is granted after both conveyors' stop is confirmed (README of the
\* Master): nothing is then on its way to start them.
ExitLeavesLineStopped ==
    shutdownPhase = "READY_TO_EXIT" => \A c \in Conveyors : ordered[c] = "stop"
=============================================================================

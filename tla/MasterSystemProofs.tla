-------------------------- MODULE MasterSystemProofs --------------------------
(* Theorems about MasterSystem, for any conveyors and stations, whichever workers
   fail, and any number of commands under way.                                 *)
EXTENDS MasterSystem, TLAPS

Command == [to : {"run", "stop"}, who : SUBSET Conveyors]

\* A run is awaited only where it may be confirmed, while every conveyor is ordered to
\* run, and by whom it was asked for.
RunAwaited ==
    pendingRun =>
        /\ systemState \in {"READY", "PAUSED"}
        /\ shutdownPhase = "IDLE" => \A c \in Conveyors : ordered[c] = "run"
        /\ runRequester = "operator" \/ (runRequester = "auto" /\ pauseReason = "AUTO")

\* A tainted line stays behind its policy, which only a shutdown that times out replaces.
TaintIsKept ==
    tainted /\ shutdownPhase # "READY_TO_EXIT" =>
        /\ systemState \in {"FAULT_STOP", "RESETTING"}
        /\ recoveryPolicy = "LINE_CLEAR" \/ shutdownPhase # "IDLE"

Moving(motions) == \A c \in Conveyors : motions[c] # "stop"
OnlyRuns == \A i \in 1 .. Len(orders) : orders[i].to = "run"

\* The stop of a pause is the last command under way, and none is before it: no belt
\* has stopped yet, and none was seen to.
StopUnderWay ==
    /\ Len(orders) > 0
    /\ orders[Len(orders)] = [to |-> "stop", who |-> Conveyors]
    /\ \A i \in 1 .. Len(orders) - 1 : orders[i].to = "run"
    /\ Moving(conveyor) /\ Moving(report.value)

\* ... or it has been delivered or lost, and the last report is not older.
StopDone ==
    /\ Len(orders) = 0
    /\ \A c \in Conveyors : report.value[c] = "stop" => conveyor[c] = "stop"

\* What an EquipmentState that has not been handled yet may say of the belts, by the
\* state of the Master: the reports are behind, and behind in this order only.
ReportsAreBehind ==
    shutdownPhase = "IDLE" =>
        /\ systemState \notin {"PAUSING", "FAULT_STOP"} => OnlyRuns
        /\ systemState \in {"BOOT", "INITIALIZING", "READY", "PAUSED"} =>
               \A c \in Conveyors : report.value[c] # "stop" => conveyor[c] # "stop"
        /\ systemState = "RUN_SYS" => Moving(conveyor) /\ Moving(report.value)
        /\ systemState = "PAUSING" => StopUnderWay \/ StopDone

Safe == BeliefMatchesOrders /\ RunAwaited /\ TaintIsKept /\ ReportsAreBehind

IInv == TypeOK /\ Safe

-----------------------------------------------------------------------------
(* What the shared parts of the handlers do. *)

\* _publish_system_command appends one command, and is what was ordered last of the
\* conveyors it names.
LEMMA OrderEffect ==
    ASSUME TypeOK, NEW to \in {"run", "stop"}, NEW who \in SUBSET Conveyors, Order(to, who)
    PROVE  /\ orders' \in Seq(Command) /\ Len(orders') = Len(orders) + 1
           /\ orders'[Len(orders')] = [to |-> to, who |-> who]
           /\ \A i \in 1 .. Len(orders) : orders'[i] = orders[i]
           /\ ordered' \in [Conveyors -> {"run", "stop"}]
           /\ \A c \in Conveyors : ordered'[c] = IF c \in who THEN to ELSE ordered[c]
<1>1. orders \in Seq(Command) /\ ordered \in [Conveyors -> {"run", "stop"}]
  BY DEF TypeOK, Command
<1>2. [to |-> to, who |-> who] \in Command BY DEF Command
<1>3. orders' = Append(orders, [to |-> to, who |-> who])
  BY DEF Order
<1>4. ordered' = [c \in Conveyors |-> IF c \in who THEN to ELSE ordered[c]]
  BY DEF Order
<1> QED BY <1>1, <1>2, <1>3, <1>4

\* A stop to all conveyors.
LEMMA StopAllTypes ==
    ASSUME TypeOK, StopAll
    PROVE  /\ orders' \in Seq(Command) /\ ordered' \in [Conveyors -> {"run", "stop"}]
           /\ \A c \in Conveyors : ordered'[c] = "stop"
BY OrderEffect DEF StopAll

\* _request_conveyor_run leaves every variable it touches in its type.
LEMMA RequestRunTypes ==
    ASSUME TypeOK, NEW requester \in {"operator", "auto"}, NEW expired, RequestRun(requester, expired)
    PROVE  /\ orders' \in Seq(Command) /\ ordered' \in [Conveyors -> {"run", "stop"}]
           /\ pendingRun' \in BOOLEAN /\ runRequester' \in {"none", "operator", "auto"}
           /\ deadlines' \subseteq {"pause", "run", "shutdown"}
BY OrderEffect DEF RequestRun, TypeOK

\* So do request_pause
LEMMA PausingTypes ==
    ASSUME TypeOK, NEW reason \in {"AUTO", "MANUAL"}, Pausing(reason)
    PROVE  /\ orders' \in Seq(Command) /\ ordered' \in [Conveyors -> {"run", "stop"}]
           /\ pendingRun' \in BOOLEAN /\ runRequester' \in {"none", "operator", "auto"}
           /\ systemState' \in SystemStates /\ pauseReason' \in PauseReasons
BY StopAllTypes DEF Pausing, SystemStates, PauseReasons

\* ... and report_critical_fault.
LEMMA CriticalFaultTypes ==
    ASSUME TypeOK, NEW policy \in {"LINE_CLEAR", "EQUIPMENT_CHECK"}, NEW expired,
           CriticalFault(policy, expired)
    PROVE  /\ orders' \in Seq(Command) /\ ordered' \in [Conveyors -> {"run", "stop"}]
           /\ pendingRun' \in BOOLEAN /\ runRequester' \in {"none", "operator", "auto"}
           /\ systemState' \in SystemStates /\ recoveryPolicy' \in Policies
           /\ lineClearConfirmed' \in BOOLEAN /\ tainted' \in BOOLEAN
           /\ deadlines' \subseteq {"pause", "run", "shutdown"}
BY StopAllTypes DEF CriticalFault, SystemStates, Policies, TypeOK

-----------------------------------------------------------------------------
(* Types. *)

Reports == [value : [Conveyors -> Motions], unread : BOOLEAN]

\* A report is marked as read, or to be read once more.
LEMMA ReportMarked ==
    ASSUME NEW r \in Reports, NEW unread \in BOOLEAN
    PROVE  [r EXCEPT !.unread = unread] \in Reports
BY DEF Reports

\* Types, through what the operator asks for.
LEMMA OperatorTypes == ASSUME TypeOK, OperatorStep PROVE TypeOK'
<1> USE DEF SystemStates, PauseReasons, Policies, Motions, OperatorSame, queueVars, workerVars,
            plantVars, orderVars, visionVars, historyVars
<1>1. CASE RequestInitialize BY <1>1 DEF RequestInitialize, TypeOK, Workers
<1>2. CASE RequestStart
  <2>1. RequestRun("operator", {}) BY <1>2 DEF RequestStart
  <2>2. /\ orders' \in Seq(Command) /\ ordered' \in [Conveyors -> {"run", "stop"}]
        /\ pendingRun' \in BOOLEAN /\ runRequester' \in {"none", "operator", "auto"}
        /\ deadlines' \subseteq {"pause", "run", "shutdown"}
    BY <2>1, RequestRunTypes
  <2> QED BY <1>2, <2>2 DEF RequestStart, TypeOK, Command
<1>3. CASE RequestPause BY <1>3, PausingTypes DEF RequestPause, TypeOK, Command
<1>4. CASE RequestResume
  <2>1. RequestRun("operator", {}) BY <1>4 DEF RequestResume
  <2>2. /\ orders' \in Seq(Command) /\ ordered' \in [Conveyors -> {"run", "stop"}]
        /\ pendingRun' \in BOOLEAN /\ runRequester' \in {"none", "operator", "auto"}
        /\ deadlines' \subseteq {"pause", "run", "shutdown"}
    BY <2>1, RequestRunTypes
  <2> QED BY <1>4, <2>2 DEF RequestResume, TypeOK, Command
<1>5. CASE RequestReset BY <1>5 DEF RequestReset, TypeOK
<1>6. CASE ConfirmLineCleared BY <1>6 DEF ConfirmLineCleared, TypeOK
<1> QED BY <1>1, <1>2, <1>3, <1>4, <1>5, <1>6 DEF OperatorStep

\* Worker supervision: _handle_worker_unavailable asks for a pause or reports a fault.
LEMMA WorkerTypes == ASSUME TypeOK, WorkerStep PROVE TypeOK'
<1> USE DEF SystemStates, PauseReasons, Policies, Motions, fsmVars, queueVars, workerVars,
            plantVars, orderVars, visionVars, historyVars
<1> SUFFICES ASSUME NEW w \in Workers,
                    SendInitialize(w) \/ WorkerReady(w) \/ WorkerUnavailable(w)
             PROVE  TypeOK'
  BY DEF WorkerStep
<1>1. CASE SendInitialize(w) BY <1>1 DEF SendInitialize, TypeOK
<1>2. CASE WorkerReady(w)
  <2>1. /\ ready' \subseteq Workers /\ initializing' \subseteq Workers
        /\ systemState' \in SystemStates
    BY <1>2 DEF WorkerReady, TypeOK
  <2>2. controlSession' \in BOOLEAN
    BY <1>2, Zenon DEF WorkerReady, TypeOK
  <2>3. report' \in Reports
    <3>1. report' = [report EXCEPT !.unread = TRUE] \/ report' = report
      BY <1>2, Zenon DEF WorkerReady
    <3> QED BY <3>1, ReportMarked DEF TypeOK, Reports
  <2> QED BY <1>2, <2>1, <2>2, <2>3 DEF WorkerReady, TypeOK, Reports
<1>3. CASE WorkerUnavailable(w)
  <2>1. /\ ready' \subseteq Workers /\ initializing' \subseteq Workers
        /\ controlSession' \in BOOLEAN
        /\ UNCHANGED <<mirror, shutdownPhase, queueVars, plantVars, visionVars>>
    BY <1>3 DEF WorkerUnavailable, TypeOK
  <2>2. CASE CriticalFault("LINE_CLEAR", {}) /\ UNCHANGED pauseReason
    <3>1. /\ orders' \in Seq(Command) /\ ordered' \in [Conveyors -> {"run", "stop"}]
          /\ pendingRun' \in BOOLEAN /\ runRequester' \in {"none", "operator", "auto"}
          /\ systemState' \in SystemStates /\ recoveryPolicy' \in Policies
          /\ lineClearConfirmed' \in BOOLEAN /\ tainted' \in BOOLEAN
          /\ deadlines' \subseteq {"pause", "run", "shutdown"}
      BY <2>2, CriticalFaultTypes
    <3> QED BY <2>1, <2>2, <3>1 DEF TypeOK, Command
  <2>3. CASE \E reason \in {"AUTO", "MANUAL"} :
               /\ Pausing(reason) /\ deadlines' = deadlines \cup {"pause"}
               /\ UNCHANGED <<recoveryPolicy, lineClearConfirmed, tainted>>
    BY <2>1, <2>3, PausingTypes DEF TypeOK, Command
  <2>4. CASE UNCHANGED <<systemState, pendingRun, pauseReason, recoveryPolicy,
                         lineClearConfirmed, deadlines, orderVars, historyVars>>
    BY <2>1, <2>4 DEF TypeOK
  <2> QED BY <1>3, <2>2, <2>3, <2>4 DEF WorkerUnavailable
<1> QED BY <1>1, <1>2, <1>3

\* What the product tracking asks of the state machine.
LEMMA LineTypes == ASSUME TypeOK, LineStep PROVE TypeOK'
<1> USE DEF SystemStates, PauseReasons, Policies, Motions, fsmVars, queueVars, workerVars,
            plantVars, orderVars, visionVars, historyVars, LineSame
<1>1. CASE LineFault
  <2>1. /\ orders' \in Seq(Command) /\ ordered' \in [Conveyors -> {"run", "stop"}]
        /\ pendingRun' \in BOOLEAN /\ runRequester' \in {"none", "operator", "auto"}
        /\ systemState' \in SystemStates /\ recoveryPolicy' \in Policies
        /\ lineClearConfirmed' \in BOOLEAN /\ tainted' \in BOOLEAN
        /\ deadlines' \subseteq {"pause", "run", "shutdown"}
    BY <1>1, CriticalFaultTypes DEF LineFault
  <2> QED BY <1>1, <2>1 DEF LineFault, TypeOK, Command
<1>2. CASE LinePause
  BY <1>2, PausingTypes DEF LinePause, TypeOK, Command
<1>3. ASSUME NEW c \in Conveyors, LineResume(c) PROVE TypeOK'
  <2>1. orders' \in Seq(Command) /\ ordered' \in [Conveyors -> {"run", "stop"}]
    BY <1>3, OrderEffect DEF LineResume
  <2> QED BY <1>3, <2>1 DEF LineResume, TypeOK, Command
<1>4. ASSUME NEW s \in Stations, LineCapture(s) PROVE TypeOK'
  BY <1>4 DEF LineCapture, TypeOK
<1>5. ASSUME NEW s \in Stations, LineCycleEnds(s) PROVE TypeOK'
  BY <1>5 DEF LineCycleEnds, TypeOK
<1> QED BY <1>1, <1>2, <1>3, <1>4, <1>5 DEF LineStep

\* The 0.1 s timer.
LEMMA TimerTypes == ASSUME TypeOK, TimerStep PROVE TypeOK'
<1> USE DEF SystemStates, Policies, TimerSame, queueVars, workerVars, plantVars, orderVars,
            visionVars, historyVars
<1>1. CASE PauseTimesOut BY <1>1, StopAllTypes DEF PauseTimesOut, TypeOK, Command
<1>2. CASE RunTimesOut
  <2>1. /\ deadlines' \subseteq {"pause", "run", "shutdown"}
        /\ pendingRun' \in BOOLEAN /\ runRequester' \in {"none", "operator", "auto"}
    BY <1>2 DEF RunTimesOut, TypeOK
  <2> QED BY <1>2, <2>1 DEF RunTimesOut, TypeOK
<1>3. CASE ShutdownTimesOut
  <2>1. /\ orders' \in Seq(Command) /\ ordered' \in [Conveyors -> {"run", "stop"}]
        /\ pendingRun' \in BOOLEAN /\ runRequester' \in {"none", "operator", "auto"}
        /\ systemState' \in SystemStates /\ recoveryPolicy' \in Policies
        /\ lineClearConfirmed' \in BOOLEAN /\ tainted' \in BOOLEAN
        /\ deadlines' \subseteq {"pause", "run", "shutdown"}
    BY <1>3, CriticalFaultTypes DEF ShutdownTimesOut
  <2> QED BY <1>3, <2>1 DEF ShutdownTimesOut, TypeOK, Command
<1> QED BY <1>1, <1>2, <1>3 DEF TimerStep

\* request_shutdown.
LEMMA ShutdownTypes == ASSUME TypeOK, RequestShutdown PROVE TypeOK'
<1> USE DEF TimerSame, queueVars, workerVars, plantVars, orderVars, visionVars
<1>1. CASE Pausing("MANUAL") /\ shutdownPhase' = "WAITING_STOP"
           /\ deadlines' = deadlines \cup {"pause", "shutdown"}
  BY <1>1, PausingTypes DEF RequestShutdown, TypeOK, Command
<1>2. CASE StopAll /\ shutdownPhase' = "WAITING_STOP"
           /\ deadlines' \subseteq deadlines \cup {"pause", "shutdown"}
           /\ UNCHANGED <<systemState, pauseReason, pendingRun, runRequester>>
  BY <1>2, StopAllTypes DEF RequestShutdown, TypeOK, Command
<1>3. CASE shutdownPhase' = "READY_TO_EXIT"
           /\ UNCHANGED <<systemState, pauseReason, pendingRun, runRequester, deadlines, orderVars>>
  BY <1>3 DEF RequestShutdown, TypeOK
<1> QED BY <1>1, <1>2, <1>3 DEF RequestShutdown, TypeOK

\* Control, the conveyors and Vision.
LEMMA OutsideTypes == ASSUME TypeOK, OutsideStep PROVE TypeOK'
<1> USE DEF Motions, MasterSame, fsmVars, queueVars, orderVars, plantVars, visionVars, historyVars
<1>1. CASE DeliverOrder
  <2>1. orders \in Seq(Command) BY DEF TypeOK, Command
  <2>2. orders' \in Seq(Command) /\ Head(orders) \in Command
    BY <1>1, <2>1 DEF DeliverOrder
  <2>3. conveyor' \in [Conveyors -> Motions]
    BY <1>1, <2>2 DEF DeliverOrder, TypeOK, Command
  <2> QED BY <1>1, <2>2, <2>3 DEF DeliverOrder, TypeOK, Command
<1>2. CASE OrderLost
  <2>1. orders \in Seq(Command) BY DEF TypeOK, Command
  <2>2. orders' \in Seq(Command) BY <1>2, <2>1 DEF OrderLost
  <2> QED BY <1>2, <2>2 DEF OrderLost, TypeOK, Command
<1>3. CASE PublishReport BY <1>3 DEF PublishReport, TypeOK
<1>4. ASSUME NEW c \in Conveyors, HoldConveyor(c) PROVE TypeOK'
  BY <1>4 DEF HoldConveyor, TypeOK
<1>5. ASSUME NEW s \in Stations, VisionBlocked(s) PROVE TypeOK'
  BY <1>5 DEF VisionBlocked, TypeOK
<1>6. ASSUME NEW s \in Stations, VisionAccepted(s) PROVE TypeOK'
  BY <1>6 DEF VisionAccepted, TypeOK
<1> QED BY <1>1, <1>2, <1>3, <1>4, <1>5, <1>6 DEF OutsideStep

\* _handle_equipment_state, whatever it confirms.
LEMMA EquipmentTypes == ASSUME TypeOK, HandleEquipmentState PROVE TypeOK'
<1> USE DEF SystemStates, PauseReasons, Policies, Motions, queueVars, workerVars, orderVars,
            visionVars, historyVars
<1> DEFINE seen == report.value
<1>1. /\ report' \in [value : [Conveyors -> Motions], unread : BOOLEAN]
      /\ mirror' \in [Conveyors -> Motions \cup {"unknown"}]
      /\ UNCHANGED <<workerVars, conveyor>>
  <2>1. report \in Reports BY DEF TypeOK, Reports
  <2>2. /\ report' = [report EXCEPT !.unread = FALSE] /\ mirror' = report.value
        /\ UNCHANGED <<workerVars, conveyor>>
    BY DEF HandleEquipmentState
  <2>3. report' \in Reports BY <2>1, <2>2, ReportMarked
  <2>4. mirror' \in [Conveyors -> Motions \cup {"unknown"}] BY <2>1, <2>2 DEF Reports
  <2> QED BY <2>2, <2>3, <2>4 DEF Reports
<1>2. CASE ConfirmRunning(seen)
  <2>1. /\ systemState' \in SystemStates /\ pendingRun' \in BOOLEAN
        /\ runRequester' \in {"none", "operator", "auto"} /\ pauseReason' \in PauseReasons
        /\ deadlines' \subseteq {"pause", "run", "shutdown"} /\ lineClearConfirmed' \in BOOLEAN
    BY <1>2 DEF ConfirmRunning, TypeOK
  <2>2. UNCHANGED <<recoveryPolicy, shutdownPhase, tainted, queueVars, orderVars, visionVars>>
    BY <1>2 DEF ConfirmRunning
  <2> QED BY <1>1, <2>1, <2>2 DEF TypeOK
<1>3. CASE ProductsMisaligned
  <2>1. /\ orders' \in Seq(Command) /\ ordered' \in [Conveyors -> {"run", "stop"}]
        /\ pendingRun' \in BOOLEAN /\ runRequester' \in {"none", "operator", "auto"}
        /\ systemState' \in SystemStates /\ recoveryPolicy' \in Policies
        /\ lineClearConfirmed' \in BOOLEAN /\ tainted' \in BOOLEAN
        /\ deadlines' \subseteq {"pause", "run", "shutdown"}
    BY <1>3, CriticalFaultTypes DEF ProductsMisaligned
  <2> QED BY <1>1, <1>3, <2>1 DEF ProductsMisaligned, TypeOK, Command
<1>4. CASE ShutdownFinalized BY <1>1, <1>4 DEF ShutdownFinalized, TypeOK
<1>5. CASE PausedNow(seen)
  <2>1. /\ orders' \in Seq(Command) /\ ordered' \in [Conveyors -> {"run", "stop"}]
        /\ pendingRun' \in BOOLEAN /\ runRequester' \in {"none", "operator", "auto"}
        /\ deadlines' \subseteq {"pause", "run", "shutdown"}
        /\ pausedByQueue' \in BOOLEAN /\ queueRecovered' \in BOOLEAN
    <3>1. CASE RequestRun("auto", {"pause"}) /\ pausedByQueue' = FALSE /\ queueRecovered' = FALSE
      BY <3>1, RequestRunTypes
    <3>2. CASE /\ UNCHANGED <<pendingRun, runRequester, orderVars, pausedByQueue>>
               /\ queueRecovered' \in {TRUE, queueRecovered}
               /\ deadlines' = deadlines \ {"pause"}
      BY <3>2 DEF TypeOK, Command
    <3> QED BY <1>5, <3>1, <3>2 DEF PausedNow, AutoResume
  <2> QED BY <1>1, <1>5, <2>1 DEF PausedNow, TypeOK, Command
<1>6. CASE ResetCompleted
  <2>1. CASE CriticalFault("LINE_CLEAR", {}) /\ UNCHANGED <<pauseReason, queueVars, visionVars>>
    <3>1. /\ orders' \in Seq(Command) /\ ordered' \in [Conveyors -> {"run", "stop"}]
          /\ pendingRun' \in BOOLEAN /\ runRequester' \in {"none", "operator", "auto"}
          /\ systemState' \in SystemStates /\ recoveryPolicy' \in Policies
          /\ lineClearConfirmed' \in BOOLEAN /\ tainted' \in BOOLEAN
          /\ deadlines' \subseteq {"pause", "run", "shutdown"}
      BY <2>1, CriticalFaultTypes
    <3> QED BY <1>1, <1>6, <2>1, <3>1 DEF ResetCompleted, TypeOK, Command
  <2>2. CASE /\ systemState' \in {"READY", "PAUSED"} /\ pauseReason' \in {"NONE", "MANUAL"}
             /\ tainted' \in {FALSE, tainted} /\ recoveryPolicy' = "NONE"
             /\ pausedByQueue' = FALSE /\ queueRecovered' = FALSE
             /\ deadlines' = deadlines \ {"pause"}
             /\ capture' = [s \in Stations |-> "none"] /\ feedback' = {}
             /\ UNCHANGED <<pendingRun, runRequester, lineClearConfirmed, orderVars, queueReport>>
    <3>1. /\ systemState' \in SystemStates /\ pauseReason' \in PauseReasons
          /\ recoveryPolicy' \in Policies /\ shutdownPhase' = shutdownPhase
          /\ deadlines' \subseteq {"pause", "run", "shutdown"}
      BY <1>6, <2>2 DEF ResetCompleted, TypeOK
    <3>2. tainted' \in BOOLEAN /\ pausedByQueue' \in BOOLEAN /\ queueRecovered' \in BOOLEAN
      BY <2>2, Zenon DEF TypeOK
    <3> QED BY <1>1, <2>2, <3>1, <3>2 DEF TypeOK
  <2> QED BY <1>6, <2>1, <2>2 DEF ResetCompleted
<1>7. CASE NothingConfirmed(seen) BY <1>1, <1>7 DEF NothingConfirmed, TypeOK
<1> QED BY <1>2, <1>3, <1>4, <1>5, <1>6, <1>7 DEF HandleEquipmentState

\* The Vision queue, as the Master hears of it.
LEMMA QueueTypes == ASSUME TypeOK, QueueStep PROVE TypeOK'
<1> USE DEF QueueSame, queueVars, workerVars, plantVars, orderVars
<1> DEFINE Typed ==
      /\ orders' \in Seq(Command) /\ ordered' \in [Conveyors -> {"run", "stop"}]
      /\ pendingRun' \in BOOLEAN /\ runRequester' \in {"none", "operator", "auto"}
      /\ deadlines' \subseteq {"pause", "run", "shutdown"}
      /\ systemState' \in SystemStates /\ pauseReason' \in PauseReasons
<1>1. ASSUME QueuePause PROVE Typed
  BY <1>1, PausingTypes DEF QueuePause, TypeOK, Command
<1>2. ASSUME UNCHANGED <<systemState, pauseReason, pendingRun, runRequester, deadlines, orderVars>>
      PROVE  Typed
  BY <1>2 DEF TypeOK, Command
<1>3. ASSUME NEW s \in Stations, HandleCaptureFeedback(s) PROVE TypeOK'
  <2>1. Typed /\ pausedByQueue' \in BOOLEAN /\ queueRecovered' \in BOOLEAN
    BY <1>1, <1>2, <1>3 DEF HandleCaptureFeedback, TypeOK
  <2> QED BY <1>3, <2>1 DEF HandleCaptureFeedback, TypeOK, Command
<1>4. CASE HandleQueueState
  <2>1. CASE QueuePause /\ pausedByQueue' = TRUE /\ queueRecovered' = FALSE
    <3>1. Typed BY <1>1, <2>1
    <3> QED BY <1>4, <2>1, <3>1 DEF HandleQueueState, TypeOK, Command
  <2>2. CASE UNCHANGED <<systemState, pauseReason>> /\ AutoResume(mirror, {})
    <3>1. CASE RequestRun("auto", {}) /\ pausedByQueue' = FALSE /\ queueRecovered' = FALSE
      <4>1. /\ orders' \in Seq(Command) /\ ordered' \in [Conveyors -> {"run", "stop"}]
            /\ pendingRun' \in BOOLEAN /\ runRequester' \in {"none", "operator", "auto"}
            /\ deadlines' \subseteq {"pause", "run", "shutdown"}
        BY <3>1, RequestRunTypes
      <4> QED BY <1>4, <2>2, <3>1, <4>1 DEF HandleQueueState, TypeOK, Command
    <3>2. CASE /\ UNCHANGED <<pausedByQueue, pendingRun, runRequester, orderVars>>
               /\ queueRecovered' = TRUE /\ deadlines' = deadlines \ {}
      <4>1. deadlines' = deadlines BY <3>2
      <4>2. Typed BY <1>2, <2>2, <3>2, <4>1
      <4> QED BY <1>4, <3>2, <4>2 DEF HandleQueueState, TypeOK, Command
    <3> QED BY <2>2, <3>1, <3>2 DEF AutoResume
  <2>3. CASE /\ UNCHANGED <<systemState, pauseReason, pendingRun, runRequester, deadlines, orderVars,
                            pausedByQueue>>
             /\ queueRecovered' \in {TRUE, queueRecovered}
    <3>1. Typed BY <1>2, <2>3
    <3> QED BY <1>4, <2>3, <3>1 DEF HandleQueueState, TypeOK, Command
  <2> QED BY <1>4, <2>1, <2>2, <2>3 DEF HandleQueueState
<1> QED BY <1>3, <1>4 DEF QueueStep

\* Every step keeps the types.
LEMMA NextTypes == ASSUME TypeOK, [Next]_vars PROVE TypeOK'
<1>1. CASE Next
  BY <1>1, OperatorTypes, ShutdownTypes, WorkerTypes, LineTypes, EquipmentTypes, QueueTypes,
     TimerTypes, OutsideTypes DEF Next, MasterStep
<1>2. CASE UNCHANGED vars
  BY <1>2 DEF TypeOK, vars, fsmVars, queueVars, workerVars, plantVars, orderVars, visionVars,
              historyVars
<1> QED BY <1>1, <1>2

\* The boot.
LEMMA InitTypes == Init => TypeOK
<1> SUFFICES ASSUME Init PROVE TypeOK OBVIOUS
<1> USE DEF SystemStates, PauseReasons, Policies, Motions
<1>1. orders \in Seq(Command) BY DEF Init
<1>2. report \in [value : [Conveyors -> Motions], unread : BOOLEAN] BY DEF Init
<1>3. queueReport \in [value : {"ACCEPTING", "ENQUEUE_BLOCKED"}, unread : BOOLEAN] BY DEF Init
<1> QED BY <1>1, <1>2, <1>3 DEF Init, TypeOK, Command

\* Every variable of the Master, of Control and of Vision keeps its type, whoever fails.
THEOREM MasterTypes == Spec => []TypeOK
BY InitTypes, NextTypes, PTL DEF Spec

-----------------------------------------------------------------------------
(* Safety.  First the parts that several handlers share. *)

SafeVars == <<systemState, pendingRun, pauseReason, recoveryPolicy, shutdownPhase, orders, ordered,
              conveyor, runRequester, tainted>>

\* A handler that touches none of these, and no more of the report than whether it is
\* unread, keeps the invariant.
LEMMA SafeFrame ==
    ASSUME Safe, UNCHANGED SafeVars, report'.value = report.value
    PROVE  Safe'
<1> USE DEF Safe, SafeVars
<1>1. BeliefMatchesOrders' BY DEF BeliefMatchesOrders
<1>2. RunAwaited' /\ TaintIsKept' BY DEF RunAwaited, TaintIsKept
<1>3. ReportsAreBehind'
  BY DEF ReportsAreBehind, OnlyRuns, Moving, StopUnderWay, StopDone
<1> QED BY <1>1, <1>2, <1>3

\* request_pause, request_recoverable_device_pause: the stop is put behind the RUNs.
LEMMA PausingKeepsSafe ==
    ASSUME IInv, NEW reason, Pausing(reason), UNCHANGED <<tainted, conveyor>>,
           report'.value = report.value,
           shutdownPhase' = "IDLE" => shutdownPhase = "IDLE",
           shutdownPhase = "READY_TO_EXIT" => shutdownPhase' = "READY_TO_EXIT"
    PROVE  Safe'
<1> USE DEF IInv, Safe
<1>1. /\ systemState = "RUN_SYS" /\ systemState' = "PAUSING" /\ ~pendingRun'
      /\ StopAll
  BY DEF Pausing
<1>2. /\ Len(orders') = Len(orders) + 1 /\ Len(orders) \in Nat
      /\ orders'[Len(orders')] = [to |-> "stop", who |-> Conveyors]
      /\ \A i \in 1 .. Len(orders) : orders'[i] = orders[i]
      /\ \A c \in Conveyors : ordered'[c] = "stop"
  BY <1>1, OrderEffect DEF StopAll, TypeOK
<1>3. BeliefMatchesOrders' BY <1>1, <1>2 DEF BeliefMatchesOrders
<1>4. RunAwaited' BY <1>1 DEF RunAwaited
<1>5. TaintIsKept' BY <1>1 DEF TaintIsKept
<1>6. ReportsAreBehind'
  <2> SUFFICES ASSUME shutdownPhase = "IDLE" PROVE StopUnderWay'
    BY <1>1 DEF ReportsAreBehind
  <2>1. OnlyRuns /\ Moving(conveyor) /\ Moving(report.value)
    BY <1>1 DEF ReportsAreBehind
  <2> QED BY <1>2, <2>1 DEF StopUnderWay, OnlyRuns, Moving
<1> QED BY <1>3, <1>4, <1>5, <1>6

\* report_critical_fault.  Only the shutdown that timed out reports less than LINE_CLEAR.
LEMMA CriticalFaultKeepsSafe ==
    ASSUME IInv, NEW policy, NEW expired, CriticalFault(policy, expired),
           policy = "LINE_CLEAR" \/ shutdownPhase' # "IDLE"
    PROVE  Safe'
<1> USE DEF IInv, Safe
<1>1. /\ systemState' = "FAULT_STOP" /\ ~pendingRun' /\ recoveryPolicy' = policy
      /\ StopAll
  BY DEF CriticalFault
<1>2. \A c \in Conveyors : ordered'[c] = "stop" BY <1>1, StopAllTypes
<1>3. BeliefMatchesOrders' BY <1>1, <1>2 DEF BeliefMatchesOrders
<1>4. RunAwaited' /\ TaintIsKept' BY <1>1 DEF RunAwaited, TaintIsKept
<1>5. ReportsAreBehind' BY <1>1 DEF ReportsAreBehind
<1> QED BY <1>3, <1>4, <1>5

\* _request_conveyor_run, in READY and PAUSED.
LEMMA RequestRunKeepsSafe ==
    ASSUME TypeOK, NEW requester, NEW expired, RequestRun(requester, expired),
           requester = "operator" \/ (requester = "auto" /\ pauseReason' = "AUTO"),
           systemState' \in {"READY", "PAUSED"}, TaintIsKept',
           UNCHANGED conveyor, report'.value = report.value,
           shutdownPhase' = "IDLE" =>
               OnlyRuns /\ \A c \in Conveyors : report.value[c] # "stop" => conveyor[c] # "stop"
    PROVE  Safe'
<1>1. pendingRun' /\ runRequester' = requester /\ Order("run", Conveyors)
  BY DEF RequestRun
<1>2. /\ Len(orders') = Len(orders) + 1 /\ Len(orders) \in Nat
      /\ orders'[Len(orders')] = [to |-> "run", who |-> Conveyors]
      /\ \A i \in 1 .. Len(orders) : orders'[i] = orders[i]
      /\ \A c \in Conveyors : ordered'[c] = "run"
  BY <1>1, OrderEffect DEF TypeOK
<1>3. BeliefMatchesOrders' BY DEF BeliefMatchesOrders
<1>4. RunAwaited' BY <1>1, <1>2 DEF RunAwaited
<1>5. OnlyRuns => OnlyRuns' BY <1>2 DEF OnlyRuns
<1>6. ReportsAreBehind' BY <1>5 DEF ReportsAreBehind
<1> QED BY <1>3, <1>4, <1>6 DEF Safe

-----------------------------------------------------------------------------
\* The operator.
LEMMA OperatorKeepsSafe == ASSUME IInv, OperatorStep PROVE Safe'
<1> USE DEF IInv, Safe, OperatorSame, queueVars, plantVars, orderVars, historyVars
<1>1. CASE RequestInitialize
  <2>1. BeliefMatchesOrders' BY <1>1 DEF RequestInitialize, BeliefMatchesOrders
  <2>2. RunAwaited' /\ TaintIsKept' BY <1>1 DEF RequestInitialize, RunAwaited, TaintIsKept
  <2>3. OnlyRuns => OnlyRuns' BY <1>1 DEF RequestInitialize, OnlyRuns
  <2>4. ReportsAreBehind' BY <1>1, <2>3 DEF RequestInitialize, ReportsAreBehind
  <2> QED BY <2>1, <2>2, <2>4
<1>2. CASE RequestStart
  <2>1. RequestRun("operator", {}) BY <1>2 DEF RequestStart
  <2>2. TaintIsKept' BY <1>2 DEF RequestStart, TaintIsKept
  <2>3. shutdownPhase' = "IDLE" =>
          OnlyRuns /\ \A c \in Conveyors : report.value[c] # "stop" => conveyor[c] # "stop"
    BY <1>2 DEF RequestStart, ReportsAreBehind
  <2>4. systemState' = "READY" /\ UNCHANGED <<conveyor, report>> BY <1>2 DEF RequestStart
  <2> QED BY <2>1, <2>2, <2>3, <2>4, RequestRunKeepsSafe
<1>3. CASE RequestPause
  <2>1. Pausing("MANUAL") /\ UNCHANGED <<tainted, conveyor, report, shutdownPhase>>
    BY <1>3 DEF RequestPause
  <2> QED BY <2>1, PausingKeepsSafe
<1>4. CASE RequestResume
  <2>1. RequestRun("operator", {}) BY <1>4 DEF RequestResume
  <2>2. TaintIsKept' BY <1>4 DEF RequestResume, TaintIsKept
  <2>3. shutdownPhase' = "IDLE" =>
          OnlyRuns /\ \A c \in Conveyors : report.value[c] # "stop" => conveyor[c] # "stop"
    BY <1>4 DEF RequestResume, ReportsAreBehind
  <2>4. systemState' = "PAUSED" /\ UNCHANGED <<conveyor, report>> BY <1>4 DEF RequestResume
  <2> QED BY <2>1, <2>2, <2>3, <2>4, RequestRunKeepsSafe
<1>5. CASE RequestReset
  <2>1. BeliefMatchesOrders' BY <1>5 DEF RequestReset, BeliefMatchesOrders
  <2>2. RunAwaited' /\ TaintIsKept' BY <1>5 DEF RequestReset, RunAwaited, TaintIsKept
  <2>3. OnlyRuns' BY <1>5 DEF RequestReset, OnlyRuns
  <2>4. ReportsAreBehind' BY <1>5, <2>3 DEF RequestReset, ReportsAreBehind
  <2> QED BY <2>1, <2>2, <2>4
<1>6. CASE ConfirmLineCleared BY <1>6, SafeFrame DEF ConfirmLineCleared, SafeVars
<1> QED BY <1>1, <1>2, <1>3, <1>4, <1>5, <1>6 DEF OperatorStep

\* The workers.
LEMMA WorkerKeepsSafe == ASSUME IInv, WorkerStep PROVE Safe'
<1> USE DEF IInv, fsmVars, queueVars, plantVars, orderVars, historyVars
<1> SUFFICES ASSUME NEW w \in Workers,
                    SendInitialize(w) \/ WorkerReady(w) \/ WorkerUnavailable(w)
             PROVE  Safe'
  BY DEF WorkerStep
<1>1. CASE SendInitialize(w) BY <1>1, SafeFrame DEF SendInitialize, SafeVars
<1>2. CASE WorkerReady(w)
  <2>1. /\ report'.value = report.value
        /\ systemState' = systemState
           \/ (systemState = "INITIALIZING" /\ systemState' = "READY")
        /\ UNCHANGED <<pendingRun, pauseReason, recoveryPolicy, shutdownPhase, orders, ordered,
                       conveyor, runRequester, tainted>>
    BY <1>2 DEF WorkerReady, TypeOK
  <2>2. BeliefMatchesOrders' BY <2>1 DEF Safe, BeliefMatchesOrders
  <2>3. RunAwaited' /\ TaintIsKept' BY <2>1 DEF Safe, RunAwaited, TaintIsKept
  <2>4. ReportsAreBehind'
    BY <2>1 DEF Safe, ReportsAreBehind, OnlyRuns, Moving, StopUnderWay, StopDone
  <2> QED BY <2>2, <2>3, <2>4 DEF Safe
<1>3. CASE WorkerUnavailable(w)
  <2>1. UNCHANGED <<conveyor, report, shutdownPhase>> BY <1>3 DEF WorkerUnavailable
  <2>2. CASE CriticalFault("LINE_CLEAR", {})
    BY <2>2, CriticalFaultKeepsSafe
  <2>3. CASE \E reason \in {"AUTO", "MANUAL"} : Pausing(reason) /\ UNCHANGED tainted
    BY <2>1, <2>3, PausingKeepsSafe
  <2>4. CASE UNCHANGED <<systemState, pendingRun, pauseReason, recoveryPolicy, orderVars, historyVars>>
    BY <2>1, <2>4, SafeFrame DEF SafeVars
  <2> QED BY <1>3, <2>2, <2>3, <2>4 DEF WorkerUnavailable
<1> QED BY <1>1, <1>2, <1>3

\* The product tracking.
LEMMA LineKeepsSafe == ASSUME IInv, LineStep PROVE Safe'
<1> USE DEF IInv, LineSame, fsmVars, queueVars, plantVars, orderVars, historyVars
<1>1. CASE LineFault BY <1>1, CriticalFaultKeepsSafe DEF LineFault
<1>2. CASE LinePause BY <1>2, PausingKeepsSafe DEF LinePause
<1>3. ASSUME NEW c \in Conveyors, LineResume(c) PROVE Safe'
  <2>1. systemState = "RUN_SYS" /\ Order("run", {c}) BY <1>3 DEF LineResume
  <2>2. UNCHANGED <<fsmVars, historyVars, plantVars>> BY <1>3 DEF LineResume
  <2>3. /\ Len(orders') = Len(orders) + 1 /\ Len(orders) \in Nat
        /\ orders'[Len(orders')] = [to |-> "run", who |-> {c}]
        /\ \A i \in 1 .. Len(orders) : orders'[i] = orders[i]
        /\ \A d \in Conveyors : ordered'[d] = "run" \/ ordered'[d] = ordered[d]
    <3>1. {c} \in SUBSET Conveyors /\ "run" \in {"run", "stop"} OBVIOUS
    <3>2. TypeOK /\ Order("run", {c}) BY <2>1
    <3>3. Len(orders) \in Nat BY DEF TypeOK
    <3>4. /\ Len(orders') = Len(orders) + 1
          /\ orders'[Len(orders')] = [to |-> "run", who |-> {c}]
          /\ \A i \in 1 .. Len(orders) : orders'[i] = orders[i]
          /\ \A d \in Conveyors : ordered'[d] = IF d \in {c} THEN "run" ELSE ordered[d]
      BY ONLY <3>1, <3>2, OrderEffect
    <3> QED BY <3>3, <3>4
  <2>4. BeliefMatchesOrders' BY <2>1, <2>2, <2>3 DEF Safe, BeliefMatchesOrders
  <2>5. RunAwaited' /\ TaintIsKept' BY <2>1, <2>2 DEF Safe, RunAwaited, TaintIsKept
  <2>6. OnlyRuns => OnlyRuns' BY <2>3 DEF OnlyRuns
  <2>7. ReportsAreBehind' BY <2>1, <2>2, <2>6 DEF Safe, ReportsAreBehind, Moving
  <2> QED BY <2>4, <2>5, <2>7 DEF Safe
<1>4. ASSUME NEW s \in Stations, LineCapture(s) \/ LineCycleEnds(s) PROVE Safe'
  BY <1>4, SafeFrame DEF LineCapture, LineCycleEnds, SafeVars
<1> QED BY <1>1, <1>2, <1>3, <1>4 DEF LineStep

\* The timer.
LEMMA TimerKeepsSafe == ASSUME IInv, TimerStep PROVE Safe'
<1> USE DEF IInv, TimerSame, plantVars, orderVars, historyVars
<1>1. CASE PauseTimesOut
  <2>1. /\ systemState = "PAUSING" /\ systemState' = "FAULT_STOP" /\ StopAll
        /\ UNCHANGED <<pendingRun, shutdownPhase, tainted>>
    BY <1>1 DEF PauseTimesOut
  <2>2. BeliefMatchesOrders' BY <2>1, StopAllTypes DEF BeliefMatchesOrders
  <2>3. RunAwaited' /\ TaintIsKept' BY <2>1 DEF Safe, RunAwaited, TaintIsKept
  <2>4. ReportsAreBehind' BY <2>1 DEF ReportsAreBehind
  <2> QED BY <2>2, <2>3, <2>4 DEF Safe
<1>2. CASE RunTimesOut
  <2>1. /\ ~pendingRun'
        /\ UNCHANGED <<systemState, recoveryPolicy, shutdownPhase, tainted, orders, ordered,
                       conveyor, report>>
    BY <1>2 DEF RunTimesOut
  <2>2. BeliefMatchesOrders' BY <2>1 DEF Safe, BeliefMatchesOrders
  <2>3. RunAwaited' /\ TaintIsKept' BY <2>1 DEF Safe, RunAwaited, TaintIsKept
  <2>4. ReportsAreBehind'
    BY <2>1 DEF Safe, ReportsAreBehind, OnlyRuns, Moving, StopUnderWay, StopDone
  <2> QED BY <2>2, <2>3, <2>4 DEF Safe
<1>3. CASE ShutdownTimesOut
  <2>1. CriticalFault("EQUIPMENT_CHECK", {"shutdown"}) /\ shutdownPhase' = "BLOCKED"
    BY <1>3 DEF ShutdownTimesOut
  <2> QED BY <2>1, CriticalFaultKeepsSafe
<1> QED BY <1>1, <1>2, <1>3 DEF TimerStep

\* Ctrl+C.
LEMMA ShutdownKeepsSafe == ASSUME IInv, RequestShutdown PROVE Safe'
<1> USE DEF IInv, TimerSame, plantVars, orderVars
<1>1. shutdownPhase = "IDLE" /\ UNCHANGED <<tainted, recoveryPolicy, conveyor, report>>
  BY DEF RequestShutdown
<1>2. CASE Pausing("MANUAL") /\ shutdownPhase' = "WAITING_STOP"
  BY <1>1, <1>2, PausingKeepsSafe
<1>3. CASE /\ StopAll \/ UNCHANGED orderVars
           /\ shutdownPhase' \in {"WAITING_STOP", "READY_TO_EXIT"}
           /\ UNCHANGED <<systemState, pauseReason, pendingRun, runRequester>>
  <2>1. \A c \in Conveyors : ordered'[c] = "stop" \/ ordered' = ordered
    BY <1>3, StopAllTypes
  <2>2. BeliefMatchesOrders' BY <1>3, <2>1 DEF Safe, BeliefMatchesOrders
  <2>3. RunAwaited' /\ TaintIsKept' BY <1>1, <1>3 DEF Safe, RunAwaited, TaintIsKept
  <2>4. ReportsAreBehind' BY <1>3 DEF ReportsAreBehind
  <2> QED BY <2>2, <2>3, <2>4 DEF Safe
<1> QED BY <1>2, <1>3 DEF RequestShutdown

\* An EquipmentState: only here do PAUSING and RESETTING end and does RUN_SYS begin.
LEMMA EquipmentKeepsSafe == ASSUME IInv, HandleEquipmentState PROVE Safe'
<1> USE DEF IInv, queueVars, workerVars, orderVars, visionVars, historyVars
<1> DEFINE seen == report.value
<1>1. report'.value = report.value /\ UNCHANGED conveyor
  BY DEF HandleEquipmentState, TypeOK
<1>2. CASE ConfirmRunning(seen)
  <2>1. /\ pendingRun /\ AllRunning(seen) /\ systemState \in {"READY", "PAUSED"}
        /\ systemState' = "RUN_SYS" /\ ~pendingRun'
        /\ UNCHANGED <<recoveryPolicy, shutdownPhase, tainted, orders, ordered>>
    BY <1>2 DEF ConfirmRunning
  <2>2. BeliefMatchesOrders' BY <2>1 DEF Safe, RunAwaited, BeliefMatchesOrders
  <2>3. RunAwaited' /\ TaintIsKept' BY <2>1 DEF Safe, RunAwaited, TaintIsKept
  <2>4. ReportsAreBehind'
    BY <1>1, <2>1 DEF Safe, ReportsAreBehind, OnlyRuns, Moving, AllRunning
  <2> QED BY <2>2, <2>3, <2>4 DEF Safe
<1>3. CASE ProductsMisaligned BY <1>3, CriticalFaultKeepsSafe DEF ProductsMisaligned
<1>4. CASE ShutdownFinalized
  <2>1. /\ shutdownPhase' = "READY_TO_EXIT" /\ systemState' \in {"PAUSED", systemState}
        /\ systemState' = IF systemState = "PAUSING" THEN "PAUSED" ELSE systemState
        /\ UNCHANGED <<pendingRun, pauseReason, orders, ordered, runRequester, tainted>>
    BY <1>4 DEF ShutdownFinalized
  <2>2. BeliefMatchesOrders' BY <2>1 DEF Safe, BeliefMatchesOrders
  <2>3. RunAwaited' /\ TaintIsKept' BY <2>1 DEF Safe, RunAwaited, TaintIsKept
  <2>4. ReportsAreBehind' BY <2>1 DEF ReportsAreBehind
  <2> QED BY <2>2, <2>3, <2>4 DEF Safe
<1>5. CASE AllStopped(seen) /\ PausedNow(seen)
  <2>1. /\ shutdownPhase = "IDLE" /\ systemState \in {"PAUSING", "PAUSED"}
        /\ systemState' = "PAUSED"
        /\ UNCHANGED <<pauseReason, recoveryPolicy, shutdownPhase, tainted>>
    BY <1>5 DEF PausedNow
  <2>2. /\ OnlyRuns
        /\ \A c \in Conveyors : report.value[c] # "stop" => conveyor[c] # "stop"
    <3>1. CASE systemState = "PAUSED" BY <2>1, <3>1 DEF Safe, ReportsAreBehind
    <3>2. CASE systemState = "PAUSING"
      <4>1. ~StopUnderWay BY <1>5, SystemAssumption DEF StopUnderWay, Moving, AllStopped
      <4>2. StopDone BY <2>1, <3>2, <4>1 DEF Safe, ReportsAreBehind
      <4> QED BY <1>5, <4>2 DEF StopDone, OnlyRuns, AllStopped
    <3> QED BY <2>1, <3>1, <3>2
  <2>3. TaintIsKept' BY <2>1 DEF Safe, TaintIsKept
  <2>4. CASE pauseReason = "AUTO" /\ RequestRun("auto", {"pause"})
    BY <1>1, <2>1, <2>2, <2>3, <2>4, RequestRunKeepsSafe
  <2>5. CASE UNCHANGED <<pendingRun, runRequester, orderVars>>
    <3>1. BeliefMatchesOrders' BY <2>1 DEF BeliefMatchesOrders
    <3>2. RunAwaited' BY <2>1, <2>5 DEF Safe, RunAwaited
    <3>3. OnlyRuns' BY <2>2, <2>5 DEF OnlyRuns
    <3>4. ReportsAreBehind' BY <1>1, <2>1, <2>2, <3>3 DEF ReportsAreBehind
    <3> QED BY <2>3, <3>1, <3>2, <3>4 DEF Safe
  <2> QED BY <1>5, <2>4, <2>5 DEF PausedNow, AutoResume
<1>6. CASE AllStopped(seen) /\ ResetCompleted
  <2>1. CASE CriticalFault("LINE_CLEAR", {}) BY <2>1, CriticalFaultKeepsSafe
  <2>2. CASE /\ systemState = "RESETTING" /\ shutdownPhase = "IDLE"
             /\ systemState' \in {"READY", "PAUSED"}
             /\ tainted' = FALSE \/ (recoveryPolicy = "EQUIPMENT_CHECK" /\ tainted' = tainted)
             /\ UNCHANGED <<pendingRun, runRequester, orders, ordered, shutdownPhase>>
    <3>1. ~tainted' BY <2>2, Zenon DEF Safe, TaintIsKept
    <3>2. BeliefMatchesOrders' BY <2>2 DEF BeliefMatchesOrders
    <3>3. RunAwaited' BY <2>2 DEF Safe, RunAwaited
    <3>4. TaintIsKept' BY <3>1 DEF TaintIsKept
    <3>5. OnlyRuns' BY <2>2 DEF Safe, ReportsAreBehind, OnlyRuns
    <3>6. ReportsAreBehind' BY <1>1, <1>6, <2>2, <3>5 DEF ReportsAreBehind, AllStopped
    <3> QED BY <3>2, <3>3, <3>4, <3>6 DEF Safe
  <2> QED BY <1>6, <2>1, <2>2 DEF ResetCompleted
<1>7. CASE NothingConfirmed(seen) BY <1>1, <1>7, SafeFrame DEF NothingConfirmed, SafeVars
<1> QED BY <1>2, <1>3, <1>4, <1>5, <1>6, <1>7 DEF HandleEquipmentState

\* The Vision queue.
LEMMA QueueKeepsSafe == ASSUME IInv, QueueStep PROVE Safe'
<1> USE DEF IInv, QueueSame, queueVars, plantVars, orderVars
<1>1. UNCHANGED <<recoveryPolicy, shutdownPhase, conveyor, report, tainted>>
  BY DEF QueueStep, HandleCaptureFeedback, HandleQueueState
<1>2. CASE UNCHANGED <<systemState, pauseReason, pendingRun, runRequester, orderVars>>
  BY <1>1, <1>2, SafeFrame DEF SafeVars
<1>3. CASE QueuePause
  <2>1. CASE Pausing("AUTO") BY <1>1, <2>1, PausingKeepsSafe
  <2> QED BY <1>2, <1>3, <2>1 DEF QueuePause
<1>4. CASE /\ systemState = "PAUSED" /\ UNCHANGED <<systemState, pauseReason>>
           /\ AutoResume(mirror, {})
  <2>1. CASE pauseReason = "AUTO" /\ RequestRun("auto", {})
    <3>1. TaintIsKept' BY <1>1, <1>4 DEF Safe, TaintIsKept
    <3>2. shutdownPhase' = "IDLE" =>
            OnlyRuns /\ \A c \in Conveyors : report.value[c] # "stop" => conveyor[c] # "stop"
      BY <1>1, <1>4 DEF Safe, ReportsAreBehind
    <3> QED BY <1>1, <1>4, <2>1, <3>1, <3>2, RequestRunKeepsSafe
  <2> QED BY <1>2, <1>4, <2>1 DEF AutoResume
<1> QED BY <1>2, <1>3, <1>4 DEF QueueStep, HandleCaptureFeedback, HandleQueueState

\* Control, the conveyors and Vision: commands arrive in their order, and a report says
\* what the belts do.
LEMMA OutsideKeepsSafe == ASSUME IInv, OutsideStep PROVE Safe'
<1> USE DEF IInv, MasterSame, fsmVars, queueVars, orderVars, plantVars, visionVars, historyVars
<1> DEFINE Same == UNCHANGED <<systemState, pendingRun, pauseReason, recoveryPolicy, shutdownPhase,
                               ordered, runRequester, tainted>>
<1>1. ASSUME Same PROVE BeliefMatchesOrders' /\ RunAwaited' /\ TaintIsKept'
  BY <1>1 DEF Safe, BeliefMatchesOrders, RunAwaited, TaintIsKept
<1>2. CASE DeliverOrder \/ OrderLost
  <2>1. orders \in Seq(Command) /\ orders # <<>> /\ orders' = Tail(orders)
    BY <1>2 DEF DeliverOrder, OrderLost, TypeOK, Command
  <2>2. /\ Len(orders) \in Nat /\ Len(orders') = Len(orders) - 1
        /\ \A i \in 1 .. Len(orders') : orders'[i] = orders[i + 1]
        /\ Head(orders) = orders[1] /\ Len(orders) > 0
    BY <2>1
  <2>3. Same /\ UNCHANGED report BY <1>2 DEF DeliverOrder, OrderLost
  <2>4. \A c \in Conveyors :
           \/ conveyor'[c] = conveyor[c]
           \/ c \in orders[1].who /\ conveyor'[c] = orders[1].to
    BY <1>2, <2>2 DEF DeliverOrder, OrderLost
  <2>5. OnlyRuns => OnlyRuns' BY <2>2 DEF OnlyRuns
  <2>6. orders[1].to = "run" =>
           \A c \in Conveyors : conveyor[c] # "stop" => conveyor'[c] # "stop"
    BY <2>4
  <2>7. OnlyRuns => orders[1].to = "run" BY <2>2 DEF OnlyRuns
  <2>8. StopUnderWay => StopUnderWay' \/ StopDone'
    <3> SUFFICES ASSUME StopUnderWay PROVE StopUnderWay' \/ StopDone' OBVIOUS
    <3>1. CASE Len(orders) = 1
      BY <2>2, <2>3, <2>4, <3>1 DEF StopUnderWay, StopDone, Moving
    <3>2. CASE Len(orders) # 1
      <4>1. orders[1].to = "run" /\ Len(orders') > 0 BY <2>2, <3>2 DEF StopUnderWay
      <4>2. /\ orders'[Len(orders')] = [to |-> "stop", who |-> Conveyors]
            /\ \A i \in 1 .. Len(orders') - 1 : orders'[i].to = "run"
        BY <2>2, <4>1 DEF StopUnderWay
      <4>3. Moving(conveyor)' /\ Moving(report'.value)
        BY <2>3, <2>6, <4>1 DEF StopUnderWay, Moving
      <4> QED BY <4>1, <4>2, <4>3 DEF StopUnderWay
    <3> QED BY <3>1, <3>2
  <2>9. ~StopDone BY <2>2 DEF StopDone
  <2>10. ReportsAreBehind'
    BY <2>3, <2>5, <2>6, <2>7, <2>8, <2>9 DEF Safe, ReportsAreBehind, Moving
  <2> QED BY <1>1, <2>3, <2>10 DEF Safe
<1>3. CASE PublishReport
  <2>1. Same /\ UNCHANGED <<orders, conveyor>> /\ report'.value = conveyor
    BY <1>3 DEF PublishReport
  <2>2. ReportsAreBehind'
    BY <2>1 DEF Safe, ReportsAreBehind, OnlyRuns, Moving, StopUnderWay, StopDone
  <2> QED BY <1>1, <2>1, <2>2 DEF Safe
<1>4. ASSUME NEW c \in Conveyors, HoldConveyor(c) PROVE Safe'
  <2>1. Same /\ UNCHANGED <<orders, report>> BY <1>4 DEF HoldConveyor
  <2>2. \A d \in Conveyors : conveyor'[d] = conveyor[d]
                              \/ (conveyor[d] # "stop" /\ conveyor'[d] # "stop")
    BY <1>4 DEF HoldConveyor, TypeOK
  <2>3. ReportsAreBehind'
    BY <2>1, <2>2 DEF Safe, ReportsAreBehind, OnlyRuns, Moving, StopUnderWay, StopDone
  <2> QED BY <1>1, <2>1, <2>3 DEF Safe
<1>5. ASSUME NEW s \in Stations, VisionBlocked(s) \/ VisionAccepted(s) PROVE Safe'
  BY <1>5, SafeFrame DEF VisionBlocked, VisionAccepted, SafeVars
<1> QED BY <1>2, <1>3, <1>4, <1>5 DEF OutsideStep

\* The invariant is inductive.
LEMMA NextIInv == ASSUME IInv, [Next]_vars PROVE IInv'
<1>1. TypeOK' BY NextTypes DEF IInv
<1>2. CASE Next
  BY <1>2, OperatorKeepsSafe, ShutdownKeepsSafe, WorkerKeepsSafe, LineKeepsSafe,
     EquipmentKeepsSafe, QueueKeepsSafe, TimerKeepsSafe, OutsideKeepsSafe, <1>1
     DEF Next, MasterStep, IInv
<1>3. CASE UNCHANGED vars
  <2>1. Safe' BY <1>3, SafeFrame
     DEF IInv, SafeVars, vars, fsmVars, orderVars, plantVars, historyVars
  <2> QED BY <1>1, <2>1 DEF IInv
<1> QED BY <1>2, <1>3

\* It holds at the boot.
LEMMA InitIInv == Init => IInv
<1> SUFFICES ASSUME Init PROVE IInv OBVIOUS
<1>1. TypeOK BY InitTypes
<1>2. BeliefMatchesOrders /\ RunAwaited /\ TaintIsKept
  BY DEF Init, BeliefMatchesOrders, RunAwaited, TaintIsKept
<1>3. ReportsAreBehind BY DEF Init, ReportsAreBehind, OnlyRuns, Moving
<1> QED BY <1>1, <1>2, <1>3 DEF IInv, Safe

-----------------------------------------------------------------------------
(* The properties of the runs MasterSystem and MasterFailures, for all constants. *)

\* While the line is stopping, faulted or resetting, a stop is what every conveyor was
\* ordered last, and RUN_SYS is shown only with every conveyor ordered to run.
THEOREM BeliefsMatchOrders == Spec => []BeliefMatchesOrders
<1>1. IInv => BeliefMatchesOrders BY DEF IInv, Safe
<1> QED BY <1>1, InitIInv, NextIInv, PTL DEF Spec

\* A LINE_CLEAR fault is left by a cleared ledger or by the exit only.
THEOREM TaintKeepsLineStopped == Spec => []TaintedLineStaysStopped
<1>1. IInv => TaintedLineStaysStopped
  BY DEF IInv, Safe, TaintIsKept, TaintedLineStaysStopped
<1> QED BY <1>1, InitIInv, NextIInv, PTL DEF Spec

\* RUN_SYS and PAUSED are entered by the handler of EquipmentState only.
LEMMA OnlyReportsConfirm ==
    ASSUME Next, systemState' # systemState, systemState' \in {"RUN_SYS", "PAUSED"}
    PROVE  HandleEquipmentState
<1>1. ~OperatorStep
  BY DEF OperatorStep, RequestInitialize, RequestStart, RequestPause, RequestResume, RequestReset,
         ConfirmLineCleared, Pausing
<1>2. ~RequestShutdown BY DEF RequestShutdown, Pausing
<1>3. ~WorkerStep
  BY DEF WorkerStep, SendInitialize, WorkerReady, WorkerUnavailable, CriticalFault, Pausing, fsmVars
<1>4. ~LineStep
  BY DEF LineStep, LineFault, LinePause, LineResume, LineCapture, LineCycleEnds, CriticalFault,
         Pausing, fsmVars
<1>5. ~QueueStep
  BY DEF QueueStep, HandleQueueState, HandleCaptureFeedback, QueuePause, Pausing
<1>6. ~TimerStep
  BY DEF TimerStep, PauseTimesOut, RunTimesOut, ShutdownTimesOut, CriticalFault
<1>7. ~OutsideStep
  BY DEF OutsideStep, DeliverOrder, OrderLost, PublishReport, HoldConveyor, VisionBlocked,
         VisionAccepted, MasterSame, fsmVars
<1> QED BY <1>1, <1>2, <1>3, <1>4, <1>5, <1>6, <1>7 DEF Next, MasterStep

\* The line starts only for a run somebody asked for, and without the operator only out of
\* an automatic pause (confirm_all_conveyors_running).
THEOREM RunIsRequested == Spec => RunOnlyOnRequest
<1>1. ASSUME IInv, [Next]_vars, systemState # "RUN_SYS", systemState' = "RUN_SYS"
      PROVE  runRequester = "operator" \/ (runRequester = "auto" /\ pauseReason = "AUTO")
  <2>1. systemState' # systemState BY <1>1
  <2>2. Next BY <1>1, <2>1 DEF vars, fsmVars
  <2>3. HandleEquipmentState BY <1>1, <2>1, <2>2, OnlyReportsConfirm
  <2>4. pendingRun
    BY <1>1, <2>3
       DEF HandleEquipmentState, ConfirmRunning, ProductsMisaligned, CriticalFault,
           ShutdownFinalized, PausedNow, ResetCompleted, NothingConfirmed
  <2> QED BY <1>1, <2>4 DEF IInv, Safe, RunAwaited
<1>2. IInv /\ [Next]_vars =>
        [systemState # "RUN_SYS" /\ systemState' = "RUN_SYS" =>
            \/ runRequester = "operator"
            \/ runRequester = "auto" /\ pauseReason = "AUTO"]_vars
  BY <1>1
<1> QED BY <1>2, InitIInv, NextIInv, PTL DEF Spec, RunOnlyOnRequest

\* PAUSED is shown only when every conveyor stands: a report that says so is never older
\* than the stop (confirm_all_conveyors_stopped).
THEOREM PausedMeansStopped == Spec => PausedOnlyWhenStopped
<1>1. ASSUME IInv, [Next]_vars, systemState = "PAUSING", systemState' = "PAUSED",
             shutdownPhase = "IDLE"
      PROVE  AllStopped(conveyor)
  <2>1. systemState' # systemState BY <1>1
  <2>2. Next BY <1>1, <2>1 DEF vars, fsmVars
  <2>3. HandleEquipmentState BY <1>1, <2>1, <2>2, OnlyReportsConfirm
  <2>4. AllStopped(report.value)
    BY <1>1, <2>3 DEF HandleEquipmentState, ConfirmRunning, NothingConfirmed
  <2>5. StopUnderWay \/ StopDone BY <1>1 DEF IInv, Safe, ReportsAreBehind
  <2>6. ~StopUnderWay BY <2>4, SystemAssumption DEF StopUnderWay, Moving, AllStopped
  <2> QED BY <2>4, <2>5, <2>6 DEF StopDone, AllStopped
<1>2. IInv /\ [Next]_vars =>
        [systemState = "PAUSING" /\ systemState' = "PAUSED" /\ shutdownPhase = "IDLE" =>
            AllStopped(conveyor)]_vars
  BY <1>1
<1> QED BY <1>2, InitIInv, NextIInv, PTL DEF Spec, PausedOnlyWhenStopped
===============================================================================

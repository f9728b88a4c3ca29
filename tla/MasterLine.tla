------------------------------ MODULE MasterLine ------------------------------
(***************************************************************************)
(* The Master's tracking of the products on the line (product_flow.py and  *)
(* blocks 3 to 6 of master_node.py), between a START and the next LINE     *)
(* CLEAR: the ledger and its FIFO, the two camera stations, the results of *)
(* Vision, the lock at Sensor 3 and the actuation.  Around it: the belts   *)
(* as the Mega drives them, Control, and Vision as far as the Master sees  *)
(* them.                                                                   *)
(*                                                                         *)
(* The Master runs its callbacks one at a time.  Everything it owns is one *)
(* record, master; a callback is an operator from a record to the next     *)
(* one, and callbacks compose the way their methods call one another.      *)
(* FAULT_STOP is final here: only a LINE_CLEAR, which empties the ledger,  *)
(* leaves it after the faults of this module.                              *)
(***************************************************************************)
EXTENDS Integers, Sequences, FiniteSets, FiniteSetsExt

CONSTANTS
  ProductCount,     \* products fed to the line, named by their fifo_sequence
  Settings,         \* ROS parameters: fifo_soft_limit, fifo_hard_capacity and
                    \* master.station_b.skip_after_station_a_ng
  Disturbances,     \* the kinds of trouble the environment may cause
  MaxCaptures,      \* positioning that times out is tried again up to this capture
  MaxDisturbances   \* and how many kinds in one behaviour

ASSUME LineAssumption ==
  /\ ProductCount \in Nat \ {0}
  /\ Settings # {}
  /\ Settings \subseteq [soft : Nat \ {0}, hard : Nat \ {0}, skipB : BOOLEAN]
  /\ \A setting \in Settings : setting.soft <= setting.hard
  /\ MaxCaptures \in Nat
  /\ MaxDisturbances \in Nat

Products == 1 .. ProductCount
Stations == {"A", "B"}
None == [product |-> 0]

\* ProductPhysicalState, in its order; a product not yet seen is below all.
Unseen       == 0
Waiting      == [A |-> 1, B |-> 4]
Captured     == [A |-> 2, B |-> 5]
Onward       == [A |-> 3, B |-> 6]
Flipping     == Onward["A"]
Sensor3Wait  == Onward["B"]
AtSensor3    == 7
Actuating    == 8
Done         == 9

VARIABLES
  master,       \* what the Master keeps
  pos,          \* where each product really is
  belt,         \* what the Mega does with each conveyor
  goals,        \* CaptureProduct goals at Vision
  frames,       \* FrameBatches saved and queued, with what was inferred
  arm,          \* ActuateProduct goals at Control, per product
  disturbances  \* the kinds of trouble there has been

vars == <<master, pos, belt, goals, frames, arm, disturbances>>

-----------------------------------------------------------------------------
(* The parts of the Master's record. *)

NewStation ==
  [process |-> "PENDING", capture |-> 0, captured |-> FALSE, decision |-> "none",
   failed |-> FALSE, reported |-> FALSE]   \* reported: a failure of revision 1

ResultCompleted(station) == station.decision # "none" \/ station.failed

InitialMaster(settings) ==
  [settings   |-> settings,
   system     |-> "RUN",
   pendingRun |-> FALSE,
   orders     |-> <<>>,
   fifo       |-> <<>>,
   state      |-> [p \in Products |-> Unseen],
   station    |-> [p \in Products |-> [s \in Stations |-> NewStation]],
   captures   |-> [p \in Products |-> [s \in Stations |-> 0]],
   skip       |-> [p \in Products |-> FALSE],
   locked     |-> [p \in Products |-> "none"],
   reorder    |-> [next |-> 1, pending |-> {}],
   cycle      |-> [s \in Stations |-> None],
   lateStart  |-> {},
   lateResume |-> {},
   actuation  |-> [p \in Products |-> [phase |-> "none", timed |-> FALSE, sent |-> 0]]]

\* _fault_stop: the stop it orders is of no consequence in this module.
Faulted(m) == [m EXCEPT !.system = "FAULT", !.pendingRun = FALSE]

\* request_recoverable_device_pause and request_pause: rejected outside RUN_SYS.
Paused(m) ==
  IF m.system # "RUN" THEN m
  ELSE [m EXCEPT !.system = "PAUSING", !.pendingRun = FALSE,
                 !.orders = Append(@, "PAUSE")]

\* validate_alignment
Aligned(m) ==
  \A i, j \in DOMAIN m.fifo : i < j =>
    m.fifo[i] < m.fifo[j] /\ m.state[m.fifo[i]] >= m.state[m.fifo[j]]

\* Broken: the newest product in that state.
OldestInNewest(m, q) ==
  LET waiting == {i \in DOMAIN m.fifo : m.state[m.fifo[i]] = q}
  IN  IF waiting = {} THEN 0
      ELSE m.fifo[CHOOSE i \in waiting : \A j \in waiting : i >= j]

\* oldest_in_state: the oldest product in that state, 0 when there is none or
\* an earlier one has not come so far.
OldestIn(m, q) ==
  LET waiting == {i \in DOMAIN m.fifo : m.state[m.fifo[i]] = q}
      first   == CHOOSE i \in waiting : \A j \in waiting : i <= j
  IN  IF \/ waiting = {}
         \/ \E j \in 1 .. first - 1 : m.state[m.fifo[j]] < q
      THEN 0
      ELSE m.fifo[first]

-----------------------------------------------------------------------------
(* Station cycles: block 4. *)

\* Broken: a product that is not yet at station B goes past it at once.
BypassedEarly(m, p) ==
  IF m.station[p]["B"].process # "PENDING" THEN m
  ELSE [m EXCEPT !.skip[p] = TRUE,
                 !.station[p]["B"].process = "SKIPPED",
                 !.state[p] = Sensor3Wait]

\* bypass_station_b, after request_station_b_skip
Bypassed(m, p) ==
  IF \/ m.state[p] # Waiting["B"]
     \/ m.station[p]["B"].process # "PENDING"
  THEN m
  ELSE [m EXCEPT !.skip[p] = TRUE,
                 !.station[p]["B"].process = "SKIPPED",
                 !.state[p] = Sensor3Wait]

\* begin_station_cycle with a capture id of its own, and the cycle that waits
\* for the Mega to stop the product.
Begun(m, p, s) ==
  LET id == m.captures[p][s] + 1
  IN  [m EXCEPT
        !.captures[p][s] = id,
        !.station[p][s] = [@ EXCEPT !.process = "POSITIONING", !.capture = id],
        !.cycle[s] = [product |-> p, capture |-> id,
                      phase |-> "WAITING_POSITION", timed |-> TRUE],
        !.lateStart = @ \ {<<p, s>>}]

\* _start_station_cycle
Started(m, p, s) ==
  CASE m.system # "RUN" ->
         [m EXCEPT !.lateStart = @ \union {<<p, s>>}]
    [] m.system = "RUN" /\ m.cycle[s] # None ->
         IF m.cycle[s].product = p THEN m ELSE Faulted(m)
    [] m.system = "RUN" /\ m.cycle[s] = None /\ s = "B" /\ m.skip[p] ->
         Bypassed(m, p)
    [] OTHER ->
         IF /\ m.state[p] = Waiting[s]
            /\ m.station[p][s].process = "PENDING"
         THEN Begun(m, p, s)
         ELSE Faulted(m)

\* Broken: it is always the upper conveyor that is resumed.
ResumingUpper(m, s) ==
  [m EXCEPT !.cycle[s] = [@ EXCEPT !.phase = "RESUME_PENDING", !.timed = TRUE],
            !.orders = Append(@, "A")]

\* _resume_conveyor_after_capture
Resuming(m, s) ==
  LET pending == [m EXCEPT !.cycle[s] = [@ EXCEPT !.phase = "RESUME_PENDING",
                                                  !.timed = TRUE]]
  IN  IF m.system = "RUN"
      THEN [pending EXCEPT !.orders = Append(@, s)]
      ELSE [pending EXCEPT !.lateResume = @ \union {<<m.cycle[s].product, s>>}]

\* confirm_conveyor_resumed for whichever product the station has
Resumed(m, s) ==
  LET p == m.cycle[s].product
  IN  IF m.system = "FAULT" \/ m.cycle[s] = None THEN m
      ELSE IF m.cycle[s].phase # "RESUME_PENDING" THEN m
      ELSE IF m.state[p] # Captured[s] THEN Faulted(m)
      ELSE [m EXCEPT !.state[p] = Onward[s],
                     !.cycle[s] = None,
                     !.lateResume = @ \ {<<p, s>>}]

\* mark_capture_succeeded and promote_capture_completion_from_vision
Promoted(m, p, s) ==
  [m EXCEPT !.station[p][s] = [@ EXCEPT !.captured = TRUE, !.process = "CAPTURE_COMPLETED"],
            !.state[p] = Captured[s]]

\* _pause_station_for_recovery
Recovering(m, s) ==
  LET p == m.cycle[s].product
      settled ==
        IF m.cycle[s] = None THEN m
        ELSE IF ResultCompleted(m.station[p][s])
        THEN [Promoted(m, p, s) EXCEPT
                !.cycle[s] = [@ EXCEPT !.phase = "RESUME_PENDING", !.timed = FALSE],
                !.lateResume = @ \union {<<p, s>>}]
        ELSE IF m.station[p][s].captured
        THEN Faulted(m)
        ELSE [m EXCEPT !.station[p][s] = NewStation,
                       !.cycle[s] = None,
                       !.lateStart = @ \union {<<p, s>>}]
  IN  Paused(settled)

\* Broken: a product whose B cycle is canceled is not done with station B.
CanceledBUnfinished(m0, p) ==
  LET m == [m0 EXCEPT !.skip[p] = TRUE]
  IN  IF m0.settings.skipB /\ m.cycle["B"].product = p
      THEN Resuming([m EXCEPT !.station[p]["B"].process = "SKIPPED"], "B")
      ELSE m0

\* _cancel_station_b_after_a_terminal; the cancellation it publishes to Vision
\* leaves no trace here beyond captures that may fail.
CanceledB(m0, p) ==
  LET m == [m0 EXCEPT !.skip[p] = TRUE]
      b == m.station[p]["B"]
      skipped == [m EXCEPT !.station[p]["B"].process = "SKIPPED",
                           !.state[p] = Captured["B"]]
  IN  CASE ~ m.settings.skipB -> m0
        [] m.settings.skipB /\ m.cycle["B"].product = p ->
             IF b.process # "SKIPPED" /\ ~ ResultCompleted(b)
             THEN Resuming(skipped, "B")
             ELSE IF /\ m.cycle["B"].phase # "RESUME_PENDING"
                     /\ ResultCompleted(b)
             THEN Resuming(Promoted(m, p, "B"), "B")
             ELSE m
        [] OTHER -> Bypassed(m, p)

\* Broken: the belt is let go, but the capture is not marked as failed.
CaptureFailedUnmarked(m, s, diskFull) ==
  Resuming([m EXCEPT !.state[m.cycle[s].product] = Captured[s]], s)

\* Broken: the cycle ends where it failed, and nobody lets the belt go.
CaptureFailedForgotten(m, s, diskFull) ==
  LET p == m.cycle[s].product
  IN  [m EXCEPT !.station[p][s] = [@ EXCEPT !.failed = TRUE, !.process = "FAILED"],
                !.state[p] = Onward[s], !.cycle[s] = None]

\* _finish_capture_failure
CaptureFailed(m, s, diskFull) ==
  LET p == m.cycle[s].product
      failed == [m EXCEPT !.station[p][s] = [@ EXCEPT !.failed = TRUE, !.process = "FAILED"],
                          !.state[p] = Captured[s]]
      told == IF s = "A" THEN CanceledB(failed, p) ELSE failed
  IN  Resuming(IF diskFull THEN Paused(told) ELSE told, s)

-----------------------------------------------------------------------------
(* Sorting: block 6.  sent counts the ActuateProduct goals of a product; all *)
(* carry the command_id of its one actuation cycle.                        *)

\* _send_actuation_goal, the Action server being available or not
Sent(m, p, available) ==
  IF available
  THEN [m EXCEPT !.actuation[p] = [@ EXCEPT !.timed = TRUE,
                                            !.sent = m.actuation[p].sent + 1]]
  ELSE Paused(m)

\* remove_completed_prefix
WithoutCompleted(m) ==
  LET kept == {i \in DOMAIN m.fifo : m.state[m.fifo[i]] # Done}
      first == IF kept = {} THEN Len(m.fifo) + 1
               ELSE CHOOSE i \in kept : \A j \in kept : i <= j
      removed == {m.fifo[i] : i \in 1 .. first - 1}
  IN  [m EXCEPT !.fifo = SubSeq(@, first, Len(@)),
                !.actuation = [p \in Products |->
                   IF p \in removed THEN [@[p] EXCEPT !.phase = "none", !.timed = FALSE]
                   ELSE @[p]]]

-----------------------------------------------------------------------------
(* The sensors: block 3. *)

\* Broken: at the soft limit the line pauses and the station start is forgotten.
EnteredAt1Undeferred(m, p) ==
  LET known == [m EXCEPT !.fifo = Append(@, p), !.state[p] = Waiting["A"]]
  IN  IF Len(m.fifo) >= m.settings.hard THEN Faulted(m)
      ELSE IF Len(known.fifo) >= m.settings.soft THEN Paused(known)
      ELSE Started(known, p, "A")

\* _handle_sensor1_entry for the product that gets sequence p
EnteredAt1(m, p) ==
  LET known == [m EXCEPT !.fifo = Append(@, p), !.state[p] = Waiting["A"]]
      late  == [known EXCEPT !.lateStart = @ \union {<<p, "A">>}]
  IN  CASE Len(m.fifo) >= m.settings.hard -> Faulted(m)
        [] Len(m.fifo) < m.settings.hard /\ Len(known.fifo) >= m.settings.soft -> Paused(late)
        [] OTHER -> Started(known, p, "A")

\* _handle_sensor2_entry
EnteredAt2(m) ==
  LET p == OldestIn(m, Flipping)
      skipped == [m EXCEPT !.station[p]["B"].process = "SKIPPED",
                           !.state[p] = Sensor3Wait]
  IN  CASE p = 0                     -> Faulted(m)
        [] p # 0 /\ m.skip[p]   -> skipped
        [] OTHER -> Started([m EXCEPT !.state[p] = Waiting["B"]], p, "B")

\* Broken: a result that is missing passes.
VerdictMissingPasses(m, p) ==
  LET a == m.station[p]["A"]
      b == m.station[p]["B"]
  IN  IF a.failed \/ b.failed THEN "FORCED_NG"
      ELSE IF "NG" \in {a.decision, b.decision} THEN "NG" ELSE "PASS"

\* _candidate_verdict, with FORCED_NG for a result that is missing
Verdict(m, p) ==
  LET a == m.station[p]["A"]
      b == m.station[p]["B"]
  IN  CASE a.failed                                -> "FORCED_NG"
        [] ~ a.failed /\ a.decision = "NG"         -> "NG"
        [] ~ a.failed /\ a.decision # "NG" /\ b.failed -> "FORCED_NG"
        [] OTHER -> IF "none" \in {a.decision, b.decision} THEN "FORCED_NG"
                    ELSE IF b.decision = "PASS" THEN "PASS" ELSE "NG"

\* _accept_locked: the reorder buffer releases what is next in the FIFO order.
Published(m, p) ==
  LET held == m.reorder.pending \union {p}
      next == CHOOSE n \in m.reorder.next .. ProductCount + 1 :
                /\ n \notin held
                /\ \A k \in m.reorder.next .. n - 1 : k \in held
  IN  IF p < m.reorder.next THEN m
      ELSE [m EXCEPT !.reorder = [next |-> next,
                                  pending |-> {k \in held : k >= next}]]

\* _handle_sensor3_entry: lock, publish, schedule the actuation
EnteredAt3(m, available) ==
  LET p == OldestIn(m, Sensor3Wait)
      locked == [m EXCEPT !.locked[p] = Verdict(m, p), !.state[p] = AtSensor3,
                          !.actuation[p].phase = "pending"]
  IN  IF p = 0 THEN Faulted(m)
      ELSE Sent(Published(locked, p), p, available)

-----------------------------------------------------------------------------
(* Results of Vision: block 5. *)

\* Broken: what is said of an earlier capture counts for the next.
ApplicableAnyCapture(m, f) ==
  /\ f.product \in {m.fifo[i] : i \in DOMAIN m.fifo}
  /\ m.station[f.product][f.station].capture # 0
  /\ m.locked[f.product] = "none"

\* classify_station_message: the message is about the capture that counts.
Applicable(m, f) ==
  /\ f.product \in {m.fifo[i] : i \in DOMAIN m.fifo}
  /\ m.station[f.product][f.station].capture = f.capture
  /\ m.locked[f.product] = "none"

\* Broken: a failure is kept as a decision.
JudgedFailureDecides(m, f, outcome, outOfMemory) ==
  IF Applicable(m, f)
  THEN [m EXCEPT !.station[f.product][f.station].decision = outcome]
  ELSE m

\* _apply_accepted_station_result, _apply_accepted_station_failure and the
\* contract failures, which count as a failure of the station.  Vision sends
\* one terminal of revision 1 for a capture, so a second is a duplicate.
Judged(m, f, outcome, outOfMemory) ==
  LET p == f.product
      s == f.station
      known == m.station[p][s]
      noted == IF outcome = "FAILED"
               THEN [m EXCEPT !.station[p][s] = [@ EXCEPT !.failed = TRUE, !.reported = TRUE]]
               ELSE [m EXCEPT !.station[p][s].decision = outcome]
      told == IF s = "A" /\ outcome \in {"NG", "FAILED"}
              THEN CanceledB(noted, p) ELSE noted
  IN  IF \/ ~ Applicable(m, f)
         \/ IF outcome = "FAILED" THEN known.reported ELSE known.decision # "none"
      THEN m
      ELSE IF outOfMemory THEN Paused(told) ELSE told

-----------------------------------------------------------------------------
(* Stop and run: what the callbacks of block 7 do here. *)

\* confirm_all_conveyors_stopped
Stopped(m) ==
  IF m.system # "PAUSING" THEN m
  ELSE IF Aligned(m) THEN [m EXCEPT !.system = "PAUSED"]
  ELSE Faulted(m)

\* What _resume_deferred_operations goes on with, in any order: the resumes, ...
LateResumed(m0) ==
  LET Resume(ps, m) ==
        IF m.cycle[ps[2]].product = ps[1] THEN Resumed(m, ps[2]) ELSE m
  IN  FoldSet(Resume, m0, m0.lateResume)

\* ... the starts of stations, ...
LateStarted(m0) ==
  LET Start(ps, m) ==
        IF ps[1] \in {m.fifo[i] : i \in DOMAIN m.fifo}
        THEN Started(m, ps[1], ps[2])
        ELSE [m EXCEPT !.lateStart = @ \ {ps}]
  IN  FoldSet(Start, m0, m0.lateStart)

\* ... and every actuation whose goal is not known to be accepted.
LateSent(m0, available) ==
  LET Send(p, m) == Sent(m, p, available)
  IN  FoldSet(Send, m0, {p \in Products : m0.actuation[p].phase = "pending"})

\* _resume_deferred_operations
Deferred(m, available) == LateSent(LateStarted(LateResumed(m)), available)

\* The resumes that the belts of R confirm: they have just started.
Confirmed(m0, R) ==
  LET Confirm(s, m) == Resumed(m, s) IN FoldSet(Confirm, m0, R)

\* _handle_equipment_state: the resumes, then the run, if all run and one was asked for.
Running(m0, R, allRun, available) ==
  LET m == Confirmed(m0, R)
  IN  IF m.pendingRun /\ allRun
      THEN Deferred([m EXCEPT !.system = "RUN", !.pendingRun = FALSE], available)
      ELSE m

-----------------------------------------------------------------------------
(* The world. *)

Init ==
  /\ \E settings \in Settings : master = InitialMaster(settings)
  /\ pos = [p \in Products |-> "before"]
  /\ belt = [s \in Stations |-> "running"]
  /\ goals = {}
  /\ frames = {}
  /\ arm = [p \in Products |-> [answered |-> 0, working |-> 0]]
  /\ disturbances = {}

Alive == master.system # "FAULT"

\* Something goes wrong that the environment is allowed to do wrong.
Disturb(kind) ==
  /\ kind \in Disturbances \ disturbances
  /\ Cardinality(disturbances) < MaxDisturbances
  /\ disturbances' = disturbances \union {kind}

Undisturbed == UNCHANGED disturbances

\* A server is there, or its absence is a disturbance.
Server(available) ==
  IF available THEN Undisturbed ELSE Disturb("server")

Heard(handled) ==
  master' = IF master.system \in {"RUN", "PAUSING"} THEN handled ELSE master

Oldest(place) ==
  LET there == {p \in Products : pos[p] = place}
  IN  CHOOSE p \in there : \A q \in there : p <= q

-----------------------------------------------------------------------------
(* Belts, products, sensors.  Products keep their order and their distance:  *)
(* one reaches a sensor only when the previous has left the camera behind it,*)
(* and Sensor 3 only when the arm is idle.  What the Mega reports reaches    *)
(* the Master before the belt takes a product any further.                   *)

\* A product takes longer to come to a sensor than a RESUME to the Mega.
Runs(s) == belt[s] = "running" /\ \A i \in DOMAIN master.orders : master.orders[i] # s

Sensor1 ==
  /\ Alive
  /\ \E p \in Products : pos[p] = "before"
  /\ Runs("A")
  /\ \A q \in Products : pos[q] # "A"
  /\ LET p == Oldest("before")
     IN  /\ pos' = [pos EXCEPT ![p] = "A"]
         /\ Heard(EnteredAt1(master, p))
  /\ belt' = [belt EXCEPT !["A"] = "positioning"]
  /\ IF /\ Len(master.fifo) + 1 >= master.settings.soft
        /\ "capacity" \notin disturbances
     THEN Disturb("capacity") ELSE Undisturbed
  /\ UNCHANGED <<goals, frames, arm>>

Sensor2 ==
  /\ Alive
  /\ \E p \in Products : pos[p] = "toB"
  /\ Runs("B")
  /\ \A q \in Products : pos[q] # "B"
  /\ pos' = [pos EXCEPT ![Oldest("toB")] = "B"]
  /\ Heard(EnteredAt2(master))
  /\ belt' = [belt EXCEPT !["B"] = "positioning"]
  /\ Undisturbed
  /\ UNCHANGED <<goals, frames, arm>>

ArmIdle ==
  \A p \in Products : /\ arm[p].working = 0
                      /\ arm[p].answered = master.actuation[p].sent

Sensor3(available) ==
  /\ Alive
  /\ \E p \in Products : pos[p] = "toC"
  /\ belt["B"] \in {"running", "positioning"}
  /\ ArmIdle
  /\ pos' = [pos EXCEPT ![Oldest("toC")] = "past"]
  /\ Heard(EnteredAt3(master, available))
  /\ Server(available)
  /\ UNCHANGED <<belt, goals, frames, arm>>

\* A product leaves the camera.
Leave(s) ==
  /\ Alive
  /\ belt[s] = "running"
  /\ \E p \in Products :
       /\ pos[p] = s
       /\ pos' = [pos EXCEPT ![p] = IF s = "A" THEN "toB" ELSE "toC"]
  /\ Undisturbed
  /\ UNCHANGED <<master, belt, goals, frames, arm>>

\* _handle_position_settled and _request_station_capture
Settled(s, available) ==
  LET c == master.cycle[s]
      p == c.product
      asked == [master EXCEPT !.station[p][s].process = "CAPTURE_REQUESTED",
                              !.cycle[s] = [@ EXCEPT !.phase = "CAPTURE_GOAL",
                                                     !.timed = TRUE]]
      expected == /\ c # None
                  /\ c.phase = "WAITING_POSITION"
                  /\ ~ (s = "B" /\ master.skip[p])
  IN
  /\ Alive
  /\ belt[s] = "positioning"
  /\ belt' = [belt EXCEPT ![s] = "hold"]
  /\ \/ /\ ~ expected
        /\ available
        /\ UNCHANGED <<master, goals>>
     \/ /\ expected
        /\ IF available
           THEN /\ master' = asked
                /\ goals' = goals \union
                     {[product |-> p, station |-> s, capture |-> c.capture,
                       stage |-> "sent", awaited |-> TRUE]}
           ELSE /\ master' = Recovering(master, s)
                /\ UNCHANGED goals
  /\ Server(available)
  /\ UNCHANGED <<pos, frames, arm>>

\* Control passes the next command on; the Mega carries it out and reports.
Control(available) ==
  LET order == Head(master.orders)
      m     == [master EXCEPT !.orders = Tail(@)]
      runs  == IF order = "RESUME" THEN Stations ELSE {order}
      new   == {s \in runs : belt[s] # "running"}
  IN
  /\ Alive
  /\ master.orders # <<>>
  /\ \/ /\ order = "PAUSE"
        /\ available
        /\ belt' = [s \in Stations |-> "stopped"]
        /\ master' = Stopped(m)
     \/ /\ order # "PAUSE"
        /\ belt' = [s \in Stations |-> IF s \in runs THEN "running" ELSE belt[s]]
        /\ master' = Running(m, new, \A s \in Stations : belt'[s] = "running", available)
  /\ available \/ \E p \in Products : master.actuation[p].phase = "pending"
  /\ Server(available)
  /\ UNCHANGED <<pos, goals, frames, arm>>

-----------------------------------------------------------------------------
(* Vision.  A goal is current while its capture is the one its station waits *)
(* for; the Master ignores what it hears of any other.                       *)

Current(g) ==
  LET c == master.cycle[g.station]
  IN  c.product = g.product /\ c.capture = g.capture

\* _handle_capture_goal_response, accepted
GoalAccepted(g) ==
  LET canceled == g.station = "B" /\ master.skip[g.product]
      awaited  == Current(g) /\ ~ canceled
  IN
  /\ Alive
  /\ g.stage = "sent"
  /\ goals' = (goals \ {g}) \union
                 {[g EXCEPT !.stage = "accepted", !.awaited = awaited]}
  /\ master' = IF awaited
               THEN [master EXCEPT !.cycle[g.station].phase = "WAITING_CAPTURE_RESULT"]
               ELSE master
  /\ Undisturbed
  /\ UNCHANGED <<pos, belt, frames, arm>>

\* _handle_capture_goal_response, rejected or lost: Vision may then be at work
\* on a goal whose result nobody awaits.
GoalRefused(g) ==
  /\ Alive
  /\ g.stage = "sent"
  /\ Disturb("goal")
  /\ \/ goals' = goals \ {g}
     \/ goals' = (goals \ {g}) \union {[g EXCEPT !.stage = "accepted", !.awaited = FALSE]}
  /\ master' = IF Current(g) THEN Recovering(master, g.station) ELSE master
  /\ UNCHANGED <<pos, belt, frames, arm>>

\* The product stands before the camera.
AtRest(p, s) == pos[p] = s /\ belt[s] \in {"hold", "stopped"}

\* Vision saves and queues the images of the station, or gives up.
Capture(g) ==
  /\ Alive
  /\ g.stage = "accepted"
  /\ \E stage \in {"saved", "failed", "diskFull"} :
       /\ goals' = (goals \ {g}) \union
                      IF g.awaited THEN {[g EXCEPT !.stage = stage]} ELSE {}
       /\ frames' = IF stage # "saved" THEN frames
                    ELSE frames \union
                      {[product |-> g.product, station |-> g.station,
                        capture |-> g.capture, outcome |-> "none",
                        still |-> AtRest(g.product, g.station)]}
       /\ CASE stage = "saved"    -> Undisturbed
            [] stage = "failed"   -> Disturb("failure")
            [] stage = "diskFull" -> Disturb("vision")
  /\ UNCHANGED <<master, pos, belt, arm>>

\* _handle_capture_result
CaptureResult(g) ==
  LET s == g.station
      p == g.product
      m == Promoted(master, p, s)
  IN
  /\ Alive
  /\ g.stage \in {"saved", "failed", "diskFull"}
  /\ goals' = goals \ {g}
  /\ \/ /\ ~ Current(g)
        /\ UNCHANGED master
     \/ /\ Current(g)
        /\ s = "B" /\ master.skip[p]
        /\ master' = IF master.cycle[s].phase # "RESUME_PENDING"
                     THEN Resuming(master, s) ELSE master
     \/ /\ Current(g)
        /\ ~ (s = "B" /\ master.skip[p])
        /\ master' = IF g.stage = "saved" THEN Resuming(m, s)
                     ELSE CaptureFailed(master, s, g.stage = "diskFull")
  /\ Undisturbed
  /\ UNCHANGED <<pos, belt, frames, arm>>

\* _handle_capture_result when the Action result is lost
CaptureResultLost(g) ==
  /\ Alive
  /\ g.awaited
  /\ g.stage # "sent"
  /\ Disturb("goal")
  /\ goals' = (goals \ {g}) \union
                 IF g.stage = "accepted" THEN {[g EXCEPT !.awaited = FALSE]} ELSE {}
  /\ master' = IF Current(g) THEN Recovering(master, g.station) ELSE master
  /\ UNCHANGED <<pos, belt, frames, arm>>

\* _handle_station_result and _handle_station_failure.  The message may be a
\* replay of one the Master has had; what Vision says of a capture that no
\* longer counts is not kept.
StationTerminal(f, outcome, outOfMemory) ==
  /\ Alive
  /\ f.outcome \in {"none", outcome}
  /\ outOfMemory => outcome = "FAILED" /\ f.outcome = "none"
  /\ frames' = IF Applicable(master, f)
               THEN (frames \ {f}) \union {[f EXCEPT !.outcome = outcome]}
               ELSE frames
  /\ master' = Judged(master, f, outcome, outOfMemory)
  /\ CASE outOfMemory -> Disturb("vision")
       [] ~ outOfMemory /\ outcome = "FAILED" /\ f.outcome = "none" -> Disturb("failure")
       [] OTHER -> Undisturbed
  /\ UNCHANGED <<pos, belt, goals, arm>>

-----------------------------------------------------------------------------
(* Actuation answers. *)

\* _handle_actuation_goal_response
ActuationAccepted(p) ==
  /\ Alive
  /\ arm[p].answered < master.actuation[p].sent
  /\ arm' = [arm EXCEPT ![p] = [answered |-> @.answered + 1, working |-> @.working + 1]]
  /\ master' = IF master.actuation[p].phase = "none" THEN master
               ELSE [master EXCEPT !.state[p] = Actuating,
                                   !.actuation[p].phase = "waiting"]
  /\ Undisturbed
  /\ UNCHANGED <<pos, belt, goals, frames>>

\* The same, with an exception for an answer.
ActuationRefused(p) ==
  /\ Alive
  /\ arm[p].answered < master.actuation[p].sent
  /\ Disturb("arm")
  /\ arm' = [arm EXCEPT ![p].answered = @ + 1]
  /\ master' = IF master.actuation[p].phase = "none" THEN master ELSE Paused(master)
  /\ UNCHANGED <<pos, belt, goals, frames>>

\* _handle_actuation_result and _remove_completed_fifo_prefix
ActuationResult(p, success) ==
  LET completed == [master EXCEPT !.state[p] = Done,
                                  !.actuation[p] = [@ EXCEPT !.phase = "completed",
                                                             !.timed = FALSE]]
  IN
  /\ Alive
  /\ arm[p].working > 0
  /\ arm' = [arm EXCEPT ![p].working = @ - 1]
  /\ master' = CASE master.actuation[p].phase = "none" -> master
                 [] /\ master.actuation[p].phase # "none"
                    /\ success
                    /\ master.state[p] \in {AtSensor3, Actuating} ->
                      WithoutCompleted(completed)
                 [] OTHER -> Faulted(master)
  /\ IF success THEN Undisturbed ELSE Disturb("arm")
  /\ UNCHANGED <<pos, belt, goals, frames>>

-----------------------------------------------------------------------------
(* The Master's timer: _check_operation_deadlines.  An answer that is only    *)
(* slow counts as a disturbance when it is slower than its deadline.          *)

CaptureTimeout(s) ==
  LET c == master.cycle[s]
  IN
  /\ Alive
  /\ c # None
  /\ c.timed
  /\ c.phase \in {"CAPTURE_GOAL", "WAITING_CAPTURE_RESULT"}
  /\ master' = CaptureFailed(master, s, FALSE)
  /\ Disturb(IF c.phase = "CAPTURE_GOAL" THEN "goal" ELSE "failure")
  /\ UNCHANGED <<pos, belt, goals, frames, arm>>

\* The Mega is quick enough when it does position the product; when nothing is
\* on its way to the camera the deadline does pass.
PositionTimeout(s) ==
  LET c == master.cycle[s]
  IN
  /\ Alive
  /\ c # None
  /\ c.timed
  /\ c.phase = "WAITING_POSITION"
  /\ belt[s] # "positioning"
  /\ c.capture < MaxCaptures
  /\ Undisturbed
  /\ master' = IF belt[s] = "running"
               THEN Recovering([master EXCEPT !.cycle[s].timed = FALSE], s)
               ELSE Faulted(master)
  /\ UNCHANGED <<pos, belt, goals, frames, arm>>

ResumeTimeout(s) ==
  LET c == master.cycle[s]
  IN
  /\ Alive
  /\ c # None
  /\ c.timed
  /\ c.phase = "RESUME_PENDING"
  /\ Disturb("timeout")
  /\ master' = Paused([master EXCEPT !.cycle[s].timed = FALSE,
                                     !.lateResume = @ \union {<<c.product, s>>}])
  /\ UNCHANGED <<pos, belt, goals, frames, arm>>

ActuationTimeout(p) ==
  LET a == master.actuation[p]
  IN
  /\ Alive
  /\ a.timed
  /\ a.phase \in {"pending", "waiting"}
  /\ Disturb("arm")
  /\ master' = IF a.phase = "waiting" THEN Faulted(master)
               ELSE Paused([master EXCEPT !.actuation[p].timed = FALSE])
  /\ UNCHANGED <<pos, belt, goals, frames, arm>>

-----------------------------------------------------------------------------
(* The operator. *)

\* request_pause
OperatorPause ==
  /\ Alive
  /\ master.system = "RUN"
  /\ Disturb("operator")
  /\ master' = Paused(master)
  /\ UNCHANGED <<pos, belt, goals, frames, arm>>

\* request_resume with _verify_resume_conditions; asked once per pause
OperatorResume ==
  /\ Alive
  /\ master.system = "PAUSED"
  /\ ~ master.pendingRun
  /\ \A s \in Stations : belt[s] = "stopped"
  /\ Aligned(master)
  /\ \A p \in Products : arm[p].working > 0 => master.locked[p] = "PASS"
  /\ master' = [master EXCEPT !.pendingRun = TRUE, !.orders = Append(@, "RESUME")]
  /\ Undisturbed
  /\ UNCHANGED <<pos, belt, goals, frames, arm>>

-----------------------------------------------------------------------------

\* What happens when nothing goes wrong.
Progress ==
  \/ Sensor1 \/ Sensor2 \/ Sensor3(TRUE) \/ Control(TRUE)
  \/ \E s \in Stations : Leave(s) \/ Settled(s, TRUE)
  \/ \E g \in goals : GoalAccepted(g) \/ Capture(g) \/ CaptureResult(g)
  \/ \E p \in Products : ActuationAccepted(p) \/ ActuationResult(p, TRUE)

Trouble ==
  \/ Sensor3(FALSE) \/ Control(FALSE)
  \/ \E s \in Stations :
       \/ Settled(s, FALSE) \/ CaptureTimeout(s) \/ PositionTimeout(s) \/ ResumeTimeout(s)
  \/ \E g \in goals : GoalRefused(g) \/ CaptureResultLost(g)
  \/ \E p \in Products :
       ActuationRefused(p) \/ ActuationResult(p, FALSE) \/ ActuationTimeout(p)

Next ==
  \/ Progress
  \/ Trouble
  \/ \E f \in frames, outcome \in {"PASS", "NG", "FAILED"}, outOfMemory \in BOOLEAN :
       StationTerminal(f, outcome, outOfMemory)
  \/ OperatorPause
  \/ OperatorResume

\* The belts turn, and messages and answers arrive.
Spec == Init /\ [][Next]_vars /\ WF_vars(Progress)

-----------------------------------------------------------------------------
(* Properties. *)

Phases == {"WAITING_POSITION", "CAPTURE_GOAL", "WAITING_CAPTURE_RESULT", "RESUME_PENDING"}

StationType ==
  [process : {"PENDING", "POSITIONING", "CAPTURE_REQUESTED", "CAPTURE_COMPLETED",
              "FAILED", "SKIPPED"},
   capture : Nat, captured : BOOLEAN, decision : {"none", "PASS", "NG"},
   failed : BOOLEAN, reported : BOOLEAN]

MasterType ==
  [settings   : Settings,
   system     : {"RUN", "PAUSING", "PAUSED", "FAULT"},
   pendingRun : BOOLEAN,
   orders     : Seq({"PAUSE", "RESUME"} \union Stations),
   fifo       : Seq(Products),
   state      : [Products -> Unseen .. Done],
   station    : [Products -> [Stations -> StationType]],
   captures   : [Products -> [Stations -> Nat]],
   skip       : [Products -> BOOLEAN],
   locked     : [Products -> {"none", "PASS", "NG", "FORCED_NG"}],
   reorder    : [next : Products \union {ProductCount + 1}, pending : SUBSET Products],
   cycle      : [Stations -> {None} \union
                   [product : Products, capture : Nat \ {0}, phase : Phases, timed : BOOLEAN]],
   lateStart  : SUBSET (Products \X Stations),
   lateResume : SUBSET (Products \X Stations),
   actuation  : [Products -> [phase : {"none", "pending", "waiting", "completed"},
                              timed : BOOLEAN, sent : Nat]]]

\* The type of the state: every callback leaves the Master's record well formed.
TypeOK ==
  /\ master \in MasterType
  /\ pos \in [Products -> {"before", "A", "toB", "B", "toC", "past"}]
  /\ belt \in [Stations -> {"running", "positioning", "hold", "stopped"}]
  /\ goals \subseteq [product : Products, station : Stations, capture : Nat \ {0},
                      stage : {"sent", "accepted", "saved", "failed", "diskFull"}, awaited : BOOLEAN]
  /\ frames \subseteq [product : Products, station : Stations, capture : Nat \ {0},
                       outcome : {"none", "PASS", "NG", "FAILED"}, still : BOOLEAN]
  /\ arm \in [Products -> [answered : Nat, working : Nat]]
  /\ disturbances \subseteq Disturbances

InFifo(p) == \E i \in DOMAIN master.fifo : master.fifo[i] = p

\* A product that has been sorted and forgotten.
Sorted(p) == master.state[p] = Done /\ ~ InFifo(p)

\* Nothing goes wrong but captures and inspections that fail.
Quiet == disturbances \subseteq {"failure"}

\* The product a sensor sees is the one the Master takes it for: the ledger has
\* a product behind Sensor 2 or Sensor 3 exactly when it is there, and the FIFO has the
\* products in the order in which they came.  (validate_alignment looks only when the
\* line stops.)
LedgerFollowsLine ==
  Alive =>
    /\ \A p \in Products :
         /\ pos[p] = "before" <=> master.state[p] = Unseen
         /\ pos[p] \in {"B", "toC", "past"} <=> master.state[p] >= Waiting["B"]
         /\ pos[p] = "past" <=> master.state[p] >= AtSensor3
    /\ \A i, j \in DOMAIN master.fifo : i < j => master.fifo[i] < master.fifo[j]

\* A definite verdict rests on what Vision said of the captures that count:
\* PASS on a PASS of both stations, NG on an NG of one.
VerdictHasEvidence ==
  \A p \in Products :
    LET Said(s, outcome) ==
          \E f \in frames : /\ f.product = p /\ f.station = s
                           /\ f.capture = master.captures[p][s]
                           /\ f.outcome = outcome
    IN  /\ master.locked[p] = "PASS" => \A s \in Stations : Said(s, "PASS")
        /\ master.locked[p] = "NG"   => \E s \in Stations : Said(s, "NG")

\* A station's cycle belongs, while the line runs, to the one product that is in that
\* station, and that product has not been left without a cycle; so up to Sensor 3 no
\* product is ahead of an older one.  (Where stations B are skipped, a product left behind
\* a lost cycle is overtaken, and it is Sensor 3 that finds out.)
CycleOwnsStation ==
  (master.settings.skipB => Quiet) =>
    /\ master.system = "RUN" => \A s \in Stations, p \in Products :
         (master.cycle[s].product = p) <=> (master.state[p] \in {Waiting[s], Captured[s]})
    /\ Alive => \A i, j \in DOMAIN master.fifo : i < j =>
         LET p == master.fifo[i]  q == master.fifo[j]
         IN  master.state[p] >= master.state[q] \/ master.state[p] >= AtSensor3

\* While the line runs, a belt that holds for the camera has a cycle that will
\* let it go: a capture under way, or a RESUME on its way or timed.  (A product
\* that skips station B is held there by the Mega and by nobody let go.)
HeldBeltIsReleased ==
  \A s \in Stations : master.system = "RUN" /\ ~ master.settings.skipB /\ belt[s] = "hold" =>
    /\ master.cycle[s] # None
    /\ master.cycle[s].phase # "WAITING_POSITION"
    /\ master.cycle[s].timed

\* Unless something else goes wrong the Master never takes the line for lost, and a
\* product that passes was photographed at both stations at rest before the camera.
QuietLineIsSound ==
  Quiet =>
    /\ Alive
    /\ \A p \in Products : master.locked[p] = "PASS" =>
         \A f \in frames : f.product = p => f.still

\* Unless something goes wrong a product that enters the line is sorted.
EveryProductIsSorted ==
  []Quiet => \A p \in Products : pos[p] # "before" ~> Sorted(p)
=============================================================================

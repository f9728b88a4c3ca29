------------------------ MODULE MasterLineInvariants ------------------------
(***************************************************************************)
(* The inductive invariants of MasterLine, in named parts, and the words   *)
(* their proofs use: names for the types of the fields, for the records    *)
(* between two steps of an operator and for what a step leaves alone.      *)
(***************************************************************************)
EXTENDS MasterLine

-----------------------------------------------------------------------------
(* The types, a name for each field of the Master's record. *)

Systems == {"RUN", "PAUSING", "PAUSED", "FAULT"}
OrderLists == Seq({"PAUSE", "RESUME"} \union Stations)
Fifos == Seq(Products)
States == [Products -> Unseen .. Done]
Records == [Products -> [Stations -> StationType]]
Counts == [Products -> [Stations -> Nat]]
Skips == [Products -> BOOLEAN]
Verdicts == [Products -> {"none", "PASS", "NG", "FORCED_NG"}]
Buffers == [next : Products \union {ProductCount + 1}, pending : SUBSET Products]
Cycles == [product : Products, capture : Nat \ {0}, phase : Phases, timed : BOOLEAN]
CycleMaps == [Stations -> {None} \union Cycles]
Pairs == SUBSET (Products \X Stations)
Actuations == [phase : {"none", "pending", "waiting", "completed"}, timed : BOOLEAN, sent : Nat]
ActuationMaps == [Products -> Actuations]

Masters ==
  [settings : Settings, system : Systems, pendingRun : BOOLEAN, orders : OrderLists,
   fifo : Fifos, state : States, station : Records, captures : Counts, skip : Skips,
   locked : Verdicts, reorder : Buffers, cycle : CycleMaps, lateStart : Pairs,
   lateResume : Pairs, actuation : ActuationMaps]

\* The product, station and capture of a FrameBatch and of a goal.
Frames == [product : Products, station : Stations, capture : Nat \ {0},
           outcome : {"none", "PASS", "NG", "FAILED"}, still : BOOLEAN]
Goals == [product : Products, station : Stations, capture : Nat \ {0},
          stage : {"sent", "accepted", "saved", "failed", "diskFull"}, awaited : BOOLEAN]

\* Where products are, and what belts and the arm do.
Places == {"before", "A", "toB", "B", "toC", "past"}
Belts == [Stations -> {"running", "positioning", "hold", "stopped"}]
Arms == [Products -> [answered : Nat, working : Nat]]

\* TypeOK with these names.
Typed ==
    /\ master \in Masters /\ pos \in [Products -> Places] /\ belt \in Belts
    /\ goals \subseteq Goals /\ frames \subseteq Frames /\ arm \in Arms
    /\ disturbances \subseteq Disturbances

-----------------------------------------------------------------------------
(* Two records, and the records between the steps of the operators. *)

\* The fields of the Master's record.
Fields == {"settings", "system", "pendingRun", "orders", "fifo", "state", "station", "captures",
           "skip", "locked", "reorder", "cycle", "lateStart", "lateResume", "actuation"}

\* n is m but for these fields.
SameBut(m, n, changed) == \A f \in Fields \ changed : n[f] = m[f]

\* r with t for product p at station s, and the records there that the Master makes.
Put(r, p, s, t) == [r EXCEPT ![p][s] = t]
Skipping(t) == [t EXCEPT !.process = "SKIPPED"]
Positioning(t, id) == [t EXCEPT !.process = "POSITIONING", !.capture = id]
Requested(t) == [t EXCEPT !.process = "CAPTURE_REQUESTED"]
Completed(t) == [t EXCEPT !.captured = TRUE, !.process = "CAPTURE_COMPLETED"]
Failing(t) == [t EXCEPT !.failed = TRUE, !.process = "FAILED"]

\* A capture more, and the cycle for it.
NextCapture(m, p, s) == m.captures[p][s] + 1
Counted(m, p, s) == [m.captures EXCEPT ![p][s] = NextCapture(m, p, s)]
NewCycle(m, p, s) == [product |-> p, capture |-> NextCapture(m, p, s),
                      phase |-> "WAITING_POSITION", timed |-> TRUE]

\* _pause_station_for_recovery: a cycle whose capture Vision has told of, and one that
\* starts again.
HandedOver(m, s) ==
    [Promoted(m, m.cycle[s].product, s) EXCEPT
       !.cycle[s] = [@ EXCEPT !.phase = "RESUME_PENDING", !.timed = FALSE],
       !.lateResume = @ \union {<<m.cycle[s].product, s>>}]
Reset(m, s) ==
    [m EXCEPT !.station[m.cycle[s].product][s] = NewStation, !.cycle[s] = None,
              !.lateStart = @ \union {<<m.cycle[s].product, s>>}]

\* _cancel_station_b_after_a_terminal
SkipAsked(m, p) == [m EXCEPT !.skip[p] = TRUE]
SkippedAtB(m, p) ==
    [m EXCEPT !.station[p]["B"].process = "SKIPPED", !.state[p] = Captured["B"]]

\* _finish_capture_failure
FailedAt(m, s) ==
    [m EXCEPT !.station[m.cycle[s].product][s] = [@ EXCEPT !.failed = TRUE, !.process = "FAILED"],
              !.state[m.cycle[s].product] = Captured[s]]

\* The sensors: a product is put in the FIFO, waits for station B, passes it, is locked.
Known(m, p) == [m EXCEPT !.fifo = Append(@, p), !.state[p] = Waiting["A"]]
KnownLate(m, p) == [Known(m, p) EXCEPT !.lateStart = @ \union {<<p, "A">>}]
WaitingAtB(m, p) == [m EXCEPT !.state[p] = Waiting["B"]]
PassingB(m, p) ==
    [m EXCEPT !.station[p]["B"].process = "SKIPPED", !.state[p] = Sensor3Wait]
Locked(m, p) ==
    [m EXCEPT !.locked[p] = Verdict(m, p), !.state[p] = AtSensor3,
              !.actuation[p].phase = "pending"]

\* The actuations with a deadline that has passed, and with one that is done.
Untimed(a, p) == [a EXCEPT ![p].timed = FALSE]
Ended(a, p) == [a EXCEPT ![p] = [@ EXCEPT !.phase = "completed", !.timed = FALSE]]

\* The results of Vision.
Noted(m, f, outcome) ==
    IF outcome = "FAILED"
    THEN [m EXCEPT !.station[f.product][f.station] =
                      [@ EXCEPT !.failed = TRUE, !.reported = TRUE]]
    ELSE [m EXCEPT !.station[f.product][f.station].decision = outcome]
Terminal(t, outcome) ==
    IF outcome = "FAILED" THEN [t EXCEPT !.failed = TRUE, !.reported = TRUE]
    ELSE [t EXCEPT !.decision = outcome]

\* _request_station_capture
Asked(m, s) ==
    [m EXCEPT !.station[m.cycle[s].product][s].process = "CAPTURE_REQUESTED",
              !.cycle[s] = [@ EXCEPT !.phase = "CAPTURE_GOAL", !.timed = TRUE]]

-----------------------------------------------------------------------------
(* A definite verdict rests on what Vision said. *)

\* Vision has given this outcome of the capture.
Said(F, p, s, capture, outcome) ==
    \E f \in F : /\ f.product = p /\ f.station = s
                 /\ f.capture = capture /\ f.outcome = outcome

\* What is kept of a product at a station is what Vision said of the capture that counts.
StationSound(t, captures, F, p, s) ==
    /\ t.process = "PENDING" => t = NewStation
    /\ t.capture \in {0, captures}
    /\ t.decision # "none" => t.capture # 0 /\ Said(F, p, s, t.capture, t.decision)

\* What lets the Master skip station B.
RefusedAtA(t) == t.failed \/ t.decision = "NG"

\* The verdict is that of the stations, and station B is skipped after a refusal at A.
VerdictSound(r, locked, skip, skipB) ==
    /\ locked = "PASS" => \A s \in Stations : r[s].decision = "PASS"
    /\ locked = "NG" => \E s \in Stations : r[s].decision = "NG"
    /\ skip => skipB /\ RefusedAtA(r["A"])

ProductSound(m, F, p) ==
    /\ \A s \in Stations : StationSound(m.station[p][s], m.captures[p][s], F, p, s)
    /\ VerdictSound(m.station[p], m.locked[p], m.skip[p], m.settings.skipB)

\* The invariant behind VerdictHasEvidence, and the fields it is about.
Evidence(m, F) == \A p \in Products : ProductSound(m, F, p)

EvidenceFields == {"settings", "station", "captures", "locked", "skip"}

-----------------------------------------------------------------------------
(* The ledger follows the line. *)

\* A command is taken from the list, and the run that a RESUME brings.
Passed(m) == [m EXCEPT !.orders = Tail(@)]
Rerun(m) == [m EXCEPT !.system = "RUN", !.pendingRun = FALSE]

\* How far a place is down the line.
Rank == [before |-> 0, A |-> 1, toB |-> 2, B |-> 3, toC |-> 4, past |-> 5]

\* Products keep their order, and a camera has one at most.
Positions(P) ==
    \A p, q \in Products : p # q =>
        /\ p < q => Rank[P[p]] >= Rank[P[q]]
        /\ P[p] = P[q] => P[p] \notin {"A", "B"}

\* The ledger knows which products have passed which sensor.
Follows(m, P) == \A p \in Products :
    /\ P[p] = "before" <=> m.state[p] = Unseen
    /\ P[p] \in {"B", "toC", "past"} <=> m.state[p] >= Waiting["B"]
    /\ P[p] = "past" <=> m.state[p] >= AtSensor3

\* The FIFO has the product.
InQueue(m, p) == \E i \in DOMAIN m.fifo : m.fifo[i] = p

\* The FIFO has the products on the line, in their order.
Queued(m) ==
    /\ \A i, j \in DOMAIN m.fifo : i < j => m.fifo[i] < m.fifo[j]
    /\ \A i \in DOMAIN m.fifo : m.state[m.fifo[i]] # Unseen
    /\ \A p \in Products : m.state[p] \in 1 .. 8 => InQueue(m, p)

\* A cycle is that of a product at its station.
Cycled(m) == \A s \in Stations : m.cycle[s] # None =>
    m.state[m.cycle[s].product] \in {Waiting[s], Captured[s]}

\* An actuation is that of a product that has passed Sensor 3 and is not forgotten.
Acting(m) == \A p \in Products : m.actuation[p].phase # "none" =>
    m.state[p] >= AtSensor3 /\ InQueue(m, p)

\* What is under way to the Mega: a pause is the last command until it is confirmed, and
\* nothing but a RESUME follows it.
Commands(m, B) ==
    /\ m.system = "RUN" => m.orders \in Seq(Stations) /\ m.pendingRun = FALSE
    /\ m.system = "PAUSING" => /\ m.orders # <<>> /\ m.orders[Len(m.orders)] = "PAUSE"
                               /\ m.pendingRun = FALSE
                               /\ \A i \in 1 .. Len(m.orders) - 1 : m.orders[i] \in Stations
    /\ m.system = "PAUSED" => /\ \A s \in Stations : B[s] = "stopped"
                              /\ m.orders = IF m.pendingRun THEN <<"RESUME">> ELSE <<>>

\* The invariant behind LedgerFollowsLine.
Ledger(m, P) == Follows(m, P) /\ Queued(m) /\ Cycled(m) /\ Acting(m)

\* A Master that has not given up tracks the line.
Tracked(m, P, B) == Commands(m, B) /\ (m.system # "FAULT" => Ledger(m, P))

\* The stations' cycles are of the same products, and no cycle but that of s changes.
SameProducts(m, n, s) ==
    \A u \in Stations : \/ n.cycle[u] = m.cycle[u]
                        \/ u = s /\ n.cycle[s].product = m.cycle[s].product

\* What a sensor sees: a product that comes from one place to the next, the oldest there.
Comes(P, p, from) ==
    /\ p \in Products /\ P[p] = from
    /\ \A q \in Products : P[q] = from => p <= q

-----------------------------------------------------------------------------
(* Captures are counted, and a belt that holds is released. *)

\* What becomes of a cycle while its capture counts: it goes on, or ends.
Later(c, d) ==
    \/ d \in {c, None}
    \/ /\ c # None /\ d # None /\ d.product = c.product /\ d.capture = c.capture
       /\ d.phase = "WAITING_POSITION" => c.phase = "WAITING_POSITION"

\* No cycle has begun and no run has been confirmed between m and n.
Continues(m, n) ==
    /\ n.settings = m.settings /\ n.captures = m.captures
    /\ n.system = "RUN" => m.system = "RUN"
    /\ \A u \in Stations : Later(m.cycle[u], n.cycle[u])

\* No goal is of a capture yet to come, nor of one that waits for its position.
Awaited(m, G) ==
    /\ \A s \in Stations : m.cycle[s] # None =>
          m.cycle[s].capture <= m.captures[m.cycle[s].product][s]
    /\ \A g \in G :
          /\ g.capture <= m.captures[g.product][g.station]
          /\ m.cycle[g.station].product = g.product /\ m.cycle[g.station].capture = g.capture
                => m.cycle[g.station].phase # "WAITING_POSITION"

\* A cycle whose capture is asked for goes on to its end, and its deadline with it.
Watches(c, d) ==
    \/ d = c
    \/ /\ c # None /\ c.phase # "WAITING_POSITION"
       /\ d # None /\ d.phase # "WAITING_POSITION" /\ (d.timed \/ d.timed = c.timed)

\* No cycle begins and no belt is let go, and unless stations are skipped a cycle that is
\* not at its end stays watched as long as the line runs.
GoesOn(m, n) ==
    /\ Continues(m, n)
    /\ n.system = "RUN" /\ ~ n.settings.skipB =>
          \A u \in Stations : Watches(m.cycle[u], n.cycle[u])

\* What a step that asks for no capture does to the goals.
SameCaptures(G, H) ==
    \A h \in H : \E g \in G : /\ h.product = g.product /\ h.station = g.station
                              /\ h.capture = g.capture

\* A belt on its way to the camera has a cycle that waits for it; one that holds has a
\* cycle that is past that, and watched.
HeldAt(c, b) ==
    /\ b = "positioning" => c # None /\ c.phase = "WAITING_POSITION" /\ c.timed
    /\ b = "hold" => c # None /\ c.phase # "WAITING_POSITION" /\ c.timed

\* The invariant behind HeldBeltIsReleased.
Held(m, B) ==
    m.system = "RUN" /\ ~ m.settings.skipB => \A s \in Stations : HeldAt(m.cycle[s], B[s])

-----------------------------------------------------------------------------
(* A line on which nothing goes wrong but captures and inspections that fail. *)

\* The phases of a cycle that waits for Vision.
Asking == {"CAPTURE_GOAL", "WAITING_CAPTURE_RESULT"}

\* A resume of this belt is on its way to Control.
UnderWay(m, s) == \E i \in DOMAIN m.orders : m.orders[i] = s

\* What the cycle of a station waits for is what the belt is about to do.
BeltAgrees(m, P, B, s) ==
    LET c == m.cycle[s]
    IN  /\ c # None =>
              /\ P[c.product] = s
              /\ c.phase = "WAITING_POSITION" => B[s] = "positioning"
              /\ c.phase \in Asking => B[s] = "hold"
              /\ c.phase = "RESUME_PENDING" => B[s] # "running" /\ m.state[c.product] = Captured[s]
              /\ UnderWay(m, s) => c.phase = "RESUME_PENDING"
        /\ c = None /\ UnderWay(m, s) => B[s] = "running"

Belted(m, P, B) == \A s \in Stations : BeltAgrees(m, P, B, s)

\* A product at a station is done there or has the cycle.
InPlace(m, P, p) ==
    /\ \A s \in Stations : P[p] = s => m.state[p] = Onward[s] \/ m.cycle[s].product = p
    /\ P[p] = "toB" => m.state[p] = Onward["A"]
    /\ P[p] = "toC" => m.state[p] = Onward["B"]
    /\ \A s \in Stations : m.state[p] < Waiting[s] => m.station[p][s].process = "PENDING"
    /\ m.station[p]["B"].process = "SKIPPED" => m.skip[p]
    /\ m.locked[p] # "none" => m.state[p] >= AtSensor3

Placed(m, P) == \A p \in Products : InPlace(m, P, p)

\* A capture nobody wants any more is one whose product does not pass.
Spoiled(m, p, s) == m.station[p][s].failed \/ (s = "B" /\ m.skip[p])

\* A goal is that of the cycle of its station, and two goals are of one capture.
OfCycle(m, g) ==
    m.cycle[g.station].product = g.product /\ m.cycle[g.station].capture = g.capture

SameCapture(g, h) ==
    g.product = h.product /\ g.station = h.station /\ g.capture = h.capture

\* A goal that Vision has still to carry out is that of a cycle that waits for it, or is
\* spoiled.
Pursued(m, g) ==
    /\ g.stage # "diskFull"
    /\ g.stage = "sent" /\ OfCycle(m, g) =>
          m.cycle[g.station].phase = "CAPTURE_GOAL" \/ (g.station = "B" /\ m.skip[g.product])
    /\ g.stage \in {"sent", "accepted"} =>
          \/ Spoiled(m, g.product, g.station)
          \/ OfCycle(m, g) /\ m.cycle[g.station].phase \in Asking

Pursuing(m, G) ==
    /\ \A g, h \in G : SameCapture(g, h) => g = h
    /\ \A g \in G : Pursued(m, g)

\* The arm is at work on what was asked of it, once.
Served(m, R, p) ==
    LET a == m.actuation[p]  r == R[p]
    IN  \/ /\ a.sent = 0 /\ a.phase = "none" /\ m.state[p] < AtSensor3
           /\ r.answered = 0 /\ r.working = 0
        \/ /\ a.sent = 1 /\ a.phase = "pending" /\ m.state[p] = AtSensor3
           /\ r.answered = 0 /\ r.working = 0
        \/ /\ a.sent = 1 /\ a.phase = "waiting" /\ m.state[p] = Actuating
           /\ r.answered = 1 /\ r.working = 1
        \/ /\ a.sent = 1 /\ a.phase \in {"none", "completed"} /\ m.state[p] = Done
           /\ r.answered = 1 /\ r.working = 0

Serving(m, R) == \A p \in Products : Served(m, R, p)

\* A product that passes was at rest, and Vision is done with it.
Rested(m, G, F) ==
    /\ \A f \in F : ~ f.still => Spoiled(m, f.product, f.station)
    /\ \A p \in Products : m.locked[p] = "PASS" =>
          /\ \A f \in F : f.product = p => f.still
          /\ \A g \in G : g.product = p => g.stage \notin {"sent", "accepted"}

\* A product that skips station B has been let go there.
LetGo(m) ==
    m.cycle["B"] # None /\ m.skip[m.cycle["B"].product] => m.cycle["B"].phase = "RESUME_PENDING"

\* The Master, the belts, Vision and the arm are in step.
Steady(m, P, B, G, R, F) ==
    /\ m.system = "RUN"
    /\ Belted(m, P, B) /\ Placed(m, P) /\ Pursuing(m, G) /\ Serving(m, R) /\ Rested(m, G, F)

\* The invariant behind QuietLineIsSound.
Smooth == Quiet => Steady(master, pos, belt, goals, arm, frames) /\ LetGo(master)

\* What may be noted of a product by those that do not let its belt go.
Notes(m, n) ==
    /\ SameBut(m, n, {"station", "state", "skip", "reorder"})
    /\ \A q \in Products : m.skip[q] => n.skip[q]
    /\ \A q \in Products, u \in Stations : m.station[q][u].failed => n.station[q][u].failed
    /\ \A q \in Products :
          \/ n.state[q] = m.state[q]
          \/ \E u \in Stations : m.cycle[u].product = q /\ n.state[q] = Captured[u]
    /\ \A q \in Products, u \in Stations :
          \/ n.station[q][u].process = m.station[q][u].process
          \/ /\ m.cycle[u].product = q /\ n.station[q][u].process # "PENDING"
             /\ u = "B" /\ n.station[q][u].process = "SKIPPED" => n.skip[q]

\* What is known of a line on which nothing has gone wrong.
Calm ==
    /\ Typed /\ Evidence(master, frames) /\ Positions(pos) /\ Tracked(master, pos, belt)
    /\ Awaited(master, goals)
    /\ Steady(master, pos, belt, goals, arm, frames) /\ LetGo(master)

-----------------------------------------------------------------------------
(* The kinds of step: of the belts, of Vision, and of the arm, the deadlines and the     *)
(* operator.                                                                             *)

LineStep(s, available) ==
    \/ Sensor1 \/ Sensor2 \/ Sensor3(available)
    \/ Leave(s) \/ Settled(s, available) \/ Control(available)

VisionStep ==
    \/ \E g \in goals : \/ GoalAccepted(g) \/ GoalRefused(g) \/ Capture(g)
                        \/ CaptureResult(g) \/ CaptureResultLost(g)
    \/ \E f \in frames, outcome \in {"PASS", "NG", "FAILED"}, outOfMemory \in BOOLEAN :
          StationTerminal(f, outcome, outOfMemory)

OtherStep(p, s) ==
    \/ ActuationAccepted(p) \/ ActuationRefused(p) \/ ActuationTimeout(p)
    \/ \E success \in BOOLEAN : ActuationResult(p, success)
    \/ CaptureTimeout(s) \/ PositionTimeout(s) \/ ResumeTimeout(s)
    \/ OperatorPause \/ OperatorResume
=============================================================================

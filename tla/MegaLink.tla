------------------------------ MODULE MegaLink ------------------------------
(* Control (control_node.py) and the Mega over the serial line: the handshake of an
   initialization, the reader thread, fire-and-forget conveyor commands, the actuation
   action with its wait and its idempotent replies, and EquipmentState.  Frames get
   lost, the port goes away and is opened again, Control restarts, the Mega browns out.

   Opening the port resets the board (the DTR line), so what it was doing ends there.
   The 2 s and 10 s waits are longer than the line and the arm need: a wait times out
   only when its answer cannot come any more.  The Master behaves as WorkerSupervision
   has it: it commands a Control it takes for READY, and initializes one it does not. *)
EXTENDS MegaFirmware, IdempotencyStore, FiniteSets

CONSTANTS Goals,           \* ActuateProduct goals
          CommandOf,       \* the command_id of each: a goal sent again has the same
          Requests,        \* what they may ask for: functions from Goals to NG or PASS
          MaxSequence,     \* bound on _mega_sequence
          MaxFrames,       \* bound on the frames Control has not read
          Troubles, MaxTroubles

ASSUME LinkAssumption ==
    /\ Belts \subseteq {1, 2} /\ Sensors \subseteq {1, 2, 3}
    /\ DOMAIN CommandOf = Goals /\ Requests \subseteq [Goals -> {NG, PASS}]
    /\ IsFiniteSet({CommandOf[g] : g \in Goals})
    /\ MaxSequence \in Nat /\ MaxFrames \in Nat \ {0} /\ MaxTroubles \in Nat
    /\ Troubles \subseteq {"lost", "unplug", "restart", "brownout"}

\* A goal is sent again while the store still has the first one's reply.
ASSUME StoreSuffices == Cardinality({CommandOf[g] : g \in Goals}) <= StoreCapacity

VARIABLES mega,     \* the board
          toMega,   \* frames it has not read
          port,     \* open; dying: _mega is None, the reader still runs; closed
          sequence, \* _mega_sequence
          events,   \* the _mega_events that somebody waits for
          latest,   \* _latest_equipment_state
          init,     \* the handshake: HELLO (belt 0) or the belt's offset is not acknowledged
          session,  \* Control is in the Master's session
          ready,    \* its health is READY
          actuator_command, pc, awaits, outcome,  \* of each goal; the sequence it waits for
          store,    \* _actuation_results
          believed, \* the Master takes Control for READY
          mirror,   \* the last EquipmentState of its session
          begun, finished,      \* arm cycles begun and finished for each command
          trouble

nodeVars == <<latest, session, ready>>
goalVars == <<actuator_command, pc, awaits, outcome, store>>
masterVars == <<believed, mirror>>
armVars == <<begun, finished>>
vars == <<mega, toMega, port, sequence, events, init, nodeVars, goalVars, masterVars, armVars,
          trouble>>

Commands == {CommandOf[g] : g \in Goals}
Waiting(belt, seq) == [step |-> "handshake", belt |-> belt, seq |-> seq]
Idle == [step |-> "idle", belt |-> 0, seq |-> 0]
Adopting == [step |-> "adopt", belt |-> 0, seq |-> 0]

Init ==
    /\ mega = Boot /\ toMega = <<>> /\ port = "closed"
    /\ sequence = 0 /\ events = {} /\ latest = None
    /\ init = Idle /\ session = FALSE /\ ready = FALSE
    /\ actuator_command \in Requests
    /\ pc = [g \in Goals |-> "unsent"] /\ awaits = [g \in Goals |-> 0]
    /\ outcome = [g \in Goals |-> "none"] /\ store = <<>>
    /\ believed = FALSE /\ mirror = None
    /\ begun = [c \in Commands |-> 0] /\ finished = [c \in Commands |-> 0]
    /\ trouble = {}

Trouble(kind) ==
    /\ kind \in Troubles \ trouble /\ Cardinality(trouble) < MaxTroubles
    /\ trouble' = trouble \cup {kind}

Frame(seq, op, arg) == [seq |-> seq, op |-> op, arg |-> arg]

-----------------------------------------------------------------------------
(* The Mega: loop() cut at what it finds to do. *)

\* What it writes while nobody has the port open goes nowhere.
LoopEndsWith(m) ==
    /\ Len(mega.tx) < MaxFrames
    /\ mega' = IF port = "open" THEN Reported(m) ELSE [Reported(m) EXCEPT !.tx = <<>>]

\* The counts of the commands whose goal waits for this sequence.
Counted(counts, seq) ==
    [c \in Commands |-> IF \E g \in Goals : CommandOf[g] = c /\ awaits[g] = seq
                        THEN counts[c] + 1 ELSE counts[c]]

\* updateSerial: a frame, or two that have come together.
MegaReads ==
    \E n \in 1 .. 2 :
        LET first == Handled(mega, toMega[1])
            after == IF n = 1 THEN first ELSE Handled(first, toMega[2])
        IN  /\ n <= Len(toMega) /\ LoopEndsWith(after)
            /\ toMega' = SubSeq(toMega, n + 1, Len(toMega))
            /\ begun' = IF mega.servo = "READY" /\ after.servo # "READY"
                        THEN Counted(begun, after.pending) ELSE begun
            /\ UNCHANGED <<port, sequence, events, init, nodeVars, goalVars, masterVars, finished,
                           trouble>>

\* The rest of loop(): a belt that has arrived, a ping that ends, the servo, or just the
\* first report after the boot.
MegaMoves ==
    /\ \/ \E b \in Belts : mega.belt[b] = "POSITIONING" /\ LoopEndsWith(Arrived(mega, b))
       \/ \E s \in Sensors, reading \in Readings : LoopEndsWith(Pinged(mega, s, reading))
       \/ mega.reported = None /\ LoopEndsWith(mega)
    /\ UNCHANGED <<toMega, port, sequence, events, init, nodeVars, goalVars, masterVars, armVars,
                   trouble>>

MegaServo ==
    /\ mega.servo # "READY" /\ LoopEndsWith(ServoMoved(mega))
    /\ finished' = IF mega.servo = "MOVING_HOME" THEN Counted(finished, mega.pending) ELSE finished
    /\ UNCHANGED <<toMega, port, sequence, events, init, nodeVars, goalVars, masterVars, begun,
                   trouble>>

-----------------------------------------------------------------------------
(* The serial line. *)

\* _send_mega, to an open port.
Write(op, arg) ==
    /\ sequence < MaxSequence /\ sequence' = sequence + 1
    /\ toMega' = Append(toMega, Frame(sequence + 1, op, arg))

\* Damaged on the way.
LoseFrame ==
    /\ Trouble("lost")
    /\ \/ toMega # <<>> /\ toMega' = Tail(toMega) /\ UNCHANGED mega
       \/ mega.tx # <<>> /\ mega' = [mega EXCEPT !.tx = Tail(@)] /\ UNCHANGED toMega
    /\ UNCHANGED <<port, sequence, events, init, nodeVars, goalVars, masterVars, armVars>>

Brownout ==
    /\ Trouble("brownout")
    /\ mega' \in {Boot, [Boot EXCEPT !.tx = mega.tx]} /\ toMega' = <<>>
    /\ UNCHANGED <<port, sequence, events, init, nodeVars, goalVars, masterVars, armVars>>

Awaited(frame) ==
    \/ frame.kind = "ACK" /\ frame.seq = init.seq
    \/ frame.kind = "ACTUATION" /\ \E g \in Goals : pc[g] = "waiting" /\ awaits[g] = frame.seq

\* _publish_equipment_state: the Master takes what carries its session.
Published(state, inSession) ==
    latest' = state /\ mirror' = IF inSession THEN state ELSE mirror

\* _read_mega: an answer for whom it concerns, a state for the Master.  Sensor and
\* position events are passed on.
ReadFrame ==
    /\ port = "open" /\ mega.tx # <<>>
    /\ mega' = [mega EXCEPT !.tx = Tail(@)]
    /\ LET frame == Head(mega.tx)
       IN  /\ events' = IF frame.kind \in {"ACK", "ACTUATION"} /\ Awaited(frame)
                        THEN events \cup {frame} ELSE events
           /\ IF frame.kind = "STATE" THEN Published(frame.state, session)
              ELSE UNCHANGED <<latest, mirror>>
    /\ UNCHANGED <<toMega, port, sequence, init, session, ready, goalVars, believed, armVars,
                   trouble>>

\* The port goes away under _read_mega: first _mega, what was under way is lost,
ReaderLosesPort ==
    /\ port = "open" /\ Trouble("unplug")
    /\ port' = "dying" /\ toMega' = <<>> /\ mega' = [mega EXCEPT !.tx = <<>>]
    /\ UNCHANGED <<sequence, events, init, nodeVars, goalVars, masterVars, armVars>>

\* ... then DEGRADED, and the thread ends.
ReaderEnds ==
    /\ port = "dying" /\ port' = "closed" /\ ready' = FALSE
    /\ UNCHANGED <<mega, toMega, sequence, events, init, latest, session, goalVars, masterVars,
                   armVars, trouble>>

\* An answer that may still come.
Answerable(kind, seq) ==
    \/ \E e \in events : e.kind = kind /\ e.seq = seq
    \/ \E i \in DOMAIN mega.tx : mega.tx[i].kind = kind /\ mega.tx[i].seq = seq
    \/ \E i \in DOMAIN toMega : toMega[i].seq = seq
    \/ kind = "ACTUATION" /\ port = "open" /\ mega.pending = seq

Received(kind, seq) == {e \in events : e.kind = kind /\ e.seq = seq}

-----------------------------------------------------------------------------
(* Control initializes. *)

Blocked == init' = Idle /\ ready' = FALSE

\* initialize_node_resources: the port, if there is no reader, and HELLO, which a
\* booting board may miss.
Hello ==
    /\ init = Idle /\ ~believed
    /\ \/ /\ port = "closed" /\ sequence < MaxSequence
          /\ port' = "open" /\ mega' = Boot /\ sequence' = sequence + 1
          /\ toMega' \in {<<>>, <<Frame(sequence + 1, "HELLO", 0)>>}
          /\ awaits' = [g \in Goals |-> IF pc[g] = "waiting" THEN awaits[g] ELSE 0]
          /\ init' = Waiting(0, sequence + 1) /\ UNCHANGED ready
       \/ /\ port = "closed" /\ Blocked /\ UNCHANGED <<mega, toMega, port, sequence, awaits>>
       \/ /\ port = "open" /\ Write("HELLO", 0) /\ init' = Waiting(0, sequence + 1)
          /\ UNCHANGED <<mega, port, awaits, ready>>
       \/ /\ port = "dying" /\ Blocked /\ UNCHANGED <<mega, toMega, port, sequence, awaits>>
    /\ UNCHANGED <<events, latest, session, actuator_command, pc, outcome, store, masterVars, armVars, trouble>>

\* The belts whose offset is still to be sent.
OffsetsLeft == {b \in Belts : b > init.belt}
NextOffset == CHOOSE b \in OffsetsLeft : \A d \in OffsetsLeft : b <= d

\* Slip: a Control that has its session sends no offsets again.
AckedKeepsOffsets ==
    /\ init.step = "handshake" /\ Received("ACK", init.seq) # {}
    /\ events' = events \ Received("ACK", init.seq)
    /\ IF OffsetsLeft = {} \/ session
       THEN init' = Adopting /\ UNCHANGED <<sequence, toMega, ready>>
       ELSE IF port = "open"
       THEN Write("SET_OFFSET", NextOffset) /\ init' = Waiting(NextOffset, sequence + 1)
            /\ UNCHANGED ready
       ELSE Blocked /\ UNCHANGED <<sequence, toMega>>
    /\ UNCHANGED <<mega, port, latest, session, goalVars, masterVars, armVars, trouble>>

\* HELLO or SET_OFFSET is acknowledged: the next one, or done.
Acked ==
    /\ init.step = "handshake" /\ Received("ACK", init.seq) # {}
    /\ events' = events \ Received("ACK", init.seq)
    /\ IF OffsetsLeft = {}
       THEN init' = Adopting /\ UNCHANGED <<sequence, toMega, ready>>
       ELSE IF port = "open"
       THEN Write("SET_OFFSET", NextOffset) /\ init' = Waiting(NextOffset, sequence + 1)
            /\ UNCHANGED ready
       ELSE Blocked /\ UNCHANGED <<sequence, toMega>>
    /\ UNCHANGED <<mega, port, latest, session, goalVars, masterVars, armVars, trouble>>

AckTimesOut ==
    /\ init.step = "handshake" /\ ~Answerable("ACK", init.seq)
    /\ Blocked
    /\ UNCHANGED <<mega, toMega, port, sequence, events, latest, session, goalVars, masterVars,
                   armVars, trouble>>

\* Slip: the state of before the session is not published again.
AdoptQuietly ==
    /\ init.step = "adopt" /\ init' = Idle
    /\ session' = TRUE /\ ready' = TRUE /\ believed' = TRUE
    /\ UNCHANGED <<mega, toMega, port, sequence, events, latest, goalVars, mirror, armVars, trouble>>

\* The rest of _execute_initialize, and on_initialization_succeeded.
Adopt ==
    /\ init.step = "adopt" /\ init' = Idle
    /\ session' = TRUE /\ ready' = TRUE /\ believed' = TRUE
    /\ IF latest = None THEN UNCHANGED <<latest, mirror>> ELSE Published(latest, session')
    /\ UNCHANGED <<mega, toMega, port, sequence, events, goalVars, armVars, trouble>>

-----------------------------------------------------------------------------
(* Control commands. *)

\* A command for one belt is only ever a RUN (handle_targeted_conveyor_command).
Targets(op) == IF op = "RUN" THEN {Belts} \cup {{b} : b \in Belts} ELSE {Belts}

\* handle_all_conveyors_command: nobody waits, and what cannot be sent is only logged.
CommandBelts ==
    \E op \in {"RUN", "STOP"} : \E belts \in Targets(op) :
        /\ believed /\ session
        /\ port = "open" /\ sequence + Cardinality(belts) <= MaxSequence
        /\ sequence' = sequence + Cardinality(belts)
        /\ toMega' = toMega \o
             [i \in 1 .. Cardinality(belts) |->
                 Frame(sequence + i, op,
                       CHOOSE b \in belts : Cardinality({d \in belts : d < b}) = i - 1)]
        /\ UNCHANGED <<mega, port, events, init, nodeVars, goalVars, masterVars, armVars, trouble>>

Digest(g) == actuator_command[g]

Ends(g, what) == pc' = [pc EXCEPT ![g] = "done"] /\ outcome' = [outcome EXCEPT ![g] = what]
Remember(g, what) ==
    /\ Ends(g, what) /\ store' = Remembered(store, CommandOf[g], Digest(g), what)

\* A goal is sent again only to the Control that has answered it.
MaySend(g) ==
    \A h \in Goals \ {g} : CommandOf[h] = CommandOf[g] /\ pc[h] # "unsent" =>
        pc[h] = "done" /\ "restart" \notin trouble

\* _execute_actuation up to its wait.  If the port goes while it writes, what it raises
\* may be none of what it catches.
Actuate(g) ==
    /\ pc[g] = "unsent" /\ believed /\ MaySend(g)
    /\ IF ~ready \/ ~session
       THEN Ends(g, "rejected") /\ UNCHANGED <<sequence, toMega, awaits, store>>
       ELSE IF Known(store, CommandOf[g])
       THEN /\ Ends(g, IF Inspect(store, CommandOf[g], Digest(g)) = "CONFLICT" THEN "rejected"
                      ELSE EntryOf(store, CommandOf[g]).result)
            /\ store' = Inspected(store, CommandOf[g])
            /\ UNCHANGED <<sequence, toMega, awaits>>
       ELSE \/ /\ port = "open" /\ Write("ACTUATE", actuator_command[g])
               /\ pc' = [pc EXCEPT ![g] = "waiting"]
               /\ awaits' = [awaits EXCEPT ![g] = sequence + 1]
               /\ UNCHANGED <<outcome, store>>
            \/ port # "open" /\ Remember(g, "failed") /\ UNCHANGED <<sequence, toMega, awaits>>
            \/ /\ port = "dying" /\ Ends(g, "raised")
               /\ UNCHANGED <<sequence, toMega, awaits, store>>
    /\ UNCHANGED <<mega, port, events, init, nodeVars, actuator_command, masterVars, armVars,
                   trouble>>

\* Slip: whatever the arm reports is taken for this goal's.
AnsweredByAny(g) ==
    /\ pc[g] = "waiting"
    /\ \E e \in events :
        /\ e.kind = "ACTUATION" /\ events' = events \ {e}
        /\ Remember(g, IF e.status = "OK" THEN "success" ELSE "failed")
    /\ UNCHANGED <<mega, toMega, port, sequence, init, nodeVars, actuator_command, awaits, masterVars,
                   armVars, trouble>>

\* The arm is back.
Answered(g) ==
    /\ pc[g] = "waiting"
    /\ \E e \in Received("ACTUATION", awaits[g]) :
        /\ events' = events \ {e}
        /\ Remember(g, IF e.status = "OK" THEN "success" ELSE "failed")
    /\ UNCHANGED <<mega, toMega, port, sequence, init, nodeVars, actuator_command, awaits, masterVars,
                   armVars, trouble>>

\* ... or will not be: a lost frame, a reset, a BUSY.
ActuationTimesOut(g) ==
    /\ pc[g] = "waiting" /\ ~Answerable("ACTUATION", awaits[g])
    /\ Remember(g, "failed")
    /\ UNCHANGED <<mega, toMega, port, sequence, events, init, nodeVars, actuator_command, awaits, masterVars,
                   armVars, trouble>>

-----------------------------------------------------------------------------
(* Around it. *)

\* The Master sees Control's health in its heartbeats.
MasterNotices ==
    /\ believed /\ ~ready /\ believed' = FALSE
    /\ UNCHANGED <<mega, toMega, port, sequence, events, init, nodeVars, goalVars, mirror, armVars,
                   trouble>>

\* Control starts anew; the Mega goes on.
Restart ==
    /\ Trouble("restart")
    /\ port' = "closed" /\ mega' = [mega EXCEPT !.tx = <<>>] /\ sequence' = 0 /\ events' = {} /\ latest' = None /\ init' = Idle
    /\ session' = FALSE /\ ready' = FALSE /\ store' = <<>>
    /\ pc' = [g \in Goals |-> IF pc[g] = "waiting" THEN "done" ELSE pc[g]]
    /\ outcome' = [g \in Goals |-> IF pc[g] = "waiting" THEN "lost" ELSE outcome[g]]
    /\ UNCHANGED <<toMega, actuator_command, awaits, masterVars, armVars>>

Next ==
    \/ MegaReads \/ MegaMoves \/ MegaServo
    \/ ReadFrame \/ LoseFrame \/ Brownout \/ ReaderLosesPort \/ ReaderEnds
    \/ Hello \/ Acked \/ AckTimesOut \/ Adopt
    \/ CommandBelts
    \/ \E g \in Goals : Actuate(g) \/ Answered(g) \/ ActuationTimesOut(g)
    \/ MasterNotices \/ Restart

Spec == Init /\ [][Next]_vars

-----------------------------------------------------------------------------
(* Properties. *)

MegaType ==
    [belt : [Belts -> BeltStates], offset : [Belts -> BOOLEAN], armed : [Sensors -> BOOLEAN],
     clear : [Sensors -> BOOLEAN], servo : ServoStates, pending : 0 .. MaxSequence,
     reported : {None} \cup EquipmentStates,
     tx : Seq([kind : {"ACK", "ACTUATION"}, seq : Nat, status : {"OK", "BUSY"}]
              \cup [kind : {"SENSOR"}, sensor : Sensors] \cup [kind : {"POSITION"}, belt : Belts]
              \cup [kind : {"STATE"}, state : EquipmentStates])]

\* Types; the arm is away exactly for a pending actuation (pendingActuationSequence), and
\* an answer that is kept is one somebody waits for.
TypeOK ==
    /\ mega \in MegaType /\ (mega.pending # 0 <=> mega.servo # "READY")
    /\ toMega \in Seq([seq : 1 .. MaxSequence,
                       op : {"HELLO", "SET_OFFSET", "RUN", "STOP", "ACTUATE"},
                       arg : 0 .. 2])
    /\ port \in {"open", "dying", "closed"} /\ sequence \in 0 .. MaxSequence
    /\ \A e \in events : Awaited(e)
    /\ init.step \in {"idle", "handshake", "adopt"} /\ init.belt \in 0 .. 2
    /\ init.seq \in 0 .. sequence
    /\ session \in BOOLEAN /\ ready \in BOOLEAN /\ believed \in BOOLEAN
    /\ ready => session
    /\ pc \in [Goals -> {"unsent", "waiting", "done"}] /\ awaits \in [Goals -> 0 .. MaxSequence]
    /\ outcome \in [Goals -> {"none", "rejected", "failed", "raised", "lost", "success"}]
    /\ Len(store) <= StoreCapacity

\* A success is a cycle of the arm for that product from start to end, none for one that
\* passes; a command moves the arm at most once, also when it is sent again, whatever is
\* lost, unplugged or reset meanwhile ("the same command ID does not cause the physical
\* output twice", README of inspection_control).
ActuationExact ==
    /\ \A c \in Commands : begun[c] <= 1 /\ finished[c] <= begun[c]
    /\ \A g \in Goals : outcome[g] = "success" =>
        finished[CommandOf[g]] = (IF actuator_command[g] = NG THEN 1 ELSE 0)

\* E|STATE is sent on a change only: unless a frame was lost, a Control in session with
\* nothing left to read has told the Master what the Mega is, also after a reconnection,
\* a restart or a reset of the board.
MirrorAgrees ==
    /\ session /\ port = "open" /\ "lost" \notin trouble
    /\ mega.reported = Status(mega)
    /\ \A i \in DOMAIN mega.tx : mega.tx[i].kind # "STATE"
    => mirror = Status(mega)

\* A belt that meets a product knows where its camera is: no RUN reaches a board without
\* offsets, across failed handshakes, reconnections and restarts.  (A brown-out is seen by
\* nobody: the offsets are gone and Control stays READY.)
OffsetBeforeRun ==
    \A b \in Belts : mega.belt[b] = "RUNNING" /\ "brownout" \notin trouble => mega.offset[b]
=============================================================================

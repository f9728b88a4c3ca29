----------------------------- MODULE MegaFirmware -----------------------------
(* The Arduino Mega of the line (arduino_mega.ino): conveyors, ultrasonic sensors,
   the reject servo and the serial handler, as functions of the state of the board.
   The board is a record; `tx` holds the frames it has written and the host has not
   read.  loop() is cut into the handlers that change something, each followed by
   updateEquipmentStateReport as in loop().

   Left out: the CRC and the parsing (a damaged frame is no frame), the steps and
   angles, the sequence numbers of sensor and position events, which nothing reads
   back, and the maintenance command POSITION, which Control does not send.     *)
EXTENDS Naturals, Sequences

CONSTANTS Belts,   \* conveyors, a subset of {1, 2}
          Sensors, \* a subset of {1, 2, 3}
          None

\* What E|STATE reports: the belts, the sensors that are clear, whether the servo is ready.
BeltStates == {"RUNNING", "POSITIONING", "WAIT_CAMERA", "STOPPED"}
EquipmentStates ==
    [belt : [Belts -> BeltStates], clear : [Sensors -> BOOLEAN], servo : BOOLEAN]

ASSUME FirmwareAssumption == None \notin EquipmentStates

NG == 1  \* ACTUATE
PASS == 2

ServoStates == {"READY", "MOVING_TO_WORK", "WAITING", "MOVING_HOME"}

\* What a ping finds: an object at the sensor, one between the two thresholds (or too
\* close to measure), one that is away, one beyond the valid range, or no echo at all.
Readings == {"near", "between", "far", "beyond", "none"}

\* setup(), and the initial values of the globals.
Boot ==
    [belt |-> [b \in Belts |-> "STOPPED"], offset |-> [b \in Belts |-> FALSE],
     armed |-> [s \in Sensors |-> TRUE], clear |-> [s \in Sensors |-> FALSE],
     servo |-> "READY", pending |-> 0, reported |-> None, tx |-> <<>>]

\* The frames of sendFrame.
Ack(seq, status) == [kind |-> "ACK", seq |-> seq, status |-> status]
Actuated(seq) == [kind |-> "ACTUATION", seq |-> seq, status |-> "OK"]
SensorEvent(s) == [kind |-> "SENSOR", sensor |-> s]
Settled(b) == [kind |-> "POSITION", belt |-> b]
StateEvent(status) == [kind |-> "STATE", state |-> status]

Sent(m, frame) == [m EXCEPT !.tx = Append(@, frame)]

\* What sendEquipmentState says.
Status(m) == [belt |-> m.belt, clear |-> m.clear, servo |-> m.servo = "READY"]

\* updateEquipmentStateReport: once after the boot, then on a change.
Reported(m) ==
    IF m.reported = Status(m) THEN m
    ELSE [Sent(m, StateEvent(Status(m))) EXCEPT !.reported = Status(m)]

\* startAutomaticPosition, from a sensor.
Positioned(m, b) ==
    IF m.offset[b] /\ m.belt[b] = "RUNNING" THEN [m EXCEPT !.belt[b] = "POSITIONING"] ELSE m

\* handleDetection of sensor s: 1 and 2 see only what their running belt brings,
\* sensor 3 leaves the belt alone.
Detects(m, s) == m.armed[s] /\ (s \in Belts => m.belt[s] = "RUNNING")
Detected(m, s) ==
    LET seen == Sent([m EXCEPT !.armed[s] = FALSE], SensorEvent(s))
    IN  IF s \in Belts THEN Positioned(seen, s) ELSE seen

\* finishPing and abortPing.  Without an echo lastDistanceCm is -1, which is not clear.
Pinged(m, s, reading) ==
    LET read == [m EXCEPT !.clear[s] = reading \in {"far", "beyond"}]
    IN  CASE reading \in {"far", "none"} -> [read EXCEPT !.armed[s] = TRUE]
          [] reading = "near" /\ Detects(m, s) -> Detected(read, s)
          [] OTHER -> read

\* updateConveyor at the end of a positioning.
Arrived(m, b) == Sent([m EXCEPT !.belt[b] = "WAIT_CAMERA"], Settled(b))

\* Slip: the sequence of the last actuation is kept.
ServoMovedKeepsSequence(m) ==
    CASE m.servo = "MOVING_TO_WORK" -> [m EXCEPT !.servo = "WAITING"]
      [] m.servo = "WAITING" -> [m EXCEPT !.servo = "MOVING_HOME"]
      [] m.servo = "MOVING_HOME" -> Sent([m EXCEPT !.servo = "READY"], Actuated(m.pending))

\* updateServo at the end of a phase.
ServoMoved(m) ==
    CASE m.servo = "MOVING_TO_WORK" -> [m EXCEPT !.servo = "WAITING"]
      [] m.servo = "WAITING" -> [m EXCEPT !.servo = "MOVING_HOME"]
      [] m.servo = "MOVING_HOME" ->
            Sent([m EXCEPT !.servo = "READY", !.pending = 0], Actuated(m.pending))

\* handleCommand.
Handled(m, frame) ==
    LET ok == Ack(frame.seq, "OK")
    IN  CASE frame.op = "HELLO" -> Sent(m, ok)
          [] frame.op = "SET_OFFSET" -> Sent([m EXCEPT !.offset[frame.arg] = TRUE], ok)
          [] frame.op = "RUN" -> Sent([m EXCEPT !.belt[frame.arg] = "RUNNING"], ok)
          [] frame.op = "STOP" -> Sent([m EXCEPT !.belt[frame.arg] = "STOPPED"], ok)
          [] frame.op = "ACTUATE" /\ frame.arg = PASS -> Sent(Sent(m, ok), Actuated(frame.seq))
          [] frame.op = "ACTUATE" /\ frame.arg = NG ->
                IF m.servo = "READY"
                THEN Sent([m EXCEPT !.servo = "MOVING_TO_WORK", !.pending = frame.seq], ok)
                ELSE Sent(m, Ack(frame.seq, "BUSY"))
===============================================================================

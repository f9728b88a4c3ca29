---------------------------- MODULE MegaLinkProofs ----------------------------
(* Theorems about MegaLink, for any belts and sensors of the line, any goals and
   commands, and any number of frames, losses, reconnections and restarts.    *)
EXTENDS MegaLink, FiniteSetTheorems, SequenceTheorems, TLAPS

\* The frames of the two directions.
Replies == [kind : {"ACK", "ACTUATION"}, seq : Nat, status : {"OK", "BUSY"}]
Passing == [kind : {"SENSOR"}, sensor : Sensors] \cup [kind : {"POSITION"}, belt : Belts]
StateFrames == [kind : {"STATE"}, state : EquipmentStates]
Frames == Replies \cup Passing \cup StateFrames
Orders == [seq : 1 .. MaxSequence, op : {"HELLO", "SET_OFFSET", "RUN", "STOP", "ACTUATE"},
           arg : 0 .. 2]

Content(s) == {s[i] : i \in 1 .. Len(s)}

\* Handled knows every order that is sent.
WellFormed(f) ==
    /\ f.op \in {"SET_OFFSET", "RUN", "STOP"} => f.arg \in Belts
    /\ f.op = "ACTUATE" => f.arg \in {NG, PASS}

-----------------------------------------------------------------------------
(* Sequences as the sets of what is in them. *)

\* What an append adds.
LEMMA ContentAppend ==
    ASSUME NEW S, NEW s \in Seq(S), NEW e \in S
    PROVE  Content(Append(s, e)) = Content(s) \cup {e}
BY DEF Content

\* The rest of a sequence has nothing new.
LEMMA ContentTail ==
    ASSUME NEW S, NEW s \in Seq(S), s # <<>>
    PROVE  /\ Tail(s) \in Seq(S) /\ Len(Tail(s)) = Len(s) - 1
           /\ \A i \in 1 .. Len(s) - 1 : Tail(s)[i] = s[i + 1]
           /\ Content(Tail(s)) \subseteq Content(s)
<1>1. /\ Tail(s) \in Seq(S) /\ Len(Tail(s)) = Len(s) - 1
      /\ \A i \in 1 .. Len(s) - 1 : Tail(s)[i] = s[i + 1]
  OBVIOUS
<1> QED BY <1>1 DEF Content

\* A suffix of a sequence.
LEMMA ContentSuffix ==
    ASSUME NEW S, NEW s \in Seq(S), NEW n \in 0 .. Len(s)
    PROVE  /\ SubSeq(s, n + 1, Len(s)) \in Seq(S)
           /\ Len(SubSeq(s, n + 1, Len(s))) = Len(s) - n
           /\ \A i \in 1 .. Len(s) - n : SubSeq(s, n + 1, Len(s))[i] = s[n + i]
           /\ Content(SubSeq(s, n + 1, Len(s))) = {s[i] : i \in n + 1 .. Len(s)}
<1> DEFINE t == SubSeq(s, n + 1, Len(s))
<1>1. /\ t \in Seq(S) /\ Len(t) = Len(s) - n
      /\ \A i \in 1 .. Len(s) - n : t[i] = s[n + i]
  OBVIOUS
<1> HIDE DEF t
<1>2. Content(t) = {s[i] : i \in n + 1 .. Len(s)}
  <2>1. ASSUME NEW i \in 1 .. Len(t) PROVE t[i] \in {s[j] : j \in n + 1 .. Len(s)}
    BY <1>1
  <2>2. ASSUME NEW j \in n + 1 .. Len(s) PROVE s[j] \in Content(t)
    <3>1. j - n \in 1 .. Len(t) /\ n + (j - n) = j BY <1>1
    <3> QED BY <1>1, <3>1 DEF Content
  <2> QED BY <2>1, <2>2 DEF Content
<1> QED BY <1>1, <1>2 DEF t

-----------------------------------------------------------------------------
(* The board: what each of its handlers leaves alone. *)

\* The types of the board's fields, by name.
BeltMaps == [Belts -> BeltStates]
BeltFlags == [Belts -> BOOLEAN]
SensorFlags == [Sensors -> BOOLEAN]
Numbers == 0 .. MaxSequence
LastReports == {None} \cup EquipmentStates
Boards ==
    [belt : BeltMaps, offset : BeltFlags, armed : SensorFlags, clear : SensorFlags,
     servo : ServoStates, pending : Numbers, reported : LastReports, tx : Seq(Frames)]

\* MegaType is their record.
LEMMA BoardTypes == MegaType = Boards
BY DEF MegaType, Boards, BeltMaps, BeltFlags, SensorFlags, Numbers, LastReports, Frames, Replies,
       Passing, StateFrames

\* A board with another state of a belt, of the servo, with an offset set, other frames.
WithBelt(m, b, state) == [m EXCEPT !.belt[b] = state]
WithServo(m, servo, pending) == [m EXCEPT !.servo = servo, !.pending = pending]
WithOffset(m, b) == [m EXCEPT !.offset[b] = TRUE]
WithTx(m, tx) == [m EXCEPT !.tx = tx]

\* The rest of a board when a belt changes its state,
LEMMA BeltChange ==
    ASSUME NEW m \in MegaType, NEW b \in Belts, NEW state \in BeltStates
    PROVE  LET n == WithBelt(m, b, state)
           IN  /\ n \in MegaType /\ n.belt = [m.belt EXCEPT ![b] = state]
               /\ n.offset = m.offset /\ n.servo = m.servo /\ n.pending = m.pending
               /\ n.reported = m.reported /\ n.tx = m.tx
<1> DEFINE n == WithBelt(m, b, state)
<1>1. m \in Boards BY BoardTypes
<1>2. [m.belt EXCEPT ![b] = state] \in BeltMaps BY <1>1 DEF BeltMaps, Boards
<1>3. n = [m EXCEPT !.belt = [m.belt EXCEPT ![b] = state]] BY <1>1 DEF Boards, WithBelt
<1> HIDE DEF n
<1>4. n \in Boards BY <1>1, <1>2, <1>3 DEF Boards
<1>5. /\ n \in MegaType /\ n.belt = [m.belt EXCEPT ![b] = state]
      /\ n.offset = m.offset /\ n.servo = m.servo /\ n.pending = m.pending
      /\ n.reported = m.reported /\ n.tx = m.tx
  BY <1>1, <1>3, <1>4, BoardTypes DEF Boards
<1> QED BY <1>5 DEF n

\* ... when the servo does,
LEMMA ServoChange ==
    ASSUME NEW m \in MegaType, NEW servo \in ServoStates, NEW pending \in 0 .. MaxSequence
    PROVE  LET n == WithServo(m, servo, pending)
           IN  /\ n \in MegaType /\ n.servo = servo /\ n.pending = pending
               /\ n.belt = m.belt /\ n.offset = m.offset
               /\ n.reported = m.reported /\ n.tx = m.tx
<1> DEFINE n == WithServo(m, servo, pending)
<1>1. m \in Boards BY BoardTypes
<1>2. pending \in Numbers BY DEF Numbers
<1>3. n = [m EXCEPT !.servo = servo, !.pending = pending] BY DEF WithServo
<1> HIDE DEF n
<1>4. n \in Boards BY <1>1, <1>2, <1>3 DEF Boards
<1>5. /\ n \in MegaType /\ n.servo = servo /\ n.pending = pending
      /\ n.belt = m.belt /\ n.offset = m.offset /\ n.reported = m.reported /\ n.tx = m.tx
  BY <1>1, <1>3, <1>4, BoardTypes DEF Boards
<1> QED BY <1>5 DEF n

\* ... when an offset is set.
LEMMA OffsetChange ==
    ASSUME NEW m \in MegaType, NEW b \in Belts
    PROVE  LET n == WithOffset(m, b)
           IN  /\ n \in MegaType /\ n.offset = [m.offset EXCEPT ![b] = TRUE]
               /\ n.belt = m.belt /\ n.servo = m.servo /\ n.pending = m.pending
               /\ n.reported = m.reported /\ n.tx = m.tx
<1> DEFINE n == WithOffset(m, b)
<1>1. m \in Boards BY BoardTypes
<1>2. [m.offset EXCEPT ![b] = TRUE] \in BeltFlags BY <1>1 DEF BeltFlags, Boards
<1>3. n = [m EXCEPT !.offset = [m.offset EXCEPT ![b] = TRUE]] BY <1>1 DEF Boards, WithOffset
<1> HIDE DEF n
<1>4. n \in Boards BY <1>1, <1>2, <1>3 DEF Boards
<1>5. /\ n \in MegaType /\ n.offset = [m.offset EXCEPT ![b] = TRUE]
      /\ n.belt = m.belt /\ n.servo = m.servo /\ n.pending = m.pending
      /\ n.reported = m.reported /\ n.tx = m.tx
  BY <1>1, <1>3, <1>4, BoardTypes DEF Boards
<1> QED BY <1>5 DEF n

\* ... when frames are read, lost or written.
LEMMA TxChange ==
    ASSUME NEW m \in MegaType, NEW tx \in Seq(Frames)
    PROVE  LET n == WithTx(m, tx)
           IN  /\ n \in MegaType /\ n.tx = tx /\ n.belt = m.belt /\ n.offset = m.offset
               /\ n.servo = m.servo /\ n.pending = m.pending /\ n.reported = m.reported
<1> DEFINE n == WithTx(m, tx)
<1>1. m \in Boards BY BoardTypes
<1>2. n = [m EXCEPT !.tx = tx] BY DEF WithTx
<1> HIDE DEF n
<1>3. n \in Boards BY <1>1, <1>2 DEF Boards
<1>4. /\ n \in MegaType /\ n.tx = tx /\ n.belt = m.belt /\ n.offset = m.offset
      /\ n.servo = m.servo /\ n.pending = m.pending /\ n.reported = m.reported
  BY <1>1, <1>2, <1>3, BoardTypes DEF Boards
<1> QED BY <1>4 DEF n

\* t is a board with the frames of m and more behind them, all of those from F.
Writes(m, t, F) ==
    /\ t \in MegaType
    /\ Len(m.tx) <= Len(t.tx)
    /\ \A i \in 1 .. Len(m.tx) : t.tx[i] = m.tx[i]
    /\ \A i \in 1 .. Len(t.tx) : i > Len(m.tx) => t.tx[i] \in F

\* sendFrame.
LEMMA SentWrites ==
    ASSUME NEW m \in MegaType, NEW frame \in Frames
    PROVE  /\ Sent(m, frame) \in MegaType
           /\ Sent(m, frame) = [m EXCEPT !.tx = Append(m.tx, frame)]
           /\ Sent(m, frame).tx = Append(m.tx, frame)
           /\ Sent(m, frame).belt = m.belt /\ Sent(m, frame).offset = m.offset
           /\ Sent(m, frame).armed = m.armed /\ Sent(m, frame).clear = m.clear
           /\ Sent(m, frame).servo = m.servo /\ Sent(m, frame).pending = m.pending
           /\ Sent(m, frame).reported = m.reported
           /\ Writes(m, Sent(m, frame), {frame})
<1>1. m.tx \in Seq(Frames) BY DEF MegaType, Frames, Replies, Passing, StateFrames
<1>2. Append(m.tx, frame) \in Seq(Frames) BY <1>1
<1>3. Sent(m, frame) = [m EXCEPT !.tx = Append(m.tx, frame)] BY DEF Sent
<1>4. /\ Sent(m, frame) \in MegaType /\ Sent(m, frame).tx = Append(m.tx, frame)
      /\ Sent(m, frame).belt = m.belt /\ Sent(m, frame).offset = m.offset
      /\ Sent(m, frame).armed = m.armed /\ Sent(m, frame).clear = m.clear
      /\ Sent(m, frame).servo = m.servo /\ Sent(m, frame).pending = m.pending
      /\ Sent(m, frame).reported = m.reported
  <2>1. m \in Boards BY BoardTypes
  <2> DEFINE tx == Append(m.tx, frame)
             n == Sent(m, frame)
  <2>2. n = [m EXCEPT !.tx = tx] /\ tx \in Seq(Frames) BY <1>2, <1>3
  <2> HIDE DEF n, tx
  <2>3. n \in Boards BY <2>1, <2>2 DEF Boards
  <2>4. /\ n \in MegaType /\ n.tx = tx /\ n.belt = m.belt /\ n.offset = m.offset
        /\ n.armed = m.armed /\ n.clear = m.clear /\ n.servo = m.servo
        /\ n.pending = m.pending /\ n.reported = m.reported
    BY <2>1, <2>2, <2>3, BoardTypes DEF Boards
  <2> QED BY <2>4 DEF n, tx
<1>5. /\ Len(Append(m.tx, frame)) = Len(m.tx) + 1
      /\ \A i \in 1 .. Len(m.tx) : Append(m.tx, frame)[i] = m.tx[i]
      /\ Append(m.tx, frame)[Len(m.tx) + 1] = frame
  BY <1>1
<1> HIDE DEF Sent, MegaType
<1>6. \A i \in 1 .. Len(m.tx) + 1 : i > Len(m.tx) => i = Len(m.tx) + 1 BY <1>1
<1> QED BY <1>3, <1>4, <1>5, <1>6 DEF Writes

\* A first frame, then another.
LEMMA WritesTwice ==
    ASSUME NEW m \in MegaType, NEW t, NEW u, NEW F, NEW G, Writes(m, t, F), Writes(t, u, G)
    PROVE  Writes(m, u, F \cup G)
<1>1. /\ Len(m.tx) \in Nat /\ Len(t.tx) \in Nat /\ Len(u.tx) \in Nat
  BY DEF Writes, MegaType
<1> QED BY <1>1 DEF Writes

\* updateEquipmentStateReport: a state frame on a change.
LEMMA ReportedWrites ==
    ASSUME NEW m \in MegaType
    PROVE  LET t == Reported(m)
           IN  /\ Writes(m, t, {StateEvent(Status(m))})
               /\ t.belt = m.belt /\ t.offset = m.offset /\ t.servo = m.servo
               /\ t.pending = m.pending /\ t.reported = Status(m)
               /\ \/ t = m
                  \/ t.tx = Append(m.tx, StateEvent(Status(m)))
<1>1. Status(m) \in EquipmentStates
  <2>1. (m.servo = "READY") \in BOOLEAN OBVIOUS
  <2> QED BY <2>1 DEF Status, EquipmentStates, MegaType
<1>2. StateEvent(Status(m)) \in Frames BY <1>1 DEF StateEvent, Frames, StateFrames
<1> DEFINE e == StateEvent(Status(m))
           s == Sent(m, e)
<1>3. /\ s \in MegaType /\ s.tx = Append(m.tx, e) /\ Writes(m, s, {e})
      /\ s.belt = m.belt /\ s.offset = m.offset /\ s.servo = m.servo /\ s.pending = m.pending
  BY <1>2, SentWrites
<1>4. CASE m.reported = Status(m)
  <2>1. Reported(m) = m BY <1>4 DEF Reported
  <2>2. Writes(m, m, {e}) BY DEF Writes, MegaType
  <2> QED BY <1>4, <2>1, <2>2
<1>5. CASE m.reported # Status(m)
  <2>1. Reported(m) = [s EXCEPT !.reported = Status(m)] BY <1>5 DEF Reported
  <2> HIDE DEF s, e
  <2>2. /\ Reported(m) \in MegaType /\ Reported(m).tx = s.tx
        /\ Reported(m).belt = s.belt /\ Reported(m).offset = s.offset
        /\ Reported(m).servo = s.servo /\ Reported(m).pending = s.pending
        /\ Reported(m).reported = Status(m)
    BY <1>1, <1>3, <2>1 DEF MegaType
  <2> QED BY <1>3, <2>2 DEF Writes, e
<1> QED BY <1>4, <1>5

\* Nothing changes but a belt that is not running after it, a sensor, and what is written.
Aside(m, t, F) ==
    /\ Writes(m, t, F)
    /\ \A b \in Belts : t.belt[b] = "RUNNING" => m.belt[b] = "RUNNING"
    /\ t.offset = m.offset /\ t.servo = m.servo /\ t.pending = m.pending
    /\ t.reported = m.reported

\* The end of a positioning.
LEMMA ArrivedAside ==
    ASSUME NEW m \in MegaType, NEW b \in Belts
    PROVE  Aside(m, Arrived(m, b), Passing)
<1> DEFINE n == WithBelt(m, b, "WAIT_CAMERA")
<1>1. /\ n \in MegaType /\ n.tx = m.tx /\ n.offset = m.offset /\ n.servo = m.servo
      /\ n.pending = m.pending /\ n.reported = m.reported
      /\ n.belt = [m.belt EXCEPT ![b] = "WAIT_CAMERA"]
  <2>1. "WAIT_CAMERA" \in BeltStates BY DEF BeltStates
  <2> QED BY <2>1, BeltChange
<1>2. Settled(b) \in Passing BY DEF Settled, Passing
<1>3. Arrived(m, b) = Sent(n, Settled(b)) BY DEF Arrived, WithBelt
<1> HIDE DEF n
<1>4. Writes(n, Sent(n, Settled(b)), {Settled(b)})
  BY <1>1, <1>2, SentWrites DEF Frames
<1>5. m.belt \in [Belts -> BeltStates] BY DEF MegaType
<1>6. \A d \in Belts : n.belt[d] = "RUNNING" => m.belt[d] = "RUNNING" BY <1>1, <1>5
<1>7. /\ Sent(n, Settled(b)).belt = n.belt /\ Sent(n, Settled(b)).offset = n.offset
      /\ Sent(n, Settled(b)).servo = n.servo /\ Sent(n, Settled(b)).pending = n.pending
      /\ Sent(n, Settled(b)).reported = n.reported
  BY <1>1, <1>2, SentWrites DEF Frames
<1> QED BY <1>1, <1>2, <1>3, <1>4, <1>6, <1>7 DEF Aside, Writes

\* The end of a ping.
LEMMA PingedAside ==
    ASSUME NEW m \in MegaType, NEW s \in Sensors, NEW reading \in Readings
    PROVE  Aside(m, Pinged(m, s, reading), Passing)
<1> DEFINE read == [m EXCEPT !.clear[s] = reading \in {"far", "beyond"}]
           Same(n, t) == /\ t \in MegaType /\ t.tx = n.tx /\ t.offset = n.offset
                         /\ t.servo = n.servo /\ t.pending = n.pending
                         /\ t.reported = n.reported
                         /\ \A b \in Belts : t.belt[b] = "RUNNING" => n.belt[b] = "RUNNING"
<1>1. ASSUME NEW n, NEW t, Same(n, t), n \in MegaType PROVE Aside(n, t, Passing)
  BY <1>1 DEF Aside, Writes, MegaType
<1>2. Same(m, read)
  <2>1. (reading \in {"far", "beyond"}) \in BOOLEAN OBVIOUS
  <2> QED BY <2>1 DEF MegaType
<1>3. ASSUME NEW armed \in BOOLEAN PROVE Same(read, [read EXCEPT !.armed[s] = armed])
  <2> HIDE DEF read
  <2> QED BY <1>2 DEF MegaType
<1>4. CASE reading \in {"far", "none"}
  <2>1. Pinged(m, s, reading) = [read EXCEPT !.armed[s] = TRUE] BY <1>4 DEF Pinged
  <2>2. Same(read, Pinged(m, s, reading)) BY <1>3, <2>1
  <2>3. Same(m, Pinged(m, s, reading)) BY <1>2, <2>2
  <2> QED BY <1>1, <2>3
<1>5. CASE reading = "near" /\ Detects(m, s)
  <2> DEFINE quiet == [read EXCEPT !.armed[s] = FALSE]
             seen == Sent(quiet, SensorEvent(s))
  <2>1. Pinged(m, s, reading) = Detected(read, s) BY <1>5 DEF Pinged
  <2>2. SensorEvent(s) \in Passing BY DEF SensorEvent, Passing
  <2>3. Same(m, quiet) BY <1>2, <1>3
  <2>4. Detected(read, s) = IF s \in Belts THEN Positioned(seen, s) ELSE seen BY DEF Detected
  <2> HIDE DEF quiet
  <2>5. /\ Writes(quiet, seen, {SensorEvent(s)}) /\ seen.belt = quiet.belt
        /\ seen.offset = quiet.offset /\ seen.servo = quiet.servo
        /\ seen.pending = quiet.pending /\ seen.reported = quiet.reported
    BY <2>2, <2>3, SentWrites DEF Frames
  <2> HIDE DEF seen, Same
  <2>6. Aside(m, seen, Passing) BY <2>2, <2>3, <2>5 DEF Aside, Writes, Same
  <2>7. seen \in MegaType BY <2>5 DEF Writes
  <2>8. CASE s \in Belts
    <3>1. Positioned(seen, s) \in {seen, WithBelt(seen, s, "POSITIONING")}
      BY DEF Positioned, WithBelt
    <3>2. seen.belt \in [Belts -> BeltStates] BY <2>7 DEF MegaType
    <3>3. Same(seen, Positioned(seen, s))
      <4>1. CASE Positioned(seen, s) = seen BY <2>7, <4>1 DEF Same
      <4>2. CASE Positioned(seen, s) = WithBelt(seen, s, "POSITIONING")
        <5>1. "POSITIONING" \in BeltStates BY DEF BeltStates
        <5> DEFINE t == WithBelt(seen, s, "POSITIONING")
        <5>2. /\ t \in MegaType /\ t.belt = [seen.belt EXCEPT ![s] = "POSITIONING"]
              /\ t.offset = seen.offset /\ t.servo = seen.servo /\ t.pending = seen.pending
              /\ t.reported = seen.reported /\ t.tx = seen.tx
          BY <2>7, <2>8, <5>1, BeltChange
        <5> HIDE DEF t
        <5>3. Same(seen, t) BY <2>8, <3>2, <5>2 DEF Same
        <5> QED BY <4>2, <5>3 DEF t
      <4> QED BY <3>1, <4>1, <4>2
    <3> QED BY <2>1, <2>4, <2>6, <2>8, <3>3 DEF Aside, Writes, Same
  <2>9. CASE s \notin Belts BY <2>1, <2>4, <2>6, <2>9
  <2> QED BY <2>8, <2>9
<1>6. CASE ~(reading \in {"far", "none"}) /\ ~(reading = "near" /\ Detects(m, s))
  <2>1. Pinged(m, s, reading) = read BY <1>6 DEF Pinged
  <2> QED BY <1>1, <1>2, <2>1
<1> QED BY <1>4, <1>5, <1>6

\* A phase of the servo: at the end of the last one the pending actuation is answered.
LEMMA ServoWrites ==
    ASSUME NEW m \in MegaType, m.servo # "READY"
    PROVE  LET t == ServoMoved(m)
           IN  /\ t.belt = m.belt /\ t.offset = m.offset /\ t.reported = m.reported
               /\ \/ /\ m.servo # "MOVING_HOME" /\ t.servo # "READY" /\ t.pending = m.pending
                     /\ Writes(m, t, {})
                  \/ /\ m.servo = "MOVING_HOME" /\ t.servo = "READY" /\ t.pending = 0
                     /\ Writes(m, t, {Actuated(m.pending)})
                     /\ t.tx = Append(m.tx, Actuated(m.pending))
<1>1. CASE m.servo = "MOVING_HOME"
  <2> DEFINE n == WithServo(m, "READY", 0)
             e == Actuated(m.pending)
  <2>1. /\ n \in MegaType /\ n.tx = m.tx /\ n.belt = m.belt /\ n.offset = m.offset
        /\ n.reported = m.reported /\ n.servo = "READY" /\ n.pending = 0
    <3>1. "READY" \in ServoStates /\ 0 \in 0 .. MaxSequence
      BY LinkAssumption DEF ServoStates
    <3> QED BY <3>1, ServoChange
  <2>2. e \in Frames BY DEF Actuated, Frames, Replies, MegaType
  <2>3. ServoMoved(m) = Sent(n, e) BY <1>1 DEF ServoMoved, WithServo
  <2> HIDE DEF n, e
  <2>4. /\ Writes(n, Sent(n, e), {e}) /\ Sent(n, e).tx = Append(n.tx, e)
        /\ Sent(n, e).belt = n.belt /\ Sent(n, e).offset = n.offset
        /\ Sent(n, e).reported = n.reported /\ Sent(n, e).servo = n.servo
        /\ Sent(n, e).pending = n.pending
    BY <2>1, <2>2, SentWrites
  <2> QED BY <1>1, <2>1, <2>3, <2>4 DEF Writes, e
<1>2. CASE m.servo \in {"MOVING_TO_WORK", "WAITING"}
  <2>1. ServoMoved(m) \in {[m EXCEPT !.servo = "WAITING"], [m EXCEPT !.servo = "MOVING_HOME"]}
    BY <1>2 DEF ServoMoved
  <2>2. /\ ServoMoved(m) \in MegaType /\ ServoMoved(m).tx = m.tx /\ ServoMoved(m).belt = m.belt
        /\ ServoMoved(m).offset = m.offset /\ ServoMoved(m).reported = m.reported
        /\ ServoMoved(m).servo # "READY" /\ ServoMoved(m).pending = m.pending
    BY <2>1 DEF MegaType, ServoStates
  <2> QED BY <1>2, <2>2 DEF Writes, MegaType
<1> QED BY <1>1, <1>2 DEF MegaType, ServoStates

\* What the board says to an order.
Acks(f) == {Ack(f.seq, "OK"), Ack(f.seq, "BUSY")}

\* How an order changes what is told apart of the board: a belt that runs after it ran
\* before or is told to, offsets are only added, ...
Obeyed(m, t, f) ==
    /\ \A b \in Belts : t.belt[b] = "RUNNING" =>
           m.belt[b] = "RUNNING" \/ (f.op = "RUN" /\ f.arg = b)
    /\ \A b \in Belts : m.offset[b] => t.offset[b]
    /\ f.op = "SET_OFFSET" => t.offset[f.arg]
    /\ t.reported = m.reported

\* ... the arm starts, passes a product, or is left alone.
Starts(m, t, f) ==
    /\ f.op = "ACTUATE" /\ f.arg = NG /\ m.servo = "READY"
    /\ t.servo # "READY" /\ t.pending = f.seq /\ Writes(m, t, Acks(f))
Passes(m, t, f) ==
    /\ f.op = "ACTUATE" /\ f.arg = PASS
    /\ t.servo = m.servo /\ t.pending = m.pending
    /\ Writes(m, t, Acks(f) \cup {Actuated(f.seq)})
Stays(m, t, f) == t.servo = m.servo /\ t.pending = m.pending /\ Writes(m, t, Acks(f))

\* The frames of an answer.
LEMMA AckFrames ==
    ASSUME NEW f \in Orders
    PROVE  /\ Ack(f.seq, "OK") \in Frames /\ Ack(f.seq, "BUSY") \in Frames
           /\ Actuated(f.seq) \in Frames
<1>1. f.seq \in Nat BY LinkAssumption DEF Orders
<1> QED BY <1>1 DEF Ack, Actuated, Frames, Replies

\* handleCommand.
LEMMA HandledObeys ==
    ASSUME NEW m \in MegaType, NEW f \in Orders, WellFormed(f)
    PROVE  LET t == Handled(m, f)
           IN  /\ Obeyed(m, t, f)
               /\ Starts(m, t, f) \/ Passes(m, t, f) \/ Stays(m, t, f)
<1> DEFINE ok == Ack(f.seq, "OK")
<1>0. /\ ok \in Frames /\ Ack(f.seq, "BUSY") \in Frames /\ Actuated(f.seq) \in Frames
  BY AckFrames
<1>1. /\ f.seq \in 1 .. MaxSequence
      /\ f.op \in {"HELLO", "SET_OFFSET", "RUN", "STOP", "ACTUATE"}
  BY DEF Orders
<1>2. m.belt \in [Belts -> BeltStates] /\ m.offset \in [Belts -> BOOLEAN] BY DEF MegaType
<1> HIDE DEF ok, MegaType
\* An order after which the board is n, with one acknowledgement.
<1>3. ASSUME NEW n \in MegaType, n.tx = m.tx, NEW a \in Frames, a \in Acks(f)
      PROVE  /\ Writes(m, Sent(n, a), Acks(f)) /\ Sent(n, a) \in MegaType
             /\ Sent(n, a).belt = n.belt /\ Sent(n, a).offset = n.offset
             /\ Sent(n, a).servo = n.servo /\ Sent(n, a).pending = n.pending
             /\ Sent(n, a).reported = n.reported
  <2>1. /\ Writes(n, Sent(n, a), {a}) /\ Sent(n, a) \in MegaType
        /\ Sent(n, a).belt = n.belt /\ Sent(n, a).offset = n.offset
        /\ Sent(n, a).servo = n.servo /\ Sent(n, a).pending = n.pending
        /\ Sent(n, a).reported = n.reported
    BY SentWrites
  <2> QED BY <1>3, <2>1 DEF Writes
<1>4. ok \in Acks(f) /\ Ack(f.seq, "BUSY") \in Acks(f) BY DEF Acks, ok
<1>5. CASE f.op = "HELLO"
  <2>1. Handled(m, f) = Sent(m, ok) BY <1>5 DEF Handled, ok
  <2> QED BY <1>0, <1>3, <1>4, <1>5, <2>1 DEF Obeyed, Stays
<1>6. CASE f.op = "SET_OFFSET"
  <2>1. Handled(m, f) = Sent(WithOffset(m, f.arg), ok) BY <1>6 DEF Handled, ok, WithOffset
  <2>2. f.arg \in Belts BY <1>6 DEF WellFormed
  <2> DEFINE n == WithOffset(m, f.arg)
  <2>3. /\ n \in MegaType /\ n.offset = [m.offset EXCEPT ![f.arg] = TRUE]
        /\ n.belt = m.belt /\ n.servo = m.servo /\ n.pending = m.pending
        /\ n.reported = m.reported /\ n.tx = m.tx
    BY <2>2, OffsetChange
  <2> HIDE DEF n
  <2>4. /\ Writes(m, Sent(n, ok), Acks(f)) /\ Sent(n, ok).belt = n.belt
        /\ Sent(n, ok).offset = n.offset /\ Sent(n, ok).servo = n.servo
        /\ Sent(n, ok).pending = n.pending /\ Sent(n, ok).reported = n.reported
    BY <1>0, <1>3, <1>4, <2>3
  <2>5. n.offset[f.arg] /\ \A b \in Belts : m.offset[b] => n.offset[b] BY <1>2, <2>2, <2>3
  <2> QED BY <1>6, <2>1, <2>3, <2>4, <2>5 DEF Obeyed, Stays, n
<1>7. CASE f.op \in {"RUN", "STOP"}
  <2> DEFINE state == IF f.op = "RUN" THEN "RUNNING" ELSE "STOPPED"
             n == WithBelt(m, f.arg, state)
  <2>1. Handled(m, f) = Sent(n, ok) BY <1>7 DEF Handled, ok, WithBelt
  <2>2. f.arg \in Belts BY <1>7 DEF WellFormed
  <2>3. state \in BeltStates BY DEF BeltStates
  <2>4. state = "RUNNING" => f.op = "RUN" OBVIOUS
  <2> HIDE DEF state
  <2>5. /\ n \in MegaType /\ n.belt = [m.belt EXCEPT ![f.arg] = state]
        /\ n.offset = m.offset /\ n.servo = m.servo /\ n.pending = m.pending
        /\ n.reported = m.reported /\ n.tx = m.tx
    BY <2>2, <2>3, BeltChange
  <2> HIDE DEF n
  <2>6. /\ Writes(m, Sent(n, ok), Acks(f)) /\ Sent(n, ok).belt = n.belt
        /\ Sent(n, ok).offset = n.offset /\ Sent(n, ok).servo = n.servo
        /\ Sent(n, ok).pending = n.pending /\ Sent(n, ok).reported = n.reported
    BY <1>0, <1>3, <1>4, <2>5
  <2>7. \A b \in Belts : n.belt[b] = "RUNNING" =>
            m.belt[b] = "RUNNING" \/ (f.op = "RUN" /\ f.arg = b)
    BY <1>2, <2>2, <2>4, <2>5
  <2> QED BY <1>7, <2>1, <2>5, <2>6, <2>7 DEF Obeyed, Stays
<1>8. CASE f.op = "ACTUATE" /\ f.arg = PASS
  <2> DEFINE s == Sent(m, ok)
             a == Actuated(f.seq)
  <2>1. Handled(m, f) = Sent(s, a) BY <1>8 DEF Handled, ok, NG, PASS
  <2>2. /\ Writes(m, s, Acks(f)) /\ s \in MegaType /\ s.belt = m.belt /\ s.offset = m.offset
        /\ s.servo = m.servo /\ s.pending = m.pending /\ s.reported = m.reported
    BY <1>0, <1>3, <1>4
  <2>3. a \in Frames BY <1>0
  <2> HIDE DEF s
  <2>4. /\ Writes(s, Sent(s, a), {a}) /\ Sent(s, a).belt = s.belt /\ Sent(s, a).offset = s.offset
        /\ Sent(s, a).servo = s.servo /\ Sent(s, a).pending = s.pending
        /\ Sent(s, a).reported = s.reported
    BY <2>2, <2>3, SentWrites
  <2>5. Writes(m, Sent(s, a), Acks(f) \cup {a}) BY <2>2, <2>4, WritesTwice
  <2> QED BY <1>8, <2>1, <2>2, <2>4, <2>5 DEF Obeyed, Passes
<1>9. CASE f.op = "ACTUATE" /\ f.arg = NG /\ m.servo = "READY"
  <2> DEFINE n == WithServo(m, "MOVING_TO_WORK", f.seq)
  <2>1. Handled(m, f) = Sent(n, ok) BY <1>9 DEF Handled, ok, WithServo, NG, PASS
  <2>2. "MOVING_TO_WORK" \in ServoStates /\ f.seq \in 0 .. MaxSequence BY <1>1 DEF ServoStates
  <2>3. /\ n \in MegaType /\ n.servo = "MOVING_TO_WORK" /\ n.pending = f.seq
        /\ n.belt = m.belt /\ n.offset = m.offset
        /\ n.reported = m.reported /\ n.tx = m.tx
    BY <2>2, ServoChange
  <2> HIDE DEF n
  <2>4. /\ Writes(m, Sent(n, ok), Acks(f)) /\ Sent(n, ok).belt = n.belt
        /\ Sent(n, ok).offset = n.offset /\ Sent(n, ok).servo = n.servo
        /\ Sent(n, ok).pending = n.pending /\ Sent(n, ok).reported = n.reported
    BY <1>0, <1>3, <1>4, <2>3
  <2> QED BY <1>9, <2>1, <2>3, <2>4 DEF Obeyed, Starts
<1>10. CASE f.op = "ACTUATE" /\ f.arg = NG /\ m.servo # "READY"
  <2>1. Handled(m, f) = Sent(m, Ack(f.seq, "BUSY")) BY <1>10 DEF Handled, NG, PASS
  <2> QED BY <1>0, <1>3, <1>4, <1>10, <2>1 DEF Obeyed, Stays
<1>11. \/ f.op = "HELLO" \/ f.op = "SET_OFFSET" \/ f.op \in {"RUN", "STOP"}
       \/ f.op = "ACTUATE" /\ (f.arg = PASS \/ f.arg = NG)
  BY <1>1 DEF WellFormed
<1> QED BY <1>5, <1>6, <1>7, <1>8, <1>9, <1>10, <1>11

-----------------------------------------------------------------------------
(* What a Control that reads on comes to know of the board. *)

\* Whoever was told `told` last, and reads tx, has been told `state` in the end.
Tells(tx, told, state) ==
    /\ (\A i \in 1 .. Len(tx) : tx[i].kind # "STATE") => told = state
    /\ \A i \in 1 .. Len(tx) :
          /\ tx[i].kind = "STATE"
          /\ \A j \in 1 .. Len(tx) : j > i => tx[j].kind # "STATE"
          => tx[i].state = state

\* Frames without a state that are written behind change nothing,
LEMMA TellsWrites ==
    ASSUME NEW m \in MegaType, NEW t, NEW F, Writes(m, t, F), \A f \in F : f.kind # "STATE",
           NEW told, NEW state, Tells(m.tx, told, state)
    PROVE  Tells(t.tx, told, state)
<1>1. Len(m.tx) \in Nat /\ Len(t.tx) \in Nat BY DEF Writes, MegaType
<1>2. /\ Len(m.tx) <= Len(t.tx) /\ \A i \in 1 .. Len(m.tx) : t.tx[i] = m.tx[i]
      /\ \A i \in 1 .. Len(t.tx) : i > Len(m.tx) => t.tx[i].kind # "STATE"
  BY DEF Writes
<1>3. ASSUME \A i \in 1 .. Len(t.tx) : t.tx[i].kind # "STATE" PROVE told = state
  <2>1. \A i \in 1 .. Len(m.tx) : m.tx[i].kind # "STATE" BY <1>1, <1>2, <1>3
  <2> QED BY <2>1 DEF Tells
<1>4. ASSUME NEW i \in 1 .. Len(t.tx), t.tx[i].kind = "STATE",
             \A j \in 1 .. Len(t.tx) : j > i => t.tx[j].kind # "STATE"
      PROVE  t.tx[i].state = state
  <2>1. i \in 1 .. Len(m.tx) /\ t.tx[i] = m.tx[i] BY <1>1, <1>2, <1>4
  <2>2. \A j \in 1 .. Len(m.tx) : j > i => m.tx[j].kind # "STATE" BY <1>1, <1>2, <1>4
  <2> QED BY <1>4, <2>1, <2>2 DEF Tells
<1> QED BY <1>3, <1>4 DEF Tells

\* ... a state that is written last is what is told,
LEMMA TellsLast ==
    ASSUME NEW tx \in Seq(Frames), NEW state \in EquipmentStates, NEW told
    PROVE  Tells(Append(tx, StateEvent(state)), told, state)
<1> DEFINE e == StateEvent(state)
           n == Append(tx, e)
<1>1. e.kind = "STATE" /\ e.state = state /\ e \in Frames
  BY DEF StateEvent, Frames, StateFrames
<1> HIDE DEF e
<1>2. /\ Len(n) = Len(tx) + 1 /\ Len(tx) \in Nat /\ n[Len(tx) + 1] = e
  BY <1>1
<1> HIDE DEF n
<1>3. Len(tx) + 1 \in 1 .. Len(n) BY <1>2
<1>4. ASSUME NEW i \in 1 .. Len(n), \A j \in 1 .. Len(n) : j > i => n[j].kind # "STATE"
      PROVE  i = Len(tx) + 1
  BY <1>1, <1>2, <1>3, <1>4
<1> QED BY <1>1, <1>2, <1>3, <1>4 DEF Tells, n, e

\* ... and to read a frame is to be told what it says.
LEMMA TellsTail ==
    ASSUME NEW tx \in Seq(Frames), tx # <<>>, NEW told, NEW state, Tells(tx, told, state)
    PROVE  Tells(Tail(tx), IF Head(tx).kind = "STATE" THEN Head(tx).state ELSE told, state)
<1> DEFINE n == Tail(tx)
<1>1. /\ Len(n) = Len(tx) - 1 /\ Len(tx) \in Nat /\ Len(tx) >= 1 /\ Head(tx) = tx[1]
      /\ \A i \in 1 .. Len(tx) - 1 : n[i] = tx[i + 1]
  BY ContentTail
<1> HIDE DEF n
<1>2. ASSUME \A i \in 1 .. Len(n) : n[i].kind # "STATE"
      PROVE  \A j \in 1 .. Len(tx) : j > 1 => tx[j].kind # "STATE"
  <2>1. ASSUME NEW j \in 1 .. Len(tx), j > 1 PROVE tx[j].kind # "STATE"
    <3>1. j - 1 \in 1 .. Len(n) /\ n[j - 1] = tx[(j - 1) + 1] /\ (j - 1) + 1 = j
      BY <1>1, <2>1
    <3> QED BY <1>2, <3>1
  <2> QED BY <2>1
<1>3. ASSUME \A i \in 1 .. Len(n) : n[i].kind # "STATE"
      PROVE  (IF Head(tx).kind = "STATE" THEN Head(tx).state ELSE told) = state
  <2>1. \A j \in 1 .. Len(tx) : j > 1 => tx[j].kind # "STATE" BY <1>2, <1>3
  <2>2. CASE tx[1].kind = "STATE" BY <1>1, <2>1, <2>2 DEF Tells
  <2>3. CASE tx[1].kind # "STATE"
    <3>1. \A j \in 1 .. Len(tx) : tx[j].kind # "STATE" BY <1>1, <2>1, <2>3
    <3> QED BY <1>1, <2>3, <3>1 DEF Tells
  <2> QED BY <2>2, <2>3
<1>4. ASSUME NEW i \in 1 .. Len(n), n[i].kind = "STATE",
             \A j \in 1 .. Len(n) : j > i => n[j].kind # "STATE"
      PROVE  n[i].state = state
  <2>1. i + 1 \in 1 .. Len(tx) /\ tx[i + 1] = n[i] BY <1>1
  <2>2. ASSUME NEW j \in 1 .. Len(tx), j > i + 1 PROVE tx[j].kind # "STATE"
    <3>1. j - 1 \in 1 .. Len(n) /\ n[j - 1] = tx[(j - 1) + 1] /\ (j - 1) + 1 = j /\ j - 1 > i
      BY <1>1, <2>2
    <3> QED BY <1>4, <3>1
  <2> QED BY <1>4, <2>1, <2>2 DEF Tells
<1> QED BY <1>3, <1>4 DEF Tells, n

\* What a handler has added to the frames.
LEMMA WritesContent ==
    ASSUME NEW m \in MegaType, NEW t, NEW F, Writes(m, t, F)
    PROVE  Content(t.tx) \subseteq Content(m.tx) \cup F
<1>1. Len(m.tx) \in Nat /\ Len(t.tx) \in Nat BY DEF Writes, MegaType
<1> QED BY <1>1 DEF Writes, Content

\* The board has said what it reports last.
Told == Tells(mega.tx, latest, mega.reported)

\* loop() after a handler that has written frames of F.
LEMMA LoopEnds ==
    ASSUME mega \in MegaType, NEW m, NEW F, Writes(mega, m, F), \A f \in F : f.kind # "STATE",
           m.reported = mega.reported, LoopEndsWith(m)
    PROVE  /\ mega' \in MegaType /\ mega'.belt = m.belt /\ mega'.offset = m.offset
           /\ mega'.servo = m.servo /\ mega'.pending = m.pending
           /\ Content(mega'.tx) \subseteq (Content(mega.tx) \cup F) \cup StateFrames
           /\ port # "open" => mega'.tx = <<>>
           /\ port = "open" /\ (mega.reported # None => Told)
                => Tells(mega'.tx, latest, mega'.reported)
<1> DEFINE r == Reported(m)
           e == StateEvent(Status(m))
<1>1. m \in MegaType BY DEF Writes
<1>2. Status(m) \in EquipmentStates
  <2>1. (m.servo = "READY") \in BOOLEAN OBVIOUS
  <2> QED BY <1>1, <2>1 DEF Status, EquipmentStates, MegaType
<1>3. /\ Writes(m, r, {e}) /\ r.belt = m.belt /\ r.offset = m.offset /\ r.servo = m.servo
      /\ r.pending = m.pending /\ r.reported = Status(m)
      /\ \/ r = m
         \/ r.tx = Append(m.tx, e)
  BY <1>1, ReportedWrites
<1>4. mega' = IF port = "open" THEN r ELSE [r EXCEPT !.tx = <<>>] BY DEF LoopEndsWith
<1>5. e \in StateFrames BY <1>2 DEF StateEvent, StateFrames
<1>6. m.tx \in Seq(Frames) BY <1>1 DEF MegaType, Frames, Replies, Passing, StateFrames
<1>7. Tells(Append(m.tx, e), latest, Status(m)) BY <1>2, <1>6, TellsLast
<1> HIDE DEF r, e, Told
<1>8. r \in MegaType BY <1>3 DEF Writes
<1>9. CASE port = "open"
  <2>1. mega' = r BY <1>4, <1>9
  <2>2. Content(r.tx) \subseteq Content(m.tx) \cup {e} BY <1>1, <1>3, WritesContent
  <2>3. Content(m.tx) \subseteq Content(mega.tx) \cup F BY WritesContent
  <2>4. ASSUME mega.reported # None => Told PROVE Tells(r.tx, latest, r.reported)
    <3>1. CASE r = m
      <4>1. m.reported = Status(m) BY <1>3, <3>1
      <4>2. mega.reported # None BY <1>2, <4>1, FirmwareAssumption
      <4>3. Tells(mega.tx, latest, mega.reported) BY <2>4, <4>2 DEF Told
      <4>4. Tells(m.tx, latest, mega.reported) BY <4>3, TellsWrites
      <4> QED BY <3>1, <4>4
    <3>2. CASE r.tx = Append(m.tx, e) BY <1>3, <1>7, <3>2
    <3> QED BY <1>3, <3>1, <3>2
  <2> QED BY <1>3, <1>5, <1>8, <1>9, <2>1, <2>2, <2>3, <2>4
<1>10. CASE port # "open"
  <2>1. mega' = WithTx(r, <<>>) BY <1>4, <1>10 DEF WithTx
  <2>2. /\ mega' \in MegaType /\ mega'.tx = <<>> /\ mega'.belt = r.belt
        /\ mega'.offset = r.offset /\ mega'.servo = r.servo /\ mega'.pending = r.pending
    <3>1. <<>> \in Seq(Frames) OBVIOUS
    <3> QED BY <1>8, <2>1, <3>1, TxChange
  <2>3. Content(mega'.tx) = {} BY <2>2 DEF Content
  <2> QED BY <1>3, <1>10, <2>2, <2>3
<1> QED BY <1>9, <1>10

-----------------------------------------------------------------------------
(* The inductive invariant.  What it says of the board, of the orders that are under way
   and of the answers is said for any board m, orders Q, answers H and books B and F, for
   MegaReads may handle two orders in one step.                                       *)

Queue == Content(toMega)
Heard == Content(mega.tx) \cup events
Acknowledged(H, n) == \E f \in H : f.kind = "ACK" /\ f.seq = n
AllOffsets(m) == \A b \in Belts : m.offset[b]

\* While a reader lives the board knows no number that Control has not given.
Numbered(m, Q, H) ==
    /\ m.pending # 0 <=> m.servo # "READY"
    /\ \A f \in Q : WellFormed(f)
    /\ H \subseteq Frames
    /\ \A f \in H : f.kind = "ACTUATION" => f = Actuated(f.seq)
    /\ port # "closed" =>
          /\ m.pending <= sequence
          /\ \A f \in Q : f.seq <= sequence
          /\ \A f \in H : f.kind \in {"ACK", "ACTUATION"} => f.seq \in 1 .. sequence

\* Without a brown-out, a belt that runs or is told to has its offset; so have all of
\* them once Control has been taken for READY; and in the handshake those before the one
\* that is under way, which is sent under the number that is waited for.
OffsetsKnown(m, Q, H) ==
    "brownout" \notin trouble =>
        /\ \A b \in Belts : m.belt[b] = "RUNNING" => m.offset[b]
        /\ \A f \in Q : f.op = "RUN" => m.offset[f.arg]
        /\ (believed /\ session) \/ init.step = "adopt" => AllOffsets(m)
        /\ init.step = "handshake" =>
              /\ \A b \in Belts : b < init.belt => m.offset[b]
              /\ Acknowledged(H, init.seq) /\ init.belt # 0 => m.offset[init.belt]
              /\ \A f \in Q : f.seq = init.seq /\ init.belt # 0 =>
                     f.op = "SET_OFFSET" /\ f.arg = init.belt

\* The arm cycles a goal asks for.
Want(g) == IF actuator_command[g] = NG THEN 1 ELSE 0

\* Where the actuation of a goal is: on its way, with the arm, answered.
Unread(g, Q) == \E f \in Q : f.seq = awaits[g]
Booked(g, m, Q, H, B, F) ==
    /\ \A f \in Q : f.seq = awaits[g] => f.op = "ACTUATE" /\ f.arg = actuator_command[g]
    /\ Unread(g, Q) =>
          /\ B[CommandOf[g]] = 0 /\ F[CommandOf[g]] = 0
          /\ m.pending # awaits[g] /\ Actuated(awaits[g]) \notin H
    /\ m.pending = awaits[g] =>
          /\ actuator_command[g] = NG /\ B[CommandOf[g]] = 1 /\ F[CommandOf[g]] = 0
          /\ Actuated(awaits[g]) \notin H
    /\ Actuated(awaits[g]) \in H => B[CommandOf[g]] = Want(g) /\ F[CommandOf[g]] = Want(g)

\* What a success stands for; nothing of its command is under way any more.
Achieved(g, m, Q, B, F) ==
    /\ B[CommandOf[g]] = Want(g) /\ F[CommandOf[g]] = Want(g)
    /\ \A h \in Goals : CommandOf[h] = CommandOf[g] /\ awaits[h] # 0 =>
           m.pending # awaits[h] /\ ~Unread(h, Q)

Books(m, Q, H, B, F) ==
    /\ B \in [Commands -> 0 .. 1] /\ F \in [Commands -> 0 .. 1]
    /\ \A c \in Commands : F[c] <= B[c]
    /\ \A g \in Goals : awaits[g] # 0 => Booked(g, m, Q, H, B, F)
    /\ \A g \in Goals : outcome[g] = "success" => Achieved(g, m, Q, B, F)

\* A number, and a command that is not over, belong to one goal.
OneEach ==
    \A g, h \in Goals :
        /\ awaits[g] # 0 /\ awaits[h] # 0
        /\ awaits[g] = awaits[h] \/ CommandOf[g] = CommandOf[h]
        => g = h

\* Each order has a number of its own; without a port nothing comes.
Wire ==
    /\ \A i, j \in 1 .. Len(toMega) : toMega[i].seq = toMega[j].seq => i = j
    /\ events \subseteq Replies
    /\ \A e \in events : e.seq \in 1 .. sequence
    /\ port # "open" => mega.tx = <<>>
    /\ port = "dying" => toMega = <<>>
    /\ port # "closed" => \A g \in Goals : awaits[g] <= sequence

\* Where the handshake and the goals are.
Steps ==
    /\ init.step = "handshake" => init.seq # 0 /\ (init.belt = 0 \/ init.belt \in Belts)
    /\ init.step # "handshake" => init.seq = 0
    /\ init.step # "idle" => ~believed
    /\ \A g \in Goals : pc[g] = "waiting" => awaits[g] \in 1 .. sequence
    /\ \A g \in Goals : pc[g] = "done" <=> outcome[g] # "none"
    /\ actuator_command \in Requests

Mirrored ==
    /\ port = "open" /\ "lost" \notin trouble /\ mega.reported # None => Told
    /\ session /\ latest # None => mirror = latest

\* A command whose books are not empty has a goal that had its order sent; what such a
\* goal has come to is in the store until Control restarts.
Begun(c) ==
    begun[c] # 0 \/ finished[c] # 0 \/ \E g \in Goals : CommandOf[g] = c /\ awaits[g] # 0
Engaged ==
    /\ \A c \in Commands : Begun(c) =>
           \E g \in Goals : /\ CommandOf[g] = c
                            /\ pc[g] = "waiting" \/ outcome[g] \in {"failed", "success", "lost"}
    /\ \A g \in Goals : outcome[g] \in {"failed", "success"} /\ "restart" \notin trouble =>
           Known(store, CommandOf[g])
    /\ \A g \in Goals : outcome[g] = "lost" => "restart" \in trouble

\* An entry of the store is what a goal of its command and digest has come to.
Entries == [command : Commands, digest : {NG, PASS}, result : {"failed", "success"}]
Stored ==
    /\ store \in Seq(Entries)
    /\ \A i, j \in 1 .. Len(store) : store[i].command = store[j].command => i = j
    /\ \A i \in 1 .. Len(store) : store[i].result = "success" =>
           \E g \in Goals : /\ CommandOf[g] = store[i].command /\ outcome[g] = "success"
                            /\ actuator_command[g] = store[i].digest

IInv ==
    /\ TypeOK /\ Wire /\ Steps
    /\ Numbered(mega, Queue, Heard) /\ OffsetsKnown(mega, Queue, Heard)
    /\ Books(mega, Queue, Heard, begun, finished)
    /\ OneEach /\ Mirrored /\ Engaged /\ Stored

-----------------------------------------------------------------------------
(* What the board does, one order or one phase at a time. *)

\* The numbers of the answers.
LEMMA AnswerNumbers ==
    ASSUME NEW n, NEW k
    PROVE  /\ Actuated(n).kind = "ACTUATION" /\ Actuated(n).seq = n
           /\ Actuated(n) = Actuated(k) <=> n = k
           /\ Ack(n, "OK").kind = "ACK" /\ Ack(n, "OK").seq = n
           /\ Ack(n, "BUSY").kind = "ACK" /\ Ack(n, "BUSY").seq = n
BY DEF Actuated, Ack

\* The goal that waits for a number has its command counted, the others have not.
LEMMA CountedAt ==
    ASSUME OneEach, NEW counts \in [Commands -> 0 .. 1], NEW n, n # 0
    PROVE  /\ DOMAIN Counted(counts, n) = Commands
           /\ \A c \in Commands : Counted(counts, n)[c] \in {counts[c], counts[c] + 1}
           /\ \A c \in Commands : Counted(counts, n)[c] # counts[c] =>
                  \E g \in Goals : CommandOf[g] = c /\ awaits[g] = n
           /\ \A g \in Goals : awaits[g] = n =>
                  Counted(counts, n)[CommandOf[g]] = counts[CommandOf[g]] + 1
           /\ \A g \in Goals : awaits[g] # 0 /\ awaits[g] # n =>
                  Counted(counts, n)[CommandOf[g]] = counts[CommandOf[g]]
<1>1. \A c \in Commands : Counted(counts, n)[c] =
          IF \E g \in Goals : CommandOf[g] = c /\ awaits[g] = n
          THEN counts[c] + 1 ELSE counts[c]
  BY DEF Counted
<1>2. \A g \in Goals : CommandOf[g] \in Commands BY DEF Commands
<1>3. ASSUME NEW g \in Goals, awaits[g] # 0, awaits[g] # n
      PROVE  ~ \E h \in Goals : CommandOf[h] = CommandOf[g] /\ awaits[h] = n
  BY <1>3 DEF OneEach
<1>4. \A c \in Commands : counts[c] \in 0 .. 1 OBVIOUS
<1>5. DOMAIN Counted(counts, n) = Commands BY DEF Counted
<1> HIDE DEF Counted, Commands
<1> QED BY <1>1, <1>2, <1>3, <1>4, <1>5

\* Less to read, less to hear: nothing new.
LEMMA LessFits ==
    ASSUME NEW m, NEW t, NEW Q, NEW P, NEW H, NEW G, NEW B, NEW F,
           t.pending = m.pending, t.servo = "READY" <=> m.servo = "READY", t.offset = m.offset,
           \A b \in Belts : t.belt[b] = "RUNNING" => m.belt[b] = "RUNNING",
           P \subseteq Q, G \subseteq Frames,
           \A f \in G : f.kind \in {"ACK", "ACTUATION"} => f \in H,
           Numbered(m, Q, H), OffsetsKnown(m, Q, H), Books(m, Q, H, B, F)
    PROVE  Numbered(t, P, G) /\ OffsetsKnown(t, P, G) /\ Books(t, P, G, B, F)
<1>1. Numbered(t, P, G) BY DEF Numbered
<1>2. Acknowledged(G, init.seq) => Acknowledged(H, init.seq) BY DEF Acknowledged
<1>3. OffsetsKnown(t, P, G) BY <1>2 DEF OffsetsKnown, AllOffsets
<1>4. \A n : Actuated(n) \in G => Actuated(n) \in H BY AnswerNumbers
<1>5. \A g \in Goals : Unread(g, P) => Unread(g, Q) BY DEF Unread
<1>6. ASSUME NEW g \in Goals, Booked(g, m, Q, H, B, F) PROVE Booked(g, t, P, G, B, F)
  BY <1>4, <1>5, <1>6 DEF Booked
<1>7. ASSUME NEW g \in Goals, Achieved(g, m, Q, B, F) PROVE Achieved(g, t, P, B, F)
  BY <1>5, <1>7 DEF Achieved
<1>8. Books(t, P, G, B, F) BY <1>6, <1>7 DEF Books
<1> QED BY <1>1, <1>3, <1>8

\* The answers to an order, and the cycles begun after it.
Answers(m, t, f) == IF Passes(m, t, f) THEN Acks(f) \cup {Actuated(f.seq)} ELSE Acks(f)
BegunAfter(m, t, B) ==
    IF m.servo = "READY" /\ t.servo # "READY" THEN Counted(B, t.pending) ELSE B

\* An order that is obeyed, and is not read again.
LEMMA OrderFits ==
    ASSUME NEW m \in MegaType, NEW t, NEW Q, NEW P, NEW H, NEW B, NEW F,
           NEW f \in Orders, f \in Q, P \subseteq Q, \A d \in P : d.seq # f.seq,
           Obeyed(m, t, f), Starts(m, t, f) \/ Passes(m, t, f) \/ Stays(m, t, f),
           Steps, OneEach, Numbered(m, Q, H), OffsetsKnown(m, Q, H), Books(m, Q, H, B, F)
    PROVE  LET G == H \cup Answers(m, t, f)
           IN  /\ Numbered(t, P, G) /\ OffsetsKnown(t, P, G)
               /\ Books(t, P, G, BegunAfter(m, t, B), F)
<1> DEFINE G == H \cup Answers(m, t, f)
           C == BegunAfter(m, t, B)
<1>1. f.seq \in 1 .. MaxSequence /\ f.seq # 0 BY LinkAssumption DEF Orders
<1>2. \A d \in G : d \in H \/ (d.kind = "ACK" /\ d.seq = f.seq /\ d \in Frames)
                     \/ (d = Actuated(f.seq) /\ Passes(m, t, f) /\ d \in Frames)
  BY AckFrames, AnswerNumbers DEF Answers, Acks
<1>3. \A n : Actuated(n) \in G => Actuated(n) \in H \/ (n = f.seq /\ Passes(m, t, f))
  BY <1>2, AnswerNumbers
<1> HIDE DEF G
<1>4. Numbered(t, P, G)
  <2>1. t.pending # 0 <=> t.servo # "READY"
    BY <1>1 DEF Numbered, Starts, Passes, Stays
  <2>2. G \subseteq Frames BY <1>2 DEF Numbered
  <2>3. \A d \in G : d.kind = "ACTUATION" => d = Actuated(d.seq)
    BY <1>2, AnswerNumbers DEF Numbered
  <2>4. ASSUME port # "closed"
        PROVE  /\ t.pending <= sequence /\ \A d \in P : d.seq <= sequence
               /\ \A d \in G : d.kind \in {"ACK", "ACTUATION"} => d.seq \in 1 .. sequence
    <3>1. f.seq <= sequence /\ m.pending <= sequence /\ \A d \in P : d.seq <= sequence
      BY <2>4 DEF Numbered
    <3>2. t.pending <= sequence BY <3>1 DEF Starts, Passes, Stays
    <3>3. f.seq \in 1 .. sequence
      <4>1. 1 <= f.seq /\ f.seq \in Int BY <1>1, LinkAssumption
      <4> QED BY <3>1, <4>1
    <3>4. ASSUME NEW d \in G, d.kind \in {"ACK", "ACTUATION"} PROVE d.seq \in 1 .. sequence
      BY <1>2, <2>4, <3>3, <3>4, AnswerNumbers DEF Numbered
    <3> QED BY <3>1, <3>2, <3>4
  <2> QED BY <2>1, <2>2, <2>3, <2>4 DEF Numbered
<1>5. OffsetsKnown(t, P, G)
  <2> SUFFICES ASSUME "brownout" \notin trouble
               PROVE  /\ \A b \in Belts : t.belt[b] = "RUNNING" => t.offset[b]
                      /\ \A d \in P : d.op = "RUN" => t.offset[d.arg]
                      /\ (believed /\ session) \/ init.step = "adopt" => AllOffsets(t)
                      /\ init.step = "handshake" =>
                            /\ \A b \in Belts : b < init.belt => t.offset[b]
                            /\ Acknowledged(G, init.seq) /\ init.belt # 0 => t.offset[init.belt]
                            /\ \A d \in P : d.seq = init.seq /\ init.belt # 0 =>
                                   d.op = "SET_OFFSET" /\ d.arg = init.belt
    BY DEF OffsetsKnown
  <2>1. /\ \A b \in Belts : m.offset[b] => t.offset[b]
        /\ \A b \in Belts : t.belt[b] = "RUNNING" =>
               m.belt[b] = "RUNNING" \/ (f.op = "RUN" /\ f.arg = b)
    BY DEF Obeyed
  <2>2. \A b \in Belts : t.belt[b] = "RUNNING" => t.offset[b] BY <2>1 DEF OffsetsKnown
  <2>3. \A d \in P : d.op = "RUN" => t.offset[d.arg]
    BY <2>1 DEF OffsetsKnown, Numbered, WellFormed
  <2>4. (believed /\ session) \/ init.step = "adopt" => AllOffsets(t)
    BY <2>1 DEF OffsetsKnown, AllOffsets
  <2>5. ASSUME init.step = "handshake"
        PROVE  /\ \A b \in Belts : b < init.belt => t.offset[b]
               /\ \A d \in P : d.seq = init.seq /\ init.belt # 0 =>
                      d.op = "SET_OFFSET" /\ d.arg = init.belt
    BY <2>1, <2>5 DEF OffsetsKnown
  <2>6. ASSUME init.step = "handshake", Acknowledged(G, init.seq), init.belt # 0,
               init.belt \in Belts
        PROVE  t.offset[init.belt]
    <3>1. CASE Acknowledged(H, init.seq) BY <2>1, <2>6, <3>1 DEF OffsetsKnown
    <3>2. CASE ~Acknowledged(H, init.seq)
      <4>1. f.seq = init.seq
        BY <1>2, <2>6, <3>2, AnswerNumbers DEF Acknowledged
      <4>2. f.op = "SET_OFFSET" /\ f.arg = init.belt BY <2>6, <4>1 DEF OffsetsKnown
      <4> QED BY <4>2 DEF Obeyed
    <3> QED BY <3>1, <3>2
  <2> QED BY <2>2, <2>3, <2>4, <2>5, <2>6 DEF Steps
<1>6. ASSUME NEW g \in Goals PROVE Unread(g, P) => Unread(g, Q) /\ awaits[g] # f.seq
  BY DEF Unread
<1>7. ASSUME NEW g \in Goals, awaits[g] = f.seq
      PROVE  Unread(g, Q) /\ ~Unread(g, P)
  BY <1>7 DEF Unread
<1>8. /\ B \in [Commands -> 0 .. 1] /\ F \in [Commands -> 0 .. 1]
      /\ \A c \in Commands : F[c] <= B[c]
      /\ \A g \in Goals : awaits[g] # 0 => Booked(g, m, Q, H, B, F)
      /\ \A g \in Goals : outcome[g] = "success" => Achieved(g, m, Q, B, F)
  BY DEF Books
<1>9. \A g \in Goals : CommandOf[g] \in Commands BY DEF Commands
<1>10. CASE Starts(m, t, f)
  <2>1. /\ t.pending = f.seq /\ f.op = "ACTUATE" /\ f.arg = NG /\ m.pending = 0
        /\ C = Counted(B, f.seq) /\ ~Passes(m, t, f)
    BY <1>10 DEF Starts, Passes, BegunAfter, Numbered, NG, PASS
  <2>2. /\ DOMAIN C = Commands
        /\ \A c \in Commands : C[c] \in {B[c], B[c] + 1}
        /\ \A c \in Commands : C[c] # B[c] =>
               \E g \in Goals : CommandOf[g] = c /\ awaits[g] = f.seq
        /\ \A g \in Goals : awaits[g] = f.seq => C[CommandOf[g]] = B[CommandOf[g]] + 1
        /\ \A g \in Goals : awaits[g] # 0 /\ awaits[g] # f.seq =>
               C[CommandOf[g]] = B[CommandOf[g]]
    BY <1>1, <1>8, <2>1, CountedAt
  <2> HIDE DEF C
  <2>3. ASSUME NEW c \in Commands, C[c] # B[c] PROVE B[c] = 0 /\ C[c] = 1 /\ F[c] = 0
    <3>1. PICK g \in Goals : CommandOf[g] = c /\ awaits[g] = f.seq BY <2>2, <2>3
    <3>2. B[c] = 0 /\ F[c] = 0 BY <1>1, <1>7, <1>8, <3>1 DEF Booked
    <3> QED BY <2>2, <3>1, <3>2
  <2>4. C \in [Commands -> 0 .. 1] /\ \A c \in Commands : F[c] <= C[c]
    <3>1. ASSUME NEW c \in Commands PROVE C[c] \in 0 .. 1 /\ F[c] <= C[c]
      BY <1>8, <2>3
    <3>2. C = [c \in Commands |-> C[c]] BY <2>1 DEF Counted, C
    <3> QED BY <3>1, <3>2
  <2>5. ASSUME NEW g \in Goals, awaits[g] # 0 PROVE Booked(g, t, P, G, C, F)
    <3>1. Booked(g, m, Q, H, B, F) BY <1>8, <2>5
    <3>2. CASE awaits[g] = f.seq
      <4>1. /\ ~Unread(g, P) /\ actuator_command[g] = NG
            /\ B[CommandOf[g]] = 0 /\ F[CommandOf[g]] = 0 /\ Actuated(awaits[g]) \notin H
        BY <1>7, <2>1, <3>1, <3>2 DEF Booked
      <4>2. Actuated(awaits[g]) \notin G BY <1>3, <2>1, <4>1
      <4>3. C[CommandOf[g]] = 1 BY <1>9, <2>2, <3>2, <4>1
      <4>4. \A d \in P : d.seq # awaits[g] BY <3>2
      <4> QED BY <4>1, <4>2, <4>3, <4>4 DEF Booked
    <3>3. CASE awaits[g] # f.seq
      <4>1. C[CommandOf[g]] = B[CommandOf[g]] BY <2>2, <2>5, <3>3
      <4>2. Actuated(awaits[g]) \in G => Actuated(awaits[g]) \in H BY <1>3, <3>3
      <4>3. t.pending # awaits[g] BY <2>1, <3>3
      <4> QED BY <1>6, <3>1, <4>1, <4>2, <4>3 DEF Booked
    <3> QED BY <3>2, <3>3
  <2>6. ASSUME NEW g \in Goals, outcome[g] = "success" PROVE Achieved(g, t, P, C, F)
    <3>1. Achieved(g, m, Q, B, F) BY <1>8, <2>6
    <3>2. \A h \in Goals : CommandOf[h] = CommandOf[g] /\ awaits[h] # 0 => awaits[h] # f.seq
      BY <1>7, <3>1 DEF Achieved
    <3>3. C[CommandOf[g]] = B[CommandOf[g]] BY <1>1, <1>9, <2>2, <3>2
    <3> QED BY <1>6, <2>1, <3>1, <3>2, <3>3 DEF Achieved
  <2> QED BY <1>4, <1>5, <1>8, <2>4, <2>5, <2>6 DEF Books, G, C
<1>11. CASE Passes(m, t, f) \/ Stays(m, t, f)
  <2>1. t.pending = m.pending /\ C = B BY <1>11 DEF Passes, Stays, BegunAfter
  <2>2. ASSUME NEW g \in Goals, awaits[g] # 0 PROVE Booked(g, t, P, G, B, F)
    <3>1. Booked(g, m, Q, H, B, F) BY <1>8, <2>2
    <3>2. CASE awaits[g] = f.seq /\ Passes(m, t, f)
      <4>1. /\ ~Unread(g, P) /\ actuator_command[g] = PASS
            /\ B[CommandOf[g]] = 0 /\ F[CommandOf[g]] = 0 /\ m.pending # awaits[g]
        BY <1>7, <3>1, <3>2 DEF Booked, Passes
      <4>2. Want(g) = 0 BY <4>1 DEF Want, NG, PASS
      <4>3. \A d \in P : d.seq # awaits[g] BY <3>2
      <4> QED BY <2>1, <4>1, <4>2, <4>3 DEF Booked
    <3>3. CASE awaits[g] # f.seq \/ ~Passes(m, t, f)
      <4>1. Actuated(awaits[g]) \in G => Actuated(awaits[g]) \in H BY <1>3, <3>3
      <4> QED BY <1>6, <2>1, <3>1, <4>1 DEF Booked
    <3> QED BY <3>2, <3>3
  <2>3. ASSUME NEW g \in Goals, outcome[g] = "success" PROVE Achieved(g, t, P, B, F)
    <3>1. Achieved(g, m, Q, B, F) BY <1>8, <2>3
    <3> QED BY <1>6, <2>1, <3>1 DEF Achieved
  <2> HIDE DEF C
  <2> QED BY <1>4, <1>5, <1>8, <2>1, <2>2, <2>3 DEF Books, G, C
<1> QED BY <1>10, <1>11

\* The end of an arm cycle.
LEMMA CycleFits ==
    ASSUME NEW m \in MegaType, NEW t, NEW Q, NEW H, NEW G, NEW B, NEW F,
           m.servo # "READY", t.servo = "READY", t.pending = 0,
           t.offset = m.offset, t.belt = m.belt, G \subseteq Frames,
           \A f \in G : f.kind \in {"ACK", "ACTUATION"} => f \in H \/ f = Actuated(m.pending),
           sequence \in Nat, OneEach,
           Numbered(m, Q, H), OffsetsKnown(m, Q, H), Books(m, Q, H, B, F)
    PROVE  /\ Numbered(t, Q, G) /\ OffsetsKnown(t, Q, G)
           /\ Books(t, Q, G, B, Counted(F, m.pending))
<1> DEFINE D == Counted(F, m.pending)
<1>1. m.pending # 0 /\ m.pending \in Nat BY LinkAssumption DEF Numbered, MegaType
<1>2. \A n : Actuated(n) \in G => Actuated(n) \in H \/ n = m.pending BY AnswerNumbers
<1>3. Numbered(t, Q, G)
  <2>1. \A d \in G : d.kind = "ACTUATION" => d = Actuated(d.seq)
    BY AnswerNumbers DEF Numbered
  <2>2. ASSUME port # "closed"
        PROVE  /\ 0 <= sequence /\ \A d \in Q : d.seq <= sequence
               /\ \A d \in G : d.kind \in {"ACK", "ACTUATION"} => d.seq \in 1 .. sequence
    <3>1. m.pending <= sequence BY <2>2 DEF Numbered
    <3>2. ASSUME NEW d \in G, d.kind \in {"ACK", "ACTUATION"} PROVE d.seq \in 1 .. sequence
      BY <1>1, <2>2, <3>1, <3>2, AnswerNumbers DEF Numbered
    <3> QED BY <1>1, <2>2, <3>1, <3>2 DEF Numbered
  <2> QED BY <2>1, <2>2 DEF Numbered
<1>4. Acknowledged(G, init.seq) => Acknowledged(H, init.seq)
  BY AnswerNumbers DEF Acknowledged
<1>5. OffsetsKnown(t, Q, G) BY <1>4 DEF OffsetsKnown, AllOffsets
<1>6. /\ B \in [Commands -> 0 .. 1] /\ F \in [Commands -> 0 .. 1]
      /\ \A c \in Commands : F[c] <= B[c]
      /\ \A g \in Goals : awaits[g] # 0 => Booked(g, m, Q, H, B, F)
      /\ \A g \in Goals : outcome[g] = "success" => Achieved(g, m, Q, B, F)
  BY DEF Books
<1>7. \A g \in Goals : CommandOf[g] \in Commands BY DEF Commands
<1>8. /\ DOMAIN D = Commands
      /\ \A c \in Commands : D[c] \in {F[c], F[c] + 1}
      /\ \A c \in Commands : D[c] # F[c] =>
             \E g \in Goals : CommandOf[g] = c /\ awaits[g] = m.pending
      /\ \A g \in Goals : awaits[g] = m.pending => D[CommandOf[g]] = F[CommandOf[g]] + 1
      /\ \A g \in Goals : awaits[g] # 0 /\ awaits[g] # m.pending =>
             D[CommandOf[g]] = F[CommandOf[g]]
  BY <1>1, <1>6, CountedAt
<1>9. D = [c \in Commands |-> D[c]] BY DEF Counted
<1> HIDE DEF D
<1>10. ASSUME NEW g \in Goals, awaits[g] = m.pending
       PROVE  /\ B[CommandOf[g]] = 1 /\ F[CommandOf[g]] = 0 /\ actuator_command[g] = NG
              /\ ~Unread(g, Q)
  BY <1>1, <1>6, <1>10 DEF Booked
<1>11. D \in [Commands -> 0 .. 1] /\ \A c \in Commands : D[c] <= B[c]
  <2>1. ASSUME NEW c \in Commands PROVE D[c] \in 0 .. 1 /\ D[c] <= B[c]
    <3>1. CASE D[c] = F[c] BY <1>6, <3>1
    <3>2. CASE D[c] # F[c]
      <4>1. PICK g \in Goals : CommandOf[g] = c /\ awaits[g] = m.pending BY <1>8, <3>2
      <4>2. B[c] = 1 /\ F[c] = 0 BY <1>10, <4>1
      <4> QED BY <1>8, <4>1, <4>2
    <3> QED BY <3>1, <3>2
  <2> QED BY <1>9, <2>1
<1>12. ASSUME NEW g \in Goals, awaits[g] # 0 PROVE Booked(g, t, Q, G, B, D)
  <2>1. Booked(g, m, Q, H, B, F) BY <1>6, <1>12
  <2>2. CASE awaits[g] = m.pending
    <3>1. D[CommandOf[g]] = 1 /\ Want(g) = 1 BY <1>7, <1>8, <1>10, <2>2 DEF Want
    <3>2. B[CommandOf[g]] = 1 /\ ~Unread(g, Q) BY <1>10, <2>2
    <3>3. \A d \in Q : d.seq # awaits[g] BY <3>2 DEF Unread
    <3> QED BY <1>12, <3>1, <3>2, <3>3 DEF Booked
  <2>3. CASE awaits[g] # m.pending
    <3>1. D[CommandOf[g]] = F[CommandOf[g]] BY <1>8, <1>12, <2>3
    <3>2. Actuated(awaits[g]) \in G => Actuated(awaits[g]) \in H BY <1>2, <2>3
    <3> QED BY <1>12, <2>1, <3>1, <3>2 DEF Booked
  <2> QED BY <2>2, <2>3
<1>13. ASSUME NEW g \in Goals, outcome[g] = "success" PROVE Achieved(g, t, Q, B, D)
  <2>1. Achieved(g, m, Q, B, F) BY <1>6, <1>13
  <2>2. ~ \E h \in Goals : CommandOf[h] = CommandOf[g] /\ awaits[h] = m.pending
    BY <1>1, <2>1 DEF Achieved
  <2>3. D[CommandOf[g]] = F[CommandOf[g]] BY <1>7, <1>8, <2>2
  <2> QED BY <2>1, <2>3 DEF Achieved
<1>14. Books(t, Q, G, B, D) BY <1>6, <1>11, <1>12, <1>13 DEF Books
<1> QED BY <1>3, <1>5, <1>14 DEF D

-----------------------------------------------------------------------------
(* The board's actions. *)

\* What the board's actions leave alone.
boardFrame == <<port, sequence, events, init, nodeVars, goalVars, masterVars, trouble>>

\* Numbers, offsets and books say the same of the next board, orders and books.
LEMMA Surroundings ==
    ASSUME UNCHANGED <<port, sequence, init, session, believed, trouble, actuator_command,
                       awaits, outcome>>,
           Numbered(mega', Queue', Heard'), OffsetsKnown(mega', Queue', Heard'),
           Books(mega', Queue', Heard', begun', finished')
    PROVE  /\ Numbered(mega, Queue, Heard)' /\ OffsetsKnown(mega, Queue, Heard)'
           /\ Books(mega, Queue, Heard, begun, finished)'
<1>1. Numbered(mega, Queue, Heard)' BY DEF Numbered
<1>2. OffsetsKnown(mega, Queue, Heard)' BY DEF OffsetsKnown
<1>3. \A g : /\ Booked(g, mega', Queue', Heard', begun', finished')
                => Booked(g, mega, Queue, Heard, begun, finished)'
             /\ Achieved(g, mega', Queue', begun', finished')
                => Achieved(g, mega, Queue, begun, finished)'
  BY DEF Booked, Achieved, Unread, Want
<1>4. Books(mega, Queue, Heard, begun, finished)' BY <1>3 DEF Books
<1> QED BY <1>1, <1>2, <1>4

\* What is left to show of the invariant for one of them.
LEMMA BoardStep ==
    ASSUME IInv, UNCHANGED boardFrame,
           mega' \in MegaType, toMega' \in Seq(Orders),
           \A i, j \in 1 .. Len(toMega') : toMega'[i].seq = toMega'[j].seq => i = j,
           port # "open" => mega'.tx = <<>>, port = "dying" => toMega' = <<>>,
           port = "open" /\ (mega.reported # None => Told)
               => Tells(mega'.tx, latest, mega'.reported),
           \A c \in Commands : (begun'[c] # 0 => Begun(c)) /\ (finished'[c] # 0 => Begun(c)),
           Numbered(mega', Queue', Heard'), OffsetsKnown(mega', Queue', Heard'),
           Books(mega', Queue', Heard', begun', finished')
    PROVE  IInv'
<1>1. /\ UNCHANGED <<port, sequence, events, init, latest, session, ready, actuator_command, pc>>
      /\ UNCHANGED <<awaits, outcome, store, believed, mirror, trouble>>
  BY DEF boardFrame, nodeVars, goalVars, masterVars
<1>2. /\ Numbered(mega, Queue, Heard)' /\ OffsetsKnown(mega, Queue, Heard)'
      /\ Books(mega, Queue, Heard, begun, finished)'
  BY <1>1, Surroundings
<1>3. TypeOK'
  <2>1. mega'.pending # 0 <=> mega'.servo # "READY" BY DEF Numbered
  <2> QED BY <1>1, <2>1 DEF IInv, TypeOK, Orders, Awaited
<1>4. Wire' /\ Steps' BY <1>1 DEF IInv, Wire, Steps
<1>5. OneEach' BY <1>1 DEF IInv, OneEach
<1>6. Mirrored'
  <2>1. port = "open" /\ "lost" \notin trouble => Tells(mega'.tx, latest, mega'.reported)
    BY DEF IInv, Mirrored
  <2> QED BY <1>1, <2>1 DEF IInv, Mirrored, Told
<1>7. Engaged'
  <2>1. \A c \in Commands : Begun(c)' => Begun(c) BY <1>1 DEF Begun
  <2> QED BY <1>1, <2>1 DEF IInv, Engaged
<1>8. Stored' BY <1>1 DEF IInv, Stored
<1> QED BY <1>2, <1>3, <1>4, <1>5, <1>6, <1>7, <1>8 DEF IInv

\* What the invariant says of the types.
LEMMA LinkTypes ==
    ASSUME IInv
    PROVE  /\ mega \in MegaType /\ mega.tx \in Seq(Frames) /\ toMega \in Seq(Orders)
           /\ sequence \in 0 .. MaxSequence /\ sequence \in Nat /\ Heard \subseteq Frames
           /\ Queue \subseteq Orders
<1>1. mega \in MegaType /\ toMega \in Seq(Orders) /\ sequence \in 0 .. MaxSequence
  BY DEF IInv, TypeOK, Orders
<1>2. mega.tx \in Seq(Frames) BY <1>1 DEF MegaType, Frames, Replies, Passing, StateFrames
<1>3. Queue \subseteq Orders BY <1>1 DEF Queue, Content
<1>4. Heard \subseteq Frames BY DEF IInv, Numbered
<1> QED BY <1>1, <1>2, <1>3, <1>4, LinkAssumption

\* Only replies are waited for, only states are told.
LEMMA FrameKinds ==
    /\ \A f \in Passing : f.kind \notin {"ACK", "ACTUATION", "STATE"}
    /\ \A f \in StateFrames : f.kind = "STATE"
    /\ \A f \in Replies : f.kind \in {"ACK", "ACTUATION"}
BY DEF Passing, StateFrames, Replies

\* loop() without an order and without the servo.
LEMMA MovesIInv ==
    ASSUME IInv, MegaMoves
    PROVE  IInv'
<1>0. /\ mega \in MegaType /\ Heard \subseteq Frames /\ toMega \in Seq(Orders)
  BY LinkTypes
<1>1. UNCHANGED boardFrame /\ UNCHANGED <<toMega, begun, finished>>
  BY DEF MegaMoves, boardFrame, armVars
<1>2. \E m : Aside(mega, m, Passing) /\ LoopEndsWith(m)
  <2>1. ASSUME NEW b \in Belts, LoopEndsWith(Arrived(mega, b))
        PROVE  \E m : Aside(mega, m, Passing) /\ LoopEndsWith(m)
    BY <1>0, <2>1, ArrivedAside
  <2>2. ASSUME NEW s \in Sensors, NEW reading \in Readings, LoopEndsWith(Pinged(mega, s, reading))
        PROVE  \E m : Aside(mega, m, Passing) /\ LoopEndsWith(m)
    BY <1>0, <2>2, PingedAside
  <2>3. Aside(mega, mega, Passing) BY <1>0 DEF Aside, Writes, MegaType
  <2> QED BY <2>1, <2>2, <2>3 DEF MegaMoves
<1>3. PICK m : Aside(mega, m, Passing) /\ LoopEndsWith(m) BY <1>2
<1>4. /\ Writes(mega, m, Passing) /\ m.reported = mega.reported /\ m.offset = mega.offset
      /\ m.servo = mega.servo /\ m.pending = mega.pending
      /\ \A b \in Belts : m.belt[b] = "RUNNING" => mega.belt[b] = "RUNNING"
  BY <1>3 DEF Aside
<1>5. /\ mega' \in MegaType /\ mega'.belt = m.belt /\ mega'.offset = m.offset
      /\ mega'.servo = m.servo /\ mega'.pending = m.pending
      /\ Content(mega'.tx) \subseteq (Content(mega.tx) \cup Passing) \cup StateFrames
      /\ port # "open" => mega'.tx = <<>>
      /\ port = "open" /\ (mega.reported # None => Told)
           => Tells(mega'.tx, latest, mega'.reported)
  BY <1>0, <1>3, <1>4, FrameKinds, LoopEnds
<1>6. Heard' \subseteq Frames /\ \A f \in Heard' : f.kind \in {"ACK", "ACTUATION"} => f \in Heard
  BY <1>0, <1>1, <1>5, FrameKinds DEF Heard, boardFrame, Frames
<1>7. Queue' = Queue BY <1>1 DEF Queue
<1>8. /\ Numbered(mega', Queue', Heard') /\ OffsetsKnown(mega', Queue', Heard')
      /\ Books(mega', Queue', Heard', begun', finished')
  <2>1. /\ Numbered(mega, Queue, Heard) /\ OffsetsKnown(mega, Queue, Heard)
        /\ Books(mega, Queue, Heard, begun, finished)
    BY DEF IInv
  <2>2. \A b \in Belts : mega'.belt[b] = "RUNNING" => mega.belt[b] = "RUNNING" BY <1>4, <1>5
  <2> QED BY <1>1, <1>4, <1>5, <1>6, <1>7, <2>1, <2>2, LessFits
<1>9. /\ \A i, j \in 1 .. Len(toMega') : toMega'[i].seq = toMega'[j].seq => i = j
      /\ port = "dying" => toMega' = <<>>
      /\ \A c \in Commands : (begun'[c] # 0 => Begun(c)) /\ (finished'[c] # 0 => Begun(c))
  BY <1>1 DEF IInv, Wire, Begun
<1> QED BY <1>0, <1>1, <1>5, <1>8, <1>9, BoardStep

\* The servo.
LEMMA ServoIInv ==
    ASSUME IInv, MegaServo
    PROVE  IInv'
<1>0. /\ mega \in MegaType /\ Heard \subseteq Frames /\ toMega \in Seq(Orders)
      /\ sequence \in Nat
  BY LinkTypes
<1> DEFINE m == ServoMoved(mega)
           D == IF mega.servo = "MOVING_HOME" THEN Counted(finished, mega.pending) ELSE finished
           W == IF mega.servo = "MOVING_HOME" THEN {Actuated(mega.pending)} ELSE {}
<1>1. /\ UNCHANGED boardFrame /\ UNCHANGED <<toMega, begun>> /\ finished' = D
      /\ mega.servo # "READY" /\ LoopEndsWith(m)
  BY DEF MegaServo, boardFrame
<1>2. /\ m.belt = mega.belt /\ m.offset = mega.offset /\ m.reported = mega.reported
      /\ Writes(mega, m, W)
      /\ mega.servo = "MOVING_HOME" => m.servo = "READY" /\ m.pending = 0
      /\ mega.servo # "MOVING_HOME" => m.servo # "READY" /\ m.pending = mega.pending
  BY <1>0, <1>1, ServoWrites
<1>3. Actuated(mega.pending) \in Frames /\ \A f \in W : f.kind # "STATE"
  BY <1>0, LinkAssumption, AnswerNumbers DEF Actuated, Frames, Replies, MegaType
<1> HIDE DEF m
<1>5. /\ mega' \in MegaType /\ mega'.belt = m.belt /\ mega'.offset = m.offset
      /\ mega'.servo = m.servo /\ mega'.pending = m.pending
      /\ Content(mega'.tx) \subseteq (Content(mega.tx) \cup W) \cup StateFrames
      /\ port # "open" => mega'.tx = <<>>
      /\ port = "open" /\ (mega.reported # None => Told)
           => Tells(mega'.tx, latest, mega'.reported)
  BY <1>0, <1>1, <1>2, <1>3, LoopEnds
<1>6. Heard' \subseteq Frames
      /\ \A f \in Heard' : f.kind \in {"ACK", "ACTUATION"} => f \in Heard \/ f \in W
  BY <1>0, <1>1, <1>3, <1>5, FrameKinds DEF Heard, boardFrame, Frames
<1>7. Queue' = Queue BY <1>1 DEF Queue
<1>8. /\ Numbered(mega', Queue', Heard') /\ OffsetsKnown(mega', Queue', Heard')
      /\ Books(mega', Queue', Heard', begun', finished')
  <2>1. /\ Numbered(mega, Queue, Heard) /\ OffsetsKnown(mega, Queue, Heard) /\ OneEach
        /\ Books(mega, Queue, Heard, begun, finished)
    BY DEF IInv
  <2>2. CASE mega.servo = "MOVING_HOME"
    <3>1. mega'.servo = "READY" /\ mega'.pending = 0 BY <1>2, <1>5, <2>2
    <3>2. \A f \in Heard' : f.kind \in {"ACK", "ACTUATION"} =>
              f \in Heard \/ f = Actuated(mega.pending)
      BY <1>6, <2>2
    <3>3. /\ mega'.offset = mega.offset /\ mega'.belt = mega.belt
          /\ finished' = Counted(finished, mega.pending) /\ begun' = begun
      BY <1>1, <1>2, <1>5, <2>2
    <3> QED BY <1>0, <1>1, <1>6, <1>7, <2>1, <3>1, <3>2, <3>3, CycleFits
  <2>3. CASE mega.servo # "MOVING_HOME"
    <3>1. /\ mega'.servo = "READY" <=> mega.servo = "READY"
          /\ mega'.pending = mega.pending
      BY <1>1, <1>2, <1>5, <2>3
    <3>2. \A f \in Heard' : f.kind \in {"ACK", "ACTUATION"} => f \in Heard BY <1>6, <2>3
    <3>3. /\ mega'.offset = mega.offset /\ finished' = finished /\ begun' = begun
          /\ \A b \in Belts : mega'.belt[b] = "RUNNING" => mega.belt[b] = "RUNNING"
      BY <1>1, <1>2, <1>5, <2>3
    <3>4. /\ Heard' \subseteq Frames /\ Queue' \subseteq Queue BY <1>6, <1>7
    <3> QED BY <2>1, <3>1, <3>2, <3>3, <3>4, LessFits
  <2> QED BY <2>2, <2>3
<1>9. /\ \A i, j \in 1 .. Len(toMega') : toMega'[i].seq = toMega'[j].seq => i = j
      /\ port = "dying" => toMega' = <<>>
  BY <1>1 DEF IInv, Wire
<1>10. ASSUME NEW c \in Commands
       PROVE  (begun'[c] # 0 => Begun(c)) /\ (finished'[c] # 0 => Begun(c))
  <2>1. finished'[c] # finished[c] => \E g \in Goals : CommandOf[g] = c /\ awaits[g] = mega.pending
    BY <1>1 DEF Counted, Commands
  <2>2. mega.pending # 0 BY <1>1 DEF IInv, Numbered
  <2> QED BY <1>1, <2>1, <2>2 DEF Begun
<1> QED BY <1>0, <1>1, <1>5, <1>8, <1>9, <1>10, BoardStep

\* The orders from the kth on.
Rest(k) == {toMega[i] : i \in k .. Len(toMega)}

\* handleCommand of the kth order, the ones before it being handled.
LEMMA ReadOne ==
    ASSUME IInv, NEW m \in MegaType, NEW k \in 1 .. Len(toMega), NEW H, NEW B,
           Numbered(m, Rest(k), H), OffsetsKnown(m, Rest(k), H),
           Books(m, Rest(k), H, B, finished)
    PROVE  LET t == Handled(m, toMega[k])
               W == Answers(m, t, toMega[k])
           IN  /\ Writes(m, t, W) /\ t.reported = m.reported
               /\ \A f \in W : f.kind # "STATE"
               /\ Numbered(t, Rest(k + 1), H \cup W) /\ OffsetsKnown(t, Rest(k + 1), H \cup W)
               /\ Books(t, Rest(k + 1), H \cup W, BegunAfter(m, t, B), finished)
               /\ m.servo # "READY" => t.servo # "READY" /\ t.pending = m.pending
<1> DEFINE f == toMega[k]
           t == Handled(m, f)
<1>1. Len(toMega) \in Nat /\ \A i \in 1 .. Len(toMega) : toMega[i] \in Orders
  BY LinkTypes
<1>2. f \in Orders /\ f \in Rest(k) BY <1>1 DEF Rest
<1>3. WellFormed(f) BY <1>2 DEF Numbered
<1>4. Rest(k + 1) \subseteq Rest(k)
  <2>1. \A i \in k + 1 .. Len(toMega) : i \in k .. Len(toMega) BY <1>1
  <2> QED BY <2>1 DEF Rest
<1>5. \A d \in Rest(k + 1) : d.seq # f.seq
  <2>1. ASSUME NEW i \in k + 1 .. Len(toMega) PROVE toMega[i].seq # f.seq
    BY <1>1 DEF IInv, Wire
  <2> QED BY <2>1 DEF Rest
<1>6. /\ Obeyed(m, t, f)
      /\ Starts(m, t, f) \/ Passes(m, t, f) \/ Stays(m, t, f)
  BY <1>2, <1>3, HandledObeys
<1> HIDE DEF t, f
<1>7. Writes(m, t, Answers(m, t, f))
  <2>1. Starts(m, t, f) \/ Stays(m, t, f) => Writes(m, t, Acks(f)) BY DEF Starts, Stays
  <2>2. Passes(m, t, f) => Writes(m, t, Acks(f) \cup {Actuated(f.seq)}) BY DEF Passes
  <2> QED BY <1>6, <2>1, <2>2 DEF Answers
<1>8. \A d \in Answers(m, t, f) : d.kind # "STATE" BY AnswerNumbers DEF Answers, Acks
<1>9. /\ Numbered(t, Rest(k + 1), H \cup Answers(m, t, f))
      /\ OffsetsKnown(t, Rest(k + 1), H \cup Answers(m, t, f))
      /\ Books(t, Rest(k + 1), H \cup Answers(m, t, f), BegunAfter(m, t, B), finished)
  <2>1. Steps /\ OneEach BY DEF IInv
  <2> QED BY <1>2, <1>4, <1>5, <1>6, <2>1, OrderFits
<1>10. t.reported = m.reported BY <1>6 DEF Obeyed
<1>11. m.servo # "READY" => t.servo # "READY" /\ t.pending = m.pending
  BY <1>6 DEF Starts, Passes, Stays
<1> QED BY <1>7, <1>8, <1>9, <1>10, <1>11 DEF t, f

\* One order, or two.
LEMMA ReadsFit ==
    ASSUME IInv, MegaReads
    PROVE  \E m, W : /\ Writes(mega, m, W) /\ m.reported = mega.reported
                     /\ \A f \in W : f.kind # "STATE"
                     /\ LoopEndsWith(m) /\ begun' = BegunAfter(mega, m, begun)
                     /\ Numbered(m, Queue', Heard \cup W)
                     /\ OffsetsKnown(m, Queue', Heard \cup W)
                     /\ Books(m, Queue', Heard \cup W, begun', finished)
<1> DEFINE first == Handled(mega, toMega[1])
           W1 == Answers(mega, first, toMega[1])
           second == Handled(first, toMega[2])
           W2 == Answers(first, second, toMega[2])
<1>0. /\ mega \in MegaType /\ toMega \in Seq(Orders) /\ Len(toMega) \in Nat
  BY LinkTypes
<1>1. PICK n \in 1 .. 2 :
          LET after == IF n = 1 THEN first ELSE second
          IN  /\ n <= Len(toMega) /\ LoopEndsWith(after)
              /\ toMega' = SubSeq(toMega, n + 1, Len(toMega))
              /\ begun' = IF mega.servo = "READY" /\ after.servo # "READY"
                          THEN Counted(begun, after.pending) ELSE begun
  BY DEF MegaReads
<1>2. Rest(1) = Queue BY DEF Rest, Queue, Content
<1>3. /\ Numbered(mega, Queue, Heard) /\ OffsetsKnown(mega, Queue, Heard)
      /\ Books(mega, Queue, Heard, begun, finished)
  BY DEF IInv
<1>4. 1 \in 1 .. Len(toMega) BY <1>0, <1>1
<1>5. Queue' = Rest(n + 1)
  <2>1. n \in 0 .. Len(toMega) BY <1>0, <1>1
  <2>2. Content(SubSeq(toMega, n + 1, Len(toMega))) = {toMega[i] : i \in n + 1 .. Len(toMega)}
    BY <1>0, <2>1, ContentSuffix
  <2> QED BY <1>1, <2>2 DEF Queue, Rest
<1>6. /\ Writes(mega, first, W1) /\ first.reported = mega.reported
      /\ \A f \in W1 : f.kind # "STATE"
      /\ Numbered(first, Rest(1 + 1), Heard \cup W1)
      /\ OffsetsKnown(first, Rest(1 + 1), Heard \cup W1)
      /\ Books(first, Rest(1 + 1), Heard \cup W1, BegunAfter(mega, first, begun), finished)
      /\ mega.servo # "READY" => first.servo # "READY" /\ first.pending = mega.pending
  BY <1>0, <1>2, <1>3, <1>4, ReadOne
<1>7. first \in MegaType BY <1>6 DEF Writes
<1>8. CASE n = 1
  <2>1. LoopEndsWith(first) /\ begun' = BegunAfter(mega, first, begun) BY <1>1, <1>8 DEF BegunAfter
  <2> HIDE DEF first, W1
  <2> QED BY <1>5, <1>6, <1>8, <2>1
<1>9. CASE n = 2
  <2>1. LoopEndsWith(second) /\ begun' = BegunAfter(mega, second, begun)
    BY <1>1, <1>9 DEF BegunAfter
  <2>2. 2 \in 1 .. Len(toMega) /\ 1 + 1 = 2 /\ n + 1 = 2 + 1 BY <1>0, <1>1, <1>9
  <2>3. /\ Numbered(first, Rest(2), Heard \cup W1) /\ OffsetsKnown(first, Rest(2), Heard \cup W1)
        /\ Books(first, Rest(2), Heard \cup W1, BegunAfter(mega, first, begun), finished)
    BY <1>6, <2>2
  <2> HIDE DEF first, W1
  <2>4. /\ Writes(first, second, W2) /\ second.reported = first.reported
        /\ \A f \in W2 : f.kind # "STATE"
        /\ Numbered(second, Rest(2 + 1), (Heard \cup W1) \cup W2)
        /\ OffsetsKnown(second, Rest(2 + 1), (Heard \cup W1) \cup W2)
        /\ Books(second, Rest(2 + 1), (Heard \cup W1) \cup W2,
                 BegunAfter(first, second, BegunAfter(mega, first, begun)), finished)
        /\ first.servo # "READY" => second.servo # "READY" /\ second.pending = first.pending
    BY <1>7, <2>2, <2>3, ReadOne
  <2> HIDE DEF second, W2
  <2>5. BegunAfter(first, second, BegunAfter(mega, first, begun)) = BegunAfter(mega, second, begun)
    BY <1>6, <2>4 DEF BegunAfter
  <2>6. Writes(mega, second, W1 \cup W2) BY <1>0, <1>6, <2>4, WritesTwice
  <2>7. (Heard \cup W1) \cup W2 = Heard \cup (W1 \cup W2) OBVIOUS
  <2>8. /\ Numbered(second, Queue', Heard \cup (W1 \cup W2))
        /\ OffsetsKnown(second, Queue', Heard \cup (W1 \cup W2))
        /\ Books(second, Queue', Heard \cup (W1 \cup W2), begun', finished)
    BY <1>5, <2>1, <2>2, <2>4, <2>5, <2>7
  <2>9. \A f \in W1 \cup W2 : f.kind # "STATE" BY <1>6, <2>4
  <2> QED BY <1>6, <2>1, <2>4, <2>6, <2>8, <2>9
<1>10. n = 1 \/ n = 2 OBVIOUS
<1> QED BY <1>8, <1>9, <1>10

\* updateSerial.
LEMMA ReadsIInv ==
    ASSUME IInv, MegaReads
    PROVE  IInv'
<1>0. /\ mega \in MegaType /\ Heard \subseteq Frames /\ toMega \in Seq(Orders)
      /\ Len(toMega) \in Nat
  BY LinkTypes
<1>1. UNCHANGED boardFrame /\ finished' = finished BY DEF MegaReads, boardFrame
<1>2. PICK m, W : /\ Writes(mega, m, W) /\ m.reported = mega.reported
                  /\ \A f \in W : f.kind # "STATE"
                  /\ LoopEndsWith(m) /\ begun' = BegunAfter(mega, m, begun)
                  /\ Numbered(m, Queue', Heard \cup W)
                  /\ OffsetsKnown(m, Queue', Heard \cup W)
                  /\ Books(m, Queue', Heard \cup W, begun', finished)
  BY ReadsFit
<1>3. /\ mega' \in MegaType /\ mega'.belt = m.belt /\ mega'.offset = m.offset
      /\ mega'.servo = m.servo /\ mega'.pending = m.pending
      /\ Content(mega'.tx) \subseteq (Content(mega.tx) \cup W) \cup StateFrames
      /\ port # "open" => mega'.tx = <<>>
      /\ port = "open" /\ (mega.reported # None => Told)
           => Tells(mega'.tx, latest, mega'.reported)
  BY <1>0, <1>2, LoopEnds
<1>4. Heard \cup W \subseteq Frames BY <1>2 DEF Numbered
<1>5. Heard' \subseteq Frames
      /\ \A f \in Heard' : f.kind \in {"ACK", "ACTUATION"} => f \in Heard \cup W
  BY <1>1, <1>3, <1>4, FrameKinds DEF Heard, boardFrame, Frames
<1>6. /\ Numbered(mega', Queue', Heard') /\ OffsetsKnown(mega', Queue', Heard')
      /\ Books(mega', Queue', Heard', begun', finished')
  <2>1. mega'.servo = "READY" <=> m.servo = "READY" BY <1>3
  <2>2. \A b \in Belts : mega'.belt[b] = "RUNNING" => m.belt[b] = "RUNNING" BY <1>3
  <2> QED BY <1>1, <1>2, <1>3, <1>5, <2>1, <2>2, LessFits
<1>7. /\ toMega' \in Seq(Orders)
      /\ port = "dying" => toMega' = <<>>
      /\ \A i, j \in 1 .. Len(toMega') : toMega'[i].seq = toMega'[j].seq => i = j
  <2>1. PICK n \in 1 .. 2 : n <= Len(toMega) /\ toMega' = SubSeq(toMega, n + 1, Len(toMega))
    BY DEF MegaReads
  <2>2. n \in 0 .. Len(toMega) BY <1>0, <2>1
  <2>3. /\ toMega' \in Seq(Orders) /\ Len(toMega') = Len(toMega) - n
        /\ \A i \in 1 .. Len(toMega) - n : toMega'[i] = toMega[n + i]
    BY <1>0, <2>1, <2>2, ContentSuffix
  <2>4. \A i, j \in 1 .. Len(toMega) : toMega[i].seq = toMega[j].seq => i = j
    BY DEF IInv, Wire
  <2>5. toMega # <<>> BY <1>0, <2>1
  <2>6. port # "dying" BY <2>5 DEF IInv, Wire
  <2>7. ASSUME NEW i \in 1 .. Len(toMega'), NEW j \in 1 .. Len(toMega'),
               toMega'[i].seq = toMega'[j].seq
        PROVE  i = j
    <3>1. /\ n + i \in 1 .. Len(toMega) /\ n + j \in 1 .. Len(toMega)
          /\ toMega[n + i].seq = toMega[n + j].seq
      BY <1>0, <2>1, <2>3, <2>7
    <3>2. n + i = n + j BY <2>4, <3>1
    <3> QED BY <3>2
  <2> QED BY <2>3, <2>6, <2>7
<1>8. ASSUME NEW c \in Commands
      PROVE  (begun'[c] # 0 => Begun(c)) /\ (finished'[c] # 0 => Begun(c))
  <2>1. begun'[c] # begun[c] => \E g \in Goals : CommandOf[g] = c /\ awaits[g] = m.pending
    BY <1>2 DEF BegunAfter, Counted, Commands
  <2>2. begun'[c] # begun[c] => m.pending # 0 BY <1>2 DEF BegunAfter, Numbered
  <2> QED BY <1>1, <2>1, <2>2 DEF Begun
<1> QED BY <1>0, <1>1, <1>3, <1>6, <1>7, <1>8, BoardStep

-----------------------------------------------------------------------------
(* Less to read, less to hear, in the steps of Control and of the line. *)

\* The numbers,
LEMMA NumberedLess ==
    ASSUME IInv, Heard' \subseteq Heard, Queue' \subseteq Queue,
           mega'.pending = mega.pending, mega'.servo = mega.servo,
           port' # "closed" => port # "closed", sequence' = sequence
    PROVE  Numbered(mega, Queue, Heard)'
<1>1. Numbered(mega, Queue, Heard) BY DEF IInv
<1>2. \A f \in Queue' : f \in Queue OBVIOUS
<1>3. \A f \in Heard' : f \in Heard OBVIOUS
<1> HIDE DEF Queue, Heard
<1> QED BY <1>1, <1>2, <1>3 DEF Numbered

\* ... the offsets, unless the handshake goes on,
LEMMA OffsetsLess ==
    ASSUME IInv, Heard' \subseteq Heard, Queue' \subseteq Queue,
           mega'.belt = mega.belt, mega'.offset = mega.offset, trouble \subseteq trouble',
           (believed' /\ session') \/ init'.step = "adopt"
               => (believed /\ session) \/ init.step = "adopt",
           init'.step = "handshake" => init' = init
    PROVE  OffsetsKnown(mega, Queue, Heard)'
<1>1. OffsetsKnown(mega, Queue, Heard) BY DEF IInv
<1>2. \A f \in Queue' : f \in Queue OBVIOUS
<1>3. Acknowledged(Heard', init.seq) => Acknowledged(Heard, init.seq) BY DEF Acknowledged
<1>4. init' = init => Acknowledged(Heard, init.seq)' = Acknowledged(Heard', init.seq)
  BY DEF Acknowledged
<1> HIDE DEF Queue, Heard
<1> QED BY <1>1, <1>2, <1>3, <1>4 DEF OffsetsKnown, AllOffsets

\* ... and the books, also when the arm is reset; an order that no goal waits for is
\* nothing to them.
LEMMA BooksKept ==
    ASSUME IInv, Heard' \subseteq Heard,
           \A f \in Queue' : f \in Queue \/ \A g \in Goals : awaits'[g] # f.seq,
           mega'.pending \in {mega.pending, 0},
           UNCHANGED <<begun, finished, actuator_command>>,
           \A g \in Goals : awaits'[g] \in {awaits[g], 0},
           \A g \in Goals : outcome'[g] = "success" =>
               outcome[g] = "success" \/ Achieved(g, mega, Queue, begun, finished)
    PROVE  Books(mega, Queue, Heard, begun, finished)'
<1>1. Books(mega, Queue, Heard, begun, finished) BY DEF IInv
<1>2. ASSUME NEW g \in Goals, awaits'[g] # 0
      PROVE  Booked(g, mega, Queue, Heard, begun, finished)'
  <2>1. awaits'[g] = awaits[g] /\ awaits[g] # 0 BY <1>2
  <2>2. Booked(g, mega, Queue, Heard, begun, finished) BY <1>1, <2>1 DEF Books
  <2>3. Unread(g, Queue)' => Unread(g, Queue) BY <2>1 DEF Unread
  <2>4. Actuated(awaits[g]) \in Heard' => Actuated(awaits[g]) \in Heard OBVIOUS
  <2>5. \A f \in Queue' : f.seq = awaits[g] => f \in Queue BY <2>1
  <2>6. Want(g)' = Want(g) BY DEF Want
  <2>7. Actuated(awaits'[g]) = Actuated(awaits[g]) BY <2>1
  <2> HIDE DEF Queue, Heard
  <2> QED BY <2>1, <2>2, <2>3, <2>4, <2>5, <2>6, <2>7 DEF Booked
<1>3. ASSUME NEW g \in Goals, outcome'[g] = "success"
      PROVE  Achieved(g, mega, Queue, begun, finished)'
  <2>1. Achieved(g, mega, Queue, begun, finished) BY <1>1, <1>3 DEF Books
  <2>2. ASSUME NEW h \in Goals, CommandOf[h] = CommandOf[g], awaits'[h] # 0
        PROVE  mega'.pending # awaits'[h] /\ ~Unread(h, Queue)'
    <3>1. awaits'[h] = awaits[h] /\ awaits[h] # 0 BY <2>2
    <3>2. mega.pending # awaits[h] /\ ~Unread(h, Queue) BY <2>1, <2>2, <3>1 DEF Achieved
    <3> QED BY <3>1, <3>2 DEF Unread
  <2>3. Want(g)' = Want(g) BY DEF Want
  <2> QED BY <2>1, <2>2, <2>3 DEF Achieved
<1>4. Commands' = Commands BY DEF Commands
<1> QED BY <1>1, <1>2, <1>3, <1>4 DEF Books

\* With less to read the books are kept.
LEMMA BooksLess ==
    ASSUME IInv, Heard' \subseteq Heard, Queue' \subseteq Queue,
           mega'.pending \in {mega.pending, 0},
           UNCHANGED <<begun, finished, actuator_command>>,
           \A g \in Goals : awaits'[g] \in {awaits[g], 0},
           \A g \in Goals : outcome'[g] = "success" => outcome[g] = "success"
    PROVE  Books(mega, Queue, Heard, begun, finished)'
<1>1. \A f \in Queue' : f \in Queue \/ \A g \in Goals : awaits'[g] # f.seq OBVIOUS
<1> QED BY <1>1, BooksKept

\* What does not touch the goals keeps what is said of them.
LEMMA GoalsKept ==
    ASSUME IInv, UNCHANGED <<actuator_command, pc, awaits, outcome, store, begun, finished>>,
           trouble \subseteq trouble'
    PROVE  /\ OneEach' /\ Engaged' /\ Stored'
           /\ pc' \in [Goals -> {"unsent", "waiting", "done"}]
           /\ awaits' \in [Goals -> 0 .. MaxSequence]
           /\ outcome' \in [Goals -> {"none", "rejected", "failed", "raised", "lost", "success"}]
           /\ Len(store') <= StoreCapacity
           /\ \A g \in Goals : awaits'[g] \in {awaits[g], 0}
           /\ \A g \in Goals : outcome'[g] = "success" => outcome[g] = "success"
<1>1. OneEach' BY DEF IInv, OneEach
<1>2. Engaged'
  <2>1. \A c : Begun(c)' = Begun(c) BY DEF Begun
  <2> QED BY <2>1 DEF IInv, Engaged, Commands
<1>3. Stored' BY DEF IInv, Stored, Entries, Commands
<1> QED BY <1>1, <1>2, <1>3 DEF IInv, TypeOK

\* A board that loses the first frame it has written.
LEMMA FrameRead ==
    ASSUME IInv, mega.tx # <<>>, mega' = [mega EXCEPT !.tx = Tail(@)]
    PROVE  /\ mega' \in MegaType /\ mega'.tx = Tail(mega.tx) /\ mega'.belt = mega.belt
           /\ mega'.offset = mega.offset /\ mega'.servo = mega.servo
           /\ mega'.pending = mega.pending /\ mega'.reported = mega.reported
           /\ Content(mega'.tx) \subseteq Content(mega.tx)
<1>1. mega \in MegaType /\ mega.tx \in Seq(Frames) BY LinkTypes
<1>2. Tail(mega.tx) \in Seq(Frames) /\ Content(Tail(mega.tx)) \subseteq Content(mega.tx)
  BY <1>1, ContentTail
<1> DEFINE n == WithTx(mega, Tail(mega.tx))
<1>3. mega' = n BY DEF WithTx
<1>4. /\ n \in MegaType /\ n.tx = Tail(mega.tx) /\ n.belt = mega.belt
      /\ n.offset = mega.offset /\ n.servo = mega.servo /\ n.pending = mega.pending
      /\ n.reported = mega.reported
  BY <1>1, <1>2, TxChange
<1> HIDE DEF n
<1> QED BY <1>2, <1>3, <1>4

\* _read_mega.
LEMMA ReadFrameIInv ==
    ASSUME IInv, ReadFrame
    PROVE  IInv'
<1> DEFINE frame == Head(mega.tx)
<1>0. mega \in MegaType /\ mega.tx \in Seq(Frames) /\ sequence \in Nat BY LinkTypes
<1>1. /\ port = "open" /\ mega.tx # <<>> /\ mega' = [mega EXCEPT !.tx = Tail(@)]
      /\ UNCHANGED <<toMega, port, sequence, init, session, ready, believed, trouble>>
      /\ UNCHANGED <<actuator_command, pc, awaits, outcome, store, begun, finished>>
      /\ events' = IF frame.kind \in {"ACK", "ACTUATION"} /\ Awaited(frame)
                   THEN events \cup {frame} ELSE events
      /\ IF frame.kind = "STATE" THEN Published(frame.state, session)
         ELSE UNCHANGED <<latest, mirror>>
  BY DEF ReadFrame, goalVars, armVars
<1>2. /\ mega' \in MegaType /\ mega'.tx = Tail(mega.tx) /\ mega'.belt = mega.belt
      /\ mega'.offset = mega.offset /\ mega'.servo = mega.servo
      /\ mega'.pending = mega.pending /\ mega'.reported = mega.reported
      /\ Content(mega'.tx) \subseteq Content(mega.tx)
  BY <1>1, FrameRead
<1>3. frame \in Content(mega.tx) /\ frame \in Frames
  <2>1. frame = mega.tx[1] /\ Len(mega.tx) >= 1 BY <1>0, <1>1
  <2> QED BY <1>0, <2>1 DEF Content
<1> HIDE DEF frame
<1>4. Heard' \subseteq Heard /\ Queue' = Queue BY <1>1, <1>2, <1>3 DEF Heard, Queue
<1>5. frame.kind \in {"ACK", "ACTUATION"} => frame.seq \in 1 .. sequence /\ frame \in Replies
  BY <1>1, <1>3, FrameKinds DEF IInv, Numbered, Heard, Frames
<1>6. /\ OneEach' /\ Engaged' /\ Stored'
      /\ \A g \in Goals : awaits'[g] \in {awaits[g], 0}
      /\ \A g \in Goals : outcome'[g] = "success" => outcome[g] = "success"
  BY <1>1, GoalsKept
<1>7. Numbered(mega, Queue, Heard)' BY <1>1, <1>2, <1>4, NumberedLess
<1>8. OffsetsKnown(mega, Queue, Heard)' BY <1>1, <1>2, <1>4, OffsetsLess
<1>9. Books(mega, Queue, Heard, begun, finished)' BY <1>1, <1>2, <1>4, <1>6, BooksLess
<1>10. TypeOK'
  <2>1. \A e : Awaited(e) => Awaited(e)' BY <1>1 DEF Awaited
  <2>2. \A e \in events' : Awaited(e) BY <1>1 DEF IInv, TypeOK
  <2>3. (\A e \in events : Awaited(e))' BY <2>1, <2>2
  <2> QED BY <1>1, <1>2, <2>3 DEF IInv, TypeOK
<1>11. Wire'
  <2>1. events' \subseteq Replies /\ \A e \in events' : e.seq \in 1 .. sequence
    BY <1>1, <1>5 DEF IInv, Wire
  <2> QED BY <1>1, <2>1 DEF IInv, Wire
<1>12. Steps' BY <1>1 DEF IInv, Steps
<1>13. Mirrored'
  <2>1. latest' = IF frame.kind = "STATE" THEN frame.state ELSE latest BY <1>1 DEF Published
  <2>2. session /\ latest' # None => mirror' = latest' BY <1>1 DEF Published, IInv, Mirrored
  <2>3. Told => Tells(mega'.tx, latest', mega'.reported)
    BY <1>0, <1>1, <1>2, <2>1, TellsTail DEF Told, frame
  <2> QED BY <1>1, <1>2, <2>2, <2>3 DEF IInv, Mirrored, Told
<1> QED BY <1>6, <1>7, <1>8, <1>9, <1>10, <1>11, <1>12, <1>13 DEF IInv

\* An answer that is kept is still waited for.
LEMMA AwaitedKept ==
    ASSUME IInv, UNCHANGED <<pc, awaits>>, events' \subseteq events,
           init' = init \/ \A e \in events' : ~(e.kind = "ACK" /\ e.seq = init.seq)
    PROVE  (\A e \in events : Awaited(e))'
<1>1. \A e \in events' : Awaited(e) BY DEF IInv, TypeOK
<1>2. ASSUME NEW e \in events' PROVE Awaited(e)'
  BY <1>1 DEF Awaited
<1> QED BY <1>2

\* setup().
LEMMA BootType ==
    /\ Boot \in MegaType /\ Boot.pending = 0 /\ Boot.servo = "READY" /\ Boot.reported = None
    /\ Boot.tx = <<>> /\ \A b \in Belts : Boot.belt[b] = "STOPPED"
<1>1. /\ [b \in Belts |-> "STOPPED"] \in BeltMaps /\ [b \in Belts |-> FALSE] \in BeltFlags
      /\ [s \in Sensors |-> TRUE] \in SensorFlags /\ [s \in Sensors |-> FALSE] \in SensorFlags
      /\ 0 \in Numbers /\ None \in LastReports /\ "READY" \in ServoStates
      /\ <<>> \in Seq(Frames)
  BY LinkAssumption
     DEF BeltMaps, BeltFlags, SensorFlags, Numbers, LastReports, ServoStates, BeltStates
<1>2. Boot \in Boards BY <1>1 DEF Boot, Boards
<1> QED BY <1>2, BoardTypes DEF Boot

\* A frame is damaged on the way.
LEMMA LoseFrameIInv ==
    ASSUME IInv, LoseFrame
    PROVE  IInv'
<1>0. /\ mega \in MegaType /\ toMega \in Seq(Orders) /\ sequence \in Nat
      /\ mega.tx \in Seq(Frames)
  BY LinkTypes
<1>1. /\ UNCHANGED <<port, sequence, events, init, latest, session, ready, believed, mirror>>
      /\ UNCHANGED <<actuator_command, pc, awaits, outcome, store, begun, finished>>
      /\ trouble \subseteq trouble' /\ "lost" \in trouble'
  BY DEF LoseFrame, Trouble, nodeVars, goalVars, masterVars, armVars
<1>2. /\ mega' \in MegaType /\ mega'.belt = mega.belt /\ mega'.offset = mega.offset
      /\ mega'.servo = mega.servo /\ mega'.pending = mega.pending
      /\ Content(mega'.tx) \subseteq Content(mega.tx)
      /\ port # "open" => mega'.tx = <<>>
  <2>1. CASE UNCHANGED mega BY <1>0, <2>1 DEF IInv, Wire
  <2>2. CASE mega.tx # <<>> /\ mega' = [mega EXCEPT !.tx = Tail(@)]
    <3>1. port = "open" BY <2>2 DEF IInv, Wire
    <3> QED BY <2>2, <3>1, FrameRead
  <2> QED BY <2>1, <2>2 DEF LoseFrame
<1>3. /\ toMega' \in Seq(Orders) /\ Queue' \subseteq Queue
      /\ \A i, j \in 1 .. Len(toMega') : toMega'[i].seq = toMega'[j].seq => i = j
      /\ port = "dying" => toMega' = <<>>
  <2>1. CASE UNCHANGED toMega BY <1>0, <2>1 DEF Queue, IInv, Wire
  <2>2. CASE toMega # <<>> /\ toMega' = Tail(toMega)
    <3>1. /\ toMega' \in Seq(Orders) /\ Len(toMega') = Len(toMega) - 1
          /\ \A i \in 1 .. Len(toMega) - 1 : toMega'[i] = toMega[i + 1]
          /\ Queue' \subseteq Queue
      BY <1>0, <2>2, ContentTail DEF Queue
    <3>2. port # "dying" BY <2>2 DEF IInv, Wire
    <3>3. ASSUME NEW i \in 1 .. Len(toMega'), NEW j \in 1 .. Len(toMega'),
                 toMega'[i].seq = toMega'[j].seq
          PROVE  i = j
      <4>1. /\ i + 1 \in 1 .. Len(toMega) /\ j + 1 \in 1 .. Len(toMega)
            /\ toMega[i + 1].seq = toMega[j + 1].seq
        BY <1>0, <3>1, <3>3
      <4>2. i + 1 = j + 1 BY <4>1 DEF IInv, Wire
      <4> QED BY <4>2
    <3> QED BY <3>1, <3>2, <3>3
  <2> QED BY <2>1, <2>2 DEF LoseFrame
<1>4. Heard' \subseteq Heard BY <1>1, <1>2 DEF Heard
<1>5. /\ OneEach' /\ Engaged' /\ Stored'
      /\ \A g \in Goals : awaits'[g] \in {awaits[g], 0}
      /\ \A g \in Goals : outcome'[g] = "success" => outcome[g] = "success"
  BY <1>1, GoalsKept
<1>6. Numbered(mega, Queue, Heard)' BY <1>1, <1>2, <1>3, <1>4, NumberedLess
<1>7. OffsetsKnown(mega, Queue, Heard)' BY <1>1, <1>2, <1>3, <1>4, OffsetsLess
<1>8. Books(mega, Queue, Heard, begun, finished)' BY <1>1, <1>2, <1>3, <1>4, <1>5, BooksLess
<1>9. TypeOK'
  <2>1. (\A e \in events : Awaited(e))' BY <1>1, AwaitedKept
  <2> QED BY <1>1, <1>2, <1>3, <2>1 DEF IInv, TypeOK, Orders
<1>10. Wire' BY <1>1, <1>2, <1>3 DEF IInv, Wire
<1>11. Steps' BY <1>1 DEF IInv, Steps
<1>12. Mirrored' BY <1>1 DEF IInv, Mirrored
<1> QED BY <1>5, <1>6, <1>7, <1>8, <1>9, <1>10, <1>11, <1>12 DEF IInv

\* The board starts anew.
LEMMA BrownoutIInv ==
    ASSUME IInv, Brownout
    PROVE  IInv'
<1>0. /\ mega \in MegaType /\ mega.tx \in Seq(Frames) /\ sequence \in Nat
      /\ Heard \subseteq Frames
  BY LinkTypes
<1>1. /\ UNCHANGED <<port, sequence, events, init, latest, session, ready, believed, mirror>>
      /\ UNCHANGED <<actuator_command, pc, awaits, outcome, store, begun, finished>>
      /\ trouble \subseteq trouble' /\ "brownout" \in trouble' /\ toMega' = <<>>
  BY DEF Brownout, Trouble, nodeVars, goalVars, masterVars, armVars
<1>2. /\ mega' \in MegaType /\ mega'.servo = "READY" /\ mega'.pending = 0
      /\ mega'.reported = None
      /\ mega'.tx = <<>> \/ mega'.tx = mega.tx
  <2>1. CASE mega' = Boot BY <2>1, BootType
  <2>2. CASE mega' = [Boot EXCEPT !.tx = mega.tx]
    <3> DEFINE n == WithTx(Boot, mega.tx)
    <3>1. mega' = n BY <2>2 DEF WithTx
    <3>2. /\ n \in MegaType /\ n.tx = mega.tx /\ n.servo = Boot.servo
          /\ n.pending = Boot.pending /\ n.reported = Boot.reported
      BY <1>0, BootType, TxChange
    <3> HIDE DEF n
    <3> QED BY <3>1, <3>2, BootType
  <2> QED BY <2>1, <2>2 DEF Brownout
<1>3. Content(<<>>) = {} BY DEF Content
<1>4. Heard' \subseteq Heard /\ Queue' = {} BY <1>1, <1>2, <1>3 DEF Heard, Queue
<1>5. /\ OneEach' /\ Engaged' /\ Stored'
      /\ \A g \in Goals : awaits'[g] \in {awaits[g], 0}
      /\ \A g \in Goals : outcome'[g] = "success" => outcome[g] = "success"
  BY <1>1, GoalsKept
<1>6. Numbered(mega, Queue, Heard)'
  <2>1. \A f \in Heard' : f \in Heard BY <1>4
  <2> HIDE DEF Heard, Queue
  <2> QED BY <1>0, <1>1, <1>2, <1>4, <2>1 DEF IInv, Numbered
<1>7. OffsetsKnown(mega, Queue, Heard)' BY <1>1 DEF OffsetsKnown
<1>8. Books(mega, Queue, Heard, begun, finished)' BY <1>1, <1>2, <1>4, <1>5, BooksLess
<1>9. TypeOK'
  <2>1. (\A e \in events : Awaited(e))' BY <1>1, AwaitedKept
  <2> QED BY <1>1, <1>2, <2>1 DEF IInv, TypeOK
<1>10. Wire'
  <2>1. port # "open" => mega'.tx = <<>> BY <1>2 DEF IInv, Wire
  <2> QED BY <1>1, <2>1 DEF IInv, Wire
<1>11. Steps' BY <1>1 DEF IInv, Steps
<1>12. Mirrored' BY <1>1, <1>2 DEF IInv, Mirrored
<1> QED BY <1>5, <1>6, <1>7, <1>8, <1>9, <1>10, <1>11, <1>12 DEF IInv

\* A board whose frames are lost.
LEMMA FramesDropped ==
    ASSUME IInv, mega' = [mega EXCEPT !.tx = <<>>]
    PROVE  /\ mega' \in MegaType /\ mega'.tx = <<>> /\ mega'.belt = mega.belt
           /\ mega'.offset = mega.offset /\ mega'.servo = mega.servo
           /\ mega'.pending = mega.pending
           /\ Content(mega'.tx) = {}
<1>1. mega \in MegaType /\ <<>> \in Seq(Frames) BY LinkTypes
<1> DEFINE n == WithTx(mega, <<>>)
<1>2. mega' = n BY DEF WithTx
<1>3. /\ n \in MegaType /\ n.tx = <<>> /\ n.belt = mega.belt /\ n.offset = mega.offset
      /\ n.servo = mega.servo /\ n.pending = mega.pending
  BY <1>1, TxChange
<1> HIDE DEF n
<1>4. Content(<<>>) = {} BY DEF Content
<1> QED BY <1>2, <1>3, <1>4

\* _read_mega, when the port goes.
LEMMA LosesPortIInv ==
    ASSUME IInv, ReaderLosesPort
    PROVE  IInv'
<1>0. mega \in MegaType /\ sequence \in Nat BY LinkTypes
<1>1. /\ UNCHANGED <<sequence, events, init, latest, session, ready, believed, mirror>>
      /\ UNCHANGED <<actuator_command, pc, awaits, outcome, store, begun, finished>>
      /\ trouble \subseteq trouble' /\ toMega' = <<>> /\ port = "open" /\ port' = "dying"
      /\ mega' = [mega EXCEPT !.tx = <<>>]
  BY DEF ReaderLosesPort, Trouble, nodeVars, goalVars, masterVars, armVars
<1>2. /\ mega' \in MegaType /\ mega'.tx = <<>> /\ mega'.belt = mega.belt
      /\ mega'.offset = mega.offset /\ mega'.servo = mega.servo
      /\ mega'.pending = mega.pending
      /\ Content(mega'.tx) = {}
  BY <1>1, FramesDropped
<1>3. Content(<<>>) = {} BY DEF Content
<1>4. Heard' \subseteq Heard /\ Queue' \subseteq Queue BY <1>1, <1>2, <1>3 DEF Heard, Queue
<1>5. /\ OneEach' /\ Engaged' /\ Stored'
      /\ \A g \in Goals : awaits'[g] \in {awaits[g], 0}
      /\ \A g \in Goals : outcome'[g] = "success" => outcome[g] = "success"
  BY <1>1, GoalsKept
<1>6. Numbered(mega, Queue, Heard)' BY <1>1, <1>2, <1>4, NumberedLess
<1>7. OffsetsKnown(mega, Queue, Heard)' BY <1>1, <1>2, <1>4, OffsetsLess
<1>8. Books(mega, Queue, Heard, begun, finished)' BY <1>1, <1>2, <1>4, <1>5, BooksLess
<1>9. TypeOK'
  <2>1. (\A e \in events : Awaited(e))' BY <1>1, AwaitedKept
  <2>2. mega'.pending # 0 <=> mega'.servo # "READY" BY <1>2 DEF IInv, TypeOK
  <2> QED BY <1>1, <1>2, <2>1, <2>2 DEF IInv, TypeOK
<1>10. Wire' BY <1>1, <1>2 DEF IInv, Wire
<1>11. Steps' BY <1>1 DEF IInv, Steps
<1>12. Mirrored' BY <1>1 DEF IInv, Mirrored
<1> QED BY <1>5, <1>6, <1>7, <1>8, <1>9, <1>10, <1>11, <1>12 DEF IInv

-----------------------------------------------------------------------------
(* Control, without the line. *)

\* What is said of the board, the orders and the answers when neither they, nor the
\* goals, nor the port's life change.
LEMMA HostStep ==
    ASSUME IInv, UNCHANGED <<mega, toMega, sequence, trouble>>,
           UNCHANGED <<actuator_command, pc, awaits, outcome, store, begun, finished>>,
           events' \subseteq events, port' # "closed" => port # "closed",
           (believed' /\ session') \/ init'.step = "adopt"
               => (believed /\ session) \/ init.step = "adopt",
           init'.step = "handshake" => init' = init
    PROVE  /\ Numbered(mega, Queue, Heard)' /\ OffsetsKnown(mega, Queue, Heard)'
           /\ Books(mega, Queue, Heard, begun, finished)'
           /\ OneEach' /\ Engaged' /\ Stored'
<1>1. Heard' \subseteq Heard /\ Queue' = Queue BY DEF Heard, Queue
<1>2. /\ OneEach' /\ Engaged' /\ Stored'
      /\ \A g \in Goals : awaits'[g] \in {awaits[g], 0}
      /\ \A g \in Goals : outcome'[g] = "success" => outcome[g] = "success"
  BY GoalsKept
<1>3. Numbered(mega, Queue, Heard)' BY <1>1, NumberedLess
<1>4. OffsetsKnown(mega, Queue, Heard)' BY <1>1, OffsetsLess
<1>5. Books(mega, Queue, Heard, begun, finished)' BY <1>1, <1>2, BooksLess
<1> QED BY <1>2, <1>3, <1>4, <1>5

\* The end of _read_mega.
LEMMA ReaderEndsIInv ==
    ASSUME IInv, ReaderEnds
    PROVE  IInv'
<1>1. /\ UNCHANGED <<mega, toMega, sequence, events, init, latest, session, believed, mirror>>
      /\ UNCHANGED <<actuator_command, pc, awaits, outcome, store, begun, finished, trouble>>
      /\ port = "dying" /\ port' = "closed" /\ ready' = FALSE
  BY DEF ReaderEnds, goalVars, masterVars, armVars
<1>2. /\ Numbered(mega, Queue, Heard)' /\ OffsetsKnown(mega, Queue, Heard)'
      /\ Books(mega, Queue, Heard, begun, finished)'
      /\ OneEach' /\ Engaged' /\ Stored'
  BY <1>1, HostStep
<1>3. TypeOK'
  <2>1. (\A e \in events : Awaited(e))' BY <1>1, AwaitedKept
  <2> QED BY <1>1, <2>1 DEF IInv, TypeOK
<1>4. Wire' BY <1>1 DEF IInv, Wire
<1>5. Steps' BY <1>1 DEF IInv, Steps
<1>6. Mirrored' BY <1>1 DEF IInv, Mirrored
<1> QED BY <1>2, <1>3, <1>4, <1>5, <1>6 DEF IInv

\* A heartbeat of a Control that is not READY.
LEMMA NoticesIInv ==
    ASSUME IInv, MasterNotices
    PROVE  IInv'
<1>1. /\ UNCHANGED <<mega, toMega, sequence, events, init, latest, session, ready, mirror, port>>
      /\ UNCHANGED <<actuator_command, pc, awaits, outcome, store, begun, finished, trouble>>
      /\ believed' = FALSE
  BY DEF MasterNotices, goalVars, nodeVars, armVars
<1>2. /\ Numbered(mega, Queue, Heard)' /\ OffsetsKnown(mega, Queue, Heard)'
      /\ Books(mega, Queue, Heard, begun, finished)'
      /\ OneEach' /\ Engaged' /\ Stored'
  BY <1>1, HostStep
<1>3. TypeOK'
  <2>1. (\A e \in events : Awaited(e))' BY <1>1, AwaitedKept
  <2> QED BY <1>1, <2>1 DEF IInv, TypeOK
<1>4. Wire' BY <1>1 DEF IInv, Wire
<1>5. Steps' BY <1>1 DEF IInv, Steps
<1>6. Mirrored' BY <1>1 DEF IInv, Mirrored, Told
<1> QED BY <1>2, <1>3, <1>4, <1>5, <1>6 DEF IInv

\* A handshake without an answer.
LEMMA AckTimesOutIInv ==
    ASSUME IInv, AckTimesOut
    PROVE  IInv'
<1>1. /\ UNCHANGED <<mega, toMega, sequence, events, latest, session, believed, mirror, port>>
      /\ UNCHANGED <<actuator_command, pc, awaits, outcome, store, begun, finished, trouble>>
      /\ init' = Idle /\ ready' = FALSE /\ ~Answerable("ACK", init.seq)
      /\ init.step = "handshake"
  BY DEF AckTimesOut, Blocked, goalVars, masterVars, armVars
<1>2. Idle.step = "idle" /\ Idle.belt = 0 /\ Idle.seq = 0 BY DEF Idle
<1>3. /\ Numbered(mega, Queue, Heard)' /\ OffsetsKnown(mega, Queue, Heard)'
      /\ Books(mega, Queue, Heard, begun, finished)'
      /\ OneEach' /\ Engaged' /\ Stored'
  BY <1>1, <1>2, HostStep
<1>4. TypeOK'
  <2>1. \A e \in events' : ~(e.kind = "ACK" /\ e.seq = init.seq) BY <1>1 DEF Answerable
  <2>2. (\A e \in events : Awaited(e))' BY <1>1, <2>1, AwaitedKept
  <2>3. sequence \in Nat BY LinkTypes
  <2>4. /\ init'.step \in {"idle", "handshake", "adopt"} /\ init'.belt \in 0 .. 2
        /\ init'.seq \in 0 .. sequence'
    BY <1>1, <1>2, <2>3
  <2>5. ready' \in BOOLEAN /\ (ready' => session') BY <1>1
  <2> QED BY <1>1, <2>2, <2>4, <2>5 DEF IInv, TypeOK
<1>5. Wire' BY <1>1 DEF IInv, Wire
<1>6. Steps' BY <1>1, <1>2 DEF IInv, Steps
<1>7. Mirrored' BY <1>1 DEF IInv, Mirrored, Told
<1> QED BY <1>3, <1>4, <1>5, <1>6, <1>7 DEF IInv

\* The end of _execute_initialize.
LEMMA AdoptIInv ==
    ASSUME IInv, Adopt
    PROVE  IInv'
<1>1. /\ UNCHANGED <<mega, toMega, sequence, events, port>>
      /\ UNCHANGED <<actuator_command, pc, awaits, outcome, store, begun, finished, trouble>>
      /\ init' = Idle /\ init.step = "adopt"
      /\ session' = TRUE /\ ready' = TRUE /\ believed' = TRUE
      /\ latest' = latest
      /\ latest # None => mirror' = latest
  BY DEF Adopt, Published, goalVars, armVars
<1>2. Idle.step = "idle" /\ Idle.belt = 0 /\ Idle.seq = 0 BY DEF Idle
<1>3. /\ Numbered(mega, Queue, Heard)' /\ OffsetsKnown(mega, Queue, Heard)'
      /\ Books(mega, Queue, Heard, begun, finished)'
      /\ OneEach' /\ Engaged' /\ Stored'
  BY <1>1, <1>2, HostStep
<1>4. TypeOK'
  <2>1. sequence \in Nat BY LinkTypes
  <2>2. init.seq = 0 /\ \A e \in events' : e.seq # 0
    BY <1>1, <2>1 DEF IInv, Steps, Wire
  <2>3. (\A e \in events : Awaited(e))' BY <1>1, <2>2, AwaitedKept
  <2> QED BY <1>1, <1>2, <2>1, <2>3 DEF IInv, TypeOK
<1>5. Wire' BY <1>1 DEF IInv, Wire
<1>6. Steps' BY <1>1, <1>2 DEF IInv, Steps
<1>7. Mirrored' BY <1>1 DEF IInv, Mirrored, Told
<1> QED BY <1>3, <1>4, <1>5, <1>6, <1>7 DEF IInv

\* Control starts anew.
LEMMA RestartIInv ==
    ASSUME IInv, Restart
    PROVE  IInv'
<1>1. /\ UNCHANGED <<toMega, actuator_command, awaits, believed, mirror, begun, finished>>
      /\ port' = "closed" /\ sequence' = 0 /\ events' = {} /\ latest' = None /\ init' = Idle
      /\ session' = FALSE /\ ready' = FALSE /\ store' = <<>>
      /\ pc' = [g \in Goals |-> IF pc[g] = "waiting" THEN "done" ELSE pc[g]]
      /\ outcome' = [g \in Goals |-> IF pc[g] = "waiting" THEN "lost" ELSE outcome[g]]
      /\ trouble \subseteq trouble' /\ "restart" \in trouble'
      /\ mega' = [mega EXCEPT !.tx = <<>>]
  BY DEF Restart, Trouble, masterVars, armVars
<1>2. /\ mega' \in MegaType /\ mega'.tx = <<>> /\ mega'.belt = mega.belt
      /\ mega'.offset = mega.offset /\ mega'.servo = mega.servo
      /\ mega'.pending = mega.pending
      /\ Content(mega'.tx) = {}
  BY <1>1, FramesDropped
<1>3. Idle.step = "idle" /\ Idle.belt = 0 /\ Idle.seq = 0 BY DEF Idle
<1>4. Heard' = {} /\ Queue' = Queue BY <1>1, <1>2 DEF Heard, Queue
<1>5. /\ \A g \in Goals : awaits'[g] \in {awaits[g], 0}
      /\ \A g \in Goals : outcome'[g] = "success" => outcome[g] = "success"
  BY <1>1
<1>6. Numbered(mega, Queue, Heard)'
  <2> HIDE DEF Heard, Queue
  <2> QED BY <1>1, <1>2, <1>4 DEF IInv, Numbered
<1>7. OffsetsKnown(mega, Queue, Heard)' BY <1>1, <1>2, <1>3, <1>4, OffsetsLess
<1>8. Books(mega, Queue, Heard, begun, finished)' BY <1>1, <1>2, <1>4, <1>5, BooksLess
<1>9. TypeOK'
  <2>1. mega'.pending # 0 <=> mega'.servo # "READY" BY <1>2 DEF IInv, TypeOK
  <2>2. /\ pc' \in [Goals -> {"unsent", "waiting", "done"}]
        /\ outcome' \in [Goals -> {"none", "rejected", "failed", "raised", "lost", "success"}]
    BY <1>1 DEF IInv, TypeOK
  <2>3. Len(store') <= StoreCapacity BY <1>1, StoreAssumption
  <2>4. sequence' \in 0 .. MaxSequence BY <1>1, LinkAssumption
  <2>5. /\ init'.step \in {"idle", "handshake", "adopt"} /\ init'.belt \in 0 .. 2
        /\ init'.seq \in 0 .. sequence'
    BY <1>1, <1>3
  <2>6. /\ session' \in BOOLEAN /\ ready' \in BOOLEAN /\ (ready' => session')
        /\ port' \in {"open", "dying", "closed"} /\ \A e \in events' : Awaited(e)'
    BY <1>1
  <2> QED BY <1>1, <1>2, <2>1, <2>2, <2>3, <2>4, <2>5, <2>6 DEF IInv, TypeOK
<1>10. Wire' BY <1>1, <1>2 DEF IInv, Wire
<1>11. Steps'
  <2>1. \A g \in Goals : pc'[g] = "done" <=> outcome'[g] # "none"
    BY <1>1 DEF IInv, Steps
  <2> QED BY <1>1, <1>3, <2>1 DEF IInv, Steps
<1>12. Mirrored' BY <1>1 DEF Mirrored
<1>13. OneEach' BY <1>1 DEF IInv, OneEach
<1>14. Engaged'
  <2>1. ASSUME NEW c \in Commands, Begun(c)'
        PROVE  \E g \in Goals : /\ CommandOf[g] = c
                                /\ \/ pc'[g] = "waiting"
                                   \/ outcome'[g] \in {"failed", "success", "lost"}
    <3>1. Begun(c) BY <1>1, <2>1 DEF Begun
    <3>2. PICK g \in Goals : /\ CommandOf[g] = c
                             /\ pc[g] = "waiting" \/ outcome[g] \in {"failed", "success", "lost"}
      BY <3>1 DEF IInv, Engaged
    <3>3. outcome'[g] \in {"failed", "success", "lost"} BY <1>1, <3>2
    <3> QED BY <3>2, <3>3
  <2> QED BY <1>1, <2>1 DEF Engaged, Commands
<1>15. Stored' BY <1>1 DEF Stored
<1> QED BY <1>6, <1>7, <1>8, <1>9, <1>10, <1>11, <1>12, <1>13, <1>14, <1>15 DEF IInv

-----------------------------------------------------------------------------
(* Control, on the line. *)

\* The number of a write is new to everybody.
LEMMA NumberedMore ==
    ASSUME IInv, port = "open", UNCHANGED <<mega, port>>, sequence' \in Nat,
           sequence <= sequence', Heard' \subseteq Heard,
           \A f \in Queue' : f \in Queue \/ (WellFormed(f) /\ f.seq <= sequence')
    PROVE  Numbered(mega, Queue, Heard)'
<1>1. Numbered(mega, Queue, Heard) BY DEF IInv
<1>2. /\ sequence \in Nat /\ mega \in MegaType /\ Queue \subseteq Orders /\ mega.pending \in Nat
  BY LinkTypes, LinkAssumption DEF MegaType
<1>3. \A f \in Queue : f.seq \in Nat BY <1>2, LinkAssumption DEF Orders
<1>4. \A f \in Heard' : f \in Heard OBVIOUS
<1> HIDE DEF Queue, Heard
<1>5. mega'.pending <= sequence' BY <1>1, <1>2 DEF Numbered
<1>6. \A f \in Queue' : f.seq <= sequence' BY <1>1, <1>2, <1>3 DEF Numbered
<1>7. \A f \in Heard' : f.kind \in {"ACK", "ACTUATION"} => f.seq \in 1 .. sequence'
  BY <1>1, <1>2, <1>4 DEF Numbered
<1>8. \A f \in Queue' : WellFormed(f) BY <1>1 DEF Numbered
<1>9. Heard' \subseteq Frames /\ \A f \in Heard' : f.kind = "ACTUATION" => f = Actuated(f.seq)
  BY <1>1, <1>4 DEF Numbered
<1> QED BY <1>1, <1>5, <1>6, <1>7, <1>8, <1>9 DEF Numbered

\* No goal waits for it.
LEMMA NewNumber ==
    ASSUME IInv, port = "open", NEW n, n > sequence, n \in Nat
    PROVE  \A g \in Goals : awaits[g] # n
<1>1. sequence \in Nat BY LinkTypes
<1>2. \A g \in Goals : awaits[g] \in Nat /\ awaits[g] <= sequence
  BY LinkAssumption DEF IInv, Wire, TypeOK
<1> QED BY <1>1, <1>2

\* One order more.
LEMMA OrderSent ==
    ASSUME IInv, port = "open", NEW o \in Orders, o.seq = sequence + 1,
           toMega' = Append(toMega, o)
    PROVE  /\ toMega' \in Seq(Orders) /\ Queue' = Queue \cup {o}
           /\ \A i, j \in 1 .. Len(toMega') : toMega'[i].seq = toMega'[j].seq => i = j
<1>1. toMega \in Seq(Orders) /\ sequence \in Nat BY LinkTypes
<1>2. Content(toMega') = Content(toMega) \cup {o} BY <1>1, ContentAppend
<1>3. /\ toMega' \in Seq(Orders) /\ Len(toMega') = Len(toMega) + 1 /\ Len(toMega) \in Nat
      /\ \A i \in 1 .. Len(toMega) : toMega'[i] = toMega[i]
      /\ toMega'[Len(toMega) + 1] = o
  BY <1>1
<1>4. \A i \in 1 .. Len(toMega) : toMega[i].seq # sequence + 1
  <2>1. \A f \in Queue : f.seq \in Nat BY <1>1, LinkTypes, LinkAssumption DEF Orders
  <2>2. \A f \in Queue : f.seq <= sequence BY DEF IInv, Numbered
  <2>3. \A f \in Queue : f.seq # sequence + 1 BY <1>1, <2>1, <2>2
  <2> QED BY <2>3 DEF Queue, Content
<1>5. ASSUME NEW i \in 1 .. Len(toMega'), NEW j \in 1 .. Len(toMega'),
             toMega'[i].seq = toMega'[j].seq
      PROVE  i = j
  <2>1. i \in 1 .. Len(toMega) \/ i = Len(toMega) + 1 BY <1>3
  <2>2. j \in 1 .. Len(toMega) \/ j = Len(toMega) + 1 BY <1>3
  <2>3. \A k, l \in 1 .. Len(toMega) : toMega[k].seq = toMega[l].seq => k = l
    BY DEF IInv, Wire
  <2> QED BY <1>3, <1>4, <1>5, <2>1, <2>2, <2>3
<1> QED BY <1>2, <1>3, <1>5 DEF Queue

\* What a write says of the numbers, the books and the wire.
LEMMA WriteStep ==
    ASSUME IInv, port = "open", UNCHANGED <<mega, port>>,
           UNCHANGED <<actuator_command, pc, awaits, outcome, begun, finished>>,
           sequence' \in Nat, sequence <= sequence', events' \subseteq events,
           \A i, j \in 1 .. Len(toMega') : toMega'[i].seq = toMega'[j].seq => i = j,
           \A f \in Queue' : f \in Queue
               \/ (WellFormed(f) /\ f.seq \in Nat /\ f.seq > sequence /\ f.seq <= sequence')
    PROVE  /\ Numbered(mega, Queue, Heard)' /\ Wire'
           /\ Books(mega, Queue, Heard, begun, finished)'
           /\ \A g \in Goals : pc'[g] = "waiting" => awaits'[g] \in 1 .. sequence'
<1>1. sequence \in Nat BY LinkTypes
<1>2. Heard' \subseteq Heard BY DEF Heard
<1>3. Numbered(mega, Queue, Heard)'
  <2>1. \A f \in Queue' : f \in Queue \/ (WellFormed(f) /\ f.seq <= sequence') OBVIOUS
  <2> QED BY <1>2, <2>1, NumberedMore
<1>4. Books(mega, Queue, Heard, begun, finished)'
  <2>1. ASSUME NEW f \in Queue', f \notin Queue PROVE \A g \in Goals : awaits'[g] # f.seq
    <3>1. f.seq \in Nat /\ f.seq > sequence BY <2>1
    <3> QED BY <3>1, NewNumber
  <2>2. \A f \in Queue' : f \in Queue \/ \A g \in Goals : awaits'[g] # f.seq BY <2>1
  <2>3. \A g \in Goals : awaits'[g] \in {awaits[g], 0} OBVIOUS
  <2> QED BY <1>2, <2>2, <2>3, BooksKept
<1>5. Wire'
  <2>1. \A e \in events' : e.seq \in 1 .. sequence' BY <1>1 DEF IInv, Wire
  <2>2. \A g \in Goals : awaits'[g] <= sequence'
    <3>1. \A g \in Goals : awaits[g] \in Nat /\ awaits[g] <= sequence
      BY <1>1, LinkAssumption DEF IInv, Wire, TypeOK
    <3> QED BY <1>1, <3>1
  <2> QED BY <2>1, <2>2 DEF IInv, Wire
<1>6. \A g \in Goals : pc'[g] = "waiting" => awaits'[g] \in 1 .. sequence'
  BY <1>1 DEF IInv, Steps
<1> QED BY <1>3, <1>4, <1>5, <1>6

\* The next offset is one that is left, the first of them.
LEMMA NextOffsetIs ==
    ASSUME OffsetsLeft # {}
    PROVE  /\ NextOffset \in OffsetsLeft /\ NextOffset \in Belts /\ NextOffset \in {1, 2}
           /\ \A d \in OffsetsLeft : NextOffset <= d
<1>1. OffsetsLeft \subseteq Belts /\ OffsetsLeft \subseteq {1, 2}
  BY LinkAssumption DEF OffsetsLeft
<1>2. \E b \in OffsetsLeft : \A d \in OffsetsLeft : b <= d
  <2>1. CASE 1 \in OffsetsLeft BY <1>1, <2>1
  <2>2. CASE 1 \notin OffsetsLeft
    <3>1. \A d \in OffsetsLeft : d = 2 BY <1>1, <2>2
    <3>2. 2 \in OffsetsLeft BY <3>1
    <3>3. \A d \in OffsetsLeft : 2 <= d BY <3>1
    <3> QED BY <3>2, <3>3
  <2> QED BY <2>1, <2>2
<1> QED BY <1>1, <1>2 DEF NextOffset

\* HELLO or SET_OFFSET has been acknowledged.
LEMMA AckedIInv ==
    ASSUME IInv, Acked
    PROVE  IInv'
<1>0. /\ mega \in MegaType /\ sequence \in Nat /\ Heard \subseteq Frames
      /\ toMega \in Seq(Orders) /\ Belts \subseteq {1, 2} /\ MaxSequence \in Nat
  BY LinkTypes, LinkAssumption
<1>1. /\ UNCHANGED <<mega, port, latest, session, believed, mirror>>
      /\ UNCHANGED <<actuator_command, pc, awaits, outcome, store, begun, finished, trouble>>
      /\ init.step = "handshake" /\ events' \subseteq events
      /\ \A e \in events' : ~(e.kind = "ACK" /\ e.seq = init.seq)
      /\ \E e \in events : e.kind = "ACK" /\ e.seq = init.seq
  BY DEF Acked, Received, goalVars, masterVars, armVars
<1>2. /\ \/ OffsetsLeft = {} /\ init' = Adopting /\ UNCHANGED <<sequence, toMega, ready>>
         \/ /\ OffsetsLeft # {} /\ port = "open" /\ Write("SET_OFFSET", NextOffset)
            /\ init' = Waiting(NextOffset, sequence + 1) /\ UNCHANGED ready
         \/ init' = Idle /\ ready' = FALSE /\ UNCHANGED <<sequence, toMega>>
  BY DEF Acked, Blocked
<1>3. (\A e \in events : Awaited(e))' BY <1>1, AwaitedKept
<1>4. Heard' \subseteq Heard BY <1>1 DEF Heard
<1>5. /\ OneEach' /\ Engaged' /\ Stored'
      /\ \A g \in Goals : awaits'[g] \in {awaits[g], 0}
      /\ \A g \in Goals : outcome'[g] = "success" => outcome[g] = "success"
  BY <1>1, GoalsKept
<1>6. ~believed /\ init.seq # 0 BY <1>1 DEF IInv, Steps
<1>7. ASSUME "brownout" \notin trouble, NEW b \in Belts, ~(b > init.belt)
      PROVE  mega.offset[b]
  <2>1. Acknowledged(Heard, init.seq) BY <1>1 DEF Acknowledged, Heard
  <2>2. /\ \A d \in Belts : d < init.belt => mega.offset[d]
        /\ init.belt # 0 => mega.offset[init.belt]
    BY <1>1, <1>7, <2>1 DEF IInv, OffsetsKnown
  <2>3. init.belt \in 0 .. 2 /\ b \in {1, 2} BY <1>0 DEF IInv, TypeOK
  <2> QED BY <1>7, <2>2, <2>3
<1>8. Mirrored' BY <1>1 DEF IInv, Mirrored, Told
<1>9. CASE OffsetsLeft = {} /\ init' = Adopting /\ UNCHANGED <<sequence, toMega, ready>>
  <2>1. Adopting.step = "adopt" /\ Adopting.belt = 0 /\ Adopting.seq = 0 BY DEF Adopting
  <2>2. Queue' = Queue BY <1>9 DEF Queue
  <2>3. Numbered(mega, Queue, Heard)' BY <1>1, <1>4, <1>9, <2>2, NumberedLess
  <2>4. Books(mega, Queue, Heard, begun, finished)' BY <1>1, <1>4, <1>5, <2>2, BooksLess
  <2>5. OffsetsKnown(mega, Queue, Heard)'
    <3>1. "brownout" \notin trouble => AllOffsets(mega) BY <1>7, <1>9 DEF AllOffsets, OffsetsLeft
    <3>2. OffsetsKnown(mega, Queue, Heard) BY DEF IInv
    <3> HIDE DEF Heard, Queue
    <3> QED BY <1>1, <1>9, <2>1, <2>2, <3>1, <3>2 DEF OffsetsKnown, AllOffsets
  <2>6. TypeOK'
    <3>1. /\ init'.step \in {"idle", "handshake", "adopt"} /\ init'.belt \in 0 .. 2
          /\ init'.seq \in 0 .. sequence'
      BY <1>0, <1>9, <2>1
    <3> QED BY <1>1, <1>3, <1>9, <3>1 DEF IInv, TypeOK
  <2>7. Wire' BY <1>1, <1>9 DEF IInv, Wire
  <2>8. Steps' BY <1>1, <1>6, <1>9, <2>1 DEF IInv, Steps
  <2> QED BY <1>5, <1>8, <2>3, <2>4, <2>5, <2>6, <2>7, <2>8 DEF IInv
<1>10. CASE init' = Idle /\ ready' = FALSE /\ UNCHANGED <<sequence, toMega>>
  <2>1. Idle.step = "idle" /\ Idle.belt = 0 /\ Idle.seq = 0 BY DEF Idle
  <2>2. /\ Numbered(mega, Queue, Heard)' /\ OffsetsKnown(mega, Queue, Heard)'
        /\ Books(mega, Queue, Heard, begun, finished)'
    BY <1>1, <1>10, <2>1, HostStep
  <2>3. TypeOK'
    <3>1. /\ init'.step \in {"idle", "handshake", "adopt"} /\ init'.belt \in 0 .. 2
          /\ init'.seq \in 0 .. sequence'
      BY <1>0, <1>10, <2>1
    <3>2. ready' \in BOOLEAN /\ (ready' => session') BY <1>10
    <3> QED BY <1>1, <1>3, <1>10, <3>1, <3>2 DEF IInv, TypeOK
  <2>4. Wire' BY <1>1, <1>10 DEF IInv, Wire
  <2>5. Steps' BY <1>1, <1>6, <1>10, <2>1 DEF IInv, Steps
  <2> QED BY <1>5, <1>8, <2>2, <2>3, <2>4, <2>5 DEF IInv
<1>11. CASE /\ OffsetsLeft # {} /\ port = "open" /\ Write("SET_OFFSET", NextOffset)
            /\ init' = Waiting(NextOffset, sequence + 1) /\ UNCHANGED ready
  <2> DEFINE o == Frame(sequence + 1, "SET_OFFSET", NextOffset)
  <2>1. /\ NextOffset \in OffsetsLeft /\ NextOffset \in Belts /\ NextOffset \in {1, 2}
        /\ \A d \in OffsetsLeft : NextOffset <= d
    BY <1>11, NextOffsetIs
  <2>2. /\ sequence < MaxSequence /\ sequence' = sequence + 1 /\ toMega' = Append(toMega, o)
    BY <1>11 DEF Write
  <2>3. /\ init'.step = "handshake" /\ init'.belt = NextOffset /\ init'.seq = sequence + 1
    BY <1>11 DEF Waiting
  <2>4. /\ o \in Orders /\ o.seq = sequence + 1 /\ o.op = "SET_OFFSET" /\ o.arg = NextOffset
    BY <1>0, <2>1, <2>2 DEF Orders, Frame
  <2> HIDE DEF o
  <2>5. /\ toMega' \in Seq(Orders) /\ Queue' = Queue \cup {o}
        /\ \A i, j \in 1 .. Len(toMega') : toMega'[i].seq = toMega'[j].seq => i = j
    BY <1>11, <2>2, <2>4, OrderSent
  <2>6. WellFormed(o) BY <2>1, <2>4 DEF WellFormed
  <2>7. /\ Numbered(mega, Queue, Heard)' /\ Wire'
        /\ Books(mega, Queue, Heard, begun, finished)'
        /\ \A g \in Goals : pc'[g] = "waiting" => awaits'[g] \in 1 .. sequence'
    <3>1. \A f \in Queue' : f \in Queue
              \/ (WellFormed(f) /\ f.seq \in Nat /\ f.seq > sequence /\ f.seq <= sequence')
      BY <1>0, <2>2, <2>4, <2>5, <2>6
    <3>2. sequence' \in Nat /\ sequence <= sequence' BY <1>0, <2>2
    <3> QED BY <1>1, <1>11, <2>5, <3>1, <3>2, WriteStep
  <2>8. OffsetsKnown(mega, Queue, Heard)'
    <3> SUFFICES ASSUME "brownout" \notin trouble'
                 PROVE  /\ \A b \in Belts : mega'.belt[b] = "RUNNING" => mega'.offset[b]
                        /\ \A f \in Queue' : f.op = "RUN" => mega'.offset[f.arg]
                        /\ ~believed' /\ init'.step # "adopt"
                        /\ \A b \in Belts : b < init'.belt => mega'.offset[b]
                        /\ ~Acknowledged(Heard, init.seq)'
                        /\ \A f \in Queue' : f.seq = init'.seq /\ init'.belt # 0 =>
                               f.op = "SET_OFFSET" /\ f.arg = init'.belt
      BY DEF OffsetsKnown
    <3>1. /\ \A b \in Belts : mega.belt[b] = "RUNNING" => mega.offset[b]
          /\ \A f \in Queue : f.op = "RUN" => mega.offset[f.arg]
      BY <1>1 DEF IInv, OffsetsKnown
    <3>2. \A f \in Queue' : f.op = "RUN" => mega'.offset[f.arg] BY <1>1, <2>4, <2>5, <3>1
    <3>3. ASSUME NEW b \in Belts, b < init'.belt PROVE mega'.offset[b]
      <4>1. ~(b > init.belt)
        <5>1. b \notin OffsetsLeft BY <1>0, <2>1, <2>3, <3>3
        <5> QED BY <5>1 DEF OffsetsLeft
      <4> QED BY <1>1, <1>7, <4>1
    <3>4. ~Acknowledged(Heard, init.seq)'
      <4>1. \A f \in Heard : f.kind = "ACK" => f.seq \in 1 .. sequence
        BY <1>11 DEF IInv, Numbered
      <4>2. \A f \in Heard' : f.kind = "ACK" => f.seq # sequence + 1 BY <1>0, <1>4, <4>1
      <4> QED BY <2>3, <4>2 DEF Acknowledged
    <3>5. \A f \in Queue : f.seq # sequence + 1
      <4>1. \A f \in Queue : f.seq <= sequence BY <1>11 DEF IInv, Numbered
      <4>2. \A f \in Queue : f.seq \in Nat BY LinkTypes, LinkAssumption DEF Orders
      <4> QED BY <1>0, <4>1, <4>2
    <3>6. \A f \in Queue' : f.seq = init'.seq => f.op = "SET_OFFSET" /\ f.arg = init'.belt
      BY <2>3, <2>4, <2>5, <3>5
    <3> QED BY <1>1, <1>6, <2>3, <3>1, <3>2, <3>3, <3>4, <3>6
  <2>9. TypeOK'
    <3>1. /\ init'.step \in {"idle", "handshake", "adopt"} /\ init'.belt \in 0 .. 2
          /\ init'.seq \in 0 .. sequence' /\ sequence' \in 0 .. MaxSequence
      BY <1>0, <2>1, <2>2, <2>3
    <3> QED BY <1>1, <1>3, <1>11, <2>5, <3>1 DEF IInv, TypeOK, Orders
  <2>10. Steps' BY <1>0, <1>1, <1>6, <2>1, <2>3, <2>7 DEF IInv, Steps
  <2> QED BY <1>5, <1>8, <2>7, <2>8, <2>9, <2>10 DEF IInv
<1> QED BY <1>2, <1>9, <1>10, <1>11

\* initialize_node_resources: the port and HELLO.
LEMMA HelloIInv ==
    ASSUME IInv, Hello
    PROVE  IInv'
<1>0. /\ mega \in MegaType /\ sequence \in Nat /\ Heard \subseteq Frames
      /\ toMega \in Seq(Orders) /\ Belts \subseteq {1, 2} /\ MaxSequence \in Nat
  BY LinkTypes, LinkAssumption
<1>1. /\ UNCHANGED <<events, latest, session, believed, mirror, trouble>>
      /\ UNCHANGED <<actuator_command, pc, outcome, store, begun, finished>>
      /\ init = Idle /\ ~believed
  BY DEF Hello, masterVars, armVars
<1>2. Idle.step = "idle" /\ Idle.belt = 0 /\ Idle.seq = 0 BY DEF Idle
<1>3. \A e \in events' : ~(e.kind = "ACK" /\ e.seq = init.seq) BY <1>0, <1>1, <1>2 DEF IInv, Wire
<1> DEFINE o == Frame(sequence + 1, "HELLO", 0)
<1>4. sequence < MaxSequence =>
          o \in Orders /\ o.seq = sequence + 1 /\ o.op = "HELLO" /\ WellFormed(o)
  BY <1>0 DEF Orders, Frame, WellFormed
<1>5. /\ Waiting(0, sequence + 1).step = "handshake" /\ Waiting(0, sequence + 1).belt = 0
      /\ Waiting(0, sequence + 1).seq = sequence + 1
  BY DEF Waiting
<1>6. CASE /\ port = "closed" /\ sequence < MaxSequence
           /\ port' = "open" /\ mega' = Boot /\ sequence' = sequence + 1
           /\ toMega' \in {<<>>, <<o>>}
           /\ awaits' = [g \in Goals |-> IF pc[g] = "waiting" THEN awaits[g] ELSE 0]
           /\ init' = Waiting(0, sequence + 1) /\ UNCHANGED ready
  <2> HIDE DEF o
  <2>1. /\ mega' \in MegaType /\ mega'.pending = 0 /\ mega'.servo = "READY"
        /\ mega'.reported = None /\ mega'.tx = <<>>
        /\ \A b \in Belts : mega'.belt[b] = "STOPPED"
    BY <1>6, BootType
  <2>2. Content(<<>>) = {} BY DEF Content
  <2>3. Heard' = events /\ Heard' \subseteq Heard BY <1>1, <2>1, <2>2 DEF Heard
  <2>4. /\ toMega' \in Seq(Orders) /\ \A f \in Queue' : f = o
        /\ \A i, j \in 1 .. Len(toMega') : toMega'[i].seq = toMega'[j].seq => i = j
    <3>1. CASE toMega' = <<>> BY <2>2, <3>1 DEF Queue
    <3>2. CASE toMega' = <<o>>
      <4>1. o \in Orders BY <1>4, <1>6
      <4>2. Len(toMega') = 1 /\ toMega'[1] = o /\ toMega' \in Seq(Orders) BY <3>2, <4>1
      <4>3. \A i \in 1 .. Len(toMega') : i = 1 BY <4>2
      <4> QED BY <4>2, <4>3 DEF Queue, Content
    <3> QED BY <1>6, <3>1, <3>2
  <2>5. init'.step = "handshake" /\ init'.belt = 0 /\ init'.seq = sequence + 1 BY <1>5, <1>6
  <2>6. \A g \in Goals : /\ awaits'[g] \in {awaits[g], 0} /\ awaits'[g] # sequence + 1
                         /\ awaits'[g] <= sequence'
                         /\ pc'[g] = "waiting" => awaits'[g] \in 1 .. sequence'
    <3>1. ASSUME NEW g \in Goals, pc[g] = "waiting" PROVE awaits[g] \in 1 .. sequence
      BY <3>1 DEF IInv, Steps
    <3>2. ASSUME NEW g \in Goals
          PROVE  \/ awaits'[g] = awaits[g] /\ pc[g] = "waiting"
                 \/ awaits'[g] = 0 /\ pc[g] # "waiting"
      BY <1>6
    <3> QED BY <1>0, <1>1, <1>6, <3>1, <3>2
  <2>7. Numbered(mega, Queue, Heard)'
    <3>1. \A f \in Heard' : f.kind \in {"ACK", "ACTUATION"} => f.seq \in 1 .. sequence'
      BY <1>0, <1>6, <2>3 DEF IInv, Wire
    <3>2. Heard' \subseteq Frames /\ \A f \in Heard' : f.kind = "ACTUATION" => f = Actuated(f.seq)
      BY <2>3 DEF IInv, Numbered
    <3>3. \A f \in Queue' : WellFormed(f) /\ f.seq <= sequence' BY <1>0, <1>4, <1>6, <2>4
    <3> HIDE DEF Heard, Queue
    <3> QED BY <1>0, <1>6, <2>1, <3>1, <3>2, <3>3 DEF Numbered
  <2>8. OffsetsKnown(mega, Queue, Heard)'
    <3>1. \A b \in Belts : ~(b < 0) BY <1>0
    <3>2. \A f \in Queue' : f.op # "RUN" BY <1>4, <1>6, <2>4
    <3> HIDE DEF Heard, Queue
    <3> QED BY <1>1, <2>1, <2>5, <3>1, <3>2 DEF OffsetsKnown
  <2>9. Books(mega, Queue, Heard, begun, finished)'
    <3>1. \A f \in Queue' : f \in Queue \/ \A g \in Goals : awaits'[g] # f.seq
      BY <1>4, <1>6, <2>4, <2>6
    <3>2. \A g \in Goals : awaits'[g] \in {awaits[g], 0} BY <2>6
    <3> QED BY <1>1, <2>1, <2>3, <3>1, <3>2, BooksKept
  <2>10. TypeOK'
    <3>1. /\ init'.step \in {"idle", "handshake", "adopt"} /\ init'.belt \in 0 .. 2
          /\ init'.seq \in 0 .. sequence' /\ sequence' \in 0 .. MaxSequence
      BY <1>0, <1>6, <2>5
    <3>2. awaits' \in [Goals -> 0 .. MaxSequence] BY <1>0, <1>6 DEF IInv, TypeOK
    <3>3. ASSUME NEW e \in events' PROVE Awaited(e)'
      <4>1. Awaited(e) BY <1>1, <3>3 DEF IInv, TypeOK
      <4>2. e.kind = "ACTUATION" /\ \E g \in Goals : pc[g] = "waiting" /\ awaits[g] = e.seq
        BY <1>3, <3>3, <4>1 DEF Awaited
      <4> QED BY <1>1, <1>6, <4>2 DEF Awaited
    <3> QED BY <1>1, <1>6, <2>1, <2>4, <3>1, <3>2, <3>3 DEF IInv, TypeOK, Orders
  <2>11. Wire'
    <3>1. \A e \in events' : e.seq \in 1 .. sequence' BY <1>0, <1>1, <1>6 DEF IInv, Wire
    <3> QED BY <1>1, <1>6, <2>4, <2>6, <3>1 DEF IInv, Wire
  <2>12. Steps' BY <1>0, <1>1, <2>5, <2>6 DEF IInv, Steps
  <2>13. Mirrored' BY <1>1, <2>1 DEF IInv, Mirrored
  <2>14. OneEach' BY <2>6 DEF IInv, OneEach
  <2>15. Engaged'
    <3>1. \A c \in Commands : Begun(c)' => Begun(c) BY <1>1, <2>6 DEF Begun
    <3> QED BY <1>1, <3>1 DEF IInv, Engaged, Commands
  <2>16. Stored' BY <1>1 DEF IInv, Stored, Entries, Commands
  <2> QED BY <2>7, <2>8, <2>9, <2>10, <2>11, <2>12, <2>13, <2>14, <2>15, <2>16 DEF IInv
<1>7. CASE Blocked /\ UNCHANGED <<mega, toMega, port, sequence, awaits>>
  <2>1. init' = init /\ ready' = FALSE BY <1>1, <1>7 DEF Blocked
  <2>2. /\ Numbered(mega, Queue, Heard)' /\ OffsetsKnown(mega, Queue, Heard)'
        /\ Books(mega, Queue, Heard, begun, finished)'
        /\ OneEach' /\ Engaged' /\ Stored'
    BY <1>1, <1>7, <2>1, HostStep
  <2>3. TypeOK'
    <3>1. (\A e \in events : Awaited(e))' BY <1>1, <1>7, <2>1, AwaitedKept
    <3>2. ready' \in BOOLEAN /\ (ready' => session') BY <2>1
    <3> QED BY <1>1, <1>7, <2>1, <3>1, <3>2 DEF IInv, TypeOK
  <2>4. Wire' BY <1>1, <1>7 DEF IInv, Wire
  <2>5. Steps' BY <1>1, <1>7, <2>1 DEF IInv, Steps
  <2>6. Mirrored' BY <1>1, <1>7 DEF IInv, Mirrored, Told
  <2> QED BY <2>2, <2>3, <2>4, <2>5, <2>6 DEF IInv
<1>8. CASE /\ port = "open" /\ Write("HELLO", 0) /\ init' = Waiting(0, sequence + 1)
           /\ UNCHANGED <<mega, port, awaits, ready>>
  <2>1. sequence < MaxSequence /\ sequence' = sequence + 1 /\ toMega' = Append(toMega, o)
    BY <1>8 DEF Write
  <2>2. init'.step = "handshake" /\ init'.belt = 0 /\ init'.seq = sequence + 1 BY <1>5, <1>8
  <2>3. o \in Orders /\ o.seq = sequence + 1 /\ o.op = "HELLO" /\ WellFormed(o) BY <1>4, <2>1
  <2> HIDE DEF o
  <2>4. /\ toMega' \in Seq(Orders) /\ Queue' = Queue \cup {o}
        /\ \A i, j \in 1 .. Len(toMega') : toMega'[i].seq = toMega'[j].seq => i = j
    BY <1>8, <2>1, <2>3, OrderSent
  <2>5. /\ Numbered(mega, Queue, Heard)' /\ Wire'
        /\ Books(mega, Queue, Heard, begun, finished)'
        /\ \A g \in Goals : pc'[g] = "waiting" => awaits'[g] \in 1 .. sequence'
    <3>1. \A f \in Queue' : f \in Queue
              \/ (WellFormed(f) /\ f.seq \in Nat /\ f.seq > sequence /\ f.seq <= sequence')
      BY <1>0, <2>1, <2>3, <2>4
    <3>2. sequence' \in Nat /\ sequence <= sequence' BY <1>0, <2>1
    <3> QED BY <1>1, <1>8, <2>4, <3>1, <3>2, WriteStep
  <2>6. OffsetsKnown(mega, Queue, Heard)'
    <3>1. \A b \in Belts : ~(b < 0) BY <1>0
    <3>2. OffsetsKnown(mega, Queue, Heard) BY DEF IInv
    <3> HIDE DEF Heard, Queue
    <3> QED BY <1>1, <1>8, <2>2, <2>3, <2>4, <3>1, <3>2 DEF OffsetsKnown
  <2>7. TypeOK'
    <3>1. (\A e \in events : Awaited(e))' BY <1>1, <1>3, <1>8, AwaitedKept
    <3>2. /\ init'.step \in {"idle", "handshake", "adopt"} /\ init'.belt \in 0 .. 2
          /\ init'.seq \in 0 .. sequence' /\ sequence' \in 0 .. MaxSequence
      BY <1>0, <2>1, <2>2
    <3> QED BY <1>1, <1>8, <2>4, <3>1, <3>2 DEF IInv, TypeOK, Orders
  <2>8. Steps' BY <1>0, <1>1, <1>8, <2>2, <2>5 DEF IInv, Steps
  <2>9. Mirrored' BY <1>1, <1>8 DEF IInv, Mirrored, Told
  <2>10. OneEach' /\ Engaged' /\ Stored' BY <1>1, <1>8, GoalsKept
  <2> QED BY <2>5, <2>6, <2>7, <2>8, <2>9, <2>10 DEF IInv
<1> HIDE DEF o
<1> QED BY <1>6, <1>7, <1>8 DEF Hello, o

\* The belts of a command, counted from the first.
LEMMA BeltsInOrder ==
    ASSUME NEW belts \in SUBSET {1, 2}
    PROVE  /\ Cardinality(belts) \in Nat
           /\ \A i \in 1 .. Cardinality(belts) :
                  \E b \in belts : Cardinality({d \in belts : d < b}) = i - 1
<1>1. Cardinality({}) = 0 BY FS_EmptySet
<1>2. Cardinality({1}) = 1 /\ Cardinality({2}) = 1 BY FS_Singleton
<1>3. Cardinality({1, 2}) = 2
  <2>1. IsFiniteSet({1}) BY FS_Singleton
  <2>2. {1} \cup {2} = {1, 2} /\ 2 \notin {1} OBVIOUS
  <2> QED BY <1>2, <2>1, <2>2, FS_AddElement
<1>4. CASE belts = {}
  <2>1. 1 .. 0 = {} OBVIOUS
  <2> QED BY <1>1, <1>4, <2>1
<1>5. CASE belts = {1}
  <2>1. {d \in belts : d < 1} = {} BY <1>5
  <2> QED BY <1>1, <1>2, <1>5, <2>1
<1>6. CASE belts = {2}
  <2>1. {d \in belts : d < 2} = {} BY <1>6
  <2> QED BY <1>1, <1>2, <1>6, <2>1
<1>7. CASE belts = {1, 2}
  <2>1. {d \in belts : d < 1} = {} /\ {d \in belts : d < 2} = {1} BY <1>7
  <2>2. ASSUME NEW i \in 1 .. 2 PROVE \E b \in belts : Cardinality({d \in belts : d < b}) = i - 1
    <3>1. i = 1 \/ i = 2 OBVIOUS
    <3> QED BY <1>1, <1>2, <1>7, <2>1, <3>1
  <2> QED BY <1>3, <1>7, <2>2
<1>8. belts \in {{}, {1}, {2}, {1, 2}}
  <2>1. \A b \in belts : b = 1 \/ b = 2 OBVIOUS
  <2>2. CASE 1 \in belts /\ 2 \in belts BY <2>1, <2>2
  <2>3. CASE 1 \in belts /\ 2 \notin belts BY <2>1, <2>3
  <2>4. CASE 1 \notin belts /\ 2 \in belts BY <2>1, <2>4
  <2>5. CASE 1 \notin belts /\ 2 \notin belts BY <2>1, <2>5
  <2> QED BY <2>2, <2>3, <2>4, <2>5
<1> QED BY <1>4, <1>5, <1>6, <1>7, <1>8

\* Orders one after the other.
LEMMA OrdersSent ==
    ASSUME IInv, port = "open", NEW more \in Seq(Orders),
           \A i \in 1 .. Len(more) : more[i].seq = sequence + i,
           toMega' = toMega \o more
    PROVE  /\ toMega' \in Seq(Orders)
           /\ \A f \in Queue' : f \in Queue \/ \E i \in 1 .. Len(more) : f = more[i]
           /\ \A i, j \in 1 .. Len(toMega') : toMega'[i].seq = toMega'[j].seq => i = j
<1>1. toMega \in Seq(Orders) /\ sequence \in Nat /\ Len(toMega) \in Nat /\ Len(more) \in Nat
  BY LinkTypes
<1>2. /\ toMega' \in Seq(Orders) /\ Len(toMega') = Len(toMega) + Len(more)
      /\ \A i \in 1 .. Len(toMega) : toMega'[i] = toMega[i]
      /\ \A i \in 1 .. Len(toMega) + Len(more) :
             i > Len(toMega) => toMega'[i] = more[i - Len(toMega)]
  BY <1>1
<1>3. \A i \in 1 .. Len(toMega) : toMega[i].seq \in Nat /\ toMega[i].seq <= sequence
  <2>1. \A f \in Queue : f.seq \in Nat BY LinkTypes, LinkAssumption DEF Orders
  <2>2. \A f \in Queue : f.seq <= sequence BY DEF IInv, Numbered
  <2> QED BY <2>1, <2>2 DEF Queue, Content
<1>4. ASSUME NEW i \in 1 .. Len(toMega'), i > Len(toMega)
      PROVE  /\ i - Len(toMega) \in 1 .. Len(more)
             /\ toMega'[i] = more[i - Len(toMega)]
             /\ toMega'[i].seq = sequence + (i - Len(toMega))
  BY <1>1, <1>2, <1>4
<1>5. ASSUME NEW i \in 1 .. Len(toMega'), NEW j \in 1 .. Len(toMega'),
             toMega'[i].seq = toMega'[j].seq
      PROVE  i = j
  <2>1. CASE i > Len(toMega) /\ j > Len(toMega) BY <1>1, <1>2, <1>4, <1>5, <2>1
  <2>2. CASE i > Len(toMega) /\ ~(j > Len(toMega))
    <3>1. j \in 1 .. Len(toMega) BY <1>1, <1>2, <2>2
    <3> QED BY <1>1, <1>2, <1>3, <1>4, <1>5, <2>2, <3>1
  <2>3. CASE ~(i > Len(toMega)) /\ j > Len(toMega)
    <3>1. i \in 1 .. Len(toMega) BY <1>1, <1>2, <2>3
    <3> QED BY <1>1, <1>2, <1>3, <1>4, <1>5, <2>3, <3>1
  <2>4. CASE ~(i > Len(toMega)) /\ ~(j > Len(toMega))
    <3>1. i \in 1 .. Len(toMega) /\ j \in 1 .. Len(toMega) BY <1>1, <1>2, <2>4
    <3>2. toMega[i].seq = toMega[j].seq BY <1>2, <1>5, <3>1
    <3> QED BY <3>1, <3>2 DEF IInv, Wire
  <2> QED BY <2>1, <2>2, <2>3, <2>4
<1>6. ASSUME NEW i \in 1 .. Len(toMega')
      PROVE  toMega'[i] \in Queue \/ \E k \in 1 .. Len(more) : toMega'[i] = more[k]
  <2>1. CASE i > Len(toMega) BY <1>4, <2>1
  <2>2. CASE ~(i > Len(toMega))
    <3>1. i \in 1 .. Len(toMega) BY <1>1, <1>2, <2>2
    <3> QED BY <1>2, <3>1 DEF Queue, Content
  <2> QED BY <2>1, <2>2
<1>7. ASSUME NEW f \in Queue'
      PROVE  f \in Queue \/ \E i \in 1 .. Len(more) : f = more[i]
  <2>1. PICK i \in 1 .. Len(toMega') : f = toMega'[i] BY DEF Queue, Content
  <2> QED BY <1>6, <2>1
<1> HIDE DEF Queue
<1> QED BY <1>2, <1>5, <1>7

\* handle_all_conveyors_command.
LEMMA CommandBeltsIInv ==
    ASSUME IInv, CommandBelts
    PROVE  IInv'
<1>0. /\ mega \in MegaType /\ sequence \in Nat /\ Heard \subseteq Frames
      /\ toMega \in Seq(Orders) /\ Belts \subseteq {1, 2} /\ MaxSequence \in Nat
  BY LinkTypes, LinkAssumption
<1>1. /\ UNCHANGED <<mega, port, events, init, latest, session, ready, believed, mirror, trouble>>
      /\ UNCHANGED <<actuator_command, pc, awaits, outcome, store, begun, finished>>
      /\ believed /\ session /\ port = "open"
  BY DEF CommandBelts, nodeVars, goalVars, masterVars, armVars
<1>2. PICK op \in {"RUN", "STOP"} : \E belts \in Targets(op) :
          /\ sequence + Cardinality(belts) <= MaxSequence
          /\ sequence' = sequence + Cardinality(belts)
          /\ toMega' = toMega \o
               [i \in 1 .. Cardinality(belts) |->
                   Frame(sequence + i, op,
                         CHOOSE b \in belts : Cardinality({d \in belts : d < b}) = i - 1)]
  BY DEF CommandBelts
<1>3. PICK belts \in Targets(op) :
          /\ sequence + Cardinality(belts) <= MaxSequence
          /\ sequence' = sequence + Cardinality(belts)
          /\ toMega' = toMega \o
               [i \in 1 .. Cardinality(belts) |->
                   Frame(sequence + i, op,
                         CHOOSE b \in belts : Cardinality({d \in belts : d < b}) = i - 1)]
  BY <1>2
<1> DEFINE nth(i) == CHOOSE b \in belts : Cardinality({d \in belts : d < b}) = i - 1
           n == Cardinality(belts)
           more == [i \in 1 .. n |-> Frame(sequence + i, op, nth(i))]
<1>4. belts \subseteq Belts /\ belts \in SUBSET {1, 2}
  <2>1. belts \subseteq Belts BY <1>3 DEF Targets
  <2> QED BY <1>0, <2>1
<1>5. n \in Nat /\ \A i \in 1 .. n : \E b \in belts : Cardinality({d \in belts : d < b}) = i - 1
  BY <1>4, BeltsInOrder
<1>6. \A i \in 1 .. n : nth(i) \in belts BY <1>5
<1>7. toMega' = toMega \o more /\ sequence' = sequence + n /\ sequence + n <= MaxSequence
  BY <1>3
<1> HIDE DEF nth, n
<1>8. ASSUME NEW i \in 1 .. n
      PROVE  /\ more[i] \in Orders /\ more[i].seq = sequence + i /\ more[i].op = op
             /\ more[i].arg \in Belts /\ WellFormed(more[i])
  <2>1. nth(i) \in Belts /\ nth(i) \in 0 .. 2
    <3>1. nth(i) \in belts BY <1>6
    <3>2. nth(i) \in Belts BY <1>4, <3>1
    <3>3. nth(i) \in {1, 2} BY <1>0, <3>2
    <3> QED BY <3>2, <3>3
  <2>2. sequence + i \in 1 .. MaxSequence BY <1>0, <1>5, <1>7
  <2> QED BY <2>1, <2>2 DEF Frame, Orders, WellFormed
<1>9. more \in Seq(Orders) /\ Len(more) = n
  <2>1. more \in [1 .. n -> Orders] BY <1>8
  <2>2. [1 .. n -> Orders] \subseteq Seq(Orders) /\ Len(more) = n BY <1>5
  <2> QED BY <2>1, <2>2
<1> HIDE DEF more
<1>10. /\ toMega' \in Seq(Orders)
       /\ \A f \in Queue' : f \in Queue \/ \E i \in 1 .. n : f = more[i]
       /\ \A i, j \in 1 .. Len(toMega') : toMega'[i].seq = toMega'[j].seq => i = j
  BY <1>1, <1>7, <1>8, <1>9, OrdersSent
<1>11. sequence' \in Nat /\ sequence <= sequence' /\ sequence' \in 0 .. MaxSequence
  BY <1>0, <1>5, <1>7
<1>12. /\ Numbered(mega, Queue, Heard)' /\ Wire'
       /\ Books(mega, Queue, Heard, begun, finished)'
       /\ \A g \in Goals : pc'[g] = "waiting" => awaits'[g] \in 1 .. sequence'
  <2>1. ASSUME NEW i \in 1 .. n
        PROVE  /\ WellFormed(more[i]) /\ more[i].seq \in Nat
               /\ more[i].seq > sequence /\ more[i].seq <= sequence'
    <3>1. WellFormed(more[i]) /\ more[i].seq = sequence + i BY <1>8
    <3>2. i \in Nat /\ i >= 1 /\ i <= n BY <1>5
    <3>3. sequence + i \in Nat /\ sequence + i > sequence /\ sequence + i <= sequence'
      BY <1>0, <1>5, <1>7, <3>2
    <3> QED BY <3>1, <3>3
  <2>2. \A f \in Queue' : f \in Queue
            \/ (WellFormed(f) /\ f.seq \in Nat /\ f.seq > sequence /\ f.seq <= sequence')
    BY <1>10, <2>1
  <2> QED BY <1>1, <1>10, <1>11, <2>2, WriteStep
<1>13. OffsetsKnown(mega, Queue, Heard)'
  <2>1. OffsetsKnown(mega, Queue, Heard) /\ init.step = "idle" BY <1>1 DEF IInv, Steps, TypeOK
  <2>2. \A f \in Queue' : f \in Queue \/ f.arg \in Belts BY <1>8, <1>10
  <2> HIDE DEF Heard, Queue
  <2> QED BY <1>1, <2>1, <2>2 DEF OffsetsKnown, AllOffsets
<1>14. TypeOK'
  <2>1. (\A e \in events : Awaited(e))' BY <1>1, AwaitedKept
  <2>2. init'.seq \in 0 .. sequence' BY <1>0, <1>1, <1>11 DEF IInv, TypeOK
  <2> QED BY <1>1, <1>10, <1>11, <2>1, <2>2 DEF IInv, TypeOK, Orders
<1>15. Steps' BY <1>1, <1>12 DEF IInv, Steps
<1>16. Mirrored' BY <1>1 DEF IInv, Mirrored, Told
<1>17. OneEach' /\ Engaged' /\ Stored' BY <1>1, GoalsKept
<1> QED BY <1>12, <1>13, <1>14, <1>15, <1>16, <1>17 DEF IInv
-----------------------------------------------------------------------------
(* _actuation_results. *)

\* A known command has an entry (dict.get).
LEMMA EntryFound ==
    ASSUME NEW S, NEW entries \in Seq(S), NEW command, Known(entries, command)
    PROVE  /\ Position(entries, command) \in 1 .. Len(entries)
           /\ EntryOf(entries, command) \in S
           /\ EntryOf(entries, command).command = command
<1>1. PICK i \in DOMAIN entries : entries[i].command = command BY DEF Known
<1>2. /\ Position(entries, command) \in DOMAIN entries
      /\ entries[Position(entries, command)].command = command
  BY <1>1, Zenon DEF Position
<1> QED BY <1>2, LenProperties, ElementOfSeq DEF EntryOf

\* Without an entry the others keep their order.
LEMMA WithoutEntry ==
    ASSUME NEW S, NEW entries \in Seq(S), NEW command
    PROVE  /\ Without(entries, command) \in Seq(S)
           /\ ~Known(entries, command) => Without(entries, command) = entries
           /\ Known(entries, command) =>
                  /\ Len(Without(entries, command)) = Len(entries) - 1
                  /\ \A k \in 1 .. Len(entries) - 1 :
                         Without(entries, command)[k] =
                             entries[IF k < Position(entries, command) THEN k ELSE k + 1]
<1> DEFINE i == Position(entries, command)
           front == SubSeq(entries, 1, i - 1)
           back == SubSeq(entries, i + 1, Len(entries))
<1> SUFFICES ASSUME Known(entries, command)
             PROVE  /\ Without(entries, command) \in Seq(S)
                    /\ Len(Without(entries, command)) = Len(entries) - 1
                    /\ \A k \in 1 .. Len(entries) - 1 :
                         Without(entries, command)[k] = entries[IF k < i THEN k ELSE k + 1]
  BY DEF Without
<1>1. i \in 1 .. Len(entries) BY EntryFound
<1> HIDE DEF i
<1>2. /\ front \in Seq(S) /\ Len(front) = i - 1
      /\ \A k \in 1 .. i - 1 : front[k] = entries[k]
  BY <1>1
<1>3. /\ back \in Seq(S) /\ Len(back) = Len(entries) - i
      /\ \A k \in 1 .. Len(entries) - i : back[k] = entries[i + k]
  BY <1>1
<1>4. Without(entries, command) = front \o back BY DEF Without, i
<1> HIDE DEF front, back
<1>5. /\ front \o back \in Seq(S)
      /\ Len(front \o back) = Len(front) + Len(back)
      /\ \A k \in 1 .. Len(front) + Len(back) :
             (front \o back)[k] = IF k <= Len(front) THEN front[k] ELSE back[k - Len(front)]
  BY <1>2, <1>3, ConcatProperties
<1>6. Len(entries) \in Nat OBVIOUS
<1>7. ASSUME NEW k \in 1 .. Len(entries) - 1
      PROVE  (front \o back)[k] = entries[IF k < i THEN k ELSE k + 1]
  <2>1. (front \o back)[k] = IF k <= i - 1 THEN front[k] ELSE back[k - (i - 1)]
    BY <1>1, <1>2, <1>3, <1>5, <1>6
  <2>2. CASE k < i BY <2>1, <2>2, <1>1, <1>2, <1>6
  <2>3. CASE ~(k < i)
    <3>1. k - (i - 1) \in 1 .. Len(entries) - i /\ i + (k - (i - 1)) = k + 1
      BY <2>3, <1>1, <1>6
    <3>2. back[k - (i - 1)] = entries[k + 1] BY <3>1, <1>3
    <3> QED BY <2>1, <2>3, <3>2, <1>1, <1>6
  <2> QED BY <2>2, <2>3
<1> QED BY <1>1, <1>2, <1>3, <1>4, <1>5, <1>6, <1>7

\* Nobody has two entries.
OneEntry(entries) ==
    \A i, j \in 1 .. Len(entries) : entries[i].command = entries[j].command => i = j

\* What is left without a command's entry: the others'.
LEMMA WithoutOthers ==
    ASSUME NEW S, NEW entries \in Seq(S), OneEntry(entries), NEW command
    PROVE  LET rest == Without(entries, command)
           IN  /\ rest \in Seq(S) /\ OneEntry(rest)
               /\ \A k \in 1 .. Len(rest) :
                      /\ rest[k].command # command
                      /\ \E i \in 1 .. Len(entries) : rest[k] = entries[i]
               /\ \A i \in 1 .. Len(entries) : entries[i].command # command =>
                      \E k \in 1 .. Len(rest) : rest[k] = entries[i]
<1> DEFINE rest == Without(entries, command)
<1>1. CASE ~Known(entries, command)
  <2>1. rest = entries BY <1>1, WithoutEntry
  <2>2. \A k \in 1 .. Len(entries) : entries[k].command # command BY <1>1 DEF Known
  <2> HIDE DEF rest
  <2>3. /\ rest \in Seq(S) /\ OneEntry(rest)
        /\ \A k \in 1 .. Len(rest) :
               /\ rest[k].command # command
               /\ \E i \in 1 .. Len(entries) : rest[k] = entries[i]
        /\ \A i \in 1 .. Len(entries) : entries[i].command # command =>
               \E k \in 1 .. Len(rest) : rest[k] = entries[i]
    BY <2>1, <2>2
  <2> QED BY <2>3 DEF rest
<1>2. CASE Known(entries, command)
  <2> DEFINE p == Position(entries, command)
             at(k) == IF k < p THEN k ELSE k + 1
  <2>1. /\ p \in 1 .. Len(entries) /\ Len(entries) \in Nat
        /\ entries[p].command = command
    BY <1>2, EntryFound DEF EntryOf
  <2>2. /\ rest \in Seq(S) /\ Len(rest) = Len(entries) - 1
        /\ \A k \in 1 .. Len(entries) - 1 : rest[k] = entries[at(k)]
    BY <1>2, WithoutEntry
  <2> HIDE DEF rest, p
  <2>3. \A k \in 1 .. Len(rest) : at(k) \in 1 .. Len(entries) /\ at(k) # p
    BY <2>1, <2>2
  <2>4. \A k, l \in 1 .. Len(rest) : at(k) = at(l) => k = l BY <2>1, <2>2
  <2>5. ASSUME NEW i \in 1 .. Len(entries), i # p
        PROVE  \E k \in 1 .. Len(rest) : at(k) = i
    <3>1. CASE i < p
      <4>1. i \in 1 .. Len(rest) /\ at(i) = i BY <2>1, <2>2, <3>1
      <4> QED BY <4>1
    <3>2. CASE ~(i < p)
      <4>1. i - 1 \in 1 .. Len(rest) /\ at(i - 1) = i BY <2>1, <2>2, <2>5, <3>2
      <4> QED BY <4>1
    <3> QED BY <3>1, <3>2
  <2> HIDE DEF at
  <2>6. \A k \in 1 .. Len(rest) : rest[k] = entries[at(k)] BY <2>2
  <2>7. ASSUME NEW k \in 1 .. Len(rest)
        PROVE  /\ rest[k].command # command
               /\ \E i \in 1 .. Len(entries) : rest[k] = entries[i]
    <3>1. at(k) \in 1 .. Len(entries) /\ at(k) # p /\ rest[k] = entries[at(k)]
      BY <2>3, <2>6
    <3>2. entries[at(k)].command # entries[p].command BY <2>1, <3>1 DEF OneEntry
    <3> QED BY <2>1, <3>1, <3>2
  <2>8. OneEntry(rest)
    <3>1. ASSUME NEW k \in 1 .. Len(rest), NEW l \in 1 .. Len(rest),
                 rest[k].command = rest[l].command
          PROVE  k = l
      <4>1. at(k) = at(l) BY <2>3, <2>6, <3>1 DEF OneEntry
      <4> QED BY <2>4, <4>1
    <3> QED BY <3>1 DEF OneEntry
  <2>9. ASSUME NEW i \in 1 .. Len(entries), entries[i].command # command
        PROVE  \E k \in 1 .. Len(rest) : rest[k] = entries[i]
    <3>1. i # p BY <2>1, <2>9
    <3>2. PICK k \in 1 .. Len(rest) : at(k) = i BY <2>5, <3>1
    <3> QED BY <2>6, <3>2
  <2>10. /\ rest \in Seq(S) /\ OneEntry(rest)
         /\ \A k \in 1 .. Len(rest) :
                /\ rest[k].command # command
                /\ \E i \in 1 .. Len(entries) : rest[k] = entries[i]
         /\ \A i \in 1 .. Len(entries) : entries[i].command # command =>
                \E k \in 1 .. Len(rest) : rest[k] = entries[i]
    BY <2>2, <2>7, <2>8, <2>9
  <2> QED BY <2>10 DEF rest
<1> QED BY <1>1, <1>2

\* There are no more entries than commands.
LEMMA EntriesFit ==
    ASSUME NEW entries \in Seq(Entries), OneEntry(entries)
    PROVE  Len(entries) <= StoreCapacity
<1> DEFINE command == [i \in 1 .. Len(entries) |-> entries[i].command]
           n == Cardinality(Commands)
<1>1. IsFiniteSet(Commands) BY LinkAssumption DEF Commands
<1>2. n \in Nat BY <1>1, FS_CardinalityType
<1>3. n <= StoreCapacity BY StoreSuffices DEF Commands
<1>4. Len(entries) \in Nat OBVIOUS
<1>5. \A i \in 1 .. Len(entries) : entries[i].command \in Commands
  <2>1. \A i \in 1 .. Len(entries) : entries[i] \in Entries OBVIOUS
  <2> QED BY <2>1 DEF Entries
<1> HIDE DEF n
<1>6. ASSUME Len(entries) > n PROVE FALSE
  <2>1. IsFiniteSet(1 .. Len(entries)) /\ Cardinality(1 .. Len(entries)) = Len(entries)
    <3>1. /\ IsFiniteSet(1 .. Len(entries))
          /\ Cardinality(1 .. Len(entries))
                 = IF 1 > Len(entries) THEN 0 ELSE Len(entries) - 1 + 1
      BY <1>4, FS_Interval
    <3> QED BY <1>2, <1>4, <1>6, <3>1
  <2>2. command \in [1 .. Len(entries) -> Commands] BY <1>5
  <2>3. Cardinality(Commands) < Cardinality(1 .. Len(entries)) BY <1>2, <1>4, <1>6, <2>1 DEF n
  <2> HIDE DEF command
  <2>4. PICK i, j \in 1 .. Len(entries) : i # j /\ command[i] = command[j]
    BY <1>1, <2>1, <2>2, <2>3, FS_PigeonHole
  <2>5. entries[i].command = entries[j].command BY <2>4 DEF command
  <2> QED BY <2>4, <2>5 DEF OneEntry
<1> QED BY <1>2, <1>3, <1>4, <1>6, StoreAssumption

\* An entry that comes to the end; nothing is evicted.
LEMMA EntryMoved ==
    ASSUME NEW entries \in Seq(Entries), OneEntry(entries), NEW e \in Entries
    PROVE  LET t == Append(Without(entries, e.command), e)
           IN  /\ t \in Seq(Entries) /\ OneEntry(t) /\ Len(t) <= StoreCapacity
               /\ \A k \in 1 .. Len(t) : t[k] = e \/ \E i \in 1 .. Len(entries) : t[k] = entries[i]
               /\ \A c : Known(t, c) <=> Known(entries, c) \/ c = e.command
<1> DEFINE rest == Without(entries, e.command)
           t == Append(rest, e)
<1>1. /\ rest \in Seq(Entries) /\ OneEntry(rest)
      /\ \A k \in 1 .. Len(rest) :
             /\ rest[k].command # e.command
             /\ \E i \in 1 .. Len(entries) : rest[k] = entries[i]
      /\ \A i \in 1 .. Len(entries) : entries[i].command # e.command =>
             \E k \in 1 .. Len(rest) : rest[k] = entries[i]
  BY WithoutOthers
<1> HIDE DEF rest
<1>2. /\ t \in Seq(Entries) /\ Len(t) = Len(rest) + 1 /\ Len(rest) \in Nat
      /\ \A k \in 1 .. Len(rest) : t[k] = rest[k]
      /\ t[Len(rest) + 1] = e
  BY <1>1
<1> HIDE DEF t
<1>3. \A k \in 1 .. Len(t) : k \in 1 .. Len(rest) \/ k = Len(rest) + 1 BY <1>2
<1>4. OneEntry(t)
  <2>1. ASSUME NEW i \in 1 .. Len(t), NEW j \in 1 .. Len(t), t[i].command = t[j].command
        PROVE  i = j
    BY <1>1, <1>2, <1>3, <2>1 DEF OneEntry
  <2> QED BY <2>1 DEF OneEntry
<1>5. \A k \in 1 .. Len(t) : t[k] = e \/ \E i \in 1 .. Len(entries) : t[k] = entries[i]
  BY <1>1, <1>2, <1>3
<1>6. ASSUME NEW c PROVE Known(t, c) <=> Known(entries, c) \/ c = e.command
  <2>1. Known(t, c) <=> \E k \in 1 .. Len(t) : t[k].command = c BY <1>2 DEF Known
  <2>2. Known(entries, c) <=> \E i \in 1 .. Len(entries) : entries[i].command = c BY DEF Known
  <2>3. Len(rest) + 1 \in 1 .. Len(t) BY <1>2
  <2>4. \A k \in 1 .. Len(rest) : k \in 1 .. Len(t) BY <1>2
  <2>5. ASSUME NEW i \in 1 .. Len(entries), entries[i].command # e.command
        PROVE  \E k \in 1 .. Len(t) : t[k] = entries[i]
    <3>1. PICK k \in 1 .. Len(rest) : rest[k] = entries[i] BY <1>1, <2>5
    <3> QED BY <1>2, <2>4, <3>1
  <2>6. Known(t, c) => Known(entries, c) \/ c = e.command
    <3> SUFFICES ASSUME NEW k \in 1 .. Len(t), t[k].command = c, c # e.command
                 PROVE  \E i \in 1 .. Len(entries) : entries[i].command = c
      BY <2>1, <2>2
    <3>1. PICK i \in 1 .. Len(entries) : t[k] = entries[i] BY <1>5
    <3> QED BY <3>1
  <2>7. Known(entries, c) /\ c # e.command => Known(t, c)
    <3> SUFFICES ASSUME NEW i \in 1 .. Len(entries), entries[i].command = c, c # e.command
                 PROVE  \E k \in 1 .. Len(t) : t[k].command = c
      BY <2>1, <2>2
    <3>1. PICK k \in 1 .. Len(t) : t[k] = entries[i] BY <2>5
    <3> QED BY <3>1
  <2>8. c = e.command => Known(t, c) BY <1>2, <2>1, <2>3
  <2> QED BY <2>6, <2>7, <2>8
<1>7. Len(t) <= StoreCapacity BY <1>2, <1>4, EntriesFit
<1>8. /\ t \in Seq(Entries) /\ OneEntry(t) /\ Len(t) <= StoreCapacity
      /\ \A k \in 1 .. Len(t) : t[k] = e \/ \E i \in 1 .. Len(entries) : t[k] = entries[i]
      /\ \A c : Known(t, c) <=> Known(entries, c) \/ c = e.command
  BY <1>2, <1>4, <1>5, <1>6, <1>7
<1> QED BY <1>8 DEF t, rest

\* inspect.
LEMMA InspectedStore ==
    ASSUME NEW entries \in Seq(Entries), OneEntry(entries), NEW command,
           Known(entries, command)
    PROVE  LET t == Inspected(entries, command)
           IN  /\ t \in Seq(Entries) /\ OneEntry(t) /\ Len(t) <= StoreCapacity
               /\ \A k \in 1 .. Len(t) : \E i \in 1 .. Len(entries) : t[k] = entries[i]
               /\ \A c : Known(entries, c) => Known(t, c)
<1> DEFINE e == EntryOf(entries, command)
<1>1. /\ Position(entries, command) \in 1 .. Len(entries) /\ e \in Entries
      /\ e.command = command
  BY EntryFound
<1>2. e = entries[Position(entries, command)] BY DEF EntryOf
<1> HIDE DEF e
<1>3. Inspected(entries, command) = Append(Without(entries, e.command), e)
  BY <1>1 DEF Inspected, e
<1> DEFINE t == Append(Without(entries, e.command), e)
<1>4. /\ t \in Seq(Entries) /\ OneEntry(t) /\ Len(t) <= StoreCapacity
      /\ \A k \in 1 .. Len(t) : t[k] = e \/ \E i \in 1 .. Len(entries) : t[k] = entries[i]
      /\ \A c : Known(t, c) <=> Known(entries, c) \/ c = e.command
  BY <1>1, EntryMoved
<1> HIDE DEF t
<1>5. Inspected(entries, command) = t BY <1>3 DEF t
<1> QED BY <1>1, <1>2, <1>4, <1>5

\* remember.
LEMMA RememberedStore ==
    ASSUME NEW entries \in Seq(Entries), OneEntry(entries), NEW e \in Entries
    PROVE  LET t == Remembered(entries, e.command, e.digest, e.result)
           IN  /\ t \in Seq(Entries) /\ OneEntry(t) /\ Len(t) <= StoreCapacity
               /\ \A k \in 1 .. Len(t) : t[k] = e \/ \E i \in 1 .. Len(entries) : t[k] = entries[i]
               /\ \A c : Known(t, c) <=> Known(entries, c) \/ c = e.command
<1> DEFINE t == Append(Without(entries, e.command), e)
<1>1. /\ t \in Seq(Entries) /\ OneEntry(t) /\ Len(t) <= StoreCapacity
      /\ \A k \in 1 .. Len(t) : t[k] = e \/ \E i \in 1 .. Len(entries) : t[k] = entries[i]
      /\ \A c : Known(t, c) <=> Known(entries, c) \/ c = e.command
  BY EntryMoved
<1>2. Entry(e.command, e.digest, e.result) = e BY DEF Entry, Entries
<1>3. Len(t) \in Nat BY <1>1
<1>4. ~(Len(t) > StoreCapacity)
  <2> HIDE DEF t
  <2> QED BY <1>1, <1>3, StoreAssumption
<1>5. Remembered(entries, e.command, e.digest, e.result) = t BY <1>2, <1>4 DEF Remembered
<1> HIDE DEF t
<1> QED BY <1>1, <1>5

-----------------------------------------------------------------------------
(* The goals. *)

\* A goal that is over, whatever it has come to.
LEMMA GoalEnds ==
    ASSUME IInv, NEW g \in Goals, NEW what \in {"rejected", "failed", "raised", "success"},
           pc[g] # "done", Ends(g, what), events' \subseteq events,
           UNCHANGED <<mega, toMega, port, sequence, init, latest, session, ready>>,
           UNCHANGED <<actuator_command, awaits, believed, mirror, begun, finished, trouble>>,
           pc[g] = "waiting" =>
               /\ what \in {"failed", "success"}
               /\ \A e \in events' : ~(e.kind = "ACTUATION" /\ e.seq = awaits[g]),
           store' \in Seq(Entries), OneEntry(store'), Len(store') <= StoreCapacity,
           \A c : Known(store, c) => Known(store', c),
           what \in {"failed", "success"} => Known(store', CommandOf[g]),
           \A k \in 1 .. Len(store') :
               \/ \E i \in 1 .. Len(store) : store'[k] = store[i]
               \/ /\ store'[k].command = CommandOf[g] /\ store'[k].result = what
                  /\ store'[k].digest = actuator_command[g],
           what = "success" => Achieved(g, mega, Queue, begun, finished)
    PROVE  IInv'
<1>1. /\ pc \in [Goals -> {"unsent", "waiting", "done"}]
      /\ outcome \in [Goals -> {"none", "rejected", "failed", "raised", "lost", "success"}]
      /\ outcome[g] = "none"
  BY DEF IInv, TypeOK, Steps
<1>2. /\ pc' = [pc EXCEPT ![g] = "done"] /\ outcome' = [outcome EXCEPT ![g] = what]
      /\ pc'[g] = "done" /\ outcome'[g] = what
      /\ \A h \in Goals \ {g} : pc'[h] = pc[h] /\ outcome'[h] = outcome[h]
  BY <1>1 DEF Ends
<1>3. Heard' \subseteq Heard /\ Queue' = Queue BY DEF Heard, Queue
<1>4. Numbered(mega, Queue, Heard)' BY <1>3, NumberedLess
<1>5. OffsetsKnown(mega, Queue, Heard)' BY <1>3, OffsetsLess
<1>6. Books(mega, Queue, Heard, begun, finished)'
  <2>1. \A h \in Goals : outcome'[h] = "success" =>
            outcome[h] = "success" \/ Achieved(h, mega, Queue, begun, finished)
    BY <1>2
  <2>2. \A f \in Queue' : f \in Queue BY <1>3
  <2>3. \A h \in Goals : awaits'[h] = awaits[h] OBVIOUS
  <2> HIDE DEF Queue, Heard
  <2> QED BY <1>3, <2>1, <2>2, <2>3, BooksKept
<1>7. TypeOK'
  <2>1. ASSUME NEW e \in events' PROVE Awaited(e)'
    <3>1. Awaited(e) BY <2>1 DEF IInv, TypeOK
    <3>2. ASSUME NEW h \in Goals, pc[h] = "waiting", awaits[h] = e.seq, e.kind = "ACTUATION"
          PROVE  pc'[h] = "waiting" /\ awaits'[h] = e.seq
      BY <1>2, <2>1, <3>2
    <3> QED BY <3>1, <3>2 DEF Awaited
  <2>2. /\ pc' \in [Goals -> {"unsent", "waiting", "done"}]
        /\ outcome' \in [Goals -> {"none", "rejected", "failed", "raised", "lost", "success"}]
    BY <1>1, <1>2
  <2>3. (\A e \in events : Awaited(e))' BY <2>1
  <2> QED BY <2>2, <2>3 DEF IInv, TypeOK
<1>8. Wire' BY DEF IInv, Wire
<1>9. Steps'
  <2>1. \A h \in Goals : pc'[h] = "waiting" => awaits'[h] \in 1 .. sequence'
    BY <1>2 DEF IInv, Steps
  <2>2. \A h \in Goals : pc'[h] = "done" <=> outcome'[h] # "none" BY <1>2 DEF IInv, Steps
  <2> QED BY <2>1, <2>2 DEF IInv, Steps
<1>10. Mirrored' BY DEF IInv, Mirrored, Told
<1>11. OneEach' BY DEF IInv, OneEach
<1>12. Engaged'
  <2>1. \A c : Begun(c)' = Begun(c) BY DEF Begun
  <2>2. ASSUME NEW c \in Commands, Begun(c)
        PROVE  \E h \in Goals : /\ CommandOf[h] = c
                                /\ \/ pc'[h] = "waiting"
                                   \/ outcome'[h] \in {"failed", "success", "lost"}
    <3>1. PICK h \in Goals : /\ CommandOf[h] = c
                             /\ pc[h] = "waiting" \/ outcome[h] \in {"failed", "success", "lost"}
      BY <2>2 DEF IInv, Engaged
    <3> QED BY <1>1, <1>2, <3>1
  <2>3. ASSUME NEW h \in Goals, outcome'[h] \in {"failed", "success"}, "restart" \notin trouble
        PROVE  Known(store', CommandOf[h])
    <3>1. CASE h = g BY <1>2, <2>3, <3>1
    <3>2. CASE h # g BY <1>2, <2>3, <3>2 DEF IInv, Engaged
    <3> QED BY <3>1, <3>2
  <2>4. \A h \in Goals : outcome'[h] = "lost" => "restart" \in trouble
    BY <1>2 DEF IInv, Engaged
  <2> QED BY <2>1, <2>2, <2>3, <2>4 DEF Engaged, Commands
<1>13. Stored'
  <2>1. ASSUME NEW k \in 1 .. Len(store'), store'[k].result = "success"
        PROVE  \E h \in Goals : /\ CommandOf[h] = store'[k].command /\ outcome'[h] = "success"
                                /\ actuator_command[h] = store'[k].digest
    <3>1. CASE \E i \in 1 .. Len(store) : store'[k] = store[i]
      <4>1. PICK i \in 1 .. Len(store) : store'[k] = store[i] BY <3>1
      <4>2. PICK h \in Goals : /\ CommandOf[h] = store[i].command /\ outcome[h] = "success"
                               /\ actuator_command[h] = store[i].digest
        BY <2>1, <4>1 DEF IInv, Stored
      <4>3. h # g BY <1>1, <4>2
      <4> QED BY <1>2, <4>1, <4>2, <4>3
    <3>2. CASE /\ store'[k].command = CommandOf[g] /\ store'[k].result = what
               /\ store'[k].digest = actuator_command[g]
      BY <1>2, <2>1, <3>2
    <3> QED BY <3>1, <3>2
  <2> QED BY <2>1 DEF Stored, OneEntry, Entries, Commands
<1> QED BY <1>4, <1>5, <1>6, <1>7, <1>8, <1>9, <1>10, <1>11, <1>12, <1>13 DEF IInv

\* ... and whose result is remembered.
LEMMA GoalRemembered ==
    ASSUME IInv, NEW g \in Goals, NEW what \in {"failed", "success"},
           pc[g] # "done", Remember(g, what), events' \subseteq events,
           UNCHANGED <<mega, toMega, port, sequence, init, latest, session, ready>>,
           UNCHANGED <<actuator_command, awaits, believed, mirror, begun, finished, trouble>>,
           pc[g] = "waiting" =>
               \A e \in events' : ~(e.kind = "ACTUATION" /\ e.seq = awaits[g]),
           what = "success" => Achieved(g, mega, Queue, begun, finished)
    PROVE  IInv'
<1> DEFINE e == Entry(CommandOf[g], Digest(g), what)
<1>1. /\ e \in Entries /\ e.command = CommandOf[g] /\ e.digest = actuator_command[g]
      /\ e.digest = Digest(g) /\ e.result = what
  <2>1. actuator_command[g] \in {NG, PASS} BY LinkAssumption DEF IInv, Steps
  <2> QED BY <2>1 DEF Entry, Entries, Digest, Commands
<1>2. store \in Seq(Entries) /\ OneEntry(store) BY DEF IInv, Stored, OneEntry
<1>3. Ends(g, what) /\ store' = Remembered(store, CommandOf[g], Digest(g), what)
  BY DEF Remember
<1> HIDE DEF e
<1>4. /\ store' \in Seq(Entries) /\ OneEntry(store') /\ Len(store') <= StoreCapacity
      /\ \A k \in 1 .. Len(store') :
             store'[k] = e \/ \E i \in 1 .. Len(store) : store'[k] = store[i]
      /\ \A c : Known(store', c) <=> Known(store, c) \/ c = e.command
  <2> DEFINE t == Remembered(store, e.command, e.digest, e.result)
  <2>1. /\ t \in Seq(Entries) /\ OneEntry(t) /\ Len(t) <= StoreCapacity
        /\ \A k \in 1 .. Len(t) : t[k] = e \/ \E i \in 1 .. Len(store) : t[k] = store[i]
        /\ \A c : Known(t, c) <=> Known(store, c) \/ c = e.command
    BY <1>1, <1>2, RememberedStore
  <2>2. store' = t BY <1>1, <1>3
  <2> HIDE DEF t
  <2> QED BY <2>1, <2>2
<1>5. \A k \in 1 .. Len(store') :
          \/ \E i \in 1 .. Len(store) : store'[k] = store[i]
          \/ /\ store'[k].command = CommandOf[g] /\ store'[k].result = what
             /\ store'[k].digest = actuator_command[g]
  BY <1>1, <1>4
<1> HIDE DEF Queue
<1> QED BY <1>1, <1>3, <1>4, <1>5, GoalEnds

\* Nothing of a command has begun when its order is to be sent.
LEMMA NothingBegun ==
    ASSUME IInv, NEW g \in Goals, pc[g] = "unsent", MaySend(g), ~Known(store, CommandOf[g])
    PROVE  /\ begun[CommandOf[g]] = 0 /\ finished[CommandOf[g]] = 0
           /\ \A h \in Goals : CommandOf[h] = CommandOf[g] =>
                  awaits[h] = 0 /\ outcome[h] # "success"
<1>1. outcome[g] = "none" BY DEF IInv, Steps
<1>2. ASSUME NEW h \in Goals, CommandOf[h] = CommandOf[g]
      PROVE  pc[h] # "waiting" /\ outcome[h] \notin {"failed", "success", "lost"}
  <2>1. CASE h = g BY <1>1, <2>1
  <2>2. CASE h # g
    <3>1. pc[h] # "unsent" => pc[h] = "done" /\ "restart" \notin trouble
      BY <1>2, <2>2 DEF MaySend
    <3>2. outcome[h] # "none" => pc[h] = "done" BY DEF IInv, Steps
    <3>3. outcome[h] = "lost" => "restart" \in trouble BY DEF IInv, Engaged
    <3>4. outcome[h] \in {"failed", "success"} /\ "restart" \notin trouble
              => Known(store, CommandOf[h])
      BY DEF IInv, Engaged
    <3> QED BY <1>2, <3>1, <3>2, <3>3, <3>4
  <2> QED BY <2>1, <2>2
<1>3. ~Begun(CommandOf[g])
  <2>1. CommandOf[g] \in Commands BY DEF Commands
  <2> QED BY <1>2, <2>1 DEF IInv, Engaged
<1>4. /\ begun[CommandOf[g]] = 0 /\ finished[CommandOf[g]] = 0
      /\ \A h \in Goals : CommandOf[h] = CommandOf[g] => awaits[h] = 0
  BY <1>3 DEF Begun
<1> QED BY <1>2, <1>4

\* ACTUATE is sent.
LEMMA ActuateWrites ==
    ASSUME IInv, NEW g \in Goals, pc[g] = "unsent", believed, MaySend(g),
           ~Known(store, CommandOf[g]), port = "open", Write("ACTUATE", actuator_command[g]),
           pc' = [pc EXCEPT ![g] = "waiting"], awaits' = [awaits EXCEPT ![g] = sequence + 1],
           UNCHANGED <<outcome, store, mega, port, events, init, latest, session, ready>>,
           UNCHANGED <<actuator_command, believed, mirror, begun, finished, trouble>>
    PROVE  IInv'
<1> DEFINE o == Frame(sequence + 1, "ACTUATE", actuator_command[g])
<1>0. /\ mega \in MegaType /\ sequence \in Nat /\ MaxSequence \in Nat
      /\ pc \in [Goals -> {"unsent", "waiting", "done"}]
      /\ awaits \in [Goals -> 0 .. MaxSequence]
  BY LinkTypes, LinkAssumption DEF IInv, TypeOK
<1>1. /\ sequence < MaxSequence /\ sequence' = sequence + 1 /\ toMega' = Append(toMega, o)
  BY DEF Write
<1>2. actuator_command[g] \in {NG, PASS} BY LinkAssumption DEF IInv, Steps
<1>3. /\ o \in Orders /\ o.seq = sequence + 1 /\ o.op = "ACTUATE"
      /\ o.arg = actuator_command[g] /\ WellFormed(o)
  <2>1. {NG, PASS} \subseteq 0 .. 2 BY DEF NG, PASS
  <2> QED BY <1>0, <1>1, <1>2, <2>1 DEF Orders, Frame, WellFormed
<1> HIDE DEF o
<1>4. /\ toMega' \in Seq(Orders) /\ Queue' = Queue \cup {o}
      /\ \A i, j \in 1 .. Len(toMega') : toMega'[i].seq = toMega'[j].seq => i = j
  BY <1>1, <1>3, OrderSent
<1>5. /\ pc'[g] = "waiting" /\ awaits'[g] = sequence + 1
      /\ \A h \in Goals \ {g} : pc'[h] = pc[h] /\ awaits'[h] = awaits[h]
  BY <1>0
<1>6. \A h \in Goals : awaits[h] \in Nat /\ awaits[h] <= sequence
  BY <1>0 DEF IInv, Wire
<1>7. /\ begun[CommandOf[g]] = 0 /\ finished[CommandOf[g]] = 0
      /\ \A h \in Goals : CommandOf[h] = CommandOf[g] =>
             awaits[h] = 0 /\ outcome[h] # "success"
  BY NothingBegun
<1>8. Heard' = Heard BY DEF Heard
<1>9. Numbered(mega, Queue, Heard)'
  <2>1. sequence' \in Nat /\ sequence <= sequence' BY <1>0, <1>1
  <2>2. \A f \in Queue' : f \in Queue \/ (WellFormed(f) /\ f.seq <= sequence')
    BY <1>0, <1>1, <1>3, <1>4
  <2> QED BY <1>8, <2>1, <2>2, NumberedMore
<1>10. OffsetsKnown(mega, Queue, Heard)'
  <2>1. OffsetsKnown(mega, Queue, Heard) /\ init.step = "idle" BY DEF IInv, Steps, TypeOK
  <2>2. \A f \in Queue' : f \in Queue \/ f.op # "RUN" BY <1>3, <1>4
  <2> HIDE DEF Heard, Queue
  <2> QED BY <1>8, <2>1, <2>2 DEF OffsetsKnown, AllOffsets
<1>11. \A f \in Queue : f.seq \in Nat /\ f.seq <= sequence
  BY LinkTypes, LinkAssumption DEF Orders, IInv, Numbered
<1>12. mega.pending \in Nat /\ mega.pending <= sequence /\ Actuated(sequence + 1) \notin Heard
  <2>1. mega.pending \in Nat BY <1>0 DEF MegaType
  <2>2. mega.pending <= sequence BY DEF IInv, Numbered
  <2>3. \A f \in Heard : f.kind = "ACTUATION" => f.seq \in 1 .. sequence BY DEF IInv, Numbered
  <2>4. ~(sequence + 1 \in 1 .. sequence) BY <1>0
  <2> QED BY <2>1, <2>2, <2>3, <2>4, AnswerNumbers
<1>13. Books(mega, Queue, Heard, begun, finished)'
  <2>1. Books(mega, Queue, Heard, begun, finished) BY DEF IInv
  <2>2. ASSUME NEW h \in Goals, h # g, awaits'[h] # 0
        PROVE  Booked(h, mega, Queue, Heard, begun, finished)'
    <3>1. awaits'[h] = awaits[h] /\ awaits[h] # 0 BY <1>5, <2>2
    <3>2. Booked(h, mega, Queue, Heard, begun, finished) BY <2>1, <3>1 DEF Books
    <3>3. \A f \in Queue' : f.seq = awaits[h] => f \in Queue BY <1>0, <1>3, <1>4, <1>6
    <3>4. Unread(h, Queue)' => Unread(h, Queue) BY <3>1, <3>3 DEF Unread
    <3>5. Actuated(awaits'[h]) = Actuated(awaits[h]) /\ Want(h)' = Want(h) BY <3>1 DEF Want
    <3> HIDE DEF Queue, Heard
    <3> QED BY <1>8, <3>1, <3>2, <3>3, <3>4, <3>5 DEF Booked
  <2>3. Booked(g, mega, Queue, Heard, begun, finished)'
    <3>1. \A f \in Queue' : f.seq = sequence + 1 => f = o BY <1>0, <1>4, <1>11
    <3>2. mega.pending # sequence + 1 BY <1>0, <1>12
    <3>3. Actuated(awaits'[g]) = Actuated(sequence + 1) BY <1>5
    <3> HIDE DEF Queue, Heard
    <3> QED BY <1>3, <1>5, <1>7, <1>8, <1>12, <3>1, <3>2, <3>3 DEF Booked
  <2>4. ASSUME NEW h \in Goals, outcome'[h] = "success"
        PROVE  Achieved(h, mega, Queue, begun, finished)'
    <3>1. Achieved(h, mega, Queue, begun, finished) BY <2>1, <2>4 DEF Books
    <3>2. CommandOf[h] # CommandOf[g] BY <1>7, <2>4
    <3>3. ASSUME NEW k \in Goals, CommandOf[k] = CommandOf[h], awaits'[k] # 0
          PROVE  mega'.pending # awaits'[k] /\ ~Unread(k, Queue)'
      <4>1. awaits'[k] = awaits[k] BY <1>5, <3>2, <3>3
      <4>2. mega.pending # awaits[k] /\ ~Unread(k, Queue) BY <3>1, <3>3, <4>1 DEF Achieved
      <4>3. \A f \in Queue' : f.seq = awaits[k] => f \in Queue BY <1>0, <1>3, <1>4, <1>6
      <4> QED BY <4>1, <4>2, <4>3 DEF Unread
    <3>4. Want(h)' = Want(h) BY DEF Want
    <3> QED BY <3>1, <3>3, <3>4 DEF Achieved
  <2>5. Commands' = Commands BY DEF Commands
  <2>6. \A h \in Goals : awaits'[h] # 0 => Booked(h, mega, Queue, Heard, begun, finished)'
    BY <2>2, <2>3
  <2> QED BY <2>1, <2>4, <2>5, <2>6 DEF Books
<1>14. TypeOK'
  <2>1. ASSUME NEW e \in events' PROVE Awaited(e)'
    <3>1. Awaited(e) BY <2>1 DEF IInv, TypeOK
    <3>2. ASSUME NEW h \in Goals, pc[h] = "waiting", awaits[h] = e.seq
          PROVE  pc'[h] = "waiting" /\ awaits'[h] = e.seq
      BY <1>5, <3>2
    <3> QED BY <3>1, <3>2 DEF Awaited
  <2>2. (\A e \in events : Awaited(e))' BY <2>1
  <2>3. /\ pc' \in [Goals -> {"unsent", "waiting", "done"}]
        /\ awaits' \in [Goals -> 0 .. MaxSequence]
    BY <1>0, <1>1
  <2>4. init'.seq \in 0 .. sequence' /\ sequence' \in 0 .. MaxSequence
    BY <1>0, <1>1 DEF IInv, TypeOK
  <2> QED BY <1>4, <2>2, <2>3, <2>4 DEF IInv, TypeOK, Orders
<1>15. Wire'
  <2>1. \A e \in events' : e.seq \in 1 .. sequence' BY <1>0, <1>1 DEF IInv, Wire
  <2>2. \A h \in Goals : awaits'[h] <= sequence' BY <1>0, <1>1, <1>5, <1>6
  <2> QED BY <1>4, <2>1, <2>2 DEF IInv, Wire
<1>16. Steps'
  <2>1. ASSUME NEW h \in Goals, pc'[h] = "waiting" PROVE awaits'[h] \in 1 .. sequence'
    <3>1. h # g => awaits[h] \in 1 .. sequence BY <1>5, <2>1 DEF IInv, Steps
    <3> QED BY <1>0, <1>1, <1>5, <3>1
  <2>2. \A h \in Goals : pc'[h] = "done" <=> outcome'[h] # "none" BY <1>5 DEF IInv, Steps
  <2> QED BY <2>1, <2>2 DEF IInv, Steps
<1>17. Mirrored' BY DEF IInv, Mirrored, Told
<1>18. OneEach'
  <2>1. \A h \in Goals \ {g} : awaits[h] # sequence + 1 BY <1>0, <1>6
  <2> QED BY <1>5, <1>7, <2>1 DEF IInv, OneEach
<1>19. Engaged'
  <2>1. ASSUME NEW c \in Commands, Begun(c)'
        PROVE  \E h \in Goals : /\ CommandOf[h] = c
                                /\ \/ pc'[h] = "waiting"
                                   \/ outcome'[h] \in {"failed", "success", "lost"}
    <3>1. CASE c = CommandOf[g] BY <1>5, <3>1
    <3>2. CASE c # CommandOf[g]
      <4>1. Begun(c) BY <1>5, <2>1, <3>2 DEF Begun
      <4>2. PICK h \in Goals : /\ CommandOf[h] = c
                               /\ \/ pc[h] = "waiting"
                                  \/ outcome[h] \in {"failed", "success", "lost"}
        BY <2>1, <4>1 DEF IInv, Engaged
      <4> QED BY <1>5, <3>2, <4>2
    <3> QED BY <3>1, <3>2
  <2> QED BY <2>1 DEF IInv, Engaged, Commands
<1>20. Stored' BY DEF IInv, Stored, Entries, Commands
<1> QED BY <1>9, <1>10, <1>13, <1>14, <1>15, <1>16, <1>17, <1>18, <1>19, <1>20 DEF IInv

\* _execute_actuation up to its wait.
LEMMA ActuateIInv ==
    ASSUME IInv, NEW g \in Goals, Actuate(g)
    PROVE  IInv'
<1>1. /\ UNCHANGED <<mega, port, events, init, latest, session, ready>>
      /\ UNCHANGED <<actuator_command, believed, mirror, begun, finished, trouble>>
      /\ pc[g] = "unsent" /\ believed /\ MaySend(g)
  BY DEF Actuate, nodeVars, masterVars, armVars
<1>2. store \in Seq(Entries) /\ OneEntry(store) /\ Len(store) <= StoreCapacity
  BY DEF IInv, TypeOK, Stored, OneEntry
<1>3. ASSUME NEW what \in {"rejected", "raised"}, Ends(g, what),
             UNCHANGED <<sequence, toMega, awaits, store>>
      PROVE  IInv'
  <2>1. what # "success" /\ what \notin {"failed", "success"} BY <1>3
  <2>2. \A k \in 1 .. Len(store') : \E i \in 1 .. Len(store) : store'[k] = store[i] BY <1>3
  <2>3. \A c : Known(store, c) => Known(store', c) BY <1>3
  <2>4. what \in {"rejected", "failed", "raised", "success"} BY <1>3
  <2> HIDE DEF Queue
  <2> QED BY <1>1, <1>2, <1>3, <2>1, <2>2, <2>3, <2>4, GoalEnds
<1>4. CASE ~ready \/ ~session BY <1>1, <1>3, <1>4 DEF Actuate
<1>5. CASE ready /\ session /\ Known(store, CommandOf[g])
  <2> DEFINE e == EntryOf(store, CommandOf[g])
             conflict == Inspect(store, CommandOf[g], Digest(g)) = "CONFLICT"
             what == IF conflict THEN "rejected" ELSE e.result
  <2>1. /\ Ends(g, what) /\ store' = Inspected(store, CommandOf[g])
        /\ UNCHANGED <<sequence, toMega, awaits>>
    BY <1>5 DEF Actuate
  <2>2. /\ Position(store, CommandOf[g]) \in 1 .. Len(store)
        /\ e \in Entries /\ e.command = CommandOf[g]
    BY <1>2, <1>5, EntryFound
  <2>3. ~conflict => e.digest = actuator_command[g]
    BY <1>5 DEF Inspect, Digest
  <2>4. /\ store' \in Seq(Entries) /\ OneEntry(store') /\ Len(store') <= StoreCapacity
        /\ \A k \in 1 .. Len(store') : \E i \in 1 .. Len(store) : store'[k] = store[i]
        /\ \A c : Known(store, c) => Known(store', c)
    <3> DEFINE t == Inspected(store, CommandOf[g])
    <3>1. /\ t \in Seq(Entries) /\ OneEntry(t) /\ Len(t) <= StoreCapacity
          /\ \A k \in 1 .. Len(t) : \E i \in 1 .. Len(store) : t[k] = store[i]
          /\ \A c : Known(store, c) => Known(t, c)
      BY <1>2, <1>5, InspectedStore
    <3>2. store' = t BY <2>1
    <3> HIDE DEF t
    <3> QED BY <3>1, <3>2
  <2>5. e = store[Position(store, CommandOf[g])] BY DEF EntryOf
  <2> HIDE DEF e
  <2>6. what \in {"rejected", "failed", "success"} BY <2>2 DEF Entries
  <2>7. what = "success" => Achieved(g, mega, Queue, begun, finished)
    <3> SUFFICES ASSUME what = "success" PROVE Achieved(g, mega, Queue, begun, finished)
      OBVIOUS
    <3>1. e.result = "success" /\ e.digest = actuator_command[g] BY <2>3
    <3>2. PICK h \in Goals : /\ CommandOf[h] = e.command /\ outcome[h] = "success"
                             /\ actuator_command[h] = e.digest
      BY <2>2, <2>5, <3>1 DEF IInv, Stored
    <3>3. Achieved(h, mega, Queue, begun, finished) BY <3>2 DEF IInv, Books
    <3>4. CommandOf[h] = CommandOf[g] /\ Want(h) = Want(g) BY <2>2, <3>1, <3>2 DEF Want
    <3> QED BY <3>3, <3>4 DEF Achieved
  <2>8. Known(store', CommandOf[g]) BY <1>5, <2>4
  <2> HIDE DEF what, Queue
  <2> QED BY <1>1, <2>1, <2>4, <2>6, <2>7, <2>8, GoalEnds
<1>6. CASE ready /\ session /\ ~Known(store, CommandOf[g])
  <2>1. \/ /\ port = "open" /\ Write("ACTUATE", actuator_command[g])
           /\ pc' = [pc EXCEPT ![g] = "waiting"]
           /\ awaits' = [awaits EXCEPT ![g] = sequence + 1]
           /\ UNCHANGED <<outcome, store>>
        \/ Remember(g, "failed") /\ UNCHANGED <<sequence, toMega, awaits>>
        \/ Ends(g, "raised") /\ UNCHANGED <<sequence, toMega, awaits, store>>
    BY <1>6 DEF Actuate
  <2>2. CASE /\ port = "open" /\ Write("ACTUATE", actuator_command[g])
             /\ pc' = [pc EXCEPT ![g] = "waiting"]
             /\ awaits' = [awaits EXCEPT ![g] = sequence + 1]
             /\ UNCHANGED <<outcome, store>>
    BY <1>1, <1>6, <2>2, ActuateWrites
  <2>3. CASE Remember(g, "failed") /\ UNCHANGED <<sequence, toMega, awaits>>
    BY <1>1, <2>3, GoalRemembered
  <2>4. CASE Ends(g, "raised") /\ UNCHANGED <<sequence, toMega, awaits, store>>
    BY <1>3, <2>4
  <2> QED BY <2>1, <2>2, <2>3, <2>4
<1> QED BY <1>4, <1>5, <1>6

\* The arm is back.
LEMMA AnsweredIInv ==
    ASSUME IInv, NEW g \in Goals, Answered(g)
    PROVE  IInv'
<1>1. /\ UNCHANGED <<mega, toMega, port, sequence, init, latest, session, ready, awaits>>
      /\ UNCHANGED <<actuator_command, believed, mirror, begun, finished, trouble>>
      /\ pc[g] = "waiting"
  BY DEF Answered, nodeVars, masterVars, armVars
<1>2. PICK e \in events : /\ e.kind = "ACTUATION" /\ e.seq = awaits[g]
                          /\ events' = events \ {e}
                          /\ Remember(g, IF e.status = "OK" THEN "success" ELSE "failed")
  BY DEF Answered, Received
<1>3. \A f \in events : f.kind = "ACTUATION" => f = Actuated(f.seq)
  BY DEF IInv, Numbered, Heard
<1>4. e = Actuated(awaits[g]) /\ e.status = "OK" /\ e \in Heard
  BY <1>2, <1>3 DEF Actuated, Heard
<1>5. awaits[g] # 0 BY <1>1 DEF IInv, Steps
<1>6. Achieved(g, mega, Queue, begun, finished)
  <2>1. Booked(g, mega, Queue, Heard, begun, finished) BY <1>5 DEF IInv, Books
  <2>2. /\ begun[CommandOf[g]] = Want(g) /\ finished[CommandOf[g]] = Want(g)
        /\ mega.pending # awaits[g] /\ ~Unread(g, Queue)
    BY <1>4, <2>1 DEF Booked
  <2>3. \A h \in Goals : CommandOf[h] = CommandOf[g] /\ awaits[h] # 0 => h = g
    BY <1>5 DEF IInv, OneEach
  <2> QED BY <2>2, <2>3 DEF Achieved
<1>7. \A f \in events' : ~(f.kind = "ACTUATION" /\ f.seq = awaits[g])
  BY <1>2, <1>3, <1>4
<1>8. Remember(g, "success") /\ events' \subseteq events BY <1>2, <1>4
<1> HIDE DEF Queue
<1> QED BY <1>1, <1>6, <1>7, <1>8, GoalRemembered

\* ... or will not be.
LEMMA TimesOutIInv ==
    ASSUME IInv, NEW g \in Goals, ActuationTimesOut(g)
    PROVE  IInv'
<1>1. /\ UNCHANGED <<mega, toMega, port, sequence, events, init, latest, session, ready, awaits>>
      /\ UNCHANGED <<actuator_command, believed, mirror, begun, finished, trouble>>
      /\ pc[g] = "waiting" /\ Remember(g, "failed")
      /\ \A e \in events : ~(e.kind = "ACTUATION" /\ e.seq = awaits[g])
  BY DEF ActuationTimesOut, Answerable, nodeVars, masterVars, armVars
<1> QED BY <1>1, GoalRemembered

-----------------------------------------------------------------------------
(* The theorems. *)

\* It holds when Control and the board start.
LEMMA InitIInv ==
    ASSUME Init
    PROVE  IInv
<1>1. /\ mega = Boot /\ toMega = <<>> /\ port = "closed" /\ sequence = 0 /\ events = {}
      /\ latest = None /\ session = FALSE /\ ready = FALSE /\ believed = FALSE
      /\ init.step = "idle" /\ init.belt = 0 /\ init.seq = 0
      /\ actuator_command \in Requests /\ store = <<>> /\ trouble = {}
      /\ pc = [g \in Goals |-> "unsent"] /\ awaits = [g \in Goals |-> 0]
      /\ outcome = [g \in Goals |-> "none"]
      /\ begun = [c \in Commands |-> 0] /\ finished = [c \in Commands |-> 0]
  BY DEF Init, Idle
<1>2. /\ mega \in MegaType /\ mega.pending = 0 /\ mega.servo = "READY" /\ mega.reported = None
      /\ mega.tx = <<>> /\ \A b \in Belts : mega.belt[b] = "STOPPED"
  BY <1>1, BootType
<1>3. Queue = {} /\ Heard = {} BY <1>1, <1>2 DEF Queue, Heard, Content
<1>4. \A g \in Goals : pc[g] = "unsent" /\ awaits[g] = 0 /\ outcome[g] = "none" BY <1>1
<1>5. TypeOK
  <2>1. toMega \in Seq(Orders) /\ Len(store) = 0 BY <1>1
  <2>2. sequence \in 0 .. MaxSequence /\ init.belt \in 0 .. 2 /\ init.seq \in 0 .. sequence
    BY <1>1, LinkAssumption
  <2>3. /\ pc \in [Goals -> {"unsent", "waiting", "done"}]
        /\ awaits \in [Goals -> 0 .. MaxSequence]
        /\ outcome \in [Goals -> {"none", "rejected", "failed", "raised", "lost", "success"}]
    BY <1>1, LinkAssumption
  <2>4. Len(store) <= StoreCapacity BY <2>1, StoreAssumption
  <2> QED BY <1>1, <1>2, <2>1, <2>2, <2>3, <2>4 DEF TypeOK, Orders
<1>6. Wire BY <1>1, <1>2 DEF Wire
<1>7. Steps BY <1>1, <1>4 DEF Steps
<1> HIDE DEF Queue, Heard
<1>8. Numbered(mega, Queue, Heard) BY <1>1, <1>2, <1>3 DEF Numbered
<1>9. OffsetsKnown(mega, Queue, Heard) BY <1>1, <1>2, <1>3 DEF OffsetsKnown
<1>10. Books(mega, Queue, Heard, begun, finished) BY <1>1, <1>4 DEF Books
<1>11. OneEach BY <1>4 DEF OneEach
<1>12. Mirrored BY <1>1 DEF Mirrored
<1>13. Engaged
  <2>1. \A c \in Commands : ~Begun(c) BY <1>1, <1>4 DEF Begun
  <2> QED BY <1>4, <2>1 DEF Engaged
<1>14. Stored
  <2>1. store \in Seq(Entries) /\ Len(store) = 0 BY <1>1
  <2> QED BY <2>1 DEF Stored
<1> QED BY <1>5, <1>6, <1>7, <1>8, <1>9, <1>10, <1>11, <1>12, <1>13, <1>14 DEF IInv

\* Every step keeps it.
LEMMA NextIInv ==
    ASSUME IInv, [Next]_vars
    PROVE  IInv'
<1>1. CASE UNCHANGED vars
  <2>1. /\ UNCHANGED <<mega, toMega, port, sequence, events, init, latest, session, ready>>
        /\ UNCHANGED <<believed, mirror, trouble>>
        /\ UNCHANGED <<actuator_command, pc, awaits, outcome, store, begun, finished>>
    BY <1>1 DEF vars, nodeVars, goalVars, masterVars, armVars
  <2>2. /\ Numbered(mega, Queue, Heard)' /\ OffsetsKnown(mega, Queue, Heard)'
        /\ Books(mega, Queue, Heard, begun, finished)'
        /\ OneEach' /\ Engaged' /\ Stored'
    BY <2>1, HostStep
  <2>3. TypeOK'
    <3>1. (\A e \in events : Awaited(e))' BY <2>1, AwaitedKept
    <3> QED BY <2>1, <3>1 DEF IInv, TypeOK
  <2>4. Wire' /\ Steps' BY <2>1 DEF IInv, Wire, Steps
  <2>5. Mirrored' BY <2>1 DEF IInv, Mirrored, Told
  <2> QED BY <2>2, <2>3, <2>4, <2>5 DEF IInv
<1>2. CASE MegaReads BY <1>2, ReadsIInv
<1>3. CASE MegaMoves BY <1>3, MovesIInv
<1>4. CASE MegaServo BY <1>4, ServoIInv
<1>5. CASE ReadFrame BY <1>5, ReadFrameIInv
<1>6. CASE LoseFrame BY <1>6, LoseFrameIInv
<1>7. CASE Brownout BY <1>7, BrownoutIInv
<1>8. CASE ReaderLosesPort BY <1>8, LosesPortIInv
<1>9. CASE ReaderEnds BY <1>9, ReaderEndsIInv
<1>10. CASE Hello BY <1>10, HelloIInv
<1>11. CASE Acked BY <1>11, AckedIInv
<1>12. CASE AckTimesOut BY <1>12, AckTimesOutIInv
<1>13. CASE Adopt BY <1>13, AdoptIInv
<1>14. CASE CommandBelts BY <1>14, CommandBeltsIInv
<1>15. ASSUME NEW g \in Goals, Actuate(g) PROVE IInv' BY <1>15, ActuateIInv
<1>16. ASSUME NEW g \in Goals, Answered(g) PROVE IInv' BY <1>16, AnsweredIInv
<1>17. ASSUME NEW g \in Goals, ActuationTimesOut(g) PROVE IInv' BY <1>17, TimesOutIInv
<1>18. CASE MasterNotices BY <1>18, NoticesIInv
<1>19. CASE Restart BY <1>19, RestartIInv
<1> QED BY <1>1, <1>2, <1>3, <1>4, <1>5, <1>6, <1>7, <1>8, <1>9, <1>10, <1>11, <1>12, <1>13,
           <1>14, <1>15, <1>16, <1>17, <1>18, <1>19
        DEF Next

\* The inductive invariant holds in every state.
LEMMA Invariance == Spec => []IInv
<1>1. Init => IInv BY InitIInv
<1>2. IInv /\ [Next]_vars => IInv' BY NextIInv
<1> QED BY <1>1, <1>2, PTL DEF Spec

\* The arm is away exactly for the pending actuation, every order and every answer on the
\* line is one the code writes, and an answer that is kept is waited for.
THEOREM LinkTyped == Spec => []TypeOK
<1>1. IInv => TypeOK BY DEF IInv
<1> QED BY <1>1, Invariance, PTL

\* A success stands for a cycle of the arm from start to end (none for a product that
\* passes), and no command_id moves the arm twice, whatever is lost, reset or sent again.
THEOREM OneCyclePerCommand == Spec => []ActuationExact
<1>1. ASSUME IInv PROVE ActuationExact
  <2>1. Books(mega, Queue, Heard, begun, finished) BY <1>1 DEF IInv
  <2>2. ASSUME NEW c \in Commands PROVE begun[c] <= 1 /\ finished[c] <= begun[c]
    <3>1. begun[c] \in 0 .. 1 /\ finished[c] <= begun[c] BY <2>1 DEF Books
    <3> QED BY <3>1
  <2>3. ASSUME NEW g \in Goals, outcome[g] = "success"
        PROVE  finished[CommandOf[g]] = IF actuator_command[g] = NG THEN 1 ELSE 0
    <3>1. Achieved(g, mega, Queue, begun, finished) BY <2>1, <2>3 DEF Books
    <3> QED BY <3>1 DEF Achieved, Want
  <2> QED BY <2>2, <2>3 DEF ActuationExact
<1> QED BY <1>1, Invariance, PTL

\* A Control in session with nothing left to read has told the Master the state the board
\* reported last, unless a frame was lost.
THEOREM MasterMirrorsBoard == Spec => []MirrorAgrees
<1>1. ASSUME IInv PROVE MirrorAgrees
  <2> SUFFICES ASSUME session, port = "open", "lost" \notin trouble,
                      mega.reported = Status(mega),
                      \A i \in DOMAIN mega.tx : mega.tx[i].kind # "STATE"
               PROVE  mirror = Status(mega)
    BY DEF MirrorAgrees
  <2>1. mega \in MegaType /\ mega.tx \in Seq(Frames) BY <1>1, LinkTypes
  <2>2. Status(mega) \in EquipmentStates /\ Status(mega) # None
    <3>1. (mega.servo = "READY") \in BOOLEAN OBVIOUS
    <3>2. Status(mega) \in EquipmentStates BY <2>1, <3>1 DEF Status, EquipmentStates, MegaType
    <3> QED BY <3>2, FirmwareAssumption
  <2>3. Told BY <1>1, <2>2 DEF IInv, Mirrored
  <2>4. latest = mega.reported BY <2>1, <2>3 DEF Told, Tells
  <2>5. latest # None => mirror = latest BY <1>1 DEF IInv, Mirrored
  <2> QED BY <2>2, <2>4, <2>5
<1> QED BY <1>1, Invariance, PTL

\* Without a brown-out no belt runs on a board that has not got its offset, across failed
\* handshakes, reconnections and restarts.
THEOREM RunsWithOffset == Spec => []OffsetBeforeRun
<1>1. IInv => OffsetBeforeRun BY DEF IInv, OffsetsKnown, OffsetBeforeRun
<1> QED BY <1>1, Invariance, PTL
===============================================================================

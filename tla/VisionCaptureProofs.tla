------------------------- MODULE VisionCaptureProofs -------------------------
(* Theorems about VisionCapture, for any goals, captures and scopes, any capacity of
   the queue and of the store, and any number of sessions.                        *)
EXTENDS VisionCapture, FiniteSetTheorems, SequenceTheorems, TLAPS

(* The idempotency store. *)

\* A known command has an entry (dict.get).
LEMMA EntryFound ==
    ASSUME NEW S, NEW entries \in Seq(S), NEW command, Known(entries, command)
    PROVE  /\ Position(entries, command) \in 1 .. Len(entries)
           /\ EntryOf(entries, command) \in S
           /\ EntryOf(entries, command).command = command
<1>1. PICK i \in DOMAIN entries : entries[i].command = command BY DEF Known
<1>2. /\ Position(entries, command) \in DOMAIN entries
      /\ entries[Position(entries, command)].command = command
  BY <1>1, Zenon DEF Position
<1> QED BY <1>2, LenProperties, ElementOfSeq DEF EntryOf

\* Without an entry the others keep their order.
LEMMA WithoutEntry ==
    ASSUME NEW S, NEW entries \in Seq(S), NEW command
    PROVE  /\ Without(entries, command) \in Seq(S)
           /\ ~Known(entries, command) => Without(entries, command) = entries
           /\ Known(entries, command) =>
                  /\ Len(Without(entries, command)) = Len(entries) - 1
                  /\ \A k \in 1 .. Len(entries) - 1 :
                         Without(entries, command)[k] =
                             entries[IF k < Position(entries, command) THEN k ELSE k + 1]
<1> DEFINE i == Position(entries, command)
           front == SubSeq(entries, 1, i - 1)
           back == SubSeq(entries, i + 1, Len(entries))
<1> SUFFICES ASSUME Known(entries, command)
             PROVE  /\ Without(entries, command) \in Seq(S)
                    /\ Len(Without(entries, command)) = Len(entries) - 1
                    /\ \A k \in 1 .. Len(entries) - 1 :
                         Without(entries, command)[k] = entries[IF k < i THEN k ELSE k + 1]
  BY DEF Without
<1>1. i \in 1 .. Len(entries) BY EntryFound
<1> HIDE DEF i
<1>2. /\ front \in Seq(S) /\ Len(front) = i - 1
      /\ \A k \in 1 .. i - 1 : front[k] = entries[k]
  BY <1>1
<1>3. /\ back \in Seq(S) /\ Len(back) = Len(entries) - i
      /\ \A k \in 1 .. Len(entries) - i : back[k] = entries[i + k]
  BY <1>1
<1>4. Without(entries, command) = front \o back BY DEF Without, i
<1> HIDE DEF front, back
<1>5. /\ front \o back \in Seq(S)
      /\ Len(front \o back) = Len(front) + Len(back)
      /\ \A k \in 1 .. Len(front) + Len(back) :
             (front \o back)[k] = IF k <= Len(front) THEN front[k] ELSE back[k - Len(front)]
  BY <1>2, <1>3, ConcatProperties
<1>6. Len(entries) \in Nat OBVIOUS
<1>7. ASSUME NEW k \in 1 .. Len(entries) - 1
      PROVE  (front \o back)[k] = entries[IF k < i THEN k ELSE k + 1]
  <2>1. (front \o back)[k] = IF k <= i - 1 THEN front[k] ELSE back[k - (i - 1)]
    BY <1>1, <1>2, <1>3, <1>5, <1>6
  <2>2. CASE k < i BY <2>1, <2>2, <1>1, <1>2, <1>6
  <2>3. CASE ~(k < i)
    <3>1. k - (i - 1) \in 1 .. Len(entries) - i /\ i + (k - (i - 1)) = k + 1
      BY <2>3, <1>1, <1>6
    <3>2. back[k - (i - 1)] = entries[k + 1] BY <3>1, <1>3
    <3> QED BY <2>1, <2>3, <3>2, <1>1, <1>6
  <2> QED BY <2>2, <2>3
<1> QED BY <1>1, <1>2, <1>3, <1>4, <1>5, <1>6, <1>7

\* inspect only reorders.
LEMMA InspectedStore ==
    ASSUME NEW S, NEW entries \in Seq(S), NEW command
    PROVE  /\ Inspected(entries, command) \in Seq(S)
           /\ Len(Inspected(entries, command)) = Len(entries)
<1>1. CASE Known(entries, command)
  <2> DEFINE rest == Without(entries, command)
             e == EntryOf(entries, command)
  <2>1. e \in S BY <1>1, EntryFound
  <2>2. rest \in Seq(S) /\ Len(rest) = Len(entries) - 1 BY <1>1, WithoutEntry
  <2>3. Inspected(entries, command) = Append(rest, e) BY <1>1 DEF Inspected
  <2> HIDE DEF rest, e
  <2> QED BY <2>1, <2>2, <2>3
<1>2. CASE ~Known(entries, command) BY <1>2 DEF Inspected
<1> QED BY <1>1, <1>2

\* remember keeps at most StoreCapacity entries.
LEMMA RememberedStore ==
    ASSUME NEW S, NEW entries \in Seq(S), NEW command, NEW digest, NEW result,
           Entry(command, digest, result) \in S
    PROVE  /\ Remembered(entries, command, digest, result) \in Seq(S)
           /\ Len(entries) <= StoreCapacity =>
                  Len(Remembered(entries, command, digest, result)) <= StoreCapacity
<1> DEFINE rest == Without(entries, command)
           e == Entry(command, digest, result)
           all == Append(rest, e)
<1>1. rest \in Seq(S) /\ Len(rest) <= Len(entries) BY WithoutEntry
<1>2. Remembered(entries, command, digest, result)
        = IF Len(all) > StoreCapacity THEN Tail(all) ELSE all
  BY DEF Remembered
<1>3. e \in S OBVIOUS
<1> HIDE DEF rest, e
<1>4. all \in Seq(S) /\ Len(all) = Len(rest) + 1 /\ all # <<>> BY <1>1, <1>3
<1> HIDE DEF all
<1>5. Tail(all) \in Seq(S) /\ Len(Tail(all)) = Len(all) - 1 BY <1>4
<1> QED BY <1>1, <1>2, <1>4, <1>5, StoreAssumption
-----------------------------------------------------------------------------
(* The inductive invariant. *)

\* What the store may keep, with what was made so far.
Produced(job, digest) == Digest(job) = digest /\ \E n \in Nat : <<job, n>> \in made
Kept == {e \in [command : {CommandOf[g] : g \in Goals}, digest : Digests, result : Goals] :
            Produced(e.result, e.digest)}

Handlings == [phase : {"unsent", "queue", "done"}, queue : Nat, late : SUBSET Goals]

Typed ==
    /\ pc \in [Goals -> Places] /\ outcome \in [Goals -> Outcomes]
    /\ answer \in [Goals -> Goals \cup {None}] /\ sent \in [Goals -> Nat]
    /\ attempt \in [Goals -> 0 .. MaxAttempts]
    /\ \A g \in Goals : pc[g] # "done" => attempt[g] < MaxAttempts
    /\ queue \in [number : Nat, closed : BOOLEAN, jobs : SUBSET Goals, scopes : SUBSET Scopes]
    /\ IsFiniteSet(queue.jobs) /\ Cardinality(queue.jobs) <= Capacity
    /\ made \in SUBSET (Goals \X Nat) /\ \A j \in made : j[2] <= session
    /\ completed \in [Digests -> Goals \cup {None}]
    /\ Len(store) <= StoreCapacity
    /\ canceled \in SUBSET Goals /\ nodeScopes \in SUBSET Scopes
    /\ handling \in [Scopes -> Handlings]
    /\ session \in Nat /\ master \in Nat /\ session <= master
    /\ ready \in BOOLEAN /\ shutdown \in BOOLEAN
    /\ phase \in {"idle", "loading", "replaced"}

\* The waiters of a station are its waiting goals, each once.
WaitersStand ==
    /\ waiters \in [Stations -> Seq(Goals)]
    /\ \A s \in Stations, i, k \in Nat :
          i \in 1 .. Len(waiters[s]) /\ k \in 1 .. Len(waiters[s]) =>
              /\ StationOf[waiters[s][i]] = s /\ pc[waiters[s][i]] = "waiting"
              /\ waiters[s][i] = waiters[s][k] => i = k
    /\ \A g \in Goals : pc[g] = "waiting" =>
          \E i \in 1 .. Len(waiters[StationOf[g]]) : waiters[StationOf[g]][i] = g

\* A station is locked for the one goal that is inside.
OneInside ==
    /\ locked \in [Stations -> BOOLEAN]
    /\ \A g, h \in Goals :
          pc[g] \in Inside /\ pc[h] \in Inside /\ StationOf[g] = StationOf[h] => g = h
    /\ \A s \in Stations : locked[s] => \E g \in Goals : StationOf[g] = s /\ pc[g] \in Inside
    /\ \A g \in Goals : pc[g] \in Inside => locked[StationOf[g]]
    /\ \A s \in Stations : waiters[s] # <<>> => locked[s]

Locks == WaitersStand /\ OneInside

\* A capture under way has no job in this session yet; one that has a job is complete, or
\* its goal is about to say so, inside the lock.
Shooting == {"shooting", "saved", "enqueue", "refused", "blocked"}
Fresh ==
    /\ \A g \in Goals, j \in Goals :
          pc[g] \in Shooting /\ <<j, session>> \in made => Digest(j) # Digest(g)
    /\ \A j \in Goals :
          <<j, session>> \in made => completed[Digest(j)] # None \/ pc[j] = "enqueued"

\* What answers a goal was made for what it asks for.
Answers ==
    /\ store \in Seq(Kept)
    /\ \A d \in Digests : completed[d] # None => Produced(completed[d], d)
    /\ \A g \in Goals : pc[g] = "enqueued" => Produced(g, Digest(g))

\* An acknowledged scope is known to its queue, and whoever slipped past the node's last
\* look was there before the scope.
ScopesHold ==
    \A scope \in Scopes :
        /\ handling[scope].phase = "done" =>
              /\ handling[scope].queue <= queue.number
              /\ handling[scope].queue = queue.number => scope \in queue.scopes
        /\ scope \in nodeScopes =>
              \A g \in Committed : Covers(scope, g) => g \in handling[scope].late

IInv == Typed /\ Locks /\ Fresh /\ Answers /\ OneJobPerCapture /\ ScopesHold

-----------------------------------------------------------------------------
(* The station lock. *)

\* A step of a goal leaves the others where they are, but for the one it lets in.
Moves(g) ==
    /\ pc' \in [Goals -> Places]
    /\ \A h \in Goals \ {g} :
           pc'[h] = pc[h] \/ (pc[h] = "waiting" /\ pc'[h] = "entered")

\* A goal that goes on inside the lock, or is not at the lock at all, leaves the lock as
\* it is.
LEMMA GoesOn ==
    ASSUME Typed, Locks, NEW g \in Goals, NEW where \in Places, Goto(g, where),
           UNCHANGED lockVars, pc[g] # "waiting", where # "waiting",
           pc[g] \in Inside <=> where \in Inside
    PROVE  Locks' /\ Moves(g) /\ pc'[g] = where
<1>1. /\ pc' = [pc EXCEPT ![g] = where] /\ pc \in [Goals -> Places]
      /\ waiters' = waiters /\ locked' = locked
  BY DEF Goto, Typed, lockVars
<1>2. \A h \in Goals : /\ pc'[h] = IF h = g THEN where ELSE pc[h]
                       /\ pc'[h] \in Inside <=> pc[h] \in Inside
                       /\ pc'[h] = "waiting" <=> pc[h] = "waiting"
  BY <1>1
<1>3. Moves(g) BY <1>1, <1>2 DEF Moves
<1>4. WaitersStand'
  <2>1. ASSUME NEW s \in Stations, NEW i \in 1 .. Len(waiters[s])
        PROVE  pc'[waiters[s][i]] = "waiting"
    BY <1>2 DEF Locks, WaitersStand
  <2> QED BY <1>1, <1>2, <2>1 DEF Locks, WaitersStand
<1>5. OneInside' BY <1>1, <1>2 DEF Locks, OneInside
<1> QED BY <1>2, <1>3, <1>4, <1>5 DEF Locks

\* ExecutorLock.__aenter__ takes a free lock, or waits behind the others.
LEMMA Enters ==
    ASSUME Typed, Locks, NEW g \in Goals, EnterStation(g)
    PROVE  Locks' /\ Moves(g) /\ pc'[g] \in {"waiting", "entered"}
<1> DEFINE s == StationOf[g]
<1>0. s \in Stations /\ pc[g] = "checked" /\ pc \in [Goals -> Places]
  BY CaptureAssumption DEF EnterStation, Typed
<1>1. CASE locked[s]
  <2>1. /\ waiters' = [waiters EXCEPT ![s] = Append(@, g)] /\ locked' = locked
        /\ pc' = [pc EXCEPT ![g] = "waiting"]
    BY <1>1 DEF EnterStation, Goto
  <2>2. waiters[s] \in Seq(Goals) /\ Len(waiters[s]) \in Nat BY <1>0 DEF Locks, WaitersStand
  <2>3. waiters' \in [Stations -> Seq(Goals)] BY <1>0, <2>1, <2>2 DEF Locks, WaitersStand
  <2>4. /\ Len(waiters'[s]) = Len(waiters[s]) + 1 /\ waiters'[s][Len(waiters[s]) + 1] = g
        /\ \A i \in 1 .. Len(waiters[s]) : waiters'[s][i] = waiters[s][i]
        /\ waiters'[s] # <<>>
        /\ \A t \in Stations \ {s} : waiters'[t] = waiters[t]
    BY <1>0, <2>1, <2>2 DEF Locks, WaitersStand
  <2>5. \A h \in Goals : pc'[h] = IF h = g THEN "waiting" ELSE pc[h] BY <1>0, <2>1
  <2>6. \A t \in Stations, i \in Nat : i \in 1 .. Len(waiters[t]) =>
            waiters[t][i] \in Goals \ {g} /\ pc'[waiters[t][i]] = "waiting"
    BY <1>0, <2>5 DEF Locks, WaitersStand
  <2>7. WaitersStand'
    <3>1. ASSUME NEW t \in Stations, NEW i \in Nat, NEW k \in Nat,
                 i \in 1 .. Len(waiters'[t]), k \in 1 .. Len(waiters'[t])
          PROVE  /\ StationOf[waiters'[t][i]] = t /\ pc'[waiters'[t][i]] = "waiting"
                 /\ waiters'[t][i] = waiters'[t][k] => i = k
      <4>1. CASE t # s BY <2>4, <2>6, <3>1, <4>1 DEF Locks, WaitersStand
      <4>2. CASE t = s
        <5>1. \A n \in 1 .. Len(waiters'[s]) :
                 \/ n \in 1 .. Len(waiters[s]) /\ waiters'[s][n] = waiters[s][n]
                 \/ n = Len(waiters[s]) + 1 /\ waiters'[s][n] = g
          BY <2>2, <2>4
        <5>2. \A n, m \in Nat : n \in 1 .. Len(waiters[s]) /\ m \in 1 .. Len(waiters[s]) =>
                  /\ StationOf[waiters[s][n]] = s /\ pc'[waiters[s][n]] = "waiting"
                  /\ waiters[s][n] # g
                  /\ waiters[s][n] = waiters[s][m] => n = m
          BY <1>0, <2>6 DEF Locks, WaitersStand
        <5>3. pc'[g] = "waiting" /\ StationOf[g] = s BY <2>5
        <5>4. i \in 1 .. Len(waiters'[s]) /\ k \in 1 .. Len(waiters'[s]) BY <3>1, <4>2
        <5> HIDE DEF s
        <5> QED BY <4>2, <5>1, <5>2, <5>3, <5>4
      <4> QED BY <4>1, <4>2
    <3>2. ASSUME NEW h \in Goals, pc'[h] = "waiting"
          PROVE  \E i \in 1 .. Len(waiters'[StationOf[h]]) : waiters'[StationOf[h]][i] = h
      <4>1. CASE h = g BY <2>2, <2>4, <4>1
      <4>2. CASE h # g
        <5>1. PICK i \in 1 .. Len(waiters[StationOf[h]]) : waiters[StationOf[h]][i] = h
          BY <2>5, <3>2, <4>2 DEF Locks, WaitersStand
        <5>2. StationOf[h] \in Stations BY CaptureAssumption
        <5> QED BY <2>2, <2>4, <5>1, <5>2
      <4> QED BY <4>1, <4>2
    <3> QED BY <2>3, <3>1, <3>2 DEF WaitersStand
  <2>8. OneInside'
    <3>1. \A h \in Goals : pc'[h] \in Inside <=> pc[h] \in Inside
      BY <1>0, <2>5 DEF Inside
    <3>2. \A t \in Stations : waiters'[t] # <<>> => locked[t]
      BY <1>1, <2>4 DEF Locks, OneInside
    <3> QED BY <2>1, <3>1, <3>2 DEF Locks, OneInside
  <2> QED BY <1>0, <2>1, <2>5, <2>7, <2>8 DEF Locks, Moves, Places
<1>2. CASE ~locked[s]
  <2>1. /\ locked' = [locked EXCEPT ![s] = TRUE] /\ waiters' = waiters
        /\ pc' = [pc EXCEPT ![g] = "entered"]
    BY <1>2 DEF EnterStation, Goto
  <2>2. \A h \in Goals : pc'[h] = IF h = g THEN "entered" ELSE pc[h] BY <1>0, <2>1
  <2>3. \A h \in Goals : pc[h] \in Inside => StationOf[h] # s
    BY <1>2 DEF Locks, OneInside
  <2>4. \A h \in Goals : pc'[h] \in Inside <=> h = g \/ pc[h] \in Inside
    BY <2>2 DEF Inside
  <2>5. locked' \in [Stations -> BOOLEAN] /\ \A t \in Stations : locked'[t] = (t = s \/ locked[t])
    BY <1>0, <2>1 DEF Locks, OneInside
  <2>6. OneInside'
    <3>1. \A h, k \in Goals :
              pc'[h] \in Inside /\ pc'[k] \in Inside /\ StationOf[h] = StationOf[k] => h = k
      BY <2>3, <2>4 DEF Locks, OneInside
    <3>2. \A t \in Stations : locked'[t] =>
              \E h \in Goals : StationOf[h] = t /\ pc'[h] \in Inside
      BY <2>4, <2>5 DEF Locks, OneInside
    <3>3. \A h \in Goals : pc'[h] \in Inside => locked'[StationOf[h]]
      BY <1>0, <2>4, <2>5, CaptureAssumption DEF Locks, OneInside
    <3> QED BY <2>1, <2>5, <3>1, <3>2, <3>3 DEF Locks, OneInside
  <2>7. \A t \in Stations, i \in Nat : i \in 1 .. Len(waiters[t]) =>
            waiters[t][i] \in Goals \ {g} /\ pc'[waiters[t][i]] = "waiting"
    BY <1>0, <2>2 DEF Locks, WaitersStand
  <2>8. WaitersStand' BY <2>1, <2>2, <2>7 DEF Locks, WaitersStand
  <2> QED BY <1>0, <2>1, <2>2, <2>6, <2>8 DEF Locks, Moves, Places
<1> QED BY <1>1, <1>2

\* ExecutorLock.release lets the first waiter in, or opens the lock.
LEMMA Leaves ==
    ASSUME Typed, Locks, NEW g \in Goals, pc[g] \in Inside, Released(g, Done(g))
    PROVE  Locks' /\ Moves(g) /\ pc'[g] = "done"
<1> DEFINE s == StationOf[g]
           front == Head(waiters[s])
<1>0. /\ s \in Stations /\ pc \in [Goals -> Places] /\ Done(g) \in [Goals -> Places]
      /\ locked \in [Stations -> BOOLEAN] /\ waiters \in [Stations -> Seq(Goals)]
      /\ pc[g] # "waiting"
  <2>1. s \in Stations BY CaptureAssumption
  <2>2. pc \in [Goals -> Places] BY DEF Typed
  <2>3. Done(g) \in [Goals -> Places] BY <2>2 DEF Done, Places
  <2>4. pc[g] # "waiting" BY DEF Inside
  <2> QED BY <2>1, <2>2, <2>3, <2>4 DEF Locks, WaitersStand, OneInside
<1>1. CASE waiters[s] = <<>>
  <2>1. /\ locked' = [locked EXCEPT ![s] = FALSE] /\ waiters' = waiters /\ pc' = Done(g)
    BY <1>1 DEF Released
  <2>2. \A h \in Goals : pc'[h] = IF h = g THEN "done" ELSE pc[h] BY <1>0, <2>1 DEF Done
  <2>3. \A h \in Goals : pc'[h] \in Inside <=> h # g /\ pc[h] \in Inside
    BY <2>2 DEF Inside
  <2>4. locked' \in [Stations -> BOOLEAN] /\ \A t \in Stations : locked'[t] = (t # s /\ locked[t])
    BY <1>0, <2>1
  <2>5. \A h \in Goals \ {g} : pc[h] \in Inside => StationOf[h] # s
    BY DEF Locks, OneInside
  <2>6. OneInside'
    <3>1. \A t \in Stations : locked'[t] => \E h \in Goals : StationOf[h] = t /\ pc'[h] \in Inside
      <4> SUFFICES ASSUME NEW t \in Stations, locked'[t]
                   PROVE  \E h \in Goals : StationOf[h] = t /\ pc'[h] \in Inside
        OBVIOUS
      <4>1. t # s /\ locked[t] BY <2>4
      <4>2. PICK h \in Goals : StationOf[h] = t /\ pc[h] \in Inside
        BY <4>1 DEF Locks, OneInside
      <4> QED BY <2>3, <4>1, <4>2
    <3>2. \A h \in Goals : pc'[h] \in Inside => locked'[StationOf[h]]
      BY <2>3, <2>4, <2>5, CaptureAssumption DEF Locks, OneInside
    <3>3. \A t \in Stations : waiters'[t] # <<>> => locked'[t]
      BY <1>1, <2>1, <2>4 DEF Locks, OneInside
    <3> QED BY <2>3, <2>4, <3>1, <3>2, <3>3 DEF Locks, OneInside
  <2>7. \A t \in Stations, i \in Nat : i \in 1 .. Len(waiters[t]) =>
            waiters[t][i] \in Goals \ {g} /\ pc'[waiters[t][i]] = "waiting"
    BY <1>0, <2>2 DEF Locks, WaitersStand
  <2>8. WaitersStand' BY <2>1, <2>2, <2>7 DEF Locks, WaitersStand
  <2> QED BY <1>0, <2>1, <2>2, <2>6, <2>8 DEF Locks, Moves
<1>2. CASE waiters[s] # <<>>
  <2>1. /\ waiters' = [waiters EXCEPT ![s] = Tail(@)] /\ locked' = locked
        /\ pc' = [Done(g) EXCEPT ![front] = "entered"]
    BY <1>2 DEF Released
  <2>2. /\ waiters[s] \in Seq(Goals) /\ Len(waiters[s]) \in Nat \ {0} /\ front = waiters[s][1]
    BY <1>0, <1>2
  <2>3. front \in Goals \ {g} /\ pc[front] = "waiting" /\ StationOf[front] = s
    BY <1>0, <2>2 DEF Locks, WaitersStand
  <2>4. /\ waiters' \in [Stations -> Seq(Goals)]
        /\ Len(waiters'[s]) = Len(waiters[s]) - 1
        /\ \A i \in 1 .. Len(waiters'[s]) : waiters'[s][i] = waiters[s][i + 1]
        /\ \A t \in Stations \ {s} : waiters'[t] = waiters[t]
    BY <1>0, <1>2, <2>1, <2>2
  <2>5. \A h \in Goals : pc'[h] = IF h = g THEN "done" ELSE IF h = front THEN "entered" ELSE pc[h]
    BY <1>0, <2>1, <2>3 DEF Done
  <2>6. \A h \in Goals : pc'[h] \in Inside <=> h = front \/ (h # g /\ pc[h] \in Inside)
    BY <2>5, <2>3 DEF Inside
  <2>7. \A h \in Goals \ {g} : pc[h] \in Inside => StationOf[h] # s
    BY DEF Locks, OneInside
  <2>8. locked[s] BY DEF Locks, OneInside
  <2>9. OneInside'
    <3>1. \A h, k \in Goals :
              pc'[h] \in Inside /\ pc'[k] \in Inside /\ StationOf[h] = StationOf[k] => h = k
      BY <2>3, <2>6, <2>7 DEF Locks, OneInside
    <3>2. \A t \in Stations : locked[t] => \E h \in Goals : StationOf[h] = t /\ pc'[h] \in Inside
      <4> SUFFICES ASSUME NEW t \in Stations, locked[t], t # s
                   PROVE  \E h \in Goals : StationOf[h] = t /\ pc'[h] \in Inside
        BY <2>3, <2>6
      <4>2. PICK h \in Goals : StationOf[h] = t /\ pc[h] \in Inside BY DEF Locks, OneInside
      <4> QED BY <2>6, <4>2
    <3>3. \A h \in Goals : pc'[h] \in Inside => locked[StationOf[h]]
      BY <2>3, <2>6, <2>8 DEF Locks, OneInside
    <3>4. \A t \in Stations : waiters'[t] # <<>> => locked[t]
      BY <2>4, <2>8 DEF Locks, OneInside
    <3> QED BY <2>1, <3>1, <3>2, <3>3, <3>4 DEF Locks, OneInside
  <2>10. WaitersStand'
    <3>0. /\ \A m \in Nat : m \in 1 .. Len(waiters[s]) =>
                /\ waiters[s][m] \in Goals \ {g} /\ pc[waiters[s][m]] = "waiting"
                /\ StationOf[waiters[s][m]] = s /\ (waiters[s][m] = front => m = 1)
          /\ \A m, n \in Nat : m \in 1 .. Len(waiters[s]) /\ n \in 1 .. Len(waiters[s]) =>
                (waiters[s][m] = waiters[s][n] => m = n)
      BY <1>0, <2>2 DEF Locks, WaitersStand
    <3>1. \A t \in Stations, i \in Nat : i \in 1 .. Len(waiters[t]) =>
            waiters[t][i] \in Goals \ {g} /\ pc[waiters[t][i]] = "waiting"
                /\ StationOf[waiters[t][i]] = t
      BY <1>0 DEF Locks, WaitersStand
    <3>2. ASSUME NEW t \in Stations, NEW i \in Nat, NEW k \in Nat,
                 i \in 1 .. Len(waiters'[t]), k \in 1 .. Len(waiters'[t])
          PROVE  /\ StationOf[waiters'[t][i]] = t /\ pc'[waiters'[t][i]] = "waiting"
                 /\ waiters'[t][i] = waiters'[t][k] => i = k
      <4>1. CASE t # s
        <5>1. waiters'[t][i] # front BY <2>3, <2>4, <3>1, <3>2, <4>1
        <5> QED BY <2>4, <2>5, <3>1, <3>2, <4>1, <5>1 DEF Locks, WaitersStand
      <4>2. CASE t = s
        <5>0. i \in 1 .. Len(waiters'[s]) /\ k \in 1 .. Len(waiters'[s]) BY <3>2, <4>2
        <5>1. /\ i + 1 \in 1 .. Len(waiters[s]) /\ k + 1 \in 1 .. Len(waiters[s])
              /\ waiters'[s][i] = waiters[s][i + 1] /\ waiters'[s][k] = waiters[s][k + 1]
              /\ 1 \in 1 .. Len(waiters[s]) /\ i + 1 # 1
          <6> DEFINE n == Len(waiters[s])
                     m == Len(waiters'[s])
          <6>1. n \in Nat \ {0} /\ m = n - 1 BY <2>2, <2>4
          <6>2. /\ waiters'[s][i] = waiters[s][i + 1] /\ waiters'[s][k] = waiters[s][k + 1]
            BY <2>4, <5>0, Zenon
          <6>3. i \in 1 .. m /\ k \in 1 .. m BY <5>0
          <6> HIDE DEF n, m
          <6>4. i + 1 \in 1 .. n /\ k + 1 \in 1 .. n /\ 1 \in 1 .. n /\ i + 1 # 1
            BY ONLY <6>1, <6>3
          <6> QED BY <6>2, <6>4 DEF n
        <5> HIDE DEF s, front
        <5>2. /\ waiters[s][i + 1] # front /\ waiters[s][i + 1] \in Goals \ {g}
              /\ pc[waiters[s][i + 1]] = "waiting" /\ StationOf[waiters[s][i + 1]] = s
          BY <3>0, <3>2, <5>1
        <5>3. waiters[s][i + 1] = waiters[s][k + 1] => i + 1 = k + 1
          <6>1. i + 1 \in Nat /\ k + 1 \in Nat OBVIOUS
          <6> QED BY <3>0, <5>1, <6>1, Zenon
        <5>4. pc'[waiters[s][i + 1]] = "waiting" BY <2>5, <5>2
        <5> QED BY <3>2, <4>2, <5>1, <5>2, <5>3, <5>4
      <4> QED BY <4>1, <4>2
    <3>3. ASSUME NEW h \in Goals, pc'[h] = "waiting"
          PROVE  \E i \in 1 .. Len(waiters'[StationOf[h]]) : waiters'[StationOf[h]][i] = h
      <4>1. pc[h] = "waiting" /\ h # front BY <2>5, <3>3
      <4>2. PICK i \in 1 .. Len(waiters[StationOf[h]]) : waiters[StationOf[h]][i] = h
        BY <4>1 DEF Locks, WaitersStand
      <4>3. StationOf[h] \in Stations BY CaptureAssumption
      <4>4. CASE StationOf[h] # s BY <2>4, <4>2, <4>3, <4>4
      <4>5. CASE StationOf[h] = s
        <5>1. i # 1 BY <2>2, <4>1, <4>2, <4>5
        <5>2. i - 1 \in 1 .. Len(waiters'[s]) /\ waiters'[s][i - 1] = h
          <6>0. i \in 1 .. Len(waiters[s]) /\ waiters[s][i] = h BY <4>2, <4>5
          <6> HIDE DEF s, front
          <6>1. i - 1 \in 1 .. Len(waiters'[s]) BY <2>2, <2>4, <5>1, <6>0
          <6>2. waiters'[s][i - 1] = waiters[s][(i - 1) + 1] BY <2>4, <6>1
          <6> QED BY <6>0, <6>1, <6>2
        <5> QED BY <4>5, <5>2
      <4> QED BY <4>4, <4>5
    <3>4. waiters' \in [Stations -> Seq(Goals)] BY <2>4
    <3> HIDE DEF s, front
    <3> QED BY <3>2, <3>3, <3>4 DEF WaitersStand
  <2>11. pc' \in [Goals -> Places] BY <1>0, <2>1, <2>3 DEF Places
  <2>12. Moves(g) BY <2>3, <2>5, <2>11 DEF Moves
  <2> QED BY <2>3, <2>5, <2>9, <2>10, <2>12 DEF Locks
<1> QED BY <1>1, <1>2

-----------------------------------------------------------------------------
(* The steps of a goal that make no job. *)

Committing == {"enqueue", "refused", "blocked"}

\* What such a step may do, and keeps the invariant by.
Quiet(g) ==
    /\ Locks' /\ Moves(g)
    /\ outcome' \in [Goals -> Outcomes] /\ sent' \in [Goals -> Nat]
    /\ attempt' \in [Goals -> 0 .. MaxAttempts]
    /\ \A h \in Goals \ {g} : attempt'[h] = attempt[h]
    /\ pc'[g] # "done" => attempt'[g] < MaxAttempts
    /\ answer' \in [Goals -> Goals \cup {None}]
    /\ \A h \in Goals : answer'[h] = answer[h] \/ Produced(answer'[h], Digest(h))
    /\ store' \in Seq(Kept) /\ Len(store') <= StoreCapacity
    /\ ready' \in BOOLEAN
    /\ UNCHANGED <<queue, made, completed, cancelVars, session, master, phase, shutdown>>
    /\ pc[g] # "enqueued" /\ pc'[g] # "enqueued"
    /\ pc'[g] \in Shooting =>
           pc[g] \in Shooting \/ \A j \in Goals : <<j, session>> \in made => Digest(j) # Digest(g)
    /\ pc'[g] \in Committing => pc[g] \in Committing \/ ~ScopeCanceled(g)

\* It keeps the invariant.
LEMMA QuietKeeps == ASSUME IInv, NEW g \in Goals, Quiet(g) PROVE IInv'
<1> USE DEF cancelVars
<1>1. \A h \in Goals \ {g} :
          pc'[h] = pc[h] \/ (pc[h] = "waiting" /\ pc'[h] = "entered")
  BY DEF Quiet, Moves
<1>2. Typed'
  <2>1. \A h \in Goals : pc'[h] # "done" => attempt'[h] < MaxAttempts
    BY <1>1 DEF Quiet, IInv, Typed
  <2> QED BY <2>1 DEF Quiet, Moves, IInv, Typed
<1>3. Fresh'
  <2>1. \A h \in Goals, j \in Goals :
          pc'[h] \in Shooting /\ <<j, session>> \in made => Digest(j) # Digest(h)
    <3>1. \A h \in Goals \ {g} : pc'[h] \in Shooting => pc[h] \in Shooting
      BY <1>1 DEF Shooting
    <3> QED BY <3>1 DEF Quiet, IInv, Fresh
  <2>2. \A j \in Goals : pc[j] = "enqueued" => pc'[j] = "enqueued"
    BY <1>1 DEF Quiet
  <2> QED BY <2>1, <2>2 DEF Quiet, IInv, Fresh, Digest
<1>4. Answers'
  <2>0. made' = made BY DEF Quiet
  <2>1. Kept' = Kept BY <2>0 DEF Kept, Produced, Digests, Digest, Identity
  <2>2. \A j \in Goals : pc'[j] = "enqueued" => pc[j] = "enqueued"
    BY <1>1 DEF Quiet
  <2> QED BY <2>0, <2>1, <2>2 DEF Quiet, IInv, Answers, Produced
<1>5. OneJobPerCapture'
  <2>1. made' = made /\ \A h \in Goals : answer'[h] = answer[h] \/ Produced(answer'[h], Digest(h))
    BY DEF Quiet
  <2>2. \A h \in Goals : answer'[h] # None =>
            \E j \in made : j[1] = answer'[h] /\ Digest(j[1]) = Digest(h)
    BY <2>1 DEF IInv, OneJobPerCapture, Produced
  <2> QED BY <2>1, <2>2 DEF IInv, OneJobPerCapture, Digest, Identity
<1>6. ScopesHold'
  <2>1. \A h \in Goals, scope \in nodeScopes :
          pc'[h] \in Committing /\ Covers(scope, h) => h \in Committed
    BY <1>1 DEF Quiet, ScopeCanceled, Committing, Committed
  <2> QED BY <2>1 DEF Quiet, IInv, ScopesHold, Committed, Committing
<1> QED BY <1>2, <1>3, <1>4, <1>5, <1>6 DEF Quiet, IInv

\* _terminal_capture inside the lock lets go of it.
LEMMA TerminalEnds ==
    ASSUME IInv, NEW g \in Goals, NEW what \in Outcomes, pc[g] \in Inside, Terminal(g, what)
    PROVE  /\ Locks' /\ Moves(g) /\ pc'[g] = "done"
           /\ outcome' \in [Goals -> Outcomes] /\ answer' = answer
<1>1. Released(g, Done(g)) BY DEF Terminal
<1>2. Typed /\ Locks BY DEF IInv
<1>3. Locks' /\ Moves(g) /\ pc'[g] = "done" BY <1>1, <1>2, Leaves
<1> QED BY <1>2, <1>3 DEF Terminal, Typed

\* The reply to a goal names a job that was made for what it asks for.
LEMMA ReplyEnds ==
    ASSUME IInv, NEW g \in Goals, NEW job \in Goals, pc[g] \in Inside,
           Produced(job, Digest(g)), Reply(g, job)
    PROVE  /\ Locks' /\ Moves(g) /\ pc'[g] = "done"
           /\ outcome' \in [Goals -> Outcomes] /\ answer' \in [Goals -> Goals \cup {None}]
           /\ \A h \in Goals : answer'[h] = answer[h] \/ Produced(answer'[h], Digest(h))
           /\ store' \in Seq(Kept) /\ Len(store') <= StoreCapacity
<1>1. CASE Inspect(store, CommandOf[g], Digest(g)) = "CONFLICT"
  <2>1. Terminal(g, "raised") /\ store' = store BY <1>1 DEF Reply
  <2>2. "raised" \in Outcomes BY DEF Outcomes
  <2> QED BY <2>1, <2>2, TerminalEnds DEF IInv, Typed, Answers
<1>2. CASE Inspect(store, CommandOf[g], Digest(g)) # "CONFLICT"
  <2>1. /\ store' = Remembered(store, CommandOf[g], Digest(g), job)
        /\ answer' = [answer EXCEPT ![g] = job]
        /\ outcome' = [outcome EXCEPT ![g] = "success"]
        /\ Released(g, Done(g))
    BY <1>2 DEF Reply
  <2>2. Entry(CommandOf[g], Digest(g), job) \in Kept
    BY DEF Entry, Kept, Digests
  <2>3. store \in Seq(Kept) /\ Len(store) <= StoreCapacity BY DEF IInv, Typed, Answers
  <2>4. store' \in Seq(Kept) /\ Len(store') <= StoreCapacity
    BY <2>1, <2>2, <2>3, RememberedStore
  <2>5. Locks' /\ Moves(g) /\ pc'[g] = "done" BY <2>1, Leaves DEF IInv
  <2> QED BY <2>1, <2>4, <2>5 DEF IInv, Typed, Outcomes
<1> QED BY <1>1, <1>2

\* A known command is answered with what was remembered for it.
LEMMA ReplayedJob ==
    ASSUME IInv, NEW g \in Goals, Inspect(store, CommandOf[g], Digest(g)) = "REPLAY"
    PROVE  LET job == EntryOf(store, CommandOf[g]).result
           IN  job \in Goals /\ Produced(job, Digest(g))
<1>1. Known(store, CommandOf[g]) /\ EntryOf(store, CommandOf[g]).digest = Digest(g)
  BY DEF Inspect
<1>2. EntryOf(store, CommandOf[g]) \in Kept BY <1>1, EntryFound DEF IInv, Answers
<1> QED BY <1>1, <1>2 DEF Kept

\* _accept_capture_goal.
LEMMA AcceptIsQuiet == ASSUME IInv, NEW g \in Goals, Accept(g) PROVE Quiet(g)
<1> USE DEF IInv
<1>1. pc[g] = "unsent" /\ sent' \in [Goals -> Nat] BY DEF Accept, Typed
<1>2. PICK where \in {"done", "accepted"} : Goto(g, where) /\ UNCHANGED lockVars
  BY DEF Accept, Refused, Goto, Done
<1>3. outcome' \in [Goals -> Outcomes] /\ answer' = answer
  BY DEF Accept, Refused, Typed, Outcomes
<1>4. Locks' /\ Moves(g) /\ pc'[g] = where
  <2>1. where \in Places /\ where # "waiting" /\ (pc[g] \in Inside <=> where \in Inside)
    BY <1>1, <1>2 DEF Places, Inside
  <2> QED BY <1>1, <1>2, <2>1, GoesOn
<1>5. Quiet(g)
  BY <1>1, <1>3, <1>4 DEF Accept, Quiet, Typed, Answers, memoVars, nodeVars, Shooting, Committing
<1> QED BY <1>5

\* _execute_capture up to the lock.
LEMMA ValidateIsQuiet == ASSUME IInv, NEW g \in Goals, Validate(g) PROVE Quiet(g)
<1> USE DEF IInv
<1> DEFINE kind == Inspect(store, CommandOf[g], Digest(g))
           job == EntryOf(store, CommandOf[g]).result
<1>1. pc[g] = "accepted" BY DEF Validate
<1>2. PICK where \in {"done", "checked"} : Goto(g, where) /\ UNCHANGED lockVars
  BY DEF Validate, Refused, Goto, Done
<1>3. Locks' /\ Moves(g) /\ pc'[g] = where
  <2>1. where \in Places /\ where # "waiting" /\ (pc[g] \in Inside <=> where \in Inside)
    BY <1>1, <1>2 DEF Places, Inside
  <2> QED BY <1>1, <1>2, <2>1, GoesOn
<1>4. store' \in Seq(Kept) /\ Len(store') <= StoreCapacity
  <2>1. store' = store \/ store' = Inspected(store, CommandOf[g]) BY DEF Validate
  <2> QED BY <2>1, InspectedStore DEF Answers, Typed
<1>5. /\ outcome' \in [Goals -> Outcomes] /\ answer' \in [Goals -> Goals \cup {None}]
      /\ \A h \in Goals : answer'[h] = answer[h] \/ Produced(answer'[h], Digest(h))
  <2>1. CASE answer' = answer
    BY <2>1 DEF Validate, Refused, Typed, Outcomes
  <2>2. CASE answer' # answer
    <3>1. kind = "REPLAY" /\ answer' = [answer EXCEPT ![g] = job]
          /\ outcome' = [outcome EXCEPT ![g] = "success"]
      BY <2>2 DEF Validate, Refused
    <3>2. job \in Goals /\ Produced(job, Digest(g)) BY <3>1, ReplayedJob
    <3> QED BY <3>1, <3>2 DEF Typed, Outcomes
  <2> QED BY <2>1, <2>2
<1>6. ready' \in BOOLEAN BY DEF Validate, Typed
<1>7. Quiet(g)
  BY <1>1, <1>3, <1>4, <1>5, <1>6
     DEF Validate, Quiet, Typed, Shooting, Committing
<1> QED BY <1>7

\* ExecutorLock.__aenter__.
LEMMA EnterIsQuiet == ASSUME IInv, NEW g \in Goals, EnterStation(g) PROVE Quiet(g)
<1> USE DEF IInv
<1>1. Locks' /\ Moves(g) /\ pc'[g] \in {"waiting", "entered"} BY Enters
<1>2. Quiet(g)
  BY <1>1 DEF EnterStation, Quiet, Typed, Answers, memoVars, nodeVars, Shooting, Committing
<1> QED BY <1>2

\* Inside the lock, a capture that is not complete has no job: whoever made one would be
\* inside as well.
LEMMA ReserveIsQuiet == ASSUME IInv, NEW g \in Goals, Reserve(g) PROVE Quiet(g)
<1> USE DEF IInv
<1>1. pc[g] = "entered" /\ pc[g] \in Inside BY DEF Reserve, Inside
<1>2. CASE Goto(g, "shooting") /\ completed[Digest(g)] = None
           /\ UNCHANGED <<outcome, answer, lockVars, store>>
  <2>1. Locks' /\ Moves(g) /\ pc'[g] = "shooting"
    BY <1>1, <1>2, GoesOn DEF Places, Inside
  <2>2. ASSUME NEW j \in Goals, <<j, session>> \in made, Digest(j) = Digest(g)
        PROVE  FALSE
    <3>1. pc[j] = "enqueued" BY <1>2, <2>2 DEF Fresh
    <3>2. StationOf[j] = StationOf[g] BY <2>2 DEF Digest, Identity
    <3>3. j = g BY <1>1, <3>1, <3>2 DEF Locks, OneInside, Inside
    <3> QED BY <1>1, <3>1, <3>3
  <2>3. Quiet(g)
    BY <1>1, <1>2, <2>1, <2>2
       DEF Reserve, Quiet, Typed, Answers, nodeVars, Shooting, Committing
  <2> QED BY <2>3
<1>3. CASE /\ \E what \in {"canceled", "failed"} : Terminal(g, what)
           /\ UNCHANGED store
  <2>1. PICK what \in {"canceled", "failed"} : Terminal(g, what) BY <1>3
  <2>2. /\ Locks' /\ Moves(g) /\ pc'[g] = "done"
        /\ outcome' \in [Goals -> Outcomes] /\ answer' = answer
    <3>1. what \in Outcomes BY DEF Outcomes
    <3> QED BY <1>1, <2>1, <3>1, TerminalEnds
  <2>3. Quiet(g)
    BY <1>1, <1>3, <2>2 DEF Reserve, Quiet, Typed, Answers, nodeVars, Shooting, Committing
  <2> QED BY <2>3
<1>4. CASE completed[Digest(g)] # None /\ Reply(g, completed[Digest(g)])
  <2> DEFINE job == completed[Digest(g)]
  <2>1. Digest(g) \in Digests BY DEF Digests
  <2>2. job \in Goals /\ Produced(job, Digest(g)) BY <1>4, <2>1 DEF Typed, Answers
  <2>3. /\ Locks' /\ Moves(g) /\ pc'[g] = "done"
        /\ outcome' \in [Goals -> Outcomes] /\ answer' \in [Goals -> Goals \cup {None}]
        /\ \A h \in Goals : answer'[h] = answer[h] \/ Produced(answer'[h], Digest(h))
        /\ store' \in Seq(Kept) /\ Len(store') <= StoreCapacity
    BY <1>1, <1>4, <2>2, ReplyEnds
  <2>4. Quiet(g)
    BY <1>1, <2>3 DEF Reserve, Quiet, Typed, nodeVars, Shooting, Committing
  <2> QED BY <2>4
<1> QED BY <1>2, <1>3, <1>4 DEF Reserve

\* An attempt at the cameras (_capture_required_batch), the last one of MaxAttempts too.
LEMMA AttemptIsQuiet == ASSUME IInv, NEW g \in Goals, Attempt(g) PROVE Quiet(g)
<1> USE DEF IInv
<1>1. pc[g] = "shooting" /\ pc[g] \in Inside BY DEF Attempt, Inside
<1>2. attempt[g] \in 0 .. MaxAttempts /\ attempt[g] < MaxAttempts /\ MaxAttempts \in Nat
  BY <1>1, CaptureAssumption DEF Typed
<1>3. attempt' \in [Goals -> 0 .. MaxAttempts] /\ \A h \in Goals \ {g} : attempt'[h] = attempt[h]
  <2>1. CASE attempt' = attempt BY <2>1 DEF Typed
  <2>2. CASE attempt' = [attempt EXCEPT ![g] = @ + 1] BY <1>2, <2>2 DEF Typed
  <2> QED BY <2>1, <2>2 DEF Attempt
<1>4. /\ Locks' /\ Moves(g) /\ pc'[g] \in {"shooting", "saved", "done"}
      /\ outcome' \in [Goals -> Outcomes] /\ answer' = answer
  <2>1. CASE \E what \in {"canceled", "failed"} : Terminal(g, what)
    <3>1. PICK what \in {"canceled", "failed"} : Terminal(g, what) BY <2>1
    <3>2. what \in Outcomes BY DEF Outcomes
    <3> QED BY <1>1, <3>1, <3>2, TerminalEnds
  <2>2. CASE Goto(g, "saved") /\ UNCHANGED <<outcome, answer, lockVars>>
    BY <1>1, <2>2, GoesOn DEF Typed, Places, Inside
  <2>3. CASE UNCHANGED <<pc, outcome, answer, lockVars>>
    <3>1. Goto(g, "shooting") BY <1>1, <2>3 DEF Goto, Typed
    <3> QED BY <1>1, <2>3, <3>1, GoesOn DEF Typed, Places, Inside
  <2> QED BY <2>1, <2>2, <2>3 DEF Attempt
<1>5. pc'[g] # "done" => attempt'[g] < MaxAttempts
  <2>1. CASE attempt' = attempt BY <1>2, <2>1
  <2>2. CASE attempt' = [attempt EXCEPT ![g] = @ + 1] /\ attempt[g] + 1 < MaxAttempts
    BY <1>2, <2>2 DEF Typed
  <2>3. CASE \E what \in {"canceled", "failed"} : Terminal(g, what)
    <3>1. PICK what \in {"canceled", "failed"} : Terminal(g, what) BY <2>3
    <3>2. what \in Outcomes BY DEF Outcomes
    <3> QED BY <1>1, <3>1, <3>2, TerminalEnds
  <2> QED BY <2>1, <2>2, <2>3 DEF Attempt
<1>6. ready' \in BOOLEAN BY DEF Attempt, Typed
<1>7. Quiet(g)
  BY <1>1, <1>3, <1>4, <1>5, <1>6
     DEF Attempt, Quiet, Typed, Answers, memoVars, cancelVars, Shooting, Committing
<1> QED BY <1>7

\* The last look: no goal gets to the queue past a scope of the node.
LEMMA CheckSavedIsQuiet == ASSUME IInv, NEW g \in Goals, CheckSaved(g) PROVE Quiet(g)
<1> USE DEF IInv
<1>1. pc[g] = "saved" /\ pc[g] \in Inside BY DEF CheckSaved, Inside
<1>2. CASE Terminal(g, "canceled")
  <2>1. /\ Locks' /\ Moves(g) /\ pc'[g] = "done"
        /\ outcome' \in [Goals -> Outcomes] /\ answer' = answer
    <3>1. "canceled" \in Outcomes BY DEF Outcomes
    <3> QED BY <1>1, <1>2, <3>1, TerminalEnds
  <2>2. Quiet(g)
    BY <1>1, <2>1
       DEF CheckSaved, Quiet, Typed, Answers, memoVars, nodeVars, Shooting, Committing
  <2> QED BY <2>2
<1>3. CASE ~ScopeCanceled(g) /\ Goto(g, "enqueue") /\ UNCHANGED <<outcome, answer, lockVars>>
  <2>1. Locks' /\ Moves(g) /\ pc'[g] = "enqueue"
    BY <1>1, <1>3, GoesOn DEF Places, Inside
  <2>2. Quiet(g)
    BY <1>1, <1>3, <2>1
       DEF CheckSaved, Quiet, Typed, Answers, memoVars, nodeVars, Shooting, Committing
  <2> QED BY <2>2
<1> QED BY <1>2, <1>3 DEF CheckSaved

\* The enqueue loop: why a queue refuses, and another turn.
LEMMA CheckRefusalIsQuiet == ASSUME IInv, NEW g \in Goals, CheckRefusal(g) PROVE Quiet(g)
<1> USE DEF IInv
<1>1. pc[g] = "refused" /\ pc[g] \in Inside BY DEF CheckRefusal, Inside
<1>2. CASE \E what \in {"canceled", "failed"} : Terminal(g, what)
  <2>0. PICK what \in {"canceled", "failed"} : Terminal(g, what) BY <1>2
  <2>1. /\ Locks' /\ Moves(g) /\ pc'[g] = "done"
        /\ outcome' \in [Goals -> Outcomes] /\ answer' = answer
    <3>1. what \in Outcomes BY DEF Outcomes
    <3> QED BY <1>1, <2>0, <3>1, TerminalEnds
  <2>2. Quiet(g)
    BY <1>1, <2>1
       DEF CheckRefusal, Quiet, Typed, Answers, memoVars, nodeVars, Shooting, Committing
  <2> QED BY <2>2
<1>3. CASE Goto(g, "blocked") /\ UNCHANGED <<outcome, answer, lockVars>>
  <2>1. Locks' /\ Moves(g) /\ pc'[g] = "blocked"
    BY <1>1, <1>3, GoesOn DEF Places, Inside
  <2>2. Quiet(g)
    BY <1>1, <1>3, <2>1
       DEF CheckRefusal, Quiet, Typed, Answers, memoVars, nodeVars, Shooting, Committing
  <2> QED BY <2>2
<1> QED BY <1>2, <1>3 DEF CheckRefusal

\* ... after wait_for_space.
LEMMA WaitEndsIsQuiet == ASSUME IInv, NEW g \in Goals, WaitEnds(g) PROVE Quiet(g)
<1> USE DEF IInv
<1>1. pc[g] = "blocked" /\ pc[g] \in Inside /\ Goto(g, "enqueue") BY DEF WaitEnds, Inside
<1>2. Locks' /\ Moves(g) /\ pc'[g] = "enqueue"
  BY <1>1, GoesOn DEF WaitEnds, Places, Inside
<1>3. Quiet(g)
  BY <1>1, <1>2
     DEF WaitEnds, Quiet, Typed, Answers, memoVars, nodeVars, Shooting, Committing
<1> QED BY <1>3

-----------------------------------------------------------------------------
(* The job, and the success. *)

\* What was produced stays produced.
LEMMA ProducedGrows ==
    ASSUME made \subseteq made' PROVE /\ Kept \subseteq Kept'
                                      /\ \A job, d : Produced(job, d) => Produced(job, d)'
BY DEF Kept, Produced, Digests, Digest, Identity

\* try_enqueue makes the only job of its capture in this session.
LEMMA TryEnqueueKeeps ==
    ASSUME IInv, NEW g \in Goals, TryEnqueue(g)
    PROVE  Quiet(g) \/ (IInv' /\ Moves(g) /\ ~QueueRefuses(g))
<1> USE DEF IInv
<1>1. pc[g] = "enqueue" /\ pc[g] \in Inside /\ pc[g] \in Shooting
  BY DEF TryEnqueue, Inside, Shooting
<1>2. CASE Goto(g, "refused") /\ UNCHANGED <<queue, made>>
  <2>1. Locks' /\ Moves(g) /\ pc'[g] = "refused"
    BY <1>1, <1>2, GoesOn DEF TryEnqueue, Places, Inside
  <2>2. Quiet(g)
    BY <1>1, <1>2, <2>1
       DEF TryEnqueue, Quiet, Typed, Answers, memoVars, nodeVars, Shooting, Committing
  <2> QED BY <2>2
<1>3. CASE /\ ~QueueRefuses(g) /\ Goto(g, "enqueued")
           /\ queue' = [queue EXCEPT !.jobs = @ \cup {g}]
           /\ made' = made \cup {<<g, session>>}
  <2>1. Locks' /\ Moves(g) /\ pc'[g] = "enqueued"
    BY <1>1, <1>3, GoesOn DEF TryEnqueue, Places, Inside
  <2>2. /\ pc' = [pc EXCEPT ![g] = "enqueued"] /\ pc \in [Goals -> Places]
        /\ \A h \in Goals : pc'[h] = IF h = g THEN "enqueued" ELSE pc[h]
    BY <1>3 DEF Goto, Typed
  <2>3. UNCHANGED <<outcome, answer, sent, attempt, lockVars, memoVars, cancelVars, nodeVars,
                    trouble>>
    BY DEF TryEnqueue
  <2>4. IsFiniteSet(queue'.jobs) /\ Cardinality(queue'.jobs) <= Capacity
    <3>1. /\ IsFiniteSet(queue.jobs) /\ Cardinality(queue.jobs) \in Nat
          /\ Cardinality(queue.jobs) < Capacity /\ Capacity \in Nat
      BY <1>3, FS_CardinalityType, CaptureAssumption DEF Typed, QueueRefuses
    <3>2. queue'.jobs = queue.jobs \cup {g} BY <1>3 DEF Typed
    <3>3. /\ IsFiniteSet(queue.jobs \cup {g})
          /\ Cardinality(queue.jobs \cup {g})
               = IF g \in queue.jobs THEN Cardinality(queue.jobs) ELSE Cardinality(queue.jobs) + 1
      BY <3>1, FS_AddElement, Zenon
    <3>4. Cardinality(queue.jobs \cup {g}) <= Capacity BY <3>1, <3>3
    <3> QED BY <3>2, <3>3, <3>4, Zenon
  <2>5. Typed'
    <3>0. queue.jobs \cup {g} \in SUBSET Goals BY DEF Typed
    <3>1. /\ queue' \in [number : Nat, closed : BOOLEAN, jobs : SUBSET Goals,
                         scopes : SUBSET Scopes]
          /\ made' \in SUBSET (Goals \X Nat) /\ \A j \in made' : j[2] <= session
      <4>1. queue' \in [number : Nat, closed : BOOLEAN, jobs : SUBSET Goals, scopes : SUBSET Scopes]
        BY <1>3, <3>0 DEF Typed
      <4>2. <<g, session>> \in Goals \X Nat /\ session <= session BY DEF Typed
      <4>3. made' \in SUBSET (Goals \X Nat)
        <5>1. made \in SUBSET (Goals \X Nat) BY DEF Typed
        <5>2. {<<g, session>>} \in SUBSET (Goals \X Nat) BY <4>2
        <5> QED BY <1>3, <5>1, <5>2, Zenon
      <4>4. ASSUME NEW j \in made' PROVE j[2] <= session
        <5>1. j \in made => j[2] <= session BY DEF Typed
        <5> QED BY <1>3, <4>2, <5>1
      <4> QED BY <4>1, <4>3, <4>4
    <3>2. \A h \in Goals : pc'[h] # "done" => attempt[h] < MaxAttempts
      BY <1>1, <2>2 DEF Typed
    <3> QED BY <2>1, <2>3, <2>4, <3>1, <3>2
            DEF Typed, Moves, memoVars, cancelVars, nodeVars
  <2>6. Fresh'
    <3>1. ASSUME NEW h \in Goals, NEW j \in Goals, pc'[h] \in Shooting, <<j, session>> \in made'
          PROVE  Digest(j) # Digest(h)
      <4>1. h # g /\ pc[h] \in Shooting /\ pc[h] \in Inside BY <2>2, <3>1 DEF Shooting, Inside
      <4>2. CASE <<j, session>> \in made BY <4>1, <4>2 DEF Fresh
      <4>3. CASE j = g
        <5>1. Digest(j) = Digest(h) => StationOf[g] = StationOf[h] BY <4>3 DEF Digest, Identity
        <5> QED BY <1>1, <4>1, <5>1 DEF Locks, OneInside
      <4> QED BY <1>3, <3>1, <4>2, <4>3
    <3>2. ASSUME NEW j \in Goals, <<j, session>> \in made'
          PROVE  completed[Digest(j)] # None \/ pc'[j] = "enqueued"
      BY <1>3, <2>2, <3>2 DEF Fresh
    <3> QED BY <2>3, <3>1, <3>2 DEF Fresh, memoVars, nodeVars, Digest, Identity
  <2>7. made \subseteq made' BY <1>3
  <2>8. Answers'
    <3>1. store \in Seq(Kept') BY <2>7, ProducedGrows, SeqMonotonic DEF Answers
    <3>2. Produced(g, Digest(g))' BY <1>3 DEF Produced, Typed, Digest, Identity
    <3>3. \A h \in Goals : pc'[h] = "enqueued" => Produced(h, Digest(h))'
      BY <2>2, <2>7, <3>2, ProducedGrows DEF Answers
    <3>4. ASSUME NEW d \in Digests, completed'[d] # None PROVE Produced(completed[d], d)'
      <4>1. PICK job \in Goals : job = completed'[d] /\ Produced(job, d)
        BY <2>3, <3>4 DEF Answers, Typed, memoVars
      <4>2. Produced(job, d)' BY <2>7, <4>1, ProducedGrows
      <4> QED BY <4>1, <4>2
    <3> QED BY <2>3, <3>1, <3>3, <3>4 DEF Answers, memoVars, Produced, Digest, Identity, Digests
  <2>9. OneJobPerCapture'
    <3>1. ASSUME NEW j \in made', NEW k \in made', Digest(j[1]) = Digest(k[1]), j[2] = k[2]
          PROVE  j = k
      <4>1. \A i \in made' : i \in made \/ i = <<g, session>> BY <1>3
      <4>2. \A i \in made : i[1] \in Goals /\ i = <<i[1], i[2]>> BY DEF Typed
      <4>3. ASSUME NEW i \in made, i[2] = session PROVE Digest(i[1]) # Digest(g)
        BY <1>1, <4>2, <4>3 DEF Fresh
      <4> QED BY <3>1, <4>1, <4>3 DEF OneJobPerCapture
    <3>2. \A h \in Goals : answer[h] # None =>
              \E j \in made' : j[1] = answer[h] /\ Digest(j[1]) = Digest(h)
      BY <2>7 DEF OneJobPerCapture
    <3> QED BY <2>3, <3>1, <3>2 DEF OneJobPerCapture, Digest, Identity
  <2>10. ScopesHold'
    <3>1. Committed' \subseteq Committed BY <2>2 DEF Committed
    <3>2. queue'.number = queue.number /\ queue'.scopes = queue.scopes BY <1>3 DEF Typed
    <3> QED BY <2>3, <3>1, <3>2 DEF ScopesHold, cancelVars, Covers
  <2> QED BY <1>3, <2>1, <2>5, <2>6, <2>8, <2>9, <2>10
<1> QED BY <1>2, <1>3 DEF TryEnqueue

\* The capture is complete before its station is free.
LEMMA CompleteKeeps ==
    ASSUME IInv, NEW g \in Goals, Complete(g)
    PROVE  IInv' /\ Moves(g) /\ pc'[g] = "done"
<1> USE DEF IInv
<1>1. pc[g] = "enqueued" /\ pc[g] \in Inside /\ Reply(g, g) BY DEF Complete, Inside
<1>2. Produced(g, Digest(g)) /\ Digest(g) \in Digests BY <1>1 DEF Answers, Digests
<1>3. /\ Locks' /\ Moves(g) /\ pc'[g] = "done"
      /\ outcome' \in [Goals -> Outcomes] /\ answer' \in [Goals -> Goals \cup {None}]
      /\ \A h \in Goals : answer'[h] = answer[h] \/ Produced(answer'[h], Digest(h))
      /\ store' \in Seq(Kept) /\ Len(store') <= StoreCapacity
  BY <1>1, <1>2, ReplyEnds
<1>4. /\ completed' \in [Digests -> Goals \cup {None}]
      /\ \A d \in Digests : completed'[d] = IF d = Digest(g) THEN g ELSE completed[d]
  BY <1>2 DEF Complete, Typed
<1>5. UNCHANGED <<sent, attempt, identities, queue, made, cancelVars, nodeVars, trouble>>
  BY DEF Complete
<1>6. \A h \in Goals \ {g} : pc'[h] = pc[h] \/ (pc[h] = "waiting" /\ pc'[h] = "entered")
  BY <1>3 DEF Moves
<1>7. Typed'
  <2>1. \A h \in Goals : pc'[h] # "done" => attempt[h] < MaxAttempts
    BY <1>3, <1>6 DEF Typed
  <2> QED BY <1>3, <1>4, <1>5, <2>1 DEF Typed, Moves, cancelVars, nodeVars
<1>8. Fresh'
  <2>1. \A h \in Goals : pc'[h] \in Shooting => pc[h] \in Shooting
    BY <1>3, <1>6 DEF Shooting
  <2>2. ASSUME NEW j \in Goals, <<j, session>> \in made
        PROVE  completed'[Digest(j)] # None \/ pc'[j] = "enqueued"
    <3>1. Digest(j) \in Digests /\ g # None BY CaptureAssumption DEF Digests
    <3>2. completed[Digest(j)] # None \/ pc[j] = "enqueued" BY <2>2 DEF Fresh
    <3>3. CASE j = g BY <1>4, <3>1, <3>3
    <3>4. CASE j # g BY <1>4, <1>6, <3>1, <3>2, <3>4
    <3> QED BY <3>3, <3>4
  <2> QED BY <1>5, <2>1, <2>2 DEF Fresh, nodeVars, Digest, Identity
<1>9. Answers'
  <2>1. Kept' = Kept BY <1>5 DEF Kept, Produced, Digests, Digest, Identity
  <2>2. \A j \in Goals : pc'[j] = "enqueued" => pc[j] = "enqueued" BY <1>3, <1>6
  <2>3. \A d \in Digests : completed'[d] # None => Produced(completed'[d], d)
    BY <1>2, <1>4 DEF Answers
  <2> QED BY <1>3, <1>5, <2>1, <2>2, <2>3 DEF Answers, Produced, Digest, Identity, Digests
<1>10. OneJobPerCapture'
  <2>1. \A h \in Goals : answer'[h] # None =>
            \E j \in made : j[1] = answer'[h] /\ Digest(j[1]) = Digest(h)
    BY <1>3 DEF OneJobPerCapture, Produced
  <2> QED BY <1>5, <2>1 DEF OneJobPerCapture, Digest, Identity
<1>11. ScopesHold'
  <2>1. Committed' \subseteq Committed BY <1>3, <1>6 DEF Committed
  <2> QED BY <1>5, <2>1 DEF ScopesHold, cancelVars, Covers
<1> QED BY <1>3, <1>7, <1>8, <1>9, <1>10, <1>11

-----------------------------------------------------------------------------
(* Beside the action. *)

\* What leaves the goals, the locks, the jobs and what is remembered of them alone.
LEMMA BesideFrame ==
    ASSUME IInv, UNCHANGED <<goalVars, lockVars, made>>
    PROVE  /\ Locks' /\ OneJobPerCapture'
           /\ UNCHANGED <<completed, session>> => Fresh'
           /\ UNCHANGED <<completed, store>> => Answers'
<1>1. Locks' BY DEF IInv, Locks, WaitersStand, OneInside, goalVars, lockVars
<1>2. OneJobPerCapture' BY DEF IInv, OneJobPerCapture, goalVars, Digest, Identity
<1>3. UNCHANGED <<completed, session>> => Fresh'
  BY DEF IInv, Fresh, goalVars, Digest, Identity
<1>4. UNCHANGED <<completed, store>> => Answers'
  <2>1. Kept' = Kept BY DEF Kept, Produced, Digests, Digest, Identity
  <2> QED BY <2>1 DEF IInv, Answers, Produced, goalVars, Digest, Identity, Digests
<1> QED BY <1>1, <1>2, <1>3, <1>4

\* The queue changes its jobs: no more than before, and finitely many.
LEMMA FewerJobs ==
    ASSUME Typed, NEW jobs \in SUBSET queue.jobs
    PROVE  IsFiniteSet(jobs) /\ Cardinality(jobs) <= Capacity /\ jobs \in SUBSET Goals
<1>1. /\ IsFiniteSet(queue.jobs) /\ Cardinality(queue.jobs) <= Capacity /\ Capacity \in Nat
      /\ queue.jobs \in SUBSET Goals
  BY CaptureAssumption DEF Typed
<1>2. /\ IsFiniteSet(jobs) /\ Cardinality(jobs) <= Cardinality(queue.jobs)
  BY <1>1, FS_Subset, Zenon
<1>3. Cardinality(jobs) \in Nat /\ Cardinality(queue.jobs) \in Nat
  BY <1>1, <1>2, FS_CardinalityType
<1> QED BY <1>1, <1>2, <1>3

\* A cancellation: the node's scope first, which is when the goals past their last look
\* are counted, then the queue's.
LEMMA InstallScopeKeeps == ASSUME IInv, NEW scope \in Scopes, InstallScope(scope) PROVE IInv'
<1>1. UNCHANGED <<goalVars, lockVars, queue, made, memoVars, canceled, nodeVars, trouble>>
  BY DEF InstallScope
<1>2. Locks' /\ Fresh' /\ Answers' /\ OneJobPerCapture'
  BY <1>1, BesideFrame DEF memoVars, nodeVars
<1>3. /\ nodeScopes' = nodeScopes \cup {scope}
      /\ handling' = [handling EXCEPT ![scope] =
                         [phase |-> "queue", queue |-> 0, late |-> Committed]]
  BY DEF InstallScope
<1>4. Committed \in SUBSET Goals BY DEF Committed
<1>5. /\ handling' \in [Scopes -> Handlings]
      /\ handling'[scope].phase = "queue" /\ handling'[scope].late = Committed
      /\ \A other \in Scopes \ {scope} : handling'[other] = handling[other]
  BY <1>3, <1>4 DEF IInv, Typed, Handlings
<1>6. Typed' BY <1>1, <1>3, <1>5 DEF IInv, Typed, goalVars, memoVars, nodeVars
<1>7. Committed' = Committed BY <1>1 DEF Committed, goalVars
<1>8. ScopesHold' BY <1>1, <1>3, <1>5, <1>7 DEF IInv, ScopesHold, Covers
<1> QED BY <1>2, <1>6, <1>8 DEF IInv

\* cancel_scope: acknowledged, the scope is known to this queue.
LEMMA CancelInQueueKeeps == ASSUME IInv, NEW scope \in Scopes, CancelInQueue(scope) PROVE IInv'
<1> DEFINE left == {g \in queue.jobs : ~Covers(scope, g)}
<1>1. UNCHANGED <<goalVars, lockVars, made, memoVars, canceled, nodeScopes, nodeVars, trouble>>
  BY DEF CancelInQueue
<1>2. Locks' /\ Fresh' /\ Answers' /\ OneJobPerCapture'
  BY <1>1, BesideFrame DEF memoVars, nodeVars
<1>3. /\ queue' = [queue EXCEPT !.jobs = left, !.scopes = @ \cup {scope}]
      /\ handling' = [handling EXCEPT ![scope].phase = "done", ![scope].queue = queue.number]
  BY DEF CancelInQueue
<1>4. IsFiniteSet(left) /\ Cardinality(left) <= Capacity /\ left \in SUBSET Goals
  BY FewerJobs DEF IInv
<1> HIDE DEF left
<1>5. /\ queue' \in [number : Nat, closed : BOOLEAN, jobs : SUBSET Goals, scopes : SUBSET Scopes]
      /\ queue'.jobs = left /\ queue'.number = queue.number
      /\ queue'.scopes = queue.scopes \cup {scope}
      /\ queue.number \in Nat
  BY <1>3, <1>4 DEF IInv, Typed
<1>6. /\ handling' \in [Scopes -> Handlings]
      /\ handling'[scope].queue = queue.number /\ handling'[scope].late = handling[scope].late
      /\ \A other \in Scopes \ {scope} : handling'[other] = handling[other]
  <2> DEFINE new == [handling[scope] EXCEPT !.phase = "done", !.queue = queue.number]
  <2>1. handling \in [Scopes -> Handlings] /\ handling[scope] \in Handlings
    BY DEF IInv, Typed
  <2>2. /\ new \in Handlings /\ new.queue = queue.number /\ new.late = handling[scope].late
    BY <1>5, <2>1 DEF Handlings
  <2>3. handling' = [handling EXCEPT ![scope] = new] BY <1>3, <2>1, Zenon DEF Handlings
  <2> HIDE DEF new
  <2> QED BY <2>1, <2>2, <2>3
<1>7. Typed' BY <1>1, <1>4, <1>5, <1>6 DEF IInv, Typed, goalVars, memoVars, nodeVars
<1>8. Committed' = Committed BY <1>1 DEF Committed, goalVars
<1>9. ScopesHold' BY <1>1, <1>5, <1>6, <1>8 DEF IInv, ScopesHold, Covers
<1> QED BY <1>2, <1>7, <1>9 DEF IInv

\* What empties, closes or replaces the queue.
LEMMA QueueKeeps ==
    ASSUME IInv, UNCHANGED <<goalVars, lockVars, made, memoVars, cancelVars, session>>,
           \/ queue' = queue
           \/ queue' = [queue EXCEPT !.jobs = {}, !.closed = TRUE]
           \/ \E g \in queue.jobs : queue' = [queue EXCEPT !.jobs = @ \ {g}]
           \/ queue' = NewQueue(queue.number + 1),
           master' \in Nat, master <= master', ready' \in BOOLEAN, shutdown' \in BOOLEAN,
           phase' \in {"idle", "loading", "replaced"}
    PROVE  IInv'
<1>1. Locks' /\ Fresh' /\ Answers' /\ OneJobPerCapture'
  BY BesideFrame DEF memoVars
<1> DEFINE Queues == [number : Nat, closed : BOOLEAN, jobs : SUBSET Goals, scopes : SUBSET Scopes]
<1>0. queue \in Queues BY DEF IInv, Typed
<1>2. /\ queue' \in Queues /\ queue'.jobs \in SUBSET queue.jobs
      /\ \/ queue'.number = queue.number /\ queue'.scopes = queue.scopes
         \/ queue'.number = queue.number + 1
  <2>1. CASE queue' = queue BY <1>0, <2>1
  <2>2. CASE queue' = [queue EXCEPT !.jobs = {}, !.closed = TRUE] BY <1>0, <2>2
  <2>3. CASE \E g \in queue.jobs : queue' = [queue EXCEPT !.jobs = @ \ {g}]
    <3>1. PICK g \in queue.jobs : queue' = [queue EXCEPT !.jobs = @ \ {g}] BY <2>3
    <3>2. queue.jobs \ {g} \in SUBSET Goals BY <1>0
    <3> QED BY <1>0, <3>1, <3>2
  <2>4. CASE queue' = NewQueue(queue.number + 1) BY <1>0, <2>4 DEF NewQueue
  <2> QED BY <2>1, <2>2, <2>3, <2>4
<1>3. queue' \in Queues BY <1>2
<1>4. IsFiniteSet(queue'.jobs) /\ Cardinality(queue'.jobs) <= Capacity
  BY <1>2, FewerJobs DEF IInv
<1>5. Typed'
  BY <1>3, <1>4 DEF IInv, Typed, goalVars, memoVars, cancelVars
<1>6. Committed' = Committed BY DEF Committed, goalVars
<1>7. queue.number \in Nat /\ \A scope \in Scopes : handling[scope].queue \in Nat
  BY DEF IInv, Typed, Handlings
<1>8. ScopesHold'
  BY <1>2, <1>6, <1>7 DEF IInv, ScopesHold, Covers, cancelVars
<1> QED BY <1>1, <1>5, <1>8 DEF IInv

\* A new session starts with empty memories, and without jobs of its own.
LEMMA FinishInitializeKeeps == ASSUME IInv, FinishInitialize PROVE IInv'
<1>1. UNCHANGED <<goalVars, lockVars, queue, made, canceled, handling, master, shutdown, trouble>>
  BY DEF FinishInitialize
<1>2. CASE session = master
  <2>1. UNCHANGED <<memoVars, nodeScopes, session>> BY <1>2 DEF FinishInitialize
  <2>2. ready' \in BOOLEAN /\ phase' \in {"idle", "loading", "replaced"} BY DEF FinishInitialize
  <2>3. master' \in Nat /\ master <= master' /\ shutdown' \in BOOLEAN
    BY <1>1 DEF IInv, Typed
  <2> QED BY <1>1, <2>1, <2>2, <2>3, QueueKeeps DEF cancelVars
<1>3. CASE session # master
  <2>1. /\ completed' = [d \in Digests |-> None] /\ store' = <<>> /\ nodeScopes' = {}
        /\ session' = master /\ phase' = "idle" /\ ready' = TRUE
    BY <1>3 DEF FinishInitialize
  <2>2. session \in Nat /\ master \in Nat /\ session < master BY <1>3 DEF IInv, Typed
  <2>3. Locks' /\ OneJobPerCapture' BY <1>1, BesideFrame
  <2>4. \A j \in Goals : <<j, session'>> \notin made
    BY <2>1, <2>2 DEF IInv, Typed
  <2>5. Fresh' BY <1>1, <2>4 DEF Fresh
  <2>6. Answers'
    <3>1. Kept' = Kept BY <1>1 DEF Kept, Produced, Digests, Digest, Identity
    <3> QED BY <1>1, <2>1, <3>1 DEF IInv, Answers, Produced, goalVars, Digest, Identity, Digests
  <2>7. Typed'
    <3>1. \A j \in made : j[2] <= master BY <2>2 DEF IInv, Typed
    <3>2. Len(store') <= StoreCapacity BY <2>1, StoreAssumption
    <3>3. completed' \in [Digests -> Goals \cup {None}] BY <2>1
    <3> QED BY <1>1, <2>1, <2>2, <3>1, <3>2, <3>3 DEF IInv, Typed, goalVars
  <2>8. ScopesHold' BY <1>1, <2>1 DEF IInv, ScopesHold
  <2> QED BY <2>3, <2>5, <2>6, <2>7, <2>8 DEF IInv
<1> QED BY <1>2, <1>3

\* _cancel_capture_goal.
LEMMA CancelGoalKeeps == ASSUME IInv, NEW g \in Goals, CancelGoal(g) PROVE IInv'
<1>1. /\ UNCHANGED <<goalVars, lockVars, queue, made, memoVars, nodeScopes, handling, nodeVars>>
      /\ canceled' = canceled \cup {g}
  BY DEF CancelGoal
<1>2. Locks' /\ Fresh' /\ Answers' /\ OneJobPerCapture'
  BY <1>1, BesideFrame DEF memoVars, nodeVars
<1>3. Typed' BY <1>1 DEF IInv, Typed, goalVars, memoVars, nodeVars
<1>4. Committed' = Committed BY <1>1 DEF Committed, goalVars
<1>5. ScopesHold' BY <1>1, <1>4 DEF IInv, ScopesHold, Covers
<1> QED BY <1>2, <1>3, <1>5 DEF IInv

-----------------------------------------------------------------------------
(* The specification. *)

\* A node that has just been initialized.
LEMMA InitIInv == ASSUME Init PROVE IInv
<1> USE DEF Init
<1>1. Typed
  <2>1. /\ queue \in [number : Nat, closed : BOOLEAN, jobs : SUBSET Goals, scopes : SUBSET Scopes]
        /\ queue.jobs = {}
    BY DEF NewQueue
  <2>2. IsFiniteSet(queue.jobs) /\ Cardinality(queue.jobs) <= Capacity
    <3>1. IsFiniteSet({}) /\ Cardinality({}) = 0 BY FS_EmptySet
    <3>2. 0 <= Capacity BY CaptureAssumption
    <3> QED BY ONLY <2>1, <3>1, <3>2, Zenon
  <2>3. handling \in [Scopes -> Handlings] BY DEF Unhandled, Handlings
  <2>4. Len(store) <= StoreCapacity BY StoreAssumption
  <2>5. /\ attempt \in [Goals -> 0 .. MaxAttempts]
        /\ \A g \in Goals : pc[g] # "done" => attempt[g] < MaxAttempts
    BY CaptureAssumption
  <2>6. /\ pc \in [Goals -> Places] /\ outcome \in [Goals -> Outcomes]
        /\ answer \in [Goals -> Goals \cup {None}] /\ sent \in [Goals -> Nat]
        /\ completed \in [Digests -> Goals \cup {None}]
        /\ made = {}
    BY DEF Places, Outcomes
  <2>7. /\ canceled \in SUBSET Goals /\ nodeScopes \in SUBSET Scopes
        /\ session \in Nat /\ master \in Nat /\ session <= master
        /\ phase \in {"idle", "loading", "replaced"}
    OBVIOUS
  <2>8. ready \in BOOLEAN /\ shutdown \in BOOLEAN OBVIOUS
  <2> QED BY ONLY <2>1, <2>2, <2>3, <2>4, <2>5, <2>6, <2>7, <2>8 DEF Typed
<1>2. Locks BY DEF Locks, WaitersStand, OneInside, Inside
<1>3. Fresh /\ OneJobPerCapture BY DEF Fresh, OneJobPerCapture
<1>4. Answers BY DEF Answers, Digests
<1>5. ScopesHold BY DEF ScopesHold, Unhandled
<1> QED BY <1>1, <1>2, <1>3, <1>4, <1>5 DEF IInv

\* A step of an action; only try_enqueue brings a goal from the enqueue loop to its success.
LEMMA GoalStep ==
    ASSUME IInv, NEW g \in Goals, Accept(g) \/ Execute(g)
    PROVE  /\ IInv' /\ Moves(g)
           /\ pc[g] = "enqueue" /\ pc'[g] = "enqueued" => ~QueueRefuses(g)
<1>1. CASE TryEnqueue(g) BY <1>1, TryEnqueueKeeps, QuietKeeps DEF Quiet
<1>2. CASE Complete(g) BY <1>2, CompleteKeeps
<1>3. CASE Quiet(g) BY <1>3, QuietKeeps DEF Quiet
<1> QED BY <1>1, <1>2, <1>3, AcceptIsQuiet, ValidateIsQuiet, EnterIsQuiet, ReserveIsQuiet,
           AttemptIsQuiet, CheckSavedIsQuiet, CheckRefusalIsQuiet, WaitEndsIsQuiet DEF Execute

\* Any step of the node keeps the invariant.
LEMMA NextIInv == ASSUME IInv, [Next]_vars PROVE IInv'
<1>1. CASE \E g \in Goals : Accept(g) \/ Execute(g) \/ CancelGoal(g)
  <2>1. PICK g \in Goals : Accept(g) \/ Execute(g) \/ CancelGoal(g) BY <1>1
  <2> QED BY <2>1, GoalStep, CancelGoalKeeps
<1>2. CASE \E scope \in Scopes : InstallScope(scope) \/ CancelInQueue(scope)
  BY <1>2, InstallScopeKeeps, CancelInQueueKeeps
<1>3. CASE TakeJob
  <2>1. PICK g \in queue.jobs :
            \/ queue' = [queue EXCEPT !.jobs = @ \ {g}] /\ ready' = ready
            \/ ready' = FALSE /\ queue' = [queue EXCEPT !.jobs = {}, !.closed = TRUE]
    BY <1>3 DEF TakeJob
  <2>2. UNCHANGED <<goalVars, lockVars, made, memoVars, cancelVars, session, master, phase,
                   shutdown>>
    BY <1>3 DEF TakeJob
  <2>3. /\ master' \in Nat /\ master <= master' /\ shutdown' \in BOOLEAN
        /\ phase' \in {"idle", "loading", "replaced"}
    BY <2>2 DEF IInv, Typed
  <2>5. ready' \in BOOLEAN BY <2>1, Zenon DEF IInv, Typed
  <2>4. \/ queue' = [queue EXCEPT !.jobs = {}, !.closed = TRUE]
        \/ \E h \in queue.jobs : queue' = [queue EXCEPT !.jobs = @ \ {h}]
    BY <2>1, Zenon
  <2> QED BY <2>2, <2>3, <2>4, <2>5, QueueKeeps
<1>4. CASE MasterRestarts
  <2>1. /\ UNCHANGED <<goalVars, lockVars, made, memoVars, cancelVars, session>>
        /\ queue' = queue
    BY <1>4 DEF MasterRestarts, nodeVars
  <2>2. /\ master' \in Nat /\ master <= master'
        /\ phase' \in {"idle", "loading", "replaced"}
    BY <1>4 DEF MasterRestarts, nodeVars, IInv, Typed
  <2>3. ready' \in BOOLEAN /\ shutdown' \in BOOLEAN BY <1>4, Zenon DEF MasterRestarts, nodeVars, IInv, Typed
  <2> QED BY <2>1, <2>2, <2>3, QueueKeeps
<1>5. CASE BeginInitialize
  <2>1. /\ UNCHANGED <<goalVars, lockVars, made, memoVars, cancelVars, session>>
        /\ queue' = [queue EXCEPT !.jobs = {}, !.closed = TRUE]
    BY <1>5 DEF BeginInitialize
  <2>2. /\ master' \in Nat /\ master <= master'
        /\ phase' \in {"idle", "loading", "replaced"}
    BY <1>5 DEF BeginInitialize, IInv, Typed
  <2>3. ready' \in BOOLEAN /\ shutdown' \in BOOLEAN BY <1>5, Zenon DEF BeginInitialize, IInv, Typed
  <2> QED BY <2>1, <2>2, <2>3, QueueKeeps
<1>6. CASE ReplaceQueue
  <2>1. \/ queue' = NewQueue(queue.number + 1) /\ ready' = ready
        \/ queue' = queue /\ ready' = FALSE
    BY <1>6 DEF ReplaceQueue
  <2>2. UNCHANGED <<goalVars, lockVars, made, memoVars, cancelVars, session, master, shutdown>>
    BY <1>6 DEF ReplaceQueue
  <2>3. /\ master' \in Nat /\ master <= master' /\ shutdown' \in BOOLEAN
        /\ phase' \in {"idle", "loading", "replaced"}
    BY <1>6, <2>2 DEF ReplaceQueue, IInv, Typed
  <2>4. ready' \in BOOLEAN BY <2>1, Zenon DEF IInv, Typed
  <2> QED BY <2>1, <2>2, <2>3, <2>4, QueueKeeps
<1>7. CASE FinishInitialize BY <1>7, FinishInitializeKeeps
<1>8. CASE Shutdown
  <2>1. /\ UNCHANGED <<goalVars, lockVars, made, memoVars, cancelVars, session>>
        /\ queue' = [queue EXCEPT !.jobs = {}, !.closed = TRUE]
    BY <1>8 DEF Shutdown
  <2>2. /\ master' \in Nat /\ master <= master'
        /\ phase' \in {"idle", "loading", "replaced"}
    BY <1>8 DEF Shutdown, IInv, Typed
  <2>3. ready' \in BOOLEAN /\ shutdown' \in BOOLEAN BY <1>8, Zenon DEF Shutdown, IInv, Typed
  <2> QED BY <2>1, <2>2, <2>3, QueueKeeps
<1>9. CASE UNCHANGED vars
  <2>1. /\ UNCHANGED <<goalVars, lockVars, made, memoVars, cancelVars, session>>
        /\ queue' = queue
    BY <1>9 DEF vars, nodeVars
  <2>2. /\ master' \in Nat /\ master <= master'
        /\ phase' \in {"idle", "loading", "replaced"}
    BY <1>9 DEF vars, nodeVars, IInv, Typed
  <2>3. ready' \in BOOLEAN /\ shutdown' \in BOOLEAN BY <1>9, Zenon DEF vars, nodeVars, IInv, Typed
  <2> QED BY <2>1, <2>2, <2>3, QueueKeeps
<1> QED BY <1>1, <1>2, <1>3, <1>4, <1>5, <1>6, <1>7, <1>8, <1>9 DEF Next

\* The invariant always holds.
LEMMA Invariance == Spec => []IInv
<1>1. Init => IInv BY InitIInv
<1>2. IInv /\ [Next]_vars => IInv' BY NextIInv
<1> QED BY <1>1, <1>2, PTL DEF Spec

\* One goal at most is inside a locked station, and none inside a free one; the waiters
\* are the waiting goals.
LEMMA TypesFollow == ASSUME IInv PROVE TypeOK
<1> USE DEF IInv
<1>1. ASSUME NEW s \in Stations
      PROVE  /\ \A i \in DOMAIN waiters[s] : pc[waiters[s][i]] = "waiting"
             /\ {g \in Goals : pc[g] = "waiting" /\ StationOf[g] = s}
                  = {waiters[s][i] : i \in DOMAIN waiters[s]}
             /\ Cardinality({g \in Goals : StationOf[g] = s /\ pc[g] \in Inside})
                  = (IF locked[s] THEN 1 ELSE 0)
             /\ waiters[s] # <<>> => locked[s]
  <2> DEFINE inside == {g \in Goals : StationOf[g] = s /\ pc[g] \in Inside}
  <2>1. /\ waiters[s] \in Seq(Goals) /\ DOMAIN waiters[s] = 1 .. Len(waiters[s])
        /\ Len(waiters[s]) \in Nat
    BY DEF Locks, WaitersStand
  <2>2. \A i \in 1 .. Len(waiters[s]) :
            /\ waiters[s][i] \in Goals /\ pc[waiters[s][i]] = "waiting"
            /\ StationOf[waiters[s][i]] = s
    BY <2>1 DEF Locks, WaitersStand
  <2>3. \A g \in Goals : pc[g] = "waiting" /\ StationOf[g] = s =>
            \E i \in 1 .. Len(waiters[s]) : waiters[s][i] = g
    BY DEF Locks, WaitersStand
  <2>4. {g \in Goals : pc[g] = "waiting" /\ StationOf[g] = s}
          = {waiters[s][i] : i \in DOMAIN waiters[s]}
    BY <2>1, <2>2, <2>3
  <2>5. CASE locked[s]
    <3>1. PICK g \in Goals : StationOf[g] = s /\ pc[g] \in Inside
      BY <2>5 DEF Locks, OneInside
    <3>2. inside = {g} BY <3>1 DEF Locks, OneInside
    <3>3. Cardinality(inside) = 1 BY <3>2, FS_Singleton, Zenon
    <3> QED BY <2>1, <2>2, <2>4, <2>5, <3>3
  <2>6. CASE ~locked[s]
    <3>1. inside = {} BY <2>6 DEF Locks, OneInside
    <3>2. Cardinality(inside) = 0 BY <3>1, FS_EmptySet, Zenon
    <3> QED BY <2>1, <2>2, <2>4, <2>6, <3>2 DEF Locks, OneInside
  <2> QED BY <2>5, <2>6
<1>2. locked \in [Stations -> BOOLEAN] BY DEF Locks, OneInside
<1>3. /\ Cardinality(queue.jobs) <= Capacity /\ queue.jobs \subseteq Goals
      /\ queue.scopes \subseteq Scopes
  BY DEF Typed
<1> QED BY <1>1, <1>2, <1>3 DEF Typed, TypeOK

-----------------------------------------------------------------------------
(* The theorems. *)

\* Types, and the station lock (ExecutorLock): it is locked exactly while one action is
\* inside or has been handed it, and nobody waits for a free one.
THEOREM StationLock == Spec => []TypeOK
<1>1. IInv => TypeOK BY TypesFollow
<1> QED BY <1>1, Invariance, PTL

\* In one session a capture makes one job, and every success reports a job of the capture
\* it was asked for (_execute_capture).
THEOREM OneJob == Spec => []OneJobPerCapture
<1>1. IInv => OneJobPerCapture BY DEF IInv
<1> QED BY <1>1, Invariance, PTL

\* After its acknowledgement a canceled scope lets no capture of its own into the queue,
\* but for one past its last look that meets a later queue (_handle_inference_cancellation,
\* _handle_product_locked, _initialize_worker_runtime).
THEOREM CanceledScope == Spec => CanceledScopeShutsOut
<1> DEFINE Out ==
        \A scope \in Scopes, g \in Goals :
            /\ scope \in nodeScopes /\ handling[scope].phase = "done" /\ Covers(scope, g)
            /\ pc[g] = "enqueue" /\ pc'[g] = "enqueued"
            => g \in handling[scope].late /\ queue.number > handling[scope].queue
<1>1. ASSUME IInv, [Next]_vars PROVE Out
  <2> SUFFICES ASSUME NEW scope \in Scopes, NEW g \in Goals,
                      scope \in nodeScopes, handling[scope].phase = "done", Covers(scope, g),
                      pc[g] = "enqueue", pc'[g] = "enqueued"
               PROVE  g \in handling[scope].late /\ queue.number > handling[scope].queue
    OBVIOUS
  <2>1. Accept(g) \/ Execute(g)
    <3>1. ASSUME NEW h \in Goals, h # g, Accept(h) \/ Execute(h) PROVE FALSE
      BY <1>1, <3>1, GoalStep DEF Moves
    <3>2. UNCHANGED pc => FALSE OBVIOUS
    <3> QED BY <1>1, <3>1, <3>2
            DEF Next, vars, goalVars, CancelGoal, InstallScope, CancelInQueue, TakeJob,
                MasterRestarts, BeginInitialize, ReplaceQueue, FinishInitialize, Shutdown
  <2>2. scope \notin queue.scopes BY <1>1, <2>1, GoalStep DEF QueueRefuses
  <2>3. g \in Committed BY DEF Committed
  <2>4. queue.number \in Nat /\ handling[scope].queue \in Nat
    BY <1>1 DEF IInv, Typed, Handlings
  <2> QED BY <1>1, <2>2, <2>3, <2>4 DEF IInv, ScopesHold
<1>2. IInv /\ [Next]_vars => [Out]_vars BY <1>1
<1> QED BY <1>2, Invariance, PTL DEF Spec, CanceledScopeShutsOut
===============================================================================

------------------------- MODULE InferenceDequeProofs -------------------------
(***************************************************************************)
(* The deque of InferenceQueue implements the promise of                   *)
(* InferenceQueuePromise, whatever the jobs and the capacity.              *)
(*                                                                         *)
(* The deque is strictly sorted (Sorted): an insertion before the first    *)
(* later job, and a filter, keep it so.  A sorted deque holds every job    *)
(* once, and its head is the job the promise lets get() take.              *)
(***************************************************************************)
EXTENDS InferenceDeque, FiniteSetTheorems, SequenceTheorems, WellFoundedInduction,
        TLAPS

\* The place of job a is before that of b, when at are their enqueue instants.
Ahead(at, a, b) == OrderBefore(OrderOf(a, at[a]), OrderOf(b, at[b]))

Typed ==
    /\ items \in Seq(Jobs)
    /\ enqueuedAt \in [Jobs -> Nat] /\ clock \in Nat

Timed ==
    /\ \A j \in Jobs : enqueuedAt[j] <= clock
    /\ \A i \in DOMAIN items : enqueuedAt[items[i]] > 0

Sorted(at, s) == \A h, i \in DOMAIN s : h < i => Ahead(at, s[h], s[i])

IInv == Typed /\ Timed /\ Sorted(enqueuedAt, items)

-----------------------------------------------------------------------------
(* Sets of numbers and of positions. *)

\* A set of natural numbers that is not empty has a least one.
LEMMA LeastOfNaturals ==
    ASSUME NEW T, T \subseteq Nat, T # {}
    PROVE  \E x \in T : \A y \in T : x <= y
<1>1. OpToRel(<, Nat) = {ss \in Nat \X Nat : ss[1] < ss[2]}
  BY Zenon DEF OpToRel
<1>2. IsWellFoundedOn({ss \in Nat \X Nat : ss[1] < ss[2]}, Nat)
  BY <1>1, NatLessThanWellFounded, Zenon
<1>3. PICK x \in T : \A y \in T : <<y, x>> \notin {ss \in Nat \X Nat : ss[1] < ss[2]}
  BY <1>2, WFMin, Zenon
<1>4. x \in Nat /\ \A y \in T : y \in Nat /\ ~(y < x) BY <1>3
<1> QED BY <1>4

\* The positions that a filter keeps, and the rank of a position among them.
KeptAt(s, jobs) == {i \in DOMAIN s : s[i] \in jobs}
UpTo(s, jobs, i) == {h \in KeptAt(s, jobs) : h <= i}

\* rank numbers the elements of K from 1 to n, in their order.
Ranks(rank, K, n) ==
    /\ n \in Nat /\ K \subseteq Nat /\ rank \in [K -> 1 .. n]
    /\ \A h, i \in K : h < i => rank[h] < rank[i]
    /\ \A k \in 1 .. n : \E i \in K : rank[i] = k

\* f lists the elements of K in their order, n of them.
Lists(f, K, n) ==
    /\ f \in [1 .. n -> K]
    /\ \A k, l \in 1 .. n : k < l => f[k] < f[l]
    /\ \A i \in K : \E k \in 1 .. n : f[k] = i

\* The ranks of the kept positions are 1 to their number, in the order of the positions.
LEMMA RanksOfPositions ==
    ASSUME NEW T, NEW s \in Seq(T), NEW jobs
    PROVE  LET kept == KeptAt(s, jobs)
               n == Cardinality(kept)
               Rank(i) == Cardinality(UpTo(s, jobs, i))
               rank == [i \in kept |-> Rank(i)]
           IN  kept \subseteq 1 .. Len(s) /\ Ranks(rank, kept, n)
<1> DEFINE kept == KeptAt(s, jobs)
           n == Cardinality(kept)
           Rank(i) == Cardinality(UpTo(s, jobs, i))
           rank == [i \in kept |-> Rank(i)]
<1>1. Len(s) \in Nat /\ kept \subseteq 1 .. Len(s) BY DEF KeptAt
<1>2. IsFiniteSet(kept)
  <2>1. IsFiniteSet(1 .. Len(s)) BY <1>1, FS_Interval
  <2> QED BY <1>1, <2>1, FS_Subset
<1>3. n \in Nat BY <1>2, FS_CardinalityType
<1>4. ASSUME NEW i \in kept
      PROVE  /\ UpTo(s, jobs, i) \subseteq kept /\ i \in UpTo(s, jobs, i)
             /\ IsFiniteSet(UpTo(s, jobs, i)) /\ Rank(i) \in 1 .. n
  <2>1. UpTo(s, jobs, i) \subseteq kept /\ i \in UpTo(s, jobs, i)
    BY <1>1 DEF UpTo
  <2>2. IsFiniteSet(UpTo(s, jobs, i)) /\ Rank(i) <= n BY <1>2, <2>1, FS_Subset
  <2>3. Rank(i) \in Nat /\ Rank(i) # 0
    BY <2>1, <2>2, FS_CardinalityType, FS_EmptySet
  <2> QED BY <1>3, <2>1, <2>2, <2>3
<1>5. ASSUME NEW h \in kept, NEW i \in kept, h < i PROVE Rank(h) < Rank(i)
  <2>1. UpTo(s, jobs, h) \subseteq UpTo(s, jobs, i) /\ i \notin UpTo(s, jobs, h)
    BY <1>1, <1>5 DEF UpTo
  <2>2. UpTo(s, jobs, h) # UpTo(s, jobs, i) BY <1>4, <2>1
  <2>3. Rank(h) <= Rank(i) /\ Rank(h) # Rank(i)
    BY <1>4, <2>1, <2>2, FS_Subset
  <2> QED BY <1>3, <1>4, <2>3
<1>6. rank \in Injection(kept, 1 .. n)
  <2>1. rank \in [kept -> 1 .. n] BY <1>4
  <2>2. ASSUME NEW h \in kept, NEW i \in kept, rank[h] = rank[i] PROVE h = i
    <3>1. Rank(h) \in 1 .. n /\ Rank(i) \in 1 .. n /\ Rank(h) = Rank(i)
      BY <1>4, <2>2
    <3>2. ~(h < i) /\ ~(i < h) BY <1>3, <1>5, <3>1
    <3> QED BY <1>1, <3>2
  <2> QED BY <2>1, <2>2 DEF Injection, IsInjective
<1>7. rank \in Surjection(kept, 1 .. n)
  <2>1. Cardinality(1 .. n) = n /\ IsFiniteSet(1 .. n) BY <1>3, FS_Interval
  <2> QED BY <1>6, <2>1, FS_Injection
<1>8. \A k \in 1 .. n : \E i \in kept : rank[i] = k
  BY <1>7 DEF Surjection
<1>9. \A h, i \in kept : h < i => rank[h] < rank[i] BY <1>5
<1>10. rank \in [kept -> 1 .. n] BY <1>4
<1>11. kept \subseteq Nat BY <1>1
<1> QED BY <1>1, <1>3, <1>8, <1>9, <1>10, <1>11 DEF Ranks

\* Numbers taken by rank are taken in their order, and all of them are.
LEMMA TakenByRank ==
    ASSUME NEW K, NEW n, NEW rank, Ranks(rank, K, n),
           NEW f \in [1 .. n -> K], \A k \in 1 .. n : rank[f[k]] = k
    PROVE  Lists(f, K, n)
<1>1. \A k \in 1 .. n : f[k] \in K /\ rank[f[k]] = k OBVIOUS
<1>2. n \in Nat /\ K \subseteq Nat BY DEF Ranks
<1>3. ASSUME NEW k \in 1 .. n PROVE k \in Nat /\ f[k] \in Nat
  <2>1. k \in Nat BY <1>2
  <2>2. f[k] \in K BY <1>1
  <2> QED BY <1>2, <2>1, <2>2
<1>4. ASSUME NEW k \in 1 .. n, NEW l \in 1 .. n, k < l PROVE f[k] < f[l]
  <2>1. f[k] # f[l] BY <1>1, <1>3, <1>4
  <2>2. ~(f[l] < f[k]) BY <1>1, <1>3, <1>4 DEF Ranks
  <2> QED BY <1>3, <2>1, <2>2
<1>5. ASSUME NEW i \in K PROVE rank[i] \in 1 .. n /\ f[rank[i]] = i
  <2>1. rank[i] \in 1 .. n /\ i \in Nat BY DEF Ranks
  <2>2. /\ f[rank[i]] \in K /\ f[rank[i]] \in Nat
        /\ rank[f[rank[i]]] = rank[i]
    BY <1>1, <1>3, <2>1
  <2>3. ~(f[rank[i]] < i) /\ ~(i < f[rank[i]]) BY <2>1, <2>2 DEF Ranks
  <2> QED BY <2>1, <2>2, <2>3
<1> QED BY <1>4, <1>5 DEF Lists

\* A filter takes the kept positions in their order: the k-th element of the result is
\* the one at the k-th kept position.
LEMMA FilteredTakesKept ==
    ASSUME NEW T, NEW s \in Seq(T), NEW jobs
    PROVE  \E n, f :
              /\ n \in Nat /\ Lists(f, KeptAt(s, jobs), n)
              /\ Filtered(s, jobs) = [k \in 1 .. n |-> s[f[k]]]
              /\ Filtered(s, jobs) \in Seq(T)
<1> DEFINE kept == KeptAt(s, jobs)
           n == Cardinality(kept)
           Rank(i) == Cardinality(UpTo(s, jobs, i))
           rank == [i \in kept |-> Rank(i)]
           f == [k \in 1 .. n |-> CHOOSE i \in kept : Rank(i) = k]
           t == Filtered(s, jobs)
<1>1. t = [k \in 1 .. n |-> s[CHOOSE i \in kept : Rank(i) = k]]
  BY DEF Filtered, KeptAt, UpTo
<1>2. kept \subseteq 1 .. Len(s) /\ Ranks(rank, kept, n)
  BY RanksOfPositions, Zenon
<1>3. n \in Nat BY <1>2 DEF Ranks
<1>4. ASSUME NEW k \in 1 .. n
      PROVE  f[k] \in kept /\ rank[f[k]] = k /\ t[k] = s[f[k]]
  <2>1. f[k] = CHOOSE i \in kept : Rank(i) = k OBVIOUS
  <2>2. \E i \in kept : Rank(i) = k BY <1>2 DEF Ranks
  <2>3. f[k] \in kept /\ Rank(f[k]) = k BY <2>1, <2>2, Zenon
  <2>4. rank[f[k]] = Rank(f[k]) BY <2>3, Zenon
  <2>5. t[k] = s[f[k]] BY <1>1, <2>1
  <2> QED BY <2>3, <2>4, <2>5
<1>5. t = [k \in 1 .. n |-> s[f[k]]]
  <2>1. t = [k \in 1 .. n |-> t[k]] BY <1>1
  <2> QED BY <1>4, <2>1
<1>6. f \in [1 .. n -> kept] BY <1>4
<1> HIDE DEF t, n, kept, rank, f
<1>7. Lists(f, kept, n)
  <2>1. \A k \in 1 .. n : rank[f[k]] = k BY <1>4
  <2> QED BY <1>2, <1>6, <2>1, TakenByRank, Zenon
<1>8. t \in Seq(T)
  <2>1. \A k \in 1 .. n : f[k] \in 1 .. Len(s) BY <1>2, <1>6
  <2>2. \A i \in 1 .. Len(s) : s[i] \in T BY ElementOfSeq
  <2>3. \A k \in 1 .. n : s[f[k]] \in T BY <2>1, <2>2
  <2> QED BY <1>3, <1>5, <2>3, IsASeq
<1> QED BY <1>3, <1>5, <1>7, <1>8, Zenon DEF t, kept

-----------------------------------------------------------------------------
(* The order of the deque. *)

\* The promise orders the jobs as the deque does.
LEMMA AheadIsBefore ==
    ASSUME NEW a, NEW b
    PROVE  Ahead(enqueuedAt, a, b) <=> Abstract!Before(a, b)
BY DEF Ahead, OrderBefore, OrderOf, Abstract!Before

\* The order is strict, and total between jobs of different instants.
LEMMA AheadIsStrict ==
    ASSUME NEW at \in [Jobs -> Nat], NEW a \in Jobs, NEW b \in Jobs, NEW c \in Jobs
    PROVE  /\ ~Ahead(at, a, a)
           /\ Ahead(at, a, b) /\ Ahead(at, b, c) => Ahead(at, a, c)
           /\ at[a] # at[b] => Ahead(at, a, b) \/ Ahead(at, b, a)
<1>1. FifoOf[a] \in Nat /\ FifoOf[b] \in Nat /\ FifoOf[c] \in Nat
  BY DequeAssumption
<1>2. StationOf[a] \in Nat /\ StationOf[b] \in Nat /\ StationOf[c] \in Nat
  <2>1. StationOf[a] \in {1, 2} /\ StationOf[b] \in {1, 2} /\ StationOf[c] \in {1, 2}
    BY DequeAssumption
  <2> QED BY <2>1
<1>3. at[a] \in Nat /\ at[b] \in Nat /\ at[c] \in Nat OBVIOUS
<1> QED BY <1>1, <1>2, <1>3 DEF Ahead, OrderBefore, OrderOf

\* The positions of a deque, and what is at them.
LEMMA PositionsOfSeq ==
    ASSUME NEW s \in Seq(Jobs)
    PROVE  /\ Len(s) \in Nat /\ DOMAIN s = 1 .. Len(s)
           /\ \A i \in DOMAIN s : i \in Nat /\ s[i] \in Jobs
BY LenProperties, ElementOfSeq

\* A sorted deque has no job twice.
LEMMA SortedHoldsOnce ==
    ASSUME NEW at \in [Jobs -> Nat], NEW s \in Seq(Jobs), Sorted(at, s),
           NEW h \in DOMAIN s, NEW i \in DOMAIN s, h # i
    PROVE  s[h] # s[i]
<1>1. h \in Nat /\ i \in Nat /\ s[h] \in Jobs /\ s[i] \in Jobs
  BY PositionsOfSeq
<1>2. Ahead(at, s[h], s[i]) \/ Ahead(at, s[i], s[h]) BY <1>1 DEF Sorted
<1> QED BY <1>1, <1>2, AheadIsStrict

\* A filter keeps the deque sorted, and in it the jobs it names.
LEMMA FilteredStaysSorted ==
    ASSUME NEW at, NEW s \in Seq(Jobs), Sorted(at, s), NEW jobs
    PROVE  /\ Filtered(s, jobs) \in Seq(Jobs)
           /\ ToSet(Filtered(s, jobs)) = ToSet(s) \cap jobs
           /\ Sorted(at, Filtered(s, jobs))
<1>1. PICK n, f : /\ n \in Nat /\ Lists(f, KeptAt(s, jobs), n)
                  /\ Filtered(s, jobs) = [k \in 1 .. n |-> s[f[k]]]
                  /\ Filtered(s, jobs) \in Seq(Jobs)
  BY FilteredTakesKept
<1> DEFINE t == Filtered(s, jobs)
<1>2. DOMAIN t = 1 .. n /\ \A k \in 1 .. n : t[k] = s[f[k]] BY <1>1
<1> HIDE DEF t
<1>3. \A k \in 1 .. n : f[k] \in DOMAIN s /\ s[f[k]] \in jobs
  BY <1>1 DEF Lists, KeptAt
<1>4. ToSet(t) = ToSet(s) \cap jobs
  <2>1. ASSUME NEW q \in ToSet(t) PROVE q \in ToSet(s) \cap jobs
    BY <1>2, <1>3 DEF ToSet
  <2>2. ASSUME NEW q \in ToSet(s) \cap jobs PROVE q \in ToSet(t)
    <3>1. PICK i \in DOMAIN s : q = s[i] BY DEF ToSet
    <3>2. i \in KeptAt(s, jobs) BY <3>1 DEF KeptAt
    <3>3. PICK k \in 1 .. n : f[k] = i BY <1>1, <3>2 DEF Lists
    <3> QED BY <1>2, <3>1, <3>3 DEF ToSet
  <2> QED BY <2>1, <2>2
<1>5. Sorted(at, t)
  <2>1. \A k, l \in 1 .. n : k < l => f[k] < f[l] BY <1>1 DEF Lists
  <2> QED BY <1>2, <1>3, <2>1 DEF Sorted
<1> QED BY <1>1, <1>4, <1>5 DEF t

-----------------------------------------------------------------------------
(* The insertion. *)

\* t is s with j set at position m.
Placed(t, s, m, j) ==
    /\ Len(t) = Len(s) + 1
    /\ \A k \in 1 .. Len(s) + 1 :
          t[k] = IF k < m THEN s[k] ELSE IF k = m THEN j ELSE s[k - 1]

\* Of the jobs of s, j comes after those before position m, and before the others.
Divides(at, s, m, j) ==
    \A i \in 1 .. Len(s) : IF i < m THEN Ahead(at, s[i], j) ELSE Ahead(at, j, s[i])

\* The positions of the jobs of a later order than j, and insert_at.
Later(at, s, j) == {i \in 1 .. Len(s) : Ahead(at, j, s[i])}
Inserted(at, s, j) ==
    IF Later(at, s, j) = {} THEN Append(s, j) ELSE InsertAt(s, Min(Later(at, s, j)), j)

\* A position behind that of the new job is one of the deque before, one less.
LEMMA OneLess ==
    ASSUME NEW l \in Nat, NEW m \in Nat, NEW h \in Nat, 1 <= m, m < h, h <= l + 1
    PROVE  h - 1 \in 1 .. l
OBVIOUS

\* A job set at a position before which no job comes after it, and from which all
\* jobs do, leaves the deque sorted.
LEMMA PlacedInOrder ==
    ASSUME NEW at \in [Jobs -> Nat], NEW s \in Seq(Jobs), Sorted(at, s), NEW j \in Jobs,
           NEW t \in Seq(Jobs), NEW m \in 1 .. Len(s) + 1, Placed(t, s, m, j),
           Divides(at, s, m, j)
    PROVE  Sorted(at, t) /\ ToSet(t) = ToSet(s) \cup {j}
<1>0. \A k \in 1 .. Len(s) + 1 :
        t[k] = IF k < m THEN s[k] ELSE IF k = m THEN j ELSE s[k - 1]
  BY DEF Placed
<1>1. Len(s) \in Nat /\ DOMAIN s = 1 .. Len(s) /\ DOMAIN t = 1 .. Len(s) + 1
  BY PositionsOfSeq DEF Placed
<1>2. ASSUME NEW h \in DOMAIN t, NEW i \in DOMAIN t, h < i
      PROVE  Ahead(at, t[h], t[i])
  <2>1. CASE i < m
    <3>1. /\ h \in DOMAIN s /\ i \in DOMAIN s /\ t[h] = s[h] /\ t[i] = s[i]
      BY <1>0, <1>1, <1>2, <2>1
    <3> QED BY <1>2, <3>1 DEF Sorted
  <2>2. CASE i = m
    <3>1. h \in 1 .. Len(s) /\ h < m /\ t[h] = s[h] /\ t[i] = j
      BY <1>0, <1>1, <1>2, <2>2
    <3> QED BY <3>1 DEF Divides
  <2>3. CASE i > m /\ h < m
    <3>1. /\ h \in DOMAIN s /\ i - 1 \in DOMAIN s /\ h < i - 1
          /\ t[h] = s[h] /\ t[i] = s[i - 1]
      BY <1>0, <1>1, <2>3
    <3> QED BY <3>1 DEF Sorted
  <2>4. CASE i > m /\ h = m
    <3>1. /\ i - 1 \in 1 .. Len(s) /\ ~(i - 1 < m)
          /\ t[h] = j /\ t[i] = s[i - 1]
      BY <1>0, <1>1, <2>4
    <3> QED BY <3>1 DEF Divides
  <2>5. CASE i > m /\ h > m
    <3>1. /\ h \in 1 .. Len(s) + 1 /\ i \in 1 .. Len(s) + 1
          /\ m \in Nat /\ h \in Nat /\ i \in Nat
      BY <1>1
    <3>2. h - 1 \in DOMAIN s /\ t[h] = s[h - 1]
      <4>1. t[h] = IF h < m THEN s[h] ELSE IF h = m THEN j ELSE s[h - 1]
        BY <1>0, <3>1, Zenon
      <4>2. t[h] = s[h - 1]
        <5>1. ~(h < m) /\ h # m BY <2>5, <3>1
        <5> QED BY <4>1, <5>1, Zenon
      <4>3. h - 1 \in 1 .. Len(s)
        <5>1. 1 <= m /\ m < h /\ h <= Len(s) + 1 BY <2>5, <3>1
        <5>2. Len(s) \in Nat BY <1>1
        <5>3. m \in Nat /\ h \in Nat BY <3>1
        <5> QED BY <5>1, <5>2, <5>3, OneLess
      <4> QED BY <1>1, <4>2, <4>3
    <3>3. i - 1 \in DOMAIN s /\ t[i] = s[i - 1]
      <4>1. t[i] = IF i < m THEN s[i] ELSE IF i = m THEN j ELSE s[i - 1]
        BY <1>0, <3>1, Zenon
      <4>2. t[i] = s[i - 1]
        <5>1. ~(i < m) /\ i # m BY <2>5, <3>1
        <5> QED BY <4>1, <5>1, Zenon
      <4>3. i - 1 \in 1 .. Len(s)
        <5>1. 1 <= m /\ m < i /\ i <= Len(s) + 1 BY <2>5, <3>1
        <5>2. Len(s) \in Nat BY <1>1
        <5>3. m \in Nat /\ i \in Nat BY <3>1
        <5> QED BY <5>1, <5>2, <5>3, OneLess
      <4> QED BY <1>1, <4>2, <4>3
    <3>4. h - 1 < i - 1 BY <1>2, <3>1
    <3> QED BY <3>2, <3>3, <3>4 DEF Sorted
  <2> QED BY <1>1, <2>1, <2>2, <2>3, <2>4, <2>5
<1>3. ASSUME NEW q \in ToSet(t) PROVE q \in ToSet(s) \cup {j}
  <2>1. PICK k \in 1 .. Len(s) + 1 : q = t[k] BY <1>1 DEF ToSet
  <2>2. CASE k = m BY <1>0, <2>1, <2>2
  <2>3. CASE k < m
    <3>1. k \in DOMAIN s /\ q = s[k] BY <1>0, <1>1, <2>1, <2>3
    <3> QED BY <3>1 DEF ToSet
  <2>4. CASE k > m
    <3>1. k \in Nat /\ m \in Nat /\ k - 1 \in DOMAIN s BY <1>1, <2>4
    <3>2. q = s[k - 1] BY <1>0, <2>1, <2>4, <3>1
    <3> QED BY <3>1, <3>2 DEF ToSet
  <2> QED BY <1>1, <2>2, <2>3, <2>4
<1>4. j \in ToSet(t)
  <2>1. m \in DOMAIN t /\ t[m] = j BY <1>0, <1>1
  <2> QED BY <2>1 DEF ToSet
<1>5. ASSUME NEW q \in ToSet(s) PROVE q \in ToSet(t)
  <2>1. PICK i \in 1 .. Len(s) : q = s[i] BY <1>1 DEF ToSet
  <2>2. CASE i < m
    <3>1. i \in DOMAIN t /\ t[i] = q BY <1>0, <1>1, <2>1, <2>2
    <3> QED BY <3>1 DEF ToSet
  <2>3. CASE i >= m
    <3>1. i \in Nat /\ m \in Nat /\ i + 1 \in 1 .. Len(s) + 1 BY <1>1
    <3>2. t[i + 1] = q BY <1>0, <2>1, <2>3, <3>1
    <3> QED BY <1>1, <3>1, <3>2 DEF ToSet
  <2> QED BY <1>1, <2>2, <2>3
<1>6. ToSet(t) = ToSet(s) \cup {j} BY <1>3, <1>4, <1>5
<1> QED BY <1>2, <1>6 DEF Sorted

\* Min of a set of numbers is its least one.
LEMMA MinIsLeast ==
    ASSUME NEW T, T \subseteq Nat, T # {}
    PROVE  Min(T) \in T /\ \A y \in T : Min(T) <= y
<1>1. \E x \in T : \A y \in T : x <= y BY LeastOfNaturals
<1> QED BY <1>1, Zenon DEF Min

\* Append sets the job at the end.
LEMMA AppendPlaces ==
    ASSUME NEW S, NEW s \in Seq(S), NEW j \in S
    PROVE  Append(s, j) \in Seq(S) /\ Placed(Append(s, j), s, Len(s) + 1, j)
<1> DEFINE t == Append(s, j)
           n == Len(s)
<1>1. n \in Nat BY LenProperties
<1>2. /\ t \in Seq(S) /\ Len(t) = n + 1
      /\ \A i \in 1 .. n : t[i] = s[i]
      /\ t[n + 1] = j
  BY AppendProperties
<1> HIDE DEF t, n
<1>3. ASSUME NEW k \in 1 .. n + 1
      PROVE  t[k] = IF k < n + 1 THEN s[k] ELSE IF k = n + 1 THEN j ELSE s[k - 1]
  BY <1>1, <1>2
<1> QED BY <1>2, <1>3 DEF Placed, t, n

\* The same of InsertAt and the position it is given.
LEMMA InsertAtPlaces ==
    ASSUME NEW S, NEW s \in Seq(S), NEW j \in S, NEW m \in 1 .. Len(s)
    PROVE  InsertAt(s, m, j) \in Seq(S) /\ Placed(InsertAt(s, m, j), s, m, j)
<1> DEFINE n == Len(s)
           front == SubSeq(s, 1, m - 1)
           one == <<j>>
           rest == SubSeq(s, m, n)
           begin == front \o one
           t == begin \o rest
<1>1. n \in Nat /\ m \in 1 .. n /\ m \in Nat BY LenProperties
<1>2. \A i \in 1 .. n : s[i] \in S BY ElementOfSeq
<1>3. /\ front \in Seq(S) /\ Len(front) = m - 1
      /\ \A k \in 1 .. m - 1 : front[k] = s[k]
  <2>1. \A i \in 1 .. m - 1 : s[i] \in S BY <1>1, <1>2
  <2> HIDE DEF n
  <2> QED BY <1>1, <2>1, SubSeqProperties
<1>4. /\ rest \in Seq(S) /\ Len(rest) = n - m + 1
      /\ \A k \in 1 .. n - m + 1 : rest[k] = s[m + k - 1]
  <2>1. \A i \in m .. n : s[i] \in S BY <1>1, <1>2
  <2> HIDE DEF n
  <2> QED BY <1>1, <2>1, SubSeqProperties
<1>5. one \in Seq(S) /\ Len(one) = 1 /\ one[1] = j OBVIOUS
<1>6. InsertAt(s, m, j) = t BY DEF InsertAt
<1> HIDE DEF n, front, one, rest
<1>7. /\ begin \in Seq(S) /\ Len(begin) = m
      /\ \A k \in 1 .. m : begin[k] = IF k <= m - 1 THEN front[k] ELSE one[k - (m - 1)]
  <2>1. /\ begin \in Seq(S) /\ Len(begin) = Len(front) + Len(one)
        /\ \A k \in 1 .. Len(front) + Len(one) :
              begin[k] = IF k <= Len(front) THEN front[k] ELSE one[k - Len(front)]
    BY <1>3, <1>5, ConcatProperties, Zenon
  <2>2. Len(front) + Len(one) = m BY <1>1, <1>3, <1>5
  <2> HIDE DEF begin
  <2> QED BY <1>3, <2>1, <2>2
<1> HIDE DEF begin
<1>8. /\ t \in Seq(S) /\ Len(t) = n + 1
      /\ \A k \in 1 .. n + 1 : t[k] = IF k <= m THEN begin[k] ELSE rest[k - m]
  <2>1. /\ t \in Seq(S) /\ Len(t) = Len(begin) + Len(rest)
        /\ \A k \in 1 .. Len(begin) + Len(rest) :
              t[k] = IF k <= Len(begin) THEN begin[k] ELSE rest[k - Len(begin)]
    BY <1>4, <1>7, ConcatProperties, Zenon
  <2>2. Len(begin) + Len(rest) = n + 1 BY <1>1, <1>4, <1>7
  <2> HIDE DEF t
  <2> QED BY <1>7, <2>1, <2>2
<1> HIDE DEF t
<1>9. ASSUME NEW k \in 1 .. n + 1
      PROVE  t[k] = IF k < m THEN s[k] ELSE IF k = m THEN j ELSE s[k - 1]
  <2>1. CASE k < m
    <3>1. t[k] = begin[k] /\ begin[k] = front[k] /\ front[k] = s[k]
      BY <1>1, <1>3, <1>7, <1>8, <2>1
    <3> QED BY <2>1, <3>1
  <2>2. CASE k = m
    <3>1. t[k] = begin[m] /\ begin[m] = one[m - (m - 1)]
      BY <1>1, <1>7, <1>8, <2>2
    <3>2. m - (m - 1) = 1 BY <1>1
    <3> QED BY <1>1, <1>5, <2>2, <3>1, <3>2
  <2>3. CASE k > m
    <3>1. t[k] = rest[k - m] /\ k - m \in 1 .. n - m + 1 BY <1>1, <1>8, <2>3
    <3>2. m + (k - m) - 1 = k - 1 /\ ~(k < m) /\ k # m BY <1>1, <2>3
    <3> QED BY <1>4, <3>1, <3>2
  <2> QED BY <1>1, <2>1, <2>2, <2>3
<1> QED BY <1>6, <1>8, <1>9 DEF Placed, n

\* insert_at: before the first job of a later order, or at the end.
LEMMA InsertedInOrder ==
    ASSUME NEW at \in [Jobs -> Nat], NEW s \in Seq(Jobs), Sorted(at, s), NEW j \in Jobs,
           \A i \in DOMAIN s : at[s[i]] # at[j]
    PROVE  /\ Inserted(at, s, j) \in Seq(Jobs)
           /\ Sorted(at, Inserted(at, s, j))
           /\ ToSet(Inserted(at, s, j)) = ToSet(s) \cup {j}
<1> DEFINE I == Later(at, s, j)
           m == Min(I)
<1>1. /\ Len(s) \in Nat /\ DOMAIN s = 1 .. Len(s)
      /\ \A i \in DOMAIN s : i \in Nat /\ s[i] \in Jobs
  BY PositionsOfSeq
<1>2. ASSUME NEW i \in 1 .. Len(s), i \notin I PROVE Ahead(at, s[i], j)
  <2>1. s[i] \in Jobs /\ at[s[i]] # at[j] /\ ~Ahead(at, j, s[i])
    BY <1>1, <1>2 DEF Later
  <2> QED BY <2>1, AheadIsStrict
<1>3. CASE I = {}
  <2>1. PICK l \in Nat : l = Len(s) + 1 BY <1>1
  <2>2. Inserted(at, s, j) = Append(s, j) BY <1>3 DEF Inserted
  <2>3. Append(s, j) \in Seq(Jobs) /\ Placed(Append(s, j), s, l, j)
    BY <2>1, AppendPlaces
  <2>4. \A i \in 1 .. Len(s) : i < l /\ Ahead(at, s[i], j) BY <1>1, <1>2, <1>3, <2>1
  <2> HIDE DEF I, m
  <2>5. Divides(at, s, l, j) BY <2>4 DEF Divides
  <2>6. l \in 1 .. Len(s) + 1 BY <1>1, <2>1
  <2> DEFINE t == Append(s, j)
  <2>7. t \in Seq(Jobs) /\ Placed(t, s, l, j) BY <2>3
  <2> HIDE DEF t
  <2>8. Sorted(at, t) /\ ToSet(t) = ToSet(s) \cup {j}
    BY <2>5, <2>6, <2>7, PlacedInOrder
  <2> QED BY <2>2, <2>7, <2>8, Zenon DEF t
<1>4. CASE I # {}
  <2>1. I \subseteq 1 .. Len(s) /\ I \subseteq Nat BY <1>1 DEF Later
  <2>2. m \in I /\ \A y \in I : m <= y BY <1>4, <2>1, MinIsLeast, Zenon
  <2>3. Inserted(at, s, j) = InsertAt(s, m, j) BY <1>4 DEF Inserted
  <2>4. Ahead(at, j, s[m]) BY <2>2 DEF Later
  <2> HIDE DEF m, I
  <2>5. m \in 1 .. Len(s) /\ m \in Nat BY <1>1, <2>1, <2>2
  <2>6. InsertAt(s, m, j) \in Seq(Jobs) /\ Placed(InsertAt(s, m, j), s, m, j)
    BY <2>5, InsertAtPlaces
  <2>7. ASSUME NEW i \in 1 .. Len(s)
        PROVE  IF i < m THEN Ahead(at, s[i], j) ELSE Ahead(at, j, s[i])
    <3>1. CASE i < m
      <4>1. i \notin I BY <1>1, <2>2, <2>5, <3>1
      <4> QED BY <1>2, <3>1, <4>1
    <3>2. CASE i = m BY <2>4, <2>5, <3>2
    <3>3. CASE i > m
      <4>1. Ahead(at, s[m], s[i]) BY <1>1, <2>5, <3>3 DEF Sorted
      <4>2. s[m] \in Jobs /\ s[i] \in Jobs BY <1>1, <2>5
      <4>3. Ahead(at, j, s[i]) BY <2>4, <4>1, <4>2, AheadIsStrict
      <4> QED BY <2>5, <3>3, <4>3
    <3> QED BY <1>1, <2>5, <3>1, <3>2, <3>3
  <2>8. m \in 1 .. Len(s) + 1 BY <1>1, <2>5
  <2>9. Divides(at, s, m, j) BY <2>7 DEF Divides
  <2> QED BY <2>3, <2>6, <2>8, <2>9, PlacedInOrder
<1> QED BY <1>3, <1>4

-----------------------------------------------------------------------------
(* Each method does to the deque what the promise says. *)

\* An empty deque is an empty queue.
LEMMA InitSteps == Init => IInv /\ Abstract!PromiseInit
<1> SUFFICES ASSUME Init PROVE IInv /\ Abstract!PromiseInit
  OBVIOUS
<1>1. items \in Seq(Jobs) /\ DOMAIN items = {} BY EmptySeq DEF Init
<1>2. ToSet(items) = {} BY <1>1 DEF ToSet
<1>3. IInv BY <1>1 DEF Init, IInv, Typed, Timed, Sorted
<1> QED BY <1>2, <1>3 DEF Init, Abstract!PromiseInit, Abstract!QueueInit

\* There are no more jobs in the deque than positions.
LEMMA JobsFit ==
    ASSUME NEW s \in Seq(Jobs)
    PROVE  Cardinality(ToSet(s)) \in Nat /\ Cardinality(ToSet(s)) <= Len(s)
<1> DEFINE n == Len(s)
           f == [i \in 1 .. n |-> s[i]]
<1>1. n \in Nat /\ DOMAIN s = 1 .. n BY LenProperties
<1>2. f \in Surjection(1 .. n, ToSet(s)) BY <1>1 DEF Surjection, ToSet
<1> HIDE DEF f, n
<1>3. IsFiniteSet(1 .. n) /\ Cardinality(1 .. n) = n BY <1>1, FS_Interval
<1>4. IsFiniteSet(ToSet(s)) /\ Cardinality(ToSet(s)) <= Cardinality(1 .. n)
  BY <1>2, <1>3, FS_Surjection
<1>5. Cardinality(ToSet(s)) \in Nat BY <1>4, FS_CardinalityType
<1> QED BY <1>3, <1>4, <1>5 DEF n

\* try_enqueue: the job is new to the deque and later than all that came before it.
LEMMA EnqueueSteps ==
    ASSUME IInv, NEW j \in Jobs, TryEnqueue(j)
    PROVE  IInv' /\ Abstract!PutJob(j)
<1> DEFINE at == [enqueuedAt EXCEPT ![j] = clock + 1]
<1>1. /\ items \in Seq(Jobs) /\ enqueuedAt \in [Jobs -> Nat] /\ clock \in Nat
      /\ \A q \in Jobs : enqueuedAt[q] <= clock
      /\ \A i \in DOMAIN items : enqueuedAt[items[i]] > 0
      /\ Sorted(enqueuedAt, items)
  BY DEF IInv, Typed, Timed
<1>2. /\ enqueuedAt[j] = 0 /\ ~closed /\ ~JobCanceled(j) /\ Len(items) < Capacity
      /\ clock' = clock + 1 /\ enqueuedAt' = at
      /\ items' = InsertOrdered(j, clock + 1)
      /\ UNCHANGED <<scopes, closed, taken, expired>>
  BY DEF TryEnqueue
<1>3. \A i \in DOMAIN items : items[i] \in Jobs BY <1>1, PositionsOfSeq
<1>4. /\ at \in [Jobs -> Nat] /\ at[j] = clock + 1
      /\ \A q \in Jobs \ {j} : at[q] = enqueuedAt[q]
  BY <1>1
<1> HIDE DEF at
<1>5. ASSUME NEW i \in DOMAIN items
      PROVE  items[i] # j /\ at[items[i]] = enqueuedAt[items[i]] /\ at[items[i]] # at[j]
  <2>1. enqueuedAt[items[i]] > 0 /\ enqueuedAt[items[i]] <= clock /\ items[i] \in Jobs
    BY <1>1, <1>3
  <2>2. items[i] # j BY <1>2, <2>1
  <2> QED BY <1>1, <1>4, <2>1, <2>2
<1>6. Sorted(at, items) BY <1>1, <1>5 DEF Sorted, Ahead
<1>7. items' = Inserted(at, items, j)
  <2>1. Later(at, items, j)
          = {i \in 1 .. Len(items) :
               OrderBefore(OrderOf(j, clock + 1), OrderOf(items[i], enqueuedAt[items[i]]))}
    <3>1. DOMAIN items = 1 .. Len(items) BY <1>1, PositionsOfSeq
    <3> QED BY <1>4, <1>5, <3>1 DEF Later, Ahead
  <2>2. InsertPosition(j, clock + 1)
          = IF Later(at, items, j) = {} THEN 0 ELSE Min(Later(at, items, j))
    BY <2>1 DEF InsertPosition, SelectInSeq
  <2>3. CASE Later(at, items, j) = {}
    BY <1>2, <2>2, <2>3 DEF InsertOrdered, Inserted
  <2>4. CASE Later(at, items, j) # {}
    <3>1. Later(at, items, j) \subseteq 1 .. Len(items) /\ Len(items) \in Nat
      BY <1>1, PositionsOfSeq DEF Later
    <3>2. Min(Later(at, items, j)) \in Later(at, items, j)
      <4>1. Later(at, items, j) \subseteq Nat BY <3>1
      <4> QED BY <2>4, <4>1, MinIsLeast
    <3>3. InsertPosition(j, clock + 1) # 0
      BY <2>2, <2>4, <3>1, <3>2
    <3> QED BY <1>2, <2>2, <2>4, <3>3 DEF InsertOrdered, Inserted
  <2> QED BY <2>3, <2>4
<1>8. /\ items' \in Seq(Jobs) /\ Sorted(at, items')
      /\ ToSet(items') = ToSet(items) \cup {j}
  <2>1. /\ items \in Seq(Jobs) /\ at \in [Jobs -> Nat]
        /\ \A i \in DOMAIN items : at[items[i]] # at[j]
    BY <1>1, <1>4, <1>5
  <2> QED BY <1>6, <1>7, <2>1, InsertedInOrder, Zenon
<1>9. Timed'
  <2>1. ASSUME NEW q \in Jobs PROVE at[q] <= clock + 1
    <3>1. CASE q = j BY <1>1, <1>4, <3>1
    <3>2. CASE q # j
      <4>1. at[q] = enqueuedAt[q] /\ enqueuedAt[q] <= clock /\ enqueuedAt[q] \in Nat
        BY <1>1, <1>4, <3>2
      <4> QED BY <1>1, <4>1
    <3> QED BY <3>1, <3>2
  <2>2. \A q \in ToSet(items) \cup {j} : at[q] > 0
    BY <1>1, <1>4, <1>5 DEF ToSet
  <2>3. \A i \in DOMAIN items' : items'[i] \in ToSet(items) \cup {j}
    BY <1>8 DEF ToSet
  <2> QED BY <1>2, <2>1, <2>2, <2>3 DEF Timed
<1>10. IInv' BY <1>1, <1>2, <1>4, <1>8, <1>9 DEF IInv, Typed
<1>11. Cardinality(ToSet(items)) \in Nat /\ Cardinality(ToSet(items)) <= Len(items)
  BY <1>1, JobsFit
<1>12. Abstract!MayEnqueue(j)
  <2>1. ~(Cardinality(ToSet(items)) >= Capacity)
    <3> DEFINE c == Cardinality(ToSet(items))
               n == Len(items)
    <3>1. n \in Nat /\ Capacity \in Nat BY <1>1, PositionsOfSeq, DequeAssumption
    <3>2. c \in Nat /\ c <= n /\ n < Capacity BY <1>2, <1>11
    <3> HIDE DEF c, n
    <3>3. ~(c >= Capacity) BY <3>1, <3>2
    <3> QED BY <3>3 DEF c
  <2>2. Abstract!Cardinality(ToSet(items)) = Cardinality(ToSet(items))
    BY DEF Abstract!Cardinality, Cardinality
  <2> QED
    BY <1>2, <2>1, <2>2
    DEF Abstract!MayEnqueue, Abstract!Full, Abstract!Canceled, JobCanceled
<1>13. Abstract!Insert(j) BY <1>2, <1>8 DEF Abstract!Insert, at
<1> QED BY <1>2, <1>10, <1>12, <1>13 DEF Abstract!PutJob

\* get: the head of a sorted deque is the first job of the order.
LEMMA GetSteps ==
    ASSUME IInv, Get PROVE IInv' /\ Abstract!TakeJob
<1>1. /\ items \in Seq(Jobs) /\ Sorted(enqueuedAt, items) /\ enqueuedAt \in [Jobs -> Nat]
      /\ \A i \in DOMAIN items : enqueuedAt[items[i]] > 0
  BY DEF IInv, Typed, Timed
<1>2. /\ items # <<>> /\ ~closed /\ taken' = Head(items) /\ items' = Tail(items)
      /\ UNCHANGED <<enqueuedAt, clock, scopes, closed, expired>>
  BY DEF Get
<1> DEFINE n == Len(items)
           t == Tail(items)
<1>3. n \in Nat /\ DOMAIN items = 1 .. n BY <1>1, PositionsOfSeq
<1>4. /\ n # 0 /\ Head(items) = items[1] /\ t \in Seq(Jobs) /\ Len(t) = n - 1
      /\ \A i \in 1 .. n - 1 : t[i] = items[i + 1]
  BY <1>1, <1>2, HeadTailProperties, EmptySeq
<1>5. DOMAIN t = 1 .. n - 1 BY <1>4, PositionsOfSeq
<1> HIDE DEF n, t
<1>6. 1 \in DOMAIN items BY <1>3, <1>4
<1>7. Sorted(enqueuedAt, t)
  <2>1. ASSUME NEW h \in DOMAIN t, NEW i \in DOMAIN t, h < i
        PROVE  Ahead(enqueuedAt, t[h], t[i])
    <3>1. /\ h + 1 \in DOMAIN items /\ i + 1 \in DOMAIN items /\ h + 1 < i + 1
          /\ t[h] = items[h + 1] /\ t[i] = items[i + 1]
      BY <1>3, <1>4, <1>5, <2>1
    <3> QED BY <1>1, <3>1 DEF Sorted
  <2> QED BY <2>1 DEF Sorted
<1>8. \A q \in ToSet(items) \ {items[1]} : Ahead(enqueuedAt, items[1], q)
  <2> SUFFICES ASSUME NEW q \in ToSet(items), q # items[1]
               PROVE  Ahead(enqueuedAt, items[1], q)
    OBVIOUS
  <2>1. PICK i \in DOMAIN items : q = items[i] BY DEF ToSet
  <2>2. 1 < i BY <1>3, <2>1
  <2> QED BY <1>1, <1>6, <2>1, <2>2 DEF Sorted
<1>9. ToSet(t) = ToSet(items) \ {items[1]}
  <2>1. ASSUME NEW q \in ToSet(t) PROVE q \in ToSet(items) \ {items[1]}
    <3>1. PICK i \in 1 .. n - 1 : q = t[i] BY <1>5 DEF ToSet
    <3>2. i + 1 \in DOMAIN items /\ q = items[i + 1] /\ i + 1 # 1
      BY <1>3, <1>4, <3>1
    <3>3. items[i + 1] # items[1] BY <1>1, <1>6, <3>2, SortedHoldsOnce
    <3> QED BY <3>2, <3>3 DEF ToSet
  <2>2. ASSUME NEW q \in ToSet(items), q # items[1] PROVE q \in ToSet(t)
    <3>1. PICK i \in DOMAIN items : q = items[i] BY DEF ToSet
    <3>2. i - 1 \in DOMAIN t /\ q = t[i - 1]
      <4>1. i \in 1 .. n /\ i # 1 BY <1>3, <2>2, <3>1
      <4>2. i - 1 \in 1 .. n - 1 /\ (i - 1) + 1 = i BY <1>3, <4>1
      <4> QED BY <1>4, <1>5, <3>1, <4>2
    <3> QED BY <3>2 DEF ToSet
  <2> QED BY <2>1, <2>2
<1>10. \A i \in DOMAIN t : enqueuedAt[t[i]] > 0
  <2>1. \A q \in ToSet(items) : enqueuedAt[q] > 0 BY <1>1 DEF ToSet
  <2>2. \A i \in DOMAIN t : t[i] \in ToSet(t) BY DEF ToSet
  <2> QED BY <1>9, <2>1, <2>2
<1>11. items' = t BY <1>2 DEF t
<1>12. IInv' BY <1>2, <1>4, <1>7, <1>10, <1>11 DEF IInv, Typed, Timed
<1>13. items[1] \in ToSet(items) BY <1>6 DEF ToSet
<1>14. Abstract!IsFront(items[1])
  BY <1>8, <1>13, AheadIsBefore DEF Abstract!IsFront
<1>15. Abstract!Remove({items[1]}) BY <1>2, <1>9, <1>11 DEF Abstract!Remove
<1> QED BY <1>2, <1>4, <1>12, <1>13, <1>14, <1>15 DEF Abstract!TakeJob

\* The filters: exactly the jobs they name stay.
LEMMA KeepSteps ==
    ASSUME IInv, NEW jobs, Keep(jobs)
    PROVE  IInv' /\ ToSet(items') = ToSet(items) \cap jobs
<1>1. /\ items \in Seq(Jobs) /\ Sorted(enqueuedAt, items)
      /\ \A q \in ToSet(items) : enqueuedAt[q] > 0
  BY DEF IInv, Typed, Timed, ToSet
<1>2. /\ items' = Filtered(items, jobs)
      /\ UNCHANGED <<enqueuedAt, clock, closed, taken, expired>>
  BY DEF Keep
<1>3. /\ items' \in Seq(Jobs) /\ ToSet(items') = ToSet(items) \cap jobs
      /\ Sorted(enqueuedAt, items')
  BY <1>1, <1>2, FilteredStaysSorted
<1>4. \A i \in DOMAIN items' : items'[i] \in ToSet(items) BY <1>3 DEF ToSet
<1> QED BY <1>1, <1>2, <1>3, <1>4 DEF IInv, Typed, Timed

\* Only jobs are queued.
LEMMA QueuedAreJobs == ASSUME IInv PROVE ToSet(items) \subseteq Jobs
BY PositionsOfSeq DEF IInv, Typed, ToSet

\* discard_expired
LEMMA DiscardSteps ==
    ASSUME IInv, DiscardExpired PROVE IInv' /\ Abstract!DropExpired
<1>1. Keep(Jobs \ expired) /\ UNCHANGED scopes BY DEF DiscardExpired
<1>2. IInv' /\ ToSet(items') = ToSet(items) \cap (Jobs \ expired) BY <1>1, KeepSteps
<1>3. ToSet(items') = ToSet(items) \ (ToSet(items) \cap expired)
  BY <1>2, QueuedAreJobs
<1> QED BY <1>1, <1>2, <1>3 DEF Keep, Abstract!DropExpired, Abstract!Remove

\* cancel_all_waiting
LEMMA CancelAllSteps ==
    ASSUME IInv, CancelAllWaiting PROVE IInv' /\ Abstract!DropAll
<1>1. Keep({}) /\ UNCHANGED scopes BY DEF CancelAllWaiting
<1>2. IInv' /\ ToSet(items') = ToSet(items) \cap {} BY <1>1, KeepSteps
<1>3. ToSet(items') = ToSet(items) \ ToSet(items) BY <1>2
<1> QED BY <1>1, <1>2, <1>3 DEF Keep, Abstract!DropAll, Abstract!Remove

\* cancel_scope and lock_product
LEMMA CancelScopeSteps ==
    ASSUME IInv, NEW scope \in Abstract!Scopes, CancelScope(scope)
    PROVE  IInv' /\ Abstract!DropScope(scope)
<1> DEFINE stay == {j \in Jobs : ~Abstract!InScope(j, scope)}
<1>1. Keep(stay) /\ scopes' = scopes \cup {scope} BY DEF CancelScope
<1>2. IInv' /\ ToSet(items') = ToSet(items) \cap stay
  <2> HIDE DEF stay
  <2> QED BY <1>1, KeepSteps
<1>3. ToSet(items') = {j \in ToSet(items) : ~Abstract!InScope(j, scope)}
  BY <1>2, QueuedAreJobs
<1> QED BY <1>1, <1>2, <1>3 DEF Keep, Abstract!DropScope, Abstract!InstallScope

\* Expiry, the close and a stutter leave the deque alone.
LEMMA DequeUntouched ==
    ASSUME IInv, UNCHANGED <<items, enqueuedAt, clock>> PROVE IInv'
BY DEF IInv, Typed, Timed, Sorted, Ahead, OrderBefore, OrderOf

\* A deadline that passes.
LEMMA ExpireSteps ==
    ASSUME IInv, NEW j \in Jobs, Expire(j) PROVE IInv' /\ Abstract!ExpireJob(j)
BY DequeUntouched DEF Expire, Abstract!ExpireJob, Abstract!queueVars

\* close
LEMMA CloseSteps == ASSUME IInv, CloseDeque PROVE IInv' /\ Abstract!CloseQueue
BY DequeUntouched DEF CloseDeque, Abstract!CloseQueue, Abstract!Close

\* A stutter of the deque is one of the promise.
LEMMA StutterSteps ==
    ASSUME IInv, UNCHANGED dequeVars PROVE IInv' /\ UNCHANGED Abstract!promiseVars
BY DequeUntouched DEF dequeVars, Abstract!promiseVars, Abstract!queueVars

-----------------------------------------------------------------------------

\* The queue keeps its promise: whatever the jobs, their order of arrival, the
\* expiries, the cancellations and the capacity, get() takes the first job of the
\* order, and every removal takes exactly the jobs it names.
THEOREM DequeKeepsPromise == Spec => RefinesPromise
<1>1. Init => IInv /\ Abstract!PromiseInit BY InitSteps
<1>2. IInv /\ [Next]_dequeVars
        => IInv' /\ [Abstract!PromiseNext]_(Abstract!promiseVars)
  <2> SUFFICES ASSUME IInv, [Next]_dequeVars
               PROVE  IInv' /\ [Abstract!PromiseNext]_(Abstract!promiseVars)
    OBVIOUS
  <2>1. ASSUME NEW j \in Jobs, TryEnqueue(j)
        PROVE  IInv' /\ Abstract!PromiseNext
    BY <2>1, EnqueueSteps DEF Abstract!PromiseNext
  <2>2. ASSUME NEW j \in Jobs, Expire(j) PROVE IInv' /\ Abstract!PromiseNext
    BY <2>2, ExpireSteps DEF Abstract!PromiseNext
  <2>3. ASSUME NEW scope \in Abstract!Scopes, CancelScope(scope)
        PROVE  IInv' /\ Abstract!PromiseNext
    BY <2>3, CancelScopeSteps DEF Abstract!PromiseNext
  <2>4. CASE Get BY <2>4, GetSteps DEF Abstract!PromiseNext
  <2>5. CASE DiscardExpired BY <2>5, DiscardSteps DEF Abstract!PromiseNext
  <2>6. CASE CancelAllWaiting BY <2>6, CancelAllSteps DEF Abstract!PromiseNext
  <2>7. CASE CloseDeque BY <2>7, CloseSteps DEF Abstract!PromiseNext
  <2>8. CASE UNCHANGED dequeVars BY <2>8, StutterSteps
  <2> QED
    BY <2>1, <2>2, <2>3, <2>4, <2>5, <2>6, <2>7, <2>8 DEF Next
<1> QED BY <1>1, <1>2, PTL DEF Spec, RefinesPromise, Abstract!Promise
=============================================================================

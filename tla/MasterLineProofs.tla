--------------------------- MODULE MasterLineProofs ---------------------------
(***************************************************************************)
(* Theorems about MasterLine, for any number of products, any limits of    *)
(* the FIFO and any number of disturbances.                                *)
(***************************************************************************)
EXTENDS MasterLineInvariants, FiniteSetTheorems, WellFoundedInduction, TLAPS

-----------------------------------------------------------------------------
(* Folds over sets.  A fold is a function chosen to satisfy its equation, so it has to  *)
(* be shown that there is one.                                                          *)

\* A set of natural numbers that is not empty has a least one.
LEMMA LeastOfNaturals ==
  ASSUME NEW T, T \subseteq Nat, T # {}
  PROVE  \E x \in T : \A y \in T : x <= y
<1>1. OpToRel(<, Nat) = {ss \in Nat \X Nat : ss[1] < ss[2]} BY Zenon DEF OpToRel
<1>2. IsWellFoundedOn({ss \in Nat \X Nat : ss[1] < ss[2]}, Nat)
  BY <1>1, NatLessThanWellFounded, Zenon
<1>3. PICK x \in T : \A y \in T : <<y, x>> \notin {ss \in Nat \X Nat : ss[1] < ss[2]}
  BY <1>2, WFMin, Zenon
<1>4. x \in Nat /\ \A y \in T : y \in Nat /\ ~(y < x) BY <1>3
<1> QED BY <1>4

\* The element a fold takes out of a set.
Taken(q) == CHOOSE x \in q : TRUE

\* What a fold takes from a set is an element of it.
LEMMA TakenIsElement ==
  ASSUME NEW q, q # {}
  PROVE  Taken(q) \in q
BY DEF Taken

\* One element less.
LEMMA SmallerByOne ==
  ASSUME NEW S, IsFiniteSet(S), NEW q \in SUBSET S, q # {}
  PROVE  /\ Cardinality(q) \in Nat /\ Cardinality(q) > 0
         /\ q \ {Taken(q)} \in SUBSET S /\ Cardinality(q \ {Taken(q)}) = Cardinality(q) - 1
<1>1. IsFiniteSet(q) BY FS_Subset
<1>2. Cardinality(q) \in Nat /\ Cardinality(q) # 0 BY <1>1, FS_CardinalityType, FS_EmptySet
<1>3. Cardinality(q \ {Taken(q)}) = Cardinality(q) - 1 BY <1>1, TakenIsElement, FS_RemoveElement
<1> QED BY <1>2, <1>3

\* What holds of the empty set and of a set when it holds of the set without the element
\* taken out of it, holds of all sets.
LEMMA TakingInduction ==
  ASSUME NEW S, IsFiniteSet(S), NEW H \in SUBSET SUBSET S, {} \in H,
         \A q \in SUBSET S : q # {} /\ q \ {Taken(q)} \in H => q \in H
  PROVE  S \in H
<1> SUFFICES ASSUME S \notin H PROVE FALSE OBVIOUS
<1> DEFINE Sizes == {n \in Nat : \E q \in SUBSET S : q \notin H /\ Cardinality(q) = n}
<1>1. Cardinality(S) \in Nat BY FS_CardinalityType
<1>2. Sizes \subseteq Nat /\ Sizes # {} BY <1>1
<1>3. PICK n \in Sizes : \A k \in Sizes : n <= k
  <2> HIDE DEF Sizes
  <2> QED BY <1>2, LeastOfNaturals
<1>4. PICK q \in SUBSET S : q \notin H /\ Cardinality(q) = n BY <1>3
<1>5. q # {} BY <1>4
<1>6. /\ Cardinality(q) \in Nat /\ Cardinality(q) > 0
      /\ q \ {Taken(q)} \in SUBSET S /\ Cardinality(q \ {Taken(q)}) = Cardinality(q) - 1
  BY <1>5, SmallerByOne
<1>7. q \ {Taken(q)} \notin H BY <1>4, <1>5
<1>8. Cardinality(q) - 1 \in Sizes BY <1>6, <1>7
<1> QED BY <1>3, <1>4, <1>6, <1>8

\* f has the values of a fold at every set.
Folds(f, S, base, step) ==
    \A q \in SUBSET S :
        f[q] = IF q = {} THEN base ELSE step[Taken(q)][f[q \ {Taken(q)}]]

\* The equation of a fold has a solution.
LEMMA FoldExists ==
  ASSUME NEW S, IsFiniteSet(S), NEW T, NEW base \in T, NEW step \in [S -> [T -> T]]
  PROVE  \E f \in [SUBSET S -> T] : Folds(f, S, base, step)
<1> DEFINE Image(f, q) == IF q = {} THEN base ELSE step[Taken(q)][f[q \ {Taken(q)}]]
           Upto(n) == {f \in [SUBSET S -> T] :
                          \A q \in SUBSET S : Cardinality(q) <= n => f[q] = Image(f, q)}
           Unsolved == {n \in Nat : Upto(n) = {}}
<1>1. ASSUME NEW f \in [SUBSET S -> T], NEW q \in SUBSET S PROVE Image(f, q) \in T
  <2>1. CASE q = {} BY <2>1
  <2>2. CASE q # {}
    <3>1. Taken(q) \in S /\ q \ {Taken(q)} \in SUBSET S BY <2>2, TakenIsElement
    <3> QED BY <3>1, <2>2
  <2> QED BY <2>1, <2>2
<1>2. Unsolved = {}
  <2> SUFFICES ASSUME Unsolved # {} PROVE FALSE OBVIOUS
  <2>1. PICK n \in Unsolved : \A k \in Unsolved : n <= k
    <3>1. Unsolved \subseteq Nat OBVIOUS
    <3> HIDE DEF Unsolved
    <3> QED BY <3>1, LeastOfNaturals
  <2>2. n \in Nat /\ Upto(n) = {} BY <2>1
  <2>3. CASE n = 0
    <3> DEFINE f == [q \in SUBSET S |-> base]
    <3>1. f \in [SUBSET S -> T] OBVIOUS
    <3>2. ASSUME NEW q \in SUBSET S, Cardinality(q) <= 0 PROVE f[q] = Image(f, q)
      <4>1. ASSUME q # {} PROVE FALSE
        <5>1. Cardinality(q) \in Nat /\ Cardinality(q) > 0 BY <4>1, SmallerByOne
        <5> HIDE DEF Image
        <5> QED BY <3>2, <5>1
      <4> QED BY <4>1
    <3>3. f \in Upto(0) BY <3>1, <3>2
    <3> QED BY <2>2, <2>3, <3>3
  <2>4. CASE n # 0
    <3>1. n - 1 \in Nat /\ n - 1 \notin Unsolved
      <4> HIDE DEF Unsolved
      <4> QED BY <2>1, <2>2, <2>4
    <3>2. PICK f : f \in Upto(n - 1) BY <3>1
    <3>3. /\ f \in [SUBSET S -> T]
          /\ \A q \in SUBSET S : Cardinality(q) <= n - 1 => f[q] = Image(f, q)
      BY <3>2
    <3> DEFINE g == [q \in SUBSET S |-> Image(f, q)]
    <3>4. g \in [SUBSET S -> T]
      <4> HIDE DEF Image
      <4> QED BY <1>1, <3>3
    <3>5. ASSUME NEW q \in SUBSET S, Cardinality(q) <= n PROVE g[q] = Image(g, q)
      <4>1. CASE q = {} BY <4>1
      <4>2. CASE q # {}
        <5> DEFINE r == q \ {Taken(q)}
        <5>1. r \in SUBSET S /\ Cardinality(r) <= n - 1 BY <4>2, <3>5, <2>2, SmallerByOne
        <5>2. g[r] = f[r]
          <6>1. g[r] = Image(f, r) BY <5>1
          <6> HIDE DEF r, Image, g
          <6> QED BY <5>1, <6>1, <3>3
        <5> QED BY <4>2, <5>2
      <4> QED BY <4>1, <4>2
    <3>6. g \in Upto(n)
      <4> HIDE DEF g, Image
      <4> QED BY <3>4, <3>5
    <3> QED BY <2>2, <3>6
  <2> QED BY <2>3, <2>4
<1>3. Cardinality(S) \in Nat BY FS_CardinalityType
<1>4. PICK f : f \in Upto(Cardinality(S)) BY <1>2, <1>3
<1>5. f \in [SUBSET S -> T] /\ \A q \in SUBSET S : f[q] = Image(f, q)
  <2>1. \A q \in SUBSET S : Cardinality(q) <= Cardinality(S) BY FS_Subset
  <2> HIDE DEF Image
  <2> QED BY <1>4, <2>1
<1> QED BY <1>5 DEF Folds

-----------------------------------------------------------------------------
(* The Master's record, with a name for the type of each field. *)

\* The names stand for the type of the record.
LEMMA MasterIsRecord == MasterType = Masters
BY DEF MasterType, Masters, Systems, OrderLists, Fifos, States, Records, Counts, Skips,
     Verdicts, Buffers, Cycles, CycleMaps, Pairs, Actuations, ActuationMaps

\* f follows the equation of a fold as far as it has values in T.
Unfolds(f, S, T, step) ==
    \A q \in SUBSET S : q # {} /\ f[q \ {Taken(q)}] \in T =>
        f[q] = step[Taken(q)][f[q \ {Taken(q)}]]

\* One step more keeps the result good.
Preserved(Good, S, T, step) ==
    \A q \in SUBSET S, x \in S, t \in T :
        x \notin q /\ <<q, t>> \in Good => <<q \cup {x}, step[x][t]>> \in Good

\* What a fold over S preserves.  Good relates what has been folded to the result, and the
\* function of the fold is only known by its equation.
LEMMA FoldInduction ==
  ASSUME NEW S, IsFiniteSet(S), NEW T, NEW base \in T, NEW step \in [S -> [T -> T]],
         NEW fold, fold[{}] = base, Unfolds(fold, S, T, step),
         NEW Good, <<{}, base>> \in Good, Preserved(Good, S, T, step)
  PROVE  fold[S] \in T /\ <<S, fold[S]>> \in Good
<1> DEFINE H == {q \in SUBSET S : fold[q] \in T /\ <<q, fold[q]>> \in Good}
<1>1. {} \in H OBVIOUS
<1>2. ASSUME NEW q \in SUBSET S, q # {}, q \ {Taken(q)} \in H PROVE q \in H
  <2> DEFINE r == q \ {Taken(q)}
  <2>1. Taken(q) \in S /\ Taken(q) \notin r /\ r \cup {Taken(q)} = q /\ r \in SUBSET S
    BY <1>2, TakenIsElement
  <2>2. fold[r] \in T /\ <<r, fold[r]>> \in Good BY <1>2
  <2>3. fold[q] = step[Taken(q)][fold[r]] BY <1>2, <2>2 DEF Unfolds
  <2> HIDE DEF r
  <2>4. fold[q] \in T BY <2>1, <2>2, <2>3
  <2>5. <<r \cup {Taken(q)}, step[Taken(q)][fold[r]]>> \in Good BY <2>1, <2>2 DEF Preserved
  <2> QED BY <2>1, <2>3, <2>4, <2>5
<1>3. H \in SUBSET SUBSET S OBVIOUS
<1>4. S \in H
  <2> HIDE DEF H
  <2> QED BY <1>1, <1>2, <1>3, TakingInduction
<1> QED BY <1>4

\* There are finitely many stations, products and pairs of them.
LEMMA FiniteStations == IsFiniteSet(Stations) /\ IsFiniteSet(Products)
<1>1. IsFiniteSet({"A"} \cup {"B"}) BY FS_Singleton, FS_Union
<1>2. IsFiniteSet(1 .. ProductCount) BY LineAssumption, FS_Interval
<1>3. Stations = {"A"} \cup {"B"} BY DEF Stations
<1> QED BY <1>1, <1>2, <1>3 DEF Products

\* A set of pairs of a product and a station is finite.
LEMMA FinitePairs ==
  ASSUME NEW q \in Pairs
  PROVE  IsFiniteSet(q)
<1>1. IsFiniteSet(Products \X Stations) BY FiniteStations, FS_Product, Zenon
<1> QED BY <1>1, FS_Subset DEF Pairs

-----------------------------------------------------------------------------
(* The steps of the folds of the Master.  What holds of no step, and of one more whenever *)
(* it holds, holds of all of them.  Good relates the steps made to the record they lead   *)
(* to.                                                                                    *)

\* One of the resumes of _resume_deferred_operations ...
ResumeOne(m, ps) == IF m.cycle[ps[2]].product = ps[1] THEN Resumed(m, ps[2]) ELSE m

\* ... and one of the starts.
StartOne(m, ps) ==
    IF ps[1] \in {m.fifo[i] : i \in DOMAIN m.fifo}
    THEN Started(m, ps[1], ps[2])
    ELSE [m EXCEPT !.lateStart = @ \ {ps}]

\* The resumes a report of the belts confirms.
LEMMA ConfirmedInduction ==
  ASSUME NEW m0 \in Masters, NEW R \in SUBSET Stations, NEW Good, <<{}, m0>> \in Good,
         \A q \in SUBSET R, x \in R, m \in Masters :
             /\ Resumed(m, x) \in Masters
             /\ x \notin q /\ <<q, m>> \in Good => <<q \cup {x}, Resumed(m, x)>> \in Good
  PROVE  /\ Confirmed(m0, R) \in Masters
         /\ <<R, Confirmed(m0, R)>> \in Good
<1> DEFINE S == R
           Eq(f) == [q \in SUBSET S |->
                        IF q = {} THEN m0
                        ELSE LET x == CHOOSE x \in q : TRUE IN Resumed(f[q \ {x}], x)]
           fold == CHOOSE f : f = Eq(f)
           step == [x \in S |-> [m \in Masters |-> Resumed(m, x)]]
<1>1. Confirmed(m0, R) = fold[S] BY DEF Confirmed, FoldSet, MapThenFoldSet
<1>2. IsFiniteSet(S) BY FiniteStations, FS_Subset
<1>3. step \in [S -> [Masters -> Masters]] BY Zenon
<1>4. \A x \in S, m \in Masters : step[x][m] = Resumed(m, x) OBVIOUS
<1> HIDE DEF step
<1>5. PICK f \in [SUBSET S -> Masters] : Folds(f, S, m0, step)
  <2> HIDE DEF Eq, fold, S
  <2> QED BY <1>2, <1>3, FoldExists
<1>6. f = Eq(f)
  <2>1. ASSUME NEW q \in SUBSET S PROVE f[q] = Eq(f)[q]
    <3>1. CASE q = {} BY <1>5, <3>1 DEF Folds
    <3>2. CASE q # {}
      <4> DEFINE x == Taken(q)
                 r == f[q \ {x}]
      <4>1. x \in S /\ r \in Masters BY <3>2, TakenIsElement
      <4>2. f[q] = Resumed(r, x) BY <1>4, <1>5, <3>2, <4>1 DEF Folds
      <4> QED BY <3>2, <4>2 DEF Taken
    <3> QED BY <3>1, <3>2
  <2> QED BY <2>1
<1>7. fold = Eq(fold)
  <2> HIDE DEF Eq
  <2> QED BY <1>6
<1>8. /\ fold[{}] = m0
      /\ \A q \in SUBSET S : q # {} =>
            LET x == Taken(q)  r == fold[q \ {x}] IN fold[q] = Resumed(r, x)
  <2> HIDE DEF fold
  <2>1. \A q \in SUBSET S : fold[q] = Eq(fold)[q] BY <1>7
  <2> QED BY <2>1 DEF Taken
<1> HIDE DEF fold
<1>9. Unfolds(fold, S, Masters, step)
  <2> HIDE DEF S
  <2> QED BY <1>4, <1>8, TakenIsElement DEF Unfolds
<1>10. Preserved(Good, S, Masters, step) BY <1>4 DEF Preserved
<1>11. fold[S] \in Masters /\ <<S, fold[S]>> \in Good
  <2> HIDE DEF S
  <2> QED BY <1>2, <1>3, <1>8, <1>9, <1>10, FoldInduction
<1> QED BY <1>1, <1>11

\* The same for LateResumed.
LEMMA LateResumedInduction ==
  ASSUME NEW m0 \in Masters, NEW Good, <<{}, m0>> \in Good,
         \A q \in SUBSET m0.lateResume, x \in m0.lateResume, m \in Masters :
             /\ ResumeOne(m, x) \in Masters
             /\ x \notin q /\ <<q, m>> \in Good => <<q \cup {x}, ResumeOne(m, x)>> \in Good
  PROVE  /\ LateResumed(m0) \in Masters
         /\ <<m0.lateResume, LateResumed(m0)>> \in Good
<1> DEFINE S == m0.lateResume
           Eq(f) == [q \in SUBSET S |->
                        IF q = {} THEN m0
                        ELSE LET x == CHOOSE x \in q : TRUE IN ResumeOne(f[q \ {x}], x)]
           fold == CHOOSE f : f = Eq(f)
           step == [x \in S |-> [m \in Masters |-> ResumeOne(m, x)]]
<1>1. LateResumed(m0) = fold[S] BY DEF LateResumed, ResumeOne, FoldSet, MapThenFoldSet
<1>2. IsFiniteSet(S) BY FinitePairs DEF Masters
<1>3. step \in [S -> [Masters -> Masters]] BY Zenon
<1>4. \A x \in S, m \in Masters : step[x][m] = ResumeOne(m, x) OBVIOUS
<1> HIDE DEF step
<1>5. PICK f \in [SUBSET S -> Masters] : Folds(f, S, m0, step)
  <2> HIDE DEF Eq, fold, S
  <2> QED BY <1>2, <1>3, FoldExists
<1>6. f = Eq(f)
  <2>1. ASSUME NEW q \in SUBSET S PROVE f[q] = Eq(f)[q]
    <3>1. CASE q = {} BY <1>5, <3>1 DEF Folds
    <3>2. CASE q # {}
      <4> DEFINE x == Taken(q)
                 r == f[q \ {x}]
      <4>1. x \in S /\ r \in Masters BY <3>2, TakenIsElement
      <4>2. f[q] = ResumeOne(r, x) BY <1>4, <1>5, <3>2, <4>1 DEF Folds
      <4> QED BY <3>2, <4>2 DEF Taken
    <3> QED BY <3>1, <3>2
  <2> QED BY <2>1
<1>7. fold = Eq(fold)
  <2> HIDE DEF Eq
  <2> QED BY <1>6
<1>8. /\ fold[{}] = m0
      /\ \A q \in SUBSET S : q # {} =>
            LET x == Taken(q)  r == fold[q \ {x}] IN fold[q] = ResumeOne(r, x)
  <2> HIDE DEF fold
  <2>1. \A q \in SUBSET S : fold[q] = Eq(fold)[q] BY <1>7
  <2> QED BY <2>1 DEF Taken
<1> HIDE DEF fold
<1>9. Unfolds(fold, S, Masters, step)
  <2> HIDE DEF S
  <2> QED BY <1>4, <1>8, TakenIsElement DEF Unfolds
<1>10. Preserved(Good, S, Masters, step) BY <1>4 DEF Preserved
<1>11. fold[S] \in Masters /\ <<S, fold[S]>> \in Good
  <2> HIDE DEF S
  <2> QED BY <1>2, <1>3, <1>8, <1>9, <1>10, FoldInduction
<1> QED BY <1>1, <1>11

\* The same for LateStarted.
LEMMA LateStartedInduction ==
  ASSUME NEW m0 \in Masters, NEW Good, <<{}, m0>> \in Good,
         \A q \in SUBSET m0.lateStart, x \in m0.lateStart, m \in Masters :
             /\ StartOne(m, x) \in Masters
             /\ x \notin q /\ <<q, m>> \in Good => <<q \cup {x}, StartOne(m, x)>> \in Good
  PROVE  /\ LateStarted(m0) \in Masters
         /\ <<m0.lateStart, LateStarted(m0)>> \in Good
<1> DEFINE S == m0.lateStart
           Eq(f) == [q \in SUBSET S |->
                        IF q = {} THEN m0
                        ELSE LET x == CHOOSE x \in q : TRUE IN StartOne(f[q \ {x}], x)]
           fold == CHOOSE f : f = Eq(f)
           step == [x \in S |-> [m \in Masters |-> StartOne(m, x)]]
<1>1. LateStarted(m0) = fold[S] BY DEF LateStarted, StartOne, FoldSet, MapThenFoldSet
<1>2. IsFiniteSet(S) BY FinitePairs DEF Masters
<1>3. step \in [S -> [Masters -> Masters]] BY Zenon
<1>4. \A x \in S, m \in Masters : step[x][m] = StartOne(m, x) OBVIOUS
<1> HIDE DEF step
<1>5. PICK f \in [SUBSET S -> Masters] : Folds(f, S, m0, step)
  <2> HIDE DEF Eq, fold, S
  <2> QED BY <1>2, <1>3, FoldExists
<1>6. f = Eq(f)
  <2>1. ASSUME NEW q \in SUBSET S PROVE f[q] = Eq(f)[q]
    <3>1. CASE q = {} BY <1>5, <3>1 DEF Folds
    <3>2. CASE q # {}
      <4> DEFINE x == Taken(q)
                 r == f[q \ {x}]
      <4>1. x \in S /\ r \in Masters BY <3>2, TakenIsElement
      <4>2. f[q] = StartOne(r, x) BY <1>4, <1>5, <3>2, <4>1 DEF Folds
      <4> QED BY <3>2, <4>2 DEF Taken
    <3> QED BY <3>1, <3>2
  <2> QED BY <2>1
<1>7. fold = Eq(fold)
  <2> HIDE DEF Eq
  <2> QED BY <1>6
<1>8. /\ fold[{}] = m0
      /\ \A q \in SUBSET S : q # {} =>
            LET x == Taken(q)  r == fold[q \ {x}] IN fold[q] = StartOne(r, x)
  <2> HIDE DEF fold
  <2>1. \A q \in SUBSET S : fold[q] = Eq(fold)[q] BY <1>7
  <2> QED BY <2>1 DEF Taken
<1> HIDE DEF fold
<1>9. Unfolds(fold, S, Masters, step)
  <2> HIDE DEF S
  <2> QED BY <1>4, <1>8, TakenIsElement DEF Unfolds
<1>10. Preserved(Good, S, Masters, step) BY <1>4 DEF Preserved
<1>11. fold[S] \in Masters /\ <<S, fold[S]>> \in Good
  <2> HIDE DEF S
  <2> QED BY <1>2, <1>3, <1>8, <1>9, <1>10, FoldInduction
<1> QED BY <1>1, <1>11

\* The products whose actuation is not known to be accepted.
Pending(m) == {p \in Products : m.actuation[p].phase = "pending"}

\* The same for LateSent.
LEMMA LateSentInduction ==
  ASSUME NEW m0 \in Masters, NEW available \in BOOLEAN, NEW Good, <<{}, m0>> \in Good,
         \A q \in SUBSET Pending(m0), x \in Pending(m0), m \in Masters :
             /\ Sent(m, x, available) \in Masters
             /\ x \notin q /\ <<q, m>> \in Good => <<q \cup {x}, Sent(m, x, available)>> \in Good
  PROVE  /\ LateSent(m0, available) \in Masters
         /\ <<Pending(m0), LateSent(m0, available)>> \in Good
<1> DEFINE S == Pending(m0)
           Eq(f) == [q \in SUBSET S |->
                        IF q = {} THEN m0
                        ELSE LET x == CHOOSE x \in q : TRUE IN Sent(f[q \ {x}], x, available)]
           fold == CHOOSE f : f = Eq(f)
           step == [x \in S |-> [m \in Masters |-> Sent(m, x, available)]]
<1>1. LateSent(m0, available) = fold[S] BY DEF LateSent, Pending, FoldSet, MapThenFoldSet
<1>2. IsFiniteSet(S) BY FiniteStations, FS_Subset DEF Pending
<1>3. step \in [S -> [Masters -> Masters]] BY Zenon
<1>4. \A x \in S, m \in Masters : step[x][m] = Sent(m, x, available) OBVIOUS
<1> HIDE DEF step
<1>5. PICK f \in [SUBSET S -> Masters] : Folds(f, S, m0, step)
  <2> HIDE DEF Eq, fold, S
  <2> QED BY <1>2, <1>3, FoldExists
<1>6. f = Eq(f)
  <2>1. ASSUME NEW q \in SUBSET S PROVE f[q] = Eq(f)[q]
    <3>1. CASE q = {} BY <1>5, <3>1 DEF Folds
    <3>2. CASE q # {}
      <4> DEFINE x == Taken(q)
                 r == f[q \ {x}]
      <4>1. x \in S /\ r \in Masters BY <3>2, TakenIsElement
      <4>2. f[q] = Sent(r, x, available) BY <1>4, <1>5, <3>2, <4>1 DEF Folds
      <4> QED BY <3>2, <4>2 DEF Taken
    <3> QED BY <3>1, <3>2
  <2> QED BY <2>1
<1>7. fold = Eq(fold)
  <2> HIDE DEF Eq
  <2> QED BY <1>6
<1>8. /\ fold[{}] = m0
      /\ \A q \in SUBSET S : q # {} =>
            LET x == Taken(q)  r == fold[q \ {x}] IN fold[q] = Sent(r, x, available)
  <2> HIDE DEF fold
  <2>1. \A q \in SUBSET S : fold[q] = Eq(fold)[q] BY <1>7
  <2> QED BY <2>1 DEF Taken
<1> HIDE DEF fold
<1>9. Unfolds(fold, S, Masters, step)
  <2> HIDE DEF S
  <2> QED BY <1>4, <1>8, TakenIsElement DEF Unfolds
<1>10. Preserved(Good, S, Masters, step) BY <1>4 DEF Preserved
<1>11. fold[S] \in Masters /\ <<S, fold[S]>> \in Good
  <2> HIDE DEF S
  <2> QED BY <1>2, <1>3, <1>8, <1>9, <1>10, FoldInduction
<1> QED BY <1>1, <1>11
-----------------------------------------------------------------------------
(* Every operator of the Master leads from a well-formed record to one. *)

\* The places of a product's record at a station, of its state and of a cycle.
LEMMA RecordTyped ==
  ASSUME NEW r \in Records, NEW p \in Products, NEW s \in Stations, NEW t \in StationType
  PROVE  /\ [r EXCEPT ![p][s] = t] \in Records
         /\ [r EXCEPT ![p][s] = t][p][s] = t
         /\ \A q \in Products, u \in Stations :
               <<q, u>> # <<p, s>> => [r EXCEPT ![p][s] = t][q][u] = r[q][u]
BY DEF Records

\* A product in a station's cycle is one of the products, and no product is None's.
LEMMA CycleTyped ==
  ASSUME NEW m \in Masters, NEW s \in Stations
  PROVE  /\ m.cycle[s] = None \/ m.cycle[s] \in Cycles
         /\ m.cycle[s] # None =>
               /\ m.cycle[s].product \in Products /\ m.cycle[s].capture \in Nat \ {0}
               /\ m.cycle[s].phase \in Phases /\ m.cycle[s].timed \in BOOLEAN
         /\ \A p \in Products : m.cycle[s].product = p => m.cycle[s] # None
BY DEF Masters, CycleMaps, Cycles, None, Products

\* _fault_stop
LEMMA FaultedTyped ==
  ASSUME NEW m \in Masters
  PROVE  Faulted(m) \in Masters
BY DEF Faulted, Masters, Systems

\* request_pause and request_recoverable_device_pause
LEMMA PausedTyped ==
  ASSUME NEW m \in Masters
  PROVE  Paused(m) \in Masters
<1>1. Append(m.orders, "PAUSE") \in OrderLists BY DEF Masters, OrderLists
<1> QED BY <1>1 DEF Paused, Masters, Systems

\* bypass_station_b
LEMMA BypassedTyped ==
  ASSUME NEW m \in Masters, NEW p \in Products
  PROVE  Bypassed(m, p) \in Masters
<1> DEFINE r == [m.station EXCEPT ![p]["B"].process = "SKIPPED"]
<1>1. r \in Records
  <2>1. m.station \in [Products -> [Stations -> StationType]] /\ "B" \in Stations
    BY DEF Masters, Records, Stations
  <2> QED BY <2>1 DEF Records, StationType
<1>2. Sensor3Wait \in Unseen .. Done BY DEF Sensor3Wait, Onward, Unseen, Done
<1>3. [m EXCEPT !.skip[p] = TRUE, !.station = r, !.state[p] = Sensor3Wait] \in Masters
  <2> HIDE DEF r
  <2> QED BY <1>1, <1>2 DEF Masters, States, Skips
<1> QED BY <1>3 DEF Bypassed

\* begin_station_cycle
LEMMA BegunTyped ==
  ASSUME NEW m \in Masters, NEW p \in Products, NEW s \in Stations
  PROVE  Begun(m, p, s) \in Masters
<1> DEFINE id == m.captures[p][s] + 1
           n == [m.captures EXCEPT ![p][s] = id]
           r == [m.station EXCEPT ![p][s] = [@ EXCEPT !.process = "POSITIONING", !.capture = id]]
           c == [product |-> p, capture |-> id, phase |-> "WAITING_POSITION", timed |-> TRUE]
<1>1. id \in Nat \ {0} /\ n \in Counts BY DEF Masters, Counts
<1> HIDE DEF id, n
<1>2. r \in Records
  <2>1. m.station \in Records BY DEF Masters
  <2>2. m.station[p][s] \in StationType BY <2>1 DEF Records
  <2>3. [m.station[p][s] EXCEPT !.process = "POSITIONING", !.capture = id] \in StationType
    BY <1>1, <2>2 DEF StationType
  <2> QED BY <2>1, <2>3, RecordTyped
<1>3. c \in Cycles BY <1>1 DEF Cycles, Phases
<1> HIDE DEF r, c
<1>4. [m EXCEPT !.captures = n, !.station = r, !.cycle[s] = c,
                !.lateStart = @ \ {<<p, s>>}] \in Masters
  BY <1>1, <1>2, <1>3 DEF Masters, CycleMaps, Pairs
<1> QED BY <1>4 DEF Begun, id, n, r, c

\* _start_station_cycle
LEMMA StartedTyped ==
  ASSUME NEW m \in Masters, NEW p \in Products, NEW s \in Stations
  PROVE  Started(m, p, s) \in Masters
<1>1. [m EXCEPT !.lateStart = @ \union {<<p, s>>}] \in Masters BY DEF Masters, Pairs
<1> QED BY <1>1, FaultedTyped, BypassedTyped, BegunTyped DEF Started

\* _resume_conveyor_after_capture; the other station keeps its cycle.
LEMMA ResumingTyped ==
  ASSUME NEW m \in Masters, NEW s \in Stations, m.cycle[s] # None
  PROVE  Resuming(m, s) \in Masters /\ \A u \in Stations : u # s => Resuming(m, s).cycle[u] = m.cycle[u]
<1>1. m.cycle[s] \in Cycles BY CycleTyped
<1> DEFINE c == [m.cycle EXCEPT ![s] = [@ EXCEPT !.phase = "RESUME_PENDING", !.timed = TRUE]]
<1>2. c \in CycleMaps /\ \A u \in Stations : u # s => c[u] = m.cycle[u]
  BY <1>1 DEF Masters, CycleMaps, Cycles, Phases
<1> HIDE DEF c
<1>3. Append(m.orders, s) \in OrderLists BY DEF Masters, OrderLists
<1>4. m.lateResume \union {<<m.cycle[s].product, s>>} \in Pairs BY <1>1 DEF Masters, Pairs, Cycles
<1>5. Resuming(m, s) = IF m.system = "RUN"
                       THEN [m EXCEPT !.cycle = c, !.orders = Append(@, s)]
                       ELSE [m EXCEPT !.cycle = c,
                                      !.lateResume = @ \union {<<m.cycle[s].product, s>>}]
  BY DEF Resuming, c, Masters
<1> QED BY <1>2, <1>3, <1>4, <1>5 DEF Masters

\* confirm_conveyor_resumed
LEMMA ResumedTyped ==
  ASSUME NEW m \in Masters, NEW s \in Stations
  PROVE  Resumed(m, s) \in Masters
<1>1. CASE m.cycle[s] = None BY <1>1 DEF Resumed
<1>2. CASE m.cycle[s] # None
  <2>1. m.cycle[s].product \in Products BY <1>2, CycleTyped
  <2>2. Onward[s] \in Unseen .. Done BY DEF Onward, Unseen, Done, Stations
  <2> DEFINE p == m.cycle[s].product
  <2>3. [m EXCEPT !.state[p] = Onward[s], !.cycle[s] = None,
                  !.lateResume = @ \ {<<p, s>>}] \in Masters
    BY <2>1, <2>2 DEF Masters, States, CycleMaps, Pairs
  <2> QED BY <2>3, FaultedTyped DEF Resumed
<1> QED BY <1>1, <1>2

\* mark_capture_succeeded; no station changes its cycle.
LEMMA PromotedTyped ==
  ASSUME NEW m \in Masters, NEW p \in Products, NEW s \in Stations
  PROVE  Promoted(m, p, s) \in Masters /\ Promoted(m, p, s).cycle = m.cycle
<1>1. Captured[s] \in Unseen .. Done BY DEF Captured, Unseen, Done, Stations
<1> DEFINE r == [m.station EXCEPT ![p][s] = [@ EXCEPT !.captured = TRUE, !.process = "CAPTURE_COMPLETED"]]
<1>2. r \in Records
  <2>1. m.station \in Records BY DEF Masters
  <2>2. m.station[p][s] \in StationType BY <2>1 DEF Records
  <2>3. [m.station[p][s] EXCEPT !.captured = TRUE, !.process = "CAPTURE_COMPLETED"]
           \in StationType
    BY <2>2 DEF StationType
  <2> QED BY <2>1, <2>3, RecordTyped
<1> HIDE DEF r
<1>3. [m EXCEPT !.station = r, !.state[p] = Captured[s]] \in Masters
  BY <1>1, <1>2 DEF Masters, States
<1>4. Promoted(m, p, s) = [m EXCEPT !.station = r, !.state[p] = Captured[s]] BY DEF Promoted, r
<1>5. [m EXCEPT !.station = r, !.state[p] = Captured[s]].cycle = m.cycle BY DEF Masters
<1> QED BY <1>3, <1>4, <1>5

\* _pause_station_for_recovery
LEMMA RecoveringTyped ==
  ASSUME NEW m \in Masters, NEW s \in Stations
  PROVE  Recovering(m, s) \in Masters
<1> DEFINE p == m.cycle[s].product
<1>1. CASE m.cycle[s] = None BY <1>1, PausedTyped DEF Recovering
<1>2. CASE m.cycle[s] # None
  <2>1. m.cycle[s] \in Cycles /\ p \in Products BY <1>2, CycleTyped
  <2> HIDE DEF p
  <2> DEFINE q == Promoted(m, p, s)
  <2>2. q \in Masters /\ q.cycle[s] \in Cycles BY <2>1, PromotedTyped
  <2> HIDE DEF q
  <2>3. [q EXCEPT !.cycle[s] = [@ EXCEPT !.phase = "RESUME_PENDING", !.timed = FALSE],
                  !.lateResume = @ \union {<<p, s>>}] \in Masters
    <3> DEFINE c == [q.cycle EXCEPT ![s] = [@ EXCEPT !.phase = "RESUME_PENDING", !.timed = FALSE]]
    <3>1. c \in CycleMaps BY <2>2 DEF Masters, CycleMaps, Cycles, Phases
    <3> HIDE DEF c
    <3>3. q.lateResume \union {<<p, s>>} \in Pairs BY <2>1, <2>2 DEF Masters, Pairs
    <3>2. [q EXCEPT !.cycle = c, !.lateResume = @ \union {<<p, s>>}] \in Masters
      BY <2>2, <3>1, <3>3 DEF Masters
    <3> QED BY <3>2 DEF c
  <2>4. [m EXCEPT !.station[p][s] = NewStation, !.cycle[s] = None,
                  !.lateStart = @ \union {<<p, s>>}] \in Masters
    <3> DEFINE r == [m.station EXCEPT ![p][s] = NewStation]
    <3>1. NewStation \in StationType BY DEF NewStation, StationType
    <3>2. r \in Records BY <2>1, <3>1, RecordTyped DEF Masters
    <3> HIDE DEF r
    <3>4. m.lateStart \union {<<p, s>>} \in Pairs BY <2>1 DEF Masters, Pairs
    <3>5. [m.cycle EXCEPT ![s] = None] \in CycleMaps BY DEF Masters, CycleMaps
    <3>3. [m EXCEPT !.station = r, !.cycle[s] = None,
                    !.lateStart = @ \union {<<p, s>>}] \in Masters
      BY <3>2, <3>4, <3>5 DEF Masters
    <3> QED BY <3>3 DEF r
  <2> QED BY <1>2, <2>3, <2>4, FaultedTyped, PausedTyped DEF Recovering, p, q
<1> QED BY <1>1, <1>2

\* _cancel_station_b_after_a_terminal; station A keeps its cycle.
LEMMA CanceledBTyped ==
  ASSUME NEW m0 \in Masters, NEW p \in Products
  PROVE  CanceledB(m0, p) \in Masters /\ CanceledB(m0, p).cycle["A"] = m0.cycle["A"]
<1> DEFINE m == [m0 EXCEPT !.skip[p] = TRUE]
           skipped == [m EXCEPT !.station[p]["B"].process = "SKIPPED",
                                !.state[p] = Captured["B"]]
<1>1. m \in Masters /\ m.cycle = m0.cycle BY DEF Masters, Skips
<1>2. "B" \in Stations /\ "A" \in Stations BY DEF Stations
<1> HIDE DEF m
<1>3. skipped \in Masters /\ skipped.cycle = m.cycle
  <2> DEFINE r == [m.station EXCEPT ![p]["B"].process = "SKIPPED"]
  <2>1. r \in Records
    <3>1. m.station \in Records /\ m.station[p]["B"] \in StationType
      BY <1>1, <1>2 DEF Masters, Records
    <3>2. [m.station[p]["B"] EXCEPT !.process = "SKIPPED"] \in StationType
      BY <3>1 DEF StationType
    <3> QED BY <1>2, <3>1, <3>2, RecordTyped
  <2>2. Captured["B"] \in Unseen .. Done BY DEF Captured, Unseen, Done
  <2> HIDE DEF r
  <2>3. /\ [m EXCEPT !.station = r, !.state[p] = Captured["B"]] \in Masters
        /\ [m EXCEPT !.station = r, !.state[p] = Captured["B"]].cycle = m.cycle
    BY <1>1, <2>1, <2>2 DEF Masters, States
  <2> QED BY <2>3 DEF r
<1> HIDE DEF skipped
<1>4. ASSUME NEW n \in Masters, n.cycle["B"] # None
      PROVE  Resuming(n, "B") \in Masters /\ Resuming(n, "B").cycle["A"] = n.cycle["A"]
  <2>1. "A" # "B" OBVIOUS
  <2> QED BY <1>2, <1>4, <2>1, ResumingTyped
<1>5. Bypassed(m, p) \in Masters /\ Bypassed(m, p).cycle = m.cycle
  <2>1. Bypassed(m, p).cycle = m.cycle BY <1>1 DEF Bypassed, Masters
  <2> QED BY <1>1, <2>1, BypassedTyped
<1>6. Promoted(m, p, "B") \in Masters /\ Promoted(m, p, "B").cycle = m.cycle
  BY <1>1, <1>2, PromotedTyped
<1>7. CASE m.cycle["B"].product = p
  <2>1. m.cycle["B"] # None BY <1>1, <1>2, <1>7, CycleTyped
  <2>2. Resuming(skipped, "B") \in Masters /\ Resuming(skipped, "B").cycle["A"] = m.cycle["A"]
    BY <1>3, <1>4, <2>1
  <2>3. /\ Resuming(Promoted(m, p, "B"), "B") \in Masters
        /\ Resuming(Promoted(m, p, "B"), "B").cycle["A"] = m.cycle["A"]
    BY <1>6, <1>4, <2>1
  <2> QED BY <1>1, <1>7, <2>2, <2>3 DEF CanceledB, m, skipped
<1>8. CASE m.cycle["B"].product # p BY <1>1, <1>5, <1>8 DEF CanceledB, m
<1> QED BY <1>7, <1>8

\* _finish_capture_failure
LEMMA CaptureFailedTyped ==
  ASSUME NEW m \in Masters, NEW s \in Stations, NEW diskFull \in BOOLEAN, m.cycle[s] # None
  PROVE  CaptureFailed(m, s, diskFull) \in Masters
<1> DEFINE p == m.cycle[s].product
           failed == [m EXCEPT !.station[p][s] = [@ EXCEPT !.failed = TRUE, !.process = "FAILED"],
                               !.state[p] = Captured[s]]
           told == IF s = "A" THEN CanceledB(failed, p) ELSE failed
           paused == IF diskFull THEN Paused(told) ELSE told
<1>1. p \in Products BY CycleTyped
<1>2. Captured[s] \in Unseen .. Done BY DEF Captured, Unseen, Done, Stations
<1> HIDE DEF p
<1>3. failed \in Masters /\ failed.cycle = m.cycle
  <2> DEFINE r == [m.station EXCEPT ![p][s] = [@ EXCEPT !.failed = TRUE, !.process = "FAILED"]]
  <2>1. r \in Records
    <3>1. m.station \in Records BY <1>1 DEF Masters
    <3>2. m.station[p][s] \in StationType BY <1>1, <3>1 DEF Records
    <3>3. [m.station[p][s] EXCEPT !.failed = TRUE, !.process = "FAILED"] \in StationType
      BY <3>2 DEF StationType
    <3> QED BY <1>1, <3>1, <3>3, RecordTyped
  <2> HIDE DEF r
  <2>2. /\ [m EXCEPT !.station = r, !.state[p] = Captured[s]] \in Masters
        /\ [m EXCEPT !.station = r, !.state[p] = Captured[s]].cycle = m.cycle
    BY <1>1, <1>2, <2>1 DEF Masters, States
  <2> QED BY <2>2 DEF r
<1> HIDE DEF failed
<1>4. told \in Masters /\ told.cycle[s] = m.cycle[s] BY <1>1, <1>3, CanceledBTyped
<1> HIDE DEF told
<1>5. Paused(told).cycle = told.cycle BY <1>4 DEF Paused, Masters
<1>6. paused \in Masters /\ paused.cycle[s] # None BY <1>4, <1>5, PausedTyped
<1> HIDE DEF paused
<1>7. Resuming(paused, s) \in Masters BY <1>6, ResumingTyped
<1> QED BY <1>7 DEF CaptureFailed, p, failed, told, paused

\* The least of the positions of the FIFO, or of any other natural numbers.
LEMMA FirstIsLeast ==
  ASSUME NEW T, T \subseteq Nat, T # {}
  PROVE  LET first == CHOOSE i \in T : \A j \in T : i <= j
         IN  first \in T /\ \A j \in T : first <= j
<1>1. \E i \in T : \A j \in T : i <= j BY LeastOfNaturals
<1> QED BY <1>1

\* oldest_in_state returns a product of the FIFO in that state, with none before it that has
\* not come so far, or nothing.
LEMMA OldestInFifo ==
  ASSUME NEW m \in Masters, NEW q, OldestIn(m, q) # 0
  PROVE  \E i \in DOMAIN m.fifo :
            /\ OldestIn(m, q) = m.fifo[i] /\ m.fifo[i] \in Products
            /\ m.state[m.fifo[i]] = q
            /\ \A j \in 1 .. i - 1 : m.state[m.fifo[j]] # q /\ ~(m.state[m.fifo[j]] < q)
<1> DEFINE waiting == {i \in DOMAIN m.fifo : m.state[m.fifo[i]] = q}
           first == CHOOSE i \in waiting : \A j \in waiting : i <= j
<1>1. m.fifo \in Seq(Products) BY DEF Masters, Fifos
<1>2. waiting # {} /\ ~(\E j \in 1 .. first - 1 : m.state[m.fifo[j]] < q) BY DEF OldestIn
<1>3. waiting \subseteq Nat BY <1>1
<1>4. first \in waiting /\ \A j \in waiting : first <= j
  <2> HIDE DEF waiting
  <2> QED BY <1>2, <1>3, FirstIsLeast
<1>5. OldestIn(m, q) = m.fifo[first] BY <1>2 DEF OldestIn
<1>6. first \in DOMAIN m.fifo /\ m.state[m.fifo[first]] = q BY <1>4
<1>7. m.fifo[first] \in Products
  <2> HIDE DEF first
  <2> QED BY <1>1, <1>6
<1>8. ASSUME NEW j \in 1 .. first - 1, m.state[m.fifo[j]] = q PROVE FALSE
  <2>1. first \in 1 .. Len(m.fifo) /\ Len(m.fifo) \in Nat BY <1>1, <1>6
  <2>2. j \in DOMAIN m.fifo /\ j < first
    <3> HIDE DEF first
    <3> QED BY <1>1, <2>1
  <2>3. j \in waiting BY <1>8, <2>2
  <2>4. first <= j /\ j \in Nat /\ first \in Nat BY <1>4, <2>3, <1>3
  <2> HIDE DEF first
  <2> QED BY <2>2, <2>4
<1> HIDE DEF first, waiting
<1> QED BY <1>2, <1>5, <1>6, <1>7, <1>8

\* _candidate_verdict
LEMMA VerdictTyped ==
  ASSUME NEW m \in Masters, NEW p \in Products
  PROVE  Verdict(m, p) \in {"none", "PASS", "NG", "FORCED_NG"}
BY DEF Verdict

\* The reorder buffer: the choice of what comes next has a value.
LEMMA PublishedTyped ==
  ASSUME NEW m \in Masters, NEW p \in Products
  PROVE  /\ Published(m, p) \in Masters
         /\ \E b \in Buffers : Published(m, p) = [m EXCEPT !.reorder = b]
<1> DEFINE held == m.reorder.pending \union {p}
           Free(n) == n \notin held /\ \A k \in m.reorder.next .. n - 1 : k \in held
           next == CHOOSE n \in m.reorder.next .. ProductCount + 1 : Free(n)
           b == [next |-> next, pending |-> {k \in held : k >= next}]
           T == {n \in m.reorder.next .. ProductCount + 1 : n \notin held}
<1>1. /\ m.reorder \in Buffers /\ ProductCount \in Nat
      /\ m.reorder.next \in 1 .. ProductCount + 1 /\ held \subseteq Products
  BY LineAssumption DEF Masters, Buffers, Products
<1> HIDE DEF held
<1>2. T \subseteq Nat /\ ProductCount + 1 \in T
  <2>1. ProductCount + 1 \notin held BY <1>1 DEF Products
  <2> QED BY <1>1, <2>1
<1>3. PICK n \in T : \A k \in T : n <= k
  <2> HIDE DEF T
  <2> QED BY <1>2, LeastOfNaturals
<1>4. n \in m.reorder.next .. ProductCount + 1 /\ Free(n)
  <2>1. n \in m.reorder.next .. ProductCount + 1 /\ n \notin held BY <1>3
  <2>2. ASSUME NEW k \in m.reorder.next .. n - 1, k \notin held PROVE FALSE
    <3>1. k \in Int /\ k < n /\ k \in m.reorder.next .. ProductCount + 1 BY <1>1, <2>1
    <3>2. n <= k BY <1>3, <2>2, <3>1
    <3> QED BY <2>1, <3>1, <3>2, <1>1
  <2> QED BY <2>1, <2>2
<1>5. next \in m.reorder.next .. ProductCount + 1
  <2> HIDE DEF Free
  <2> QED BY <1>4
<1>6. b \in Buffers
  <2>1. next \in Products \union {ProductCount + 1}
    <3> HIDE DEF next
    <3> QED BY <1>1, <1>5 DEF Products
  <2> HIDE DEF next
  <2> QED BY <1>1, <2>1 DEF Buffers
<1>7. Published(m, p) = IF p < m.reorder.next THEN m ELSE [m EXCEPT !.reorder = b]
  BY DEF Published, held
<1>8. m = [m EXCEPT !.reorder = m.reorder] BY DEF Masters
<1> HIDE DEF b
<1>9. [m EXCEPT !.reorder = b] \in Masters BY <1>6 DEF Masters
<1> QED BY <1>1, <1>6, <1>7, <1>8, <1>9

\* _send_actuation_goal
LEMMA SentTyped ==
  ASSUME NEW m \in Masters, NEW p \in Products, NEW available \in BOOLEAN
  PROVE  Sent(m, p, available) \in Masters
<1> DEFINE a == [m.actuation EXCEPT ![p] = [@ EXCEPT !.timed = TRUE,
                                         !.sent = m.actuation[p].sent + 1]]
<1>1. a \in ActuationMaps
  <2>1. m.actuation[p] \in Actuations /\ m.actuation \in ActuationMaps
    BY DEF Masters, ActuationMaps
  <2> DEFINE n == m.actuation[p].sent + 1
  <2>2. n \in Nat BY <2>1 DEF Actuations
  <2> HIDE DEF n
  <2>3. [m.actuation[p] EXCEPT !.timed = TRUE, !.sent = n] \in Actuations
    BY <2>1, <2>2 DEF Actuations
  <2>4. a = [m.actuation EXCEPT ![p] = [m.actuation[p] EXCEPT !.timed = TRUE, !.sent = n]]
    BY <2>1 DEF n, Actuations
  <2> HIDE DEF a
  <2> QED BY <2>1, <2>3, <2>4 DEF ActuationMaps
<1> HIDE DEF a
<1>2. [m EXCEPT !.actuation = a] \in Masters BY <1>1 DEF Masters
<1> QED BY <1>2, PausedTyped DEF Sent, a

\* remove_completed_prefix: what is left of a FIFO is a FIFO.
LEMMA WithoutCompletedTyped ==
  ASSUME NEW m \in Masters
  PROVE  WithoutCompleted(m) \in Masters
<1> DEFINE kept == {i \in DOMAIN m.fifo : m.state[m.fifo[i]] # Done}
           first == IF kept = {} THEN Len(m.fifo) + 1
                    ELSE CHOOSE i \in kept : \A j \in kept : i <= j
           removed == {m.fifo[i] : i \in 1 .. first - 1}
           Cleared(p) == IF p \in removed
                         THEN [m.actuation[p] EXCEPT !.phase = "none", !.timed = FALSE]
                         ELSE m.actuation[p]
           a == [p \in Products |-> Cleared(p)]
           f == SubSeq(m.fifo, first, Len(m.fifo))
<1>1. m.fifo \in Seq(Products) BY DEF Masters, Fifos
<1>2. first \in 1 .. Len(m.fifo) + 1
  <2>1. CASE kept = {} BY <1>1, <2>1
  <2>2. CASE kept # {}
    <3>1. kept \subseteq 1 .. Len(m.fifo) BY <1>1
    <3>2. first \in kept
      <4>1. kept \subseteq Nat BY <3>1
      <4> HIDE DEF kept
      <4> QED BY <2>2, <4>1, FirstIsLeast
    <3> HIDE DEF first, kept
    <3> QED BY <1>1, <3>1, <3>2
  <2> QED BY <2>1, <2>2
<1> HIDE DEF first, kept
<1>3. f \in Fifos BY <1>1, <1>2 DEF Fifos
<1> HIDE DEF removed
<1>4. ASSUME NEW p \in Products PROVE Cleared(p) \in Actuations
  <2>1. m.actuation[p] \in Actuations BY DEF Masters, ActuationMaps
  <2> QED BY <2>1 DEF Actuations
<1> HIDE DEF Cleared
<1>5. a \in ActuationMaps BY <1>4 DEF ActuationMaps
<1> HIDE DEF a, f
<1>6. [m EXCEPT !.fifo = f, !.actuation = a] \in Masters BY <1>3, <1>5 DEF Masters
<1> QED BY <1>6 DEF WithoutCompleted, a, f, Cleared, removed, first, kept

\* _handle_sensor1_entry
LEMMA EnteredAt1Typed ==
  ASSUME NEW m \in Masters, NEW p \in Products
  PROVE  EnteredAt1(m, p) \in Masters
<1> DEFINE known == [m EXCEPT !.fifo = Append(@, p), !.state[p] = Waiting["A"]]
<1>1. known \in Masters
  <2>1. Append(m.fifo, p) \in Fifos BY DEF Masters, Fifos
  <2>2. Waiting["A"] \in Unseen .. Done BY DEF Waiting, Unseen, Done
  <2> QED BY <2>1, <2>2 DEF Masters, States
<1> HIDE DEF known
<1>2. "A" \in Stations BY DEF Stations
<1>3. [known EXCEPT !.lateStart = @ \union {<<p, "A">>}] \in Masters
  BY <1>1, <1>2 DEF Masters, Pairs
<1>4. Started(known, p, "A") \in Masters BY <1>1, <1>2, StartedTyped
<1> QED BY <1>3, <1>4, FaultedTyped, PausedTyped DEF EnteredAt1, known

\* _handle_sensor2_entry
LEMMA EnteredAt2Typed ==
  ASSUME NEW m \in Masters
  PROVE  EnteredAt2(m) \in Masters
<1> DEFINE p == OldestIn(m, Flipping)
<1>1. CASE p = 0 BY <1>1, FaultedTyped DEF EnteredAt2
<1>2. CASE p # 0
  <2>1. p \in Products /\ "B" \in Stations BY <1>2, OldestInFifo DEF Stations
  <2> HIDE DEF p
  <2>2. [m EXCEPT !.station[p]["B"].process = "SKIPPED", !.state[p] = Sensor3Wait] \in Masters
    <3> DEFINE r == [m.station EXCEPT ![p]["B"].process = "SKIPPED"]
    <3>1. r \in Records
      <4>1. m.station \in [Products -> [Stations -> StationType]] BY DEF Masters, Records
      <4> QED BY <2>1, <4>1 DEF Records, StationType
    <3>2. Sensor3Wait \in Unseen .. Done BY DEF Sensor3Wait, Onward, Unseen, Done
    <3> HIDE DEF r
    <3>3. [m EXCEPT !.station = r, !.state[p] = Sensor3Wait] \in Masters
      BY <2>1, <3>1, <3>2 DEF Masters, States
    <3> QED BY <3>3 DEF r
  <2>3. [m EXCEPT !.state[p] = Waiting["B"]] \in Masters
    <3>1. Waiting["B"] \in Unseen .. Done BY DEF Waiting, Unseen, Done
    <3> QED BY <2>1, <3>1 DEF Masters, States
  <2> QED BY <1>2, <2>1, <2>2, <2>3, StartedTyped DEF EnteredAt2, p
<1> QED BY <1>1, <1>2

\* _handle_sensor3_entry
LEMMA EnteredAt3Typed ==
  ASSUME NEW m \in Masters, NEW available \in BOOLEAN
  PROVE  EnteredAt3(m, available) \in Masters
<1> DEFINE p == OldestIn(m, Sensor3Wait)
           locked == [m EXCEPT !.locked[p] = Verdict(m, p), !.state[p] = AtSensor3,
                               !.actuation[p].phase = "pending"]
<1>1. CASE p = 0 BY <1>1, FaultedTyped DEF EnteredAt3
<1>2. CASE p # 0
  <2>1. p \in Products BY <1>2, OldestInFifo
  <2> HIDE DEF p
  <2>2. locked \in Masters
    <3> DEFINE a == [m.actuation EXCEPT ![p].phase = "pending"]
               v == [m.locked EXCEPT ![p] = Verdict(m, p)]
    <3>1. a \in ActuationMaps
      <4>1. m.actuation \in ActuationMaps BY DEF Masters
      <4> QED BY <2>1, <4>1 DEF ActuationMaps, Actuations
    <3>2. AtSensor3 \in Unseen .. Done BY DEF AtSensor3, Unseen, Done
    <3>3. v \in Verdicts BY <2>1, VerdictTyped DEF Masters, Verdicts
    <3> HIDE DEF a, v
    <3>4. [m EXCEPT !.locked = v, !.state[p] = AtSensor3, !.actuation = a] \in Masters
      BY <2>1, <3>1, <3>2, <3>3 DEF Masters, States
    <3> QED BY <3>4 DEF a, v
  <2> HIDE DEF locked
  <2>3. Published(locked, p) \in Masters BY <2>1, <2>2, PublishedTyped
  <2>4. Sent(Published(locked, p), p, available) \in Masters BY <2>1, <2>3, SentTyped
  <2> QED BY <1>2, <2>4 DEF EnteredAt3, p, locked
<1> QED BY <1>1, <1>2

\* The results of Vision.
LEMMA JudgedTyped ==
  ASSUME NEW m \in Masters, NEW f \in Frames, NEW outcome \in {"PASS", "NG", "FAILED"},
         NEW outOfMemory \in BOOLEAN
  PROVE  Judged(m, f, outcome, outOfMemory) \in Masters
<1> DEFINE p == f.product
           s == f.station
           noted == IF outcome = "FAILED"
                    THEN [m EXCEPT !.station[p][s] = [@ EXCEPT !.failed = TRUE, !.reported = TRUE]]
                    ELSE [m EXCEPT !.station[p][s].decision = outcome]
           told == IF s = "A" /\ outcome \in {"NG", "FAILED"} THEN CanceledB(noted, p) ELSE noted
<1>1. p \in Products /\ s \in Stations BY DEF Frames
<1> HIDE DEF p, s
<1>2. m.station \in Records /\ m.station[p][s] \in StationType BY <1>1 DEF Masters, Records
<1>3. noted \in Masters
  <2>1. CASE outcome = "FAILED"
    <3> DEFINE r == [m.station EXCEPT ![p][s] = [@ EXCEPT !.failed = TRUE, !.reported = TRUE]]
    <3>1. [m.station[p][s] EXCEPT !.failed = TRUE, !.reported = TRUE] \in StationType
      BY <1>2 DEF StationType
    <3>2. r \in Records BY <1>1, <1>2, <3>1, RecordTyped
    <3> HIDE DEF r
    <3>3. [m EXCEPT !.station = r] \in Masters BY <3>2 DEF Masters
    <3> QED BY <2>1, <3>3 DEF r
  <2>2. CASE outcome # "FAILED"
    <3> DEFINE r == [m.station EXCEPT ![p][s].decision = outcome]
    <3>1. [m.station[p][s] EXCEPT !.decision = outcome] \in StationType
      BY <1>2, <2>2 DEF StationType
    <3>2. r \in Records BY <1>1, <1>2, <3>1, RecordTyped
    <3> HIDE DEF r
    <3>3. [m EXCEPT !.station = r] \in Masters BY <3>2 DEF Masters
    <3> QED BY <2>2, <3>3 DEF r
  <2> QED BY <2>1, <2>2
<1> HIDE DEF noted
<1>4. told \in Masters BY <1>1, <1>3, CanceledBTyped
<1> HIDE DEF told
<1> QED BY <1>4, PausedTyped DEF Judged, p, s, noted, told

\* confirm_all_conveyors_stopped
LEMMA StoppedTyped ==
  ASSUME NEW m \in Masters
  PROVE  Stopped(m) \in Masters
<1>1. [m EXCEPT !.system = "PAUSED"] \in Masters BY DEF Masters, Systems
<1> QED BY <1>1, FaultedTyped DEF Stopped

\* One resume of a run, ...
LEMMA ResumeOneTyped ==
  ASSUME NEW m \in Masters, NEW ps \in Products \X Stations
  PROVE  ResumeOne(m, ps) \in Masters
<1>1. ps[2] \in Stations OBVIOUS
<1> QED BY <1>1, ResumedTyped DEF ResumeOne

\* ... one start, ...
LEMMA StartOneTyped ==
  ASSUME NEW m \in Masters, NEW ps \in Products \X Stations
  PROVE  StartOne(m, ps) \in Masters
<1>1. ps[1] \in Products /\ ps[2] \in Stations OBVIOUS
<1>2. [m EXCEPT !.lateStart = @ \ {ps}] \in Masters BY DEF Masters, Pairs
<1> QED BY <1>1, <1>2, StartedTyped DEF StartOne

\* ... and all that _resume_deferred_operations goes on with.
LEMMA DeferredTyped ==
  ASSUME NEW m \in Masters, NEW available \in BOOLEAN
  PROVE  Deferred(m, available) \in Masters
<1> DEFINE Good(S) == (SUBSET S) \X Masters
<1>1. ASSUME NEW n \in Masters PROVE LateResumed(n) \in Masters
  <2> DEFINE G == Good(n.lateResume)
  <2>1. n.lateResume \subseteq Products \X Stations BY DEF Masters, Pairs
  <2>2. \A q \in SUBSET n.lateResume, x \in n.lateResume, k \in Masters :
           /\ ResumeOne(k, x) \in Masters
           /\ x \notin q /\ <<q, k>> \in G => <<q \cup {x}, ResumeOne(k, x)>> \in G
    BY <2>1, ResumeOneTyped
  <2>3. <<{}, n>> \in G OBVIOUS
  <2> HIDE DEF G
  <2> QED BY <2>2, <2>3, LateResumedInduction
<1>2. ASSUME NEW n \in Masters PROVE LateStarted(n) \in Masters
  <2> DEFINE G == Good(n.lateStart)
  <2>1. n.lateStart \subseteq Products \X Stations BY DEF Masters, Pairs
  <2>2. \A q \in SUBSET n.lateStart, x \in n.lateStart, k \in Masters :
           /\ StartOne(k, x) \in Masters
           /\ x \notin q /\ <<q, k>> \in G => <<q \cup {x}, StartOne(k, x)>> \in G
    BY <2>1, StartOneTyped
  <2>3. <<{}, n>> \in G OBVIOUS
  <2> HIDE DEF G
  <2> QED BY <2>2, <2>3, LateStartedInduction
<1>3. ASSUME NEW n \in Masters PROVE LateSent(n, available) \in Masters
  <2> DEFINE G == Good(Pending(n))
  <2>1. \A q \in SUBSET Pending(n), x \in Pending(n), k \in Masters :
           /\ Sent(k, x, available) \in Masters
           /\ x \notin q /\ <<q, k>> \in G => <<q \cup {x}, Sent(k, x, available)>> \in G
    BY SentTyped DEF Pending
  <2>2. <<{}, n>> \in G OBVIOUS
  <2> HIDE DEF G
  <2> QED BY <2>1, <2>2, LateSentInduction
<1> QED BY <1>1, <1>2, <1>3 DEF Deferred

\* The resumes of _handle_equipment_state.
LEMMA ConfirmedTyped ==
  ASSUME NEW m \in Masters, NEW R \in SUBSET Stations
  PROVE  Confirmed(m, R) \in Masters
<1> DEFINE G == (SUBSET R) \X Masters
<1>1. \A q \in SUBSET R, x \in R, k \in Masters :
         /\ Resumed(k, x) \in Masters
         /\ x \notin q /\ <<q, k>> \in G => <<q \cup {x}, Resumed(k, x)>> \in G
  BY ResumedTyped
<1>2. <<{}, m>> \in G OBVIOUS
<1> HIDE DEF G
<1> QED BY <1>1, <1>2, ConfirmedInduction

\* _handle_equipment_state
LEMMA RunningTyped ==
  ASSUME NEW m0 \in Masters, NEW R \in SUBSET Stations, NEW allRun, NEW available \in BOOLEAN
  PROVE  Running(m0, R, allRun, available) \in Masters
<1> DEFINE m == Confirmed(m0, R)
<1>1. m \in Masters BY ConfirmedTyped
<1> HIDE DEF m
<1>2. [m EXCEPT !.system = "RUN", !.pendingRun = FALSE] \in Masters BY <1>1 DEF Masters, Systems
<1> QED BY <1>1, <1>2, DeferredTyped DEF Running, m

-----------------------------------------------------------------------------
(* Type correctness. *)

\* They are the types of TypeOK.
LEMMA TypedIsTypeOK == Typed <=> TypeOK
BY MasterIsRecord DEF Typed, TypeOK, Places, Belts, Goals, Frames, Arms

\* The trouble there has been is trouble there may be.
LEMMA DisturbTyped ==
  ASSUME Typed
  PROVE  /\ \A kind : Disturb(kind) => disturbances' \subseteq Disturbances
         /\ Undisturbed => disturbances' \subseteq Disturbances
         /\ \A available \in BOOLEAN :
               Server(available) => disturbances' \subseteq Disturbances
BY DEF Typed, Disturb, Undisturbed, Server

\* A product that is chosen among those at a place is one of them.
LEMMA OldestThere ==
  ASSUME pos \in [Products -> Places], NEW place, \E p \in Products : pos[p] = place
  PROVE  /\ Oldest(place) \in Products /\ pos[Oldest(place)] = place
         /\ \A q \in Products : pos[q] = place => Oldest(place) <= q
<1> DEFINE there == {p \in Products : pos[p] = place}
<1>1. there \subseteq Nat /\ there # {} BY LineAssumption DEF Products
<1>2. Oldest(place) \in there /\ \A q \in there : Oldest(place) <= q
  <2>1. Oldest(place) = CHOOSE p \in there : \A q \in there : p <= q BY DEF Oldest
  <2> HIDE DEF there
  <2> QED BY <1>1, <2>1, FirstIsLeast
<1> QED BY <1>2

\* The line starts well formed.
LEMMA InitTyped == Init => Typed
<1> SUFFICES ASSUME Init PROVE Typed OBVIOUS
<1>1. PICK settings \in Settings : master = InitialMaster(settings) BY DEF Init
<1>2. NewStation \in StationType BY DEF NewStation, StationType
<1>3. master \in Masters
  <2>1. <<>> \in OrderLists /\ <<>> \in Fifos BY DEF OrderLists, Fifos
  <2>2. [p \in Products |-> Unseen] \in States BY DEF States, Unseen, Done
  <2>3. [p \in Products |-> [s \in Stations |-> NewStation]] \in Records BY <1>2 DEF Records
  <2>4. [p \in Products |-> [s \in Stations |-> 0]] \in Counts BY DEF Counts
  <2>5. [p \in Products |-> FALSE] \in Skips BY DEF Skips
  <2>6. [p \in Products |-> "none"] \in Verdicts BY DEF Verdicts
  <2>7. [next |-> 1, pending |-> {}] \in Buffers BY LineAssumption DEF Buffers, Products
  <2>8. [s \in Stations |-> None] \in CycleMaps BY DEF CycleMaps
  <2>9. {} \in Pairs BY DEF Pairs
  <2>10. [p \in Products |-> [phase |-> "none", timed |-> FALSE, sent |-> 0]] \in ActuationMaps
    BY DEF ActuationMaps, Actuations
  <2>11. "RUN" \in Systems BY DEF Systems
  <2> QED BY <1>1, <2>1, <2>2, <2>3, <2>4, <2>5, <2>6, <2>7, <2>8, <2>9, <2>10, <2>11
      DEF InitialMaster, Masters
<1>4. /\ pos \in [Products -> Places] /\ belt \in Belts /\ goals \subseteq Goals
      /\ frames \subseteq Frames /\ arm \in Arms /\ disturbances \subseteq Disturbances
  BY DEF Init, Places, Belts, Arms
<1> QED BY <1>3, <1>4 DEF Typed

\* A product comes to a sensor.
LEMMA SensorsTyped ==
  ASSUME Typed, NEW available \in BOOLEAN, Sensor1 \/ Sensor2 \/ Sensor3(available)
  PROVE  Typed'
<1>1. /\ master \in Masters /\ pos \in [Products -> Places] /\ belt \in Belts
      /\ goals \subseteq Goals /\ frames \subseteq Frames /\ arm \in Arms
  BY DEF Typed
<1>2. \A handled \in Masters : Heard(handled) => master' \in Masters BY <1>1 DEF Heard
<1>3. \A p \in Products, place \in Places : [pos EXCEPT ![p] = place] \in [Products -> Places]
  BY <1>1
<1>4. {"A", "B", "past"} \subseteq Places BY DEF Places
<1>5. /\ [belt EXCEPT !["A"] = "positioning"] \in Belts
      /\ [belt EXCEPT !["B"] = "positioning"] \in Belts
  BY <1>1 DEF Belts
<1>6. CASE Sensor1
  <2>1. Oldest("before") \in Products BY <1>1, <1>6, OldestThere DEF Sensor1
  <2>2. EnteredAt1(master, Oldest("before")) \in Masters BY <1>1, <2>1, EnteredAt1Typed
  <2>3. disturbances' \subseteq Disturbances BY <1>6, DisturbTyped DEF Sensor1
  <2> QED BY <1>1, <1>2, <1>3, <1>4, <1>5, <1>6, <2>1, <2>2, <2>3 DEF Sensor1, Typed
<1>7. CASE Sensor2
  <2>1. Oldest("toB") \in Products BY <1>1, <1>7, OldestThere DEF Sensor2
  <2>2. EnteredAt2(master) \in Masters BY <1>1, EnteredAt2Typed
  <2>3. disturbances' \subseteq Disturbances BY <1>7, DisturbTyped DEF Sensor2
  <2> QED BY <1>1, <1>2, <1>3, <1>4, <1>5, <1>7, <2>1, <2>2, <2>3 DEF Sensor2, Typed
<1>8. CASE Sensor3(available)
  <2>1. Oldest("toC") \in Products BY <1>1, <1>8, OldestThere DEF Sensor3
  <2>2. EnteredAt3(master, available) \in Masters BY <1>1, EnteredAt3Typed
  <2>3. disturbances' \subseteq Disturbances BY <1>8, DisturbTyped DEF Sensor3
  <2> QED BY <1>1, <1>2, <1>3, <1>4, <1>8, <2>1, <2>2, <2>3 DEF Sensor3, Typed
<1> QED BY <1>6, <1>7, <1>8

\* A product leaves a camera.
LEMMA LeaveTyped ==
  ASSUME Typed, NEW s \in Stations, Leave(s)
  PROVE  Typed'
<1>1. pos' \in [Products -> Places] BY DEF Leave, Typed, Places
<1> QED BY <1>1 DEF Leave, Typed, Undisturbed

\* A product stands before a camera.
LEMMA SettledTyped ==
  ASSUME Typed, NEW s \in Stations, NEW available \in BOOLEAN, Settled(s, available)
  PROVE  Typed'
<1> DEFINE c == master.cycle[s]
           p == c.product
           asked == [master EXCEPT !.station[p][s].process = "CAPTURE_REQUESTED",
                                   !.cycle[s] = [@ EXCEPT !.phase = "CAPTURE_GOAL",
                                                          !.timed = TRUE]]
           goal == [product |-> p, station |-> s, capture |-> c.capture,
                    stage |-> "sent", awaited |-> TRUE]
<1>1. master \in Masters /\ goals \subseteq Goals /\ belt \in Belts BY DEF Typed
<1>2. belt' \in Belts BY <1>1 DEF Settled, Belts
<1>3. disturbances' \subseteq Disturbances BY DisturbTyped DEF Settled
<1>4. ASSUME c # None PROVE asked \in Masters /\ goal \in Goals
  <2>1. c \in Cycles /\ p \in Products BY <1>1, <1>4, CycleTyped
  <2>2. goal \in Goals BY <2>1 DEF Goals, Cycles
  <2> HIDE DEF p
  <2> DEFINE r == [master.station EXCEPT ![p][s].process = "CAPTURE_REQUESTED"]
             k == [master.cycle EXCEPT ![s] = [@ EXCEPT !.phase = "CAPTURE_GOAL",
                                                        !.timed = TRUE]]
  <2>3. r \in Records
    <3>1. master.station \in Records /\ master.station[p][s] \in StationType
      BY <1>1, <2>1 DEF Masters, Records
    <3>2. [master.station[p][s] EXCEPT !.process = "CAPTURE_REQUESTED"] \in StationType
      BY <3>1 DEF StationType
    <3> QED BY <2>1, <3>1, <3>2, RecordTyped
  <2>4. k \in CycleMaps BY <1>1, <2>1 DEF Masters, CycleMaps, Cycles, Phases
  <2> HIDE DEF r, k
  <2>5. [master EXCEPT !.station = r, !.cycle = k] \in Masters BY <1>1, <2>3, <2>4 DEF Masters
  <2> QED BY <2>2, <2>5 DEF r, k
<1>5. Recovering(master, s) \in Masters BY <1>1, RecoveringTyped
<1>6. master' \in Masters /\ goals' \subseteq Goals BY <1>1, <1>4, <1>5 DEF Settled
<1> QED BY <1>2, <1>3, <1>6 DEF Settled, Typed

\* A command reaches the Mega.
LEMMA ControlTyped ==
  ASSUME Typed, NEW available \in BOOLEAN, Control(available)
  PROVE  Typed'
<1> DEFINE order == Head(master.orders)
           m     == [master EXCEPT !.orders = Tail(@)]
           runs  == IF order = "RESUME" THEN Stations ELSE {order}
           new   == {s \in runs : belt[s] # "running"}
<1>1. master \in Masters /\ belt \in Belts BY DEF Typed
<1>2. master.orders # <<>> BY DEF Control
<1>3. order \in {"PAUSE", "RESUME"} \union Stations /\ Tail(master.orders) \in OrderLists
  BY <1>1, <1>2 DEF Masters, OrderLists
<1>4. m \in Masters BY <1>1, <1>3 DEF Masters
<1> HIDE DEF m
<1>5. CASE order = "PAUSE"
  <2>1. belt' \in Belts BY <1>5 DEF Control, Belts
  <2>2. master' \in Masters BY <1>4, <1>5, StoppedTyped DEF Control, m
  <2> QED BY <2>1, <2>2, DisturbTyped DEF Control, Typed
<1>6. CASE order # "PAUSE"
  <2>1. new \in SUBSET Stations BY <1>3, <1>6
  <2>2. belt' \in Belts BY <1>1, <1>6 DEF Control, Belts
  <2>3. master' = Running(m, new, \A s \in Stations : belt'[s] = "running", available)
    BY <1>6 DEF Control, m
  <2> HIDE DEF new
  <2>4. master' \in Masters BY <1>4, <2>1, <2>3, RunningTyped
  <2> QED BY <2>2, <2>4, DisturbTyped DEF Control, Typed
<1> QED BY <1>5, <1>6

\* A current goal is the goal of a cycle.
LEMMA CurrentTyped ==
  ASSUME Typed, NEW g \in goals
  PROVE  /\ g \in Goals /\ g.product \in Products /\ g.station \in Stations
         /\ Current(g) => /\ master.cycle[g.station] # None
                          /\ master.cycle[g.station] \in Cycles
<1>1. g \in Goals /\ g.product \in Products /\ g.station \in Stations BY DEF Typed, Goals
<1> QED BY <1>1, CycleTyped DEF Typed, Current

\* Vision accepts a goal, refuses it, or its answer is lost.
LEMMA GoalAnswerTyped ==
  ASSUME Typed, NEW g \in goals, GoalAccepted(g) \/ GoalRefused(g) \/ CaptureResultLost(g)
  PROVE  Typed'
<1>1. master \in Masters /\ goals \subseteq Goals BY DEF Typed
<1>2. g \in Goals /\ g.station \in Stations BY CurrentTyped
<1>3. /\ \A awaited \in BOOLEAN :
            [g EXCEPT !.stage = "accepted", !.awaited = awaited] \in Goals
      /\ [g EXCEPT !.awaited = FALSE] \in Goals
  BY <1>2 DEF Goals
<1>4. CASE GoalAccepted(g)
  <2>1. goals' \subseteq Goals
    <3>1. (Current(g) /\ ~(g.station = "B" /\ master.skip[g.product])) \in BOOLEAN OBVIOUS
    <3> QED BY <1>1, <1>3, <1>4, <3>1 DEF GoalAccepted
  <2>2. ASSUME Current(g)
        PROVE  [master EXCEPT !.cycle[g.station].phase = "WAITING_CAPTURE_RESULT"] \in Masters
    <3> DEFINE k == [master.cycle EXCEPT ![g.station].phase = "WAITING_CAPTURE_RESULT"]
    <3>1. master.cycle[g.station] \in Cycles BY <2>2, CurrentTyped
    <3>2. k \in CycleMaps BY <1>1, <1>2, <3>1 DEF Masters, CycleMaps, Cycles, Phases
    <3> HIDE DEF k
    <3>3. [master EXCEPT !.cycle = k] \in Masters BY <1>1, <3>2 DEF Masters
    <3> QED BY <3>3 DEF k
  <2> QED BY <1>1, <1>4, <2>1, <2>2, DisturbTyped DEF GoalAccepted, Typed
<1>5. CASE GoalRefused(g)
  <2>1. goals' \subseteq Goals BY <1>1, <1>3, <1>5 DEF GoalRefused
  <2>2. master' \in Masters BY <1>1, <1>2, <1>5, RecoveringTyped DEF GoalRefused
  <2> QED BY <1>5, <2>1, <2>2, DisturbTyped DEF GoalRefused, Typed
<1>6. CASE CaptureResultLost(g)
  <2>1. goals' \subseteq Goals BY <1>1, <1>3, <1>6 DEF CaptureResultLost
  <2>2. master' \in Masters BY <1>1, <1>2, <1>6, RecoveringTyped DEF CaptureResultLost
  <2> QED BY <1>6, <2>1, <2>2, DisturbTyped DEF CaptureResultLost, Typed
<1> QED BY <1>4, <1>5, <1>6

\* Vision photographs a product, or gives up.
LEMMA CaptureTyped ==
  ASSUME Typed, NEW g \in goals, Capture(g)
  PROVE  Typed'
<1>1. goals \subseteq Goals /\ frames \subseteq Frames BY DEF Typed
<1>2. g \in Goals BY <1>1
<1>3. PICK stage \in {"saved", "failed", "diskFull"} :
        /\ goals' = (goals \ {g}) \union IF g.awaited THEN {[g EXCEPT !.stage = stage]} ELSE {}
        /\ frames' = IF stage # "saved" THEN frames
                     ELSE frames \union
                       {[product |-> g.product, station |-> g.station, capture |-> g.capture,
                         outcome |-> "none", still |-> AtRest(g.product, g.station)]}
        /\ CASE stage = "saved"    -> Undisturbed
             [] stage = "failed"   -> Disturb("failure")
             [] stage = "diskFull" -> Disturb("vision")
  BY DEF Capture
<1>4. [g EXCEPT !.stage = stage] \in Goals BY <1>2 DEF Goals
<1>5. goals' \subseteq Goals BY <1>1, <1>3, <1>4
<1>6. [product |-> g.product, station |-> g.station, capture |-> g.capture,
       outcome |-> "none", still |-> AtRest(g.product, g.station)] \in Frames
  <2>1. AtRest(g.product, g.station) \in BOOLEAN BY DEF AtRest
  <2> QED BY <1>2, <2>1 DEF Frames, Goals
<1>7. frames' \subseteq Frames BY <1>1, <1>3, <1>6
<1>8. disturbances' \subseteq Disturbances BY <1>3, DisturbTyped
<1> QED BY <1>5, <1>7, <1>8 DEF Capture, Typed

\* The result of a capture arrives.
LEMMA CaptureResultTyped ==
  ASSUME Typed, NEW g \in goals, CaptureResult(g)
  PROVE  Typed'
<1> DEFINE s == g.station
           p == g.product
           m == Promoted(master, p, s)
<1>1. master \in Masters /\ goals' \subseteq Goals BY DEF Typed, CaptureResult
<1>2. p \in Products /\ s \in Stations BY CurrentTyped
<1>3. ASSUME Current(g) PROVE master.cycle[s] # None BY <1>3, CurrentTyped
<1> HIDE DEF p, s
<1>4. m \in Masters /\ m.cycle = master.cycle BY <1>1, <1>2, PromotedTyped
<1> HIDE DEF m
<1>5. ASSUME Current(g)
      PROVE  /\ Resuming(master, s) \in Masters /\ Resuming(m, s) \in Masters
             /\ CaptureFailed(master, s, g.stage = "diskFull") \in Masters
  <2>1. (g.stage = "diskFull") \in BOOLEAN OBVIOUS
  <2> QED BY <1>1, <1>2, <1>3, <1>4, <1>5, <2>1, ResumingTyped, CaptureFailedTyped
<1>6. master' \in Masters BY <1>1, <1>5 DEF CaptureResult, m, p, s
<1> QED BY <1>1, <1>6, DisturbTyped DEF CaptureResult, Typed

\* The result of an inspection arrives.
LEMMA StationTerminalTyped ==
  ASSUME Typed, NEW f \in frames, NEW outcome \in {"PASS", "NG", "FAILED"},
         NEW outOfMemory \in BOOLEAN, StationTerminal(f, outcome, outOfMemory)
  PROVE  Typed'
<1>1. master \in Masters /\ frames \subseteq Frames /\ f \in Frames BY DEF Typed
<1>2. [f EXCEPT !.outcome = outcome] \in Frames BY <1>1 DEF Frames
<1>3. frames' \subseteq Frames BY <1>1, <1>2 DEF StationTerminal
<1>4. master' \in Masters BY <1>1, JudgedTyped DEF StationTerminal
<1>5. disturbances' \subseteq Disturbances BY DisturbTyped DEF StationTerminal
<1> QED BY <1>3, <1>4, <1>5 DEF StationTerminal, Typed

\* An actuation that is marked as late or done keeps its type.
LEMMA ActuationMarked ==
  ASSUME NEW a \in ActuationMaps, NEW p \in Products
  PROVE  Untimed(a, p) \in ActuationMaps /\ Ended(a, p) \in ActuationMaps
<1>1. a[p] \in Actuations BY DEF ActuationMaps
<1>2. /\ [a[p] EXCEPT !.timed = FALSE] \in Actuations
      /\ [a[p] EXCEPT !.phase = "completed", !.timed = FALSE] \in Actuations
  BY <1>1 DEF Actuations
<1>3. \A x \in Actuations : [a EXCEPT ![p] = x] \in ActuationMaps BY DEF ActuationMaps
<1> QED BY <1>2, <1>3 DEF Untimed, Ended

\* Control answers an actuation, or does not.
LEMMA ActuationTyped ==
  ASSUME Typed, NEW p \in Products,
         \/ ActuationAccepted(p) \/ ActuationRefused(p) \/ ActuationTimeout(p)
         \/ \E success \in BOOLEAN : ActuationResult(p, success)
  PROVE  Typed'
<1>1. master \in Masters /\ arm \in Arms BY DEF Typed
<1>2. master.actuation \in ActuationMaps /\ master.state \in States BY <1>1 DEF Masters
<1>3. arm[p].answered \in Nat /\ arm[p].working \in Nat BY <1>1 DEF Arms
<1>4. \A phase \in {"waiting", "pending"} : [master.actuation EXCEPT ![p].phase = phase] \in ActuationMaps
  BY <1>2 DEF ActuationMaps, Actuations
<1>5. Untimed(master.actuation, p) \in ActuationMaps BY <1>2, ActuationMarked
<1>6. CASE ActuationAccepted(p)
  <2>1. arm' \in Arms BY <1>1, <1>3, <1>6 DEF ActuationAccepted, Arms
  <2>2. [master EXCEPT !.state[p] = Actuating, !.actuation[p].phase = "waiting"] \in Masters
    <3> DEFINE a == [master.actuation EXCEPT ![p].phase = "waiting"]
    <3>1. a \in ActuationMaps BY <1>4
    <3>2. Actuating \in Unseen .. Done BY DEF Actuating, Unseen, Done
    <3> HIDE DEF a
    <3>3. [master EXCEPT !.state[p] = Actuating, !.actuation = a] \in Masters
      BY <1>1, <3>1, <3>2 DEF Masters, States
    <3> QED BY <3>3 DEF a
  <2>3. master' \in Masters BY <1>1, <1>6, <2>2 DEF ActuationAccepted
  <2> QED BY <1>6, <2>1, <2>3, DisturbTyped DEF ActuationAccepted, Typed
<1>7. CASE ActuationRefused(p)
  <2>1. arm' \in Arms BY <1>1, <1>3, <1>7 DEF ActuationRefused, Arms
  <2>2. master' \in Masters BY <1>1, <1>7, PausedTyped DEF ActuationRefused
  <2> QED BY <1>7, <2>1, <2>2, DisturbTyped DEF ActuationRefused, Typed
<1>8. CASE ActuationTimeout(p)
  <2>1. [master EXCEPT !.actuation[p].timed = FALSE] \in Masters
    <3> DEFINE a == Untimed(master.actuation, p)
    <3>1. a \in ActuationMaps BY <1>5
    <3> HIDE DEF a
    <3>2. [master EXCEPT !.actuation = a] \in Masters BY <1>1, <3>1 DEF Masters
    <3> QED BY <3>2 DEF a, Untimed
  <2>2. master' \in Masters BY <1>1, <1>8, <2>1, PausedTyped, FaultedTyped DEF ActuationTimeout
  <2> QED BY <1>8, <2>2, DisturbTyped DEF ActuationTimeout, Typed
<1>9. ASSUME NEW success \in BOOLEAN, ActuationResult(p, success) PROVE Typed'
  <2> DEFINE completed == [master EXCEPT !.state[p] = Done,
                                         !.actuation[p] = [@ EXCEPT !.phase = "completed",
                                                                    !.timed = FALSE]]
  <2>1. arm' \in Arms BY <1>1, <1>3, <1>9 DEF ActuationResult, Arms
  <2>2. completed \in Masters
    <3> DEFINE a == Ended(master.actuation, p)
    <3>1. a \in ActuationMaps BY <1>2, ActuationMarked
    <3>2. Done \in Unseen .. Done BY DEF Unseen, Done
    <3> HIDE DEF a
    <3>3. [master EXCEPT !.state[p] = Done, !.actuation = a] \in Masters
      BY <1>1, <3>1, <3>2 DEF Masters, States
    <3> QED BY <3>3 DEF a, Ended
  <2> HIDE DEF completed
  <2>3. master' \in Masters
    BY <1>1, <1>9, <2>2, WithoutCompletedTyped, FaultedTyped DEF ActuationResult, completed
  <2>4. disturbances' \subseteq Disturbances BY <1>9, DisturbTyped DEF ActuationResult
  <2> QED BY <1>9, <2>1, <2>3, <2>4 DEF ActuationResult, Typed
<1> QED BY <1>6, <1>7, <1>8, <1>9

\* A deadline of a station passes.
LEMMA StationTimeoutTyped ==
  ASSUME Typed, NEW s \in Stations, CaptureTimeout(s) \/ PositionTimeout(s) \/ ResumeTimeout(s)
  PROVE  Typed'
<1> DEFINE c == master.cycle[s]
           late == [master EXCEPT !.cycle[s].timed = FALSE]
<1>1. master \in Masters BY DEF Typed
<1>2. c # None /\ c \in Cycles
  <2>1. c # None BY DEF CaptureTimeout, PositionTimeout, ResumeTimeout
  <2> QED BY <1>1, <2>1, CycleTyped
<1>3. late \in Masters /\ late.lateResume = master.lateResume
  <2> DEFINE k == [master.cycle EXCEPT ![s].timed = FALSE]
  <2>1. k \in CycleMaps BY <1>1, <1>2 DEF Masters, CycleMaps, Cycles
  <2> HIDE DEF k
  <2>2. /\ [master EXCEPT !.cycle = k] \in Masters
        /\ [master EXCEPT !.cycle = k].lateResume = master.lateResume
    BY <1>1, <2>1 DEF Masters
  <2> QED BY <2>2 DEF k
<1>4. [master EXCEPT !.cycle[s].timed = FALSE,
                     !.lateResume = @ \union {<<c.product, s>>}] \in Masters
  <2> DEFINE k == [master.cycle EXCEPT ![s].timed = FALSE]
  <2>1. k \in CycleMaps BY <1>1, <1>2 DEF Masters, CycleMaps, Cycles
  <2>2. master.lateResume \union {<<c.product, s>>} \in Pairs BY <1>1, <1>2 DEF Masters, Pairs, Cycles
  <2> HIDE DEF k
  <2>3. [master EXCEPT !.cycle = k, !.lateResume = @ \union {<<c.product, s>>}] \in Masters
    BY <1>1, <2>1, <2>2 DEF Masters
  <2> QED BY <2>3 DEF k
<1>5. CASE CaptureTimeout(s)
  <2>1. master' \in Masters BY <1>1, <1>2, <1>5, CaptureFailedTyped DEF CaptureTimeout
  <2> QED BY <1>5, <2>1, DisturbTyped DEF CaptureTimeout, Typed
<1>6. CASE PositionTimeout(s)
  <2>1. master' \in Masters
    BY <1>1, <1>3, <1>6, RecoveringTyped, FaultedTyped DEF PositionTimeout
  <2> QED BY <1>6, <2>1, DisturbTyped DEF PositionTimeout, Typed
<1>7. CASE ResumeTimeout(s)
  <2>1. master' \in Masters BY <1>4, <1>7, PausedTyped DEF ResumeTimeout
  <2> QED BY <1>7, <2>1, DisturbTyped DEF ResumeTimeout, Typed
<1> QED BY <1>5, <1>6, <1>7

\* The operator pauses the line or asks for a run.
LEMMA OperatorTyped ==
  ASSUME Typed, OperatorPause \/ OperatorResume
  PROVE  Typed'
<1>1. master \in Masters BY DEF Typed
<1>2. Append(master.orders, "RESUME") \in OrderLists BY <1>1 DEF Masters, OrderLists
<1>3. [master EXCEPT !.pendingRun = TRUE, !.orders = Append(@, "RESUME")] \in Masters
  BY <1>1, <1>2 DEF Masters
<1>4. master' \in Masters BY <1>1, <1>3, PausedTyped DEF OperatorPause, OperatorResume
<1> QED BY <1>4, DisturbTyped DEF OperatorPause, OperatorResume, Typed

\* Every step is one of the belts, of Vision or another one.
LEMMA StepKinds ==
  ASSUME [Next]_vars
  PROVE  \/ UNCHANGED vars
         \/ \E s \in Stations, available \in BOOLEAN : LineStep(s, available)
         \/ VisionStep
         \/ \E p \in Products, s \in Stations : OtherStep(p, s)
<1>1. "A" \in Stations /\ 1 \in Products BY LineAssumption DEF Stations, Products
<1>2. CASE Progress BY <1>1, <1>2 DEF Progress, LineStep, VisionStep, OtherStep
<1>3. CASE Trouble BY <1>1, <1>3 DEF Trouble, LineStep, VisionStep, OtherStep
<1>4. CASE OperatorPause \/ OperatorResume BY <1>1, <1>4 DEF OtherStep
<1> QED BY <1>2, <1>3, <1>4 DEF Next, VisionStep

\* Every step of the line keeps the types.
LEMMA NextTyped ==
  ASSUME Typed, [Next]_vars
  PROVE  Typed'
<1>1. CASE UNCHANGED vars BY <1>1 DEF vars, Typed
<1>2. CASE Next
  <2>1. CASE Progress
    BY <2>1, SensorsTyped, ControlTyped, LeaveTyped, SettledTyped, GoalAnswerTyped,
       CaptureTyped, CaptureResultTyped, ActuationTyped DEF Progress
  <2>2. CASE Trouble
    BY <2>2, SensorsTyped, ControlTyped, SettledTyped, StationTimeoutTyped, GoalAnswerTyped,
       ActuationTyped DEF Trouble
  <2>3. CASE \E f \in frames, outcome \in {"PASS", "NG", "FAILED"}, outOfMemory \in BOOLEAN :
               StationTerminal(f, outcome, outOfMemory)
    BY <2>3, StationTerminalTyped
  <2> QED BY <1>2, <2>1, <2>2, <2>3, OperatorTyped DEF Next
<1> QED BY <1>1, <1>2

\* Every callback of the Master leaves its record well formed: TypeOK is an invariant, for
\* any number of products, any limits of the FIFO and whatever goes wrong.
THEOREM LineTyped == Spec => []TypeOK
<1>1. Init => Typed BY InitTyped
<1>2. Typed /\ [Next]_vars => Typed' BY NextTyped
<1>3. Typed => TypeOK BY TypedIsTypeOK
<1> QED BY <1>1, <1>2, <1>3, PTL DEF Spec

-----------------------------------------------------------------------------
(* What each operator changes, field by field. *)

\* A record is put where it belongs, and the others stay.
LEMMA PutEffect ==
  ASSUME NEW r \in Records, NEW p \in Products, NEW s \in Stations, NEW t \in StationType
  PROVE  /\ Put(r, p, s, t) \in Records /\ Put(r, p, s, t)[p][s] = t
         /\ \A u \in Stations \ {s} : Put(r, p, s, t)[p][u] = r[p][u]
         /\ \A q \in Products \ {p} : Put(r, p, s, t)[q] = r[q]
BY DEF Records, Put

\* They keep the capture and what is known of it.
LEMMA RecordEffect ==
  ASSUME NEW t \in StationType, NEW id \in Nat
  PROVE  /\ \A n \in {Skipping(t), Positioning(t, id), Requested(t), Completed(t), Failing(t)} :
               /\ n \in StationType /\ n.process # "PENDING"
               /\ n.decision = t.decision /\ n.reported = t.reported
         /\ \A n \in {Skipping(t), Requested(t), Completed(t), Failing(t)} :
               n.capture = t.capture
         /\ \A n \in {Skipping(t), Positioning(t, id), Requested(t), Completed(t)} :
               n.failed = t.failed
         /\ Positioning(t, id).capture = id /\ Failing(t).failed
<1>1. /\ Skipping(t) \in StationType /\ Skipping(t).process = "SKIPPED"
      /\ Skipping(t).decision = t.decision /\ Skipping(t).reported = t.reported
      /\ Skipping(t).capture = t.capture /\ Skipping(t).failed = t.failed
  BY DEF Skipping, StationType
<1>2. /\ Positioning(t, id) \in StationType /\ Positioning(t, id).process = "POSITIONING"
      /\ Positioning(t, id).decision = t.decision /\ Positioning(t, id).reported = t.reported
      /\ Positioning(t, id).capture = id /\ Positioning(t, id).failed = t.failed
  BY DEF Positioning, StationType
<1>3. /\ Requested(t) \in StationType /\ Requested(t).process = "CAPTURE_REQUESTED"
      /\ Requested(t).decision = t.decision /\ Requested(t).reported = t.reported
      /\ Requested(t).capture = t.capture /\ Requested(t).failed = t.failed
  BY DEF Requested, StationType
<1>4. /\ Completed(t) \in StationType /\ Completed(t).process = "CAPTURE_COMPLETED"
      /\ Completed(t).decision = t.decision /\ Completed(t).reported = t.reported
      /\ Completed(t).capture = t.capture /\ Completed(t).failed = t.failed
  BY DEF Completed, StationType
<1>5. /\ Failing(t) \in StationType /\ Failing(t).process = "FAILED"
      /\ Failing(t).decision = t.decision /\ Failing(t).reported = t.reported
      /\ Failing(t).capture = t.capture /\ Failing(t).failed
  BY DEF Failing, StationType
<1> QED BY <1>1, <1>2, <1>3, <1>4, <1>5

\* A fault is about the system only, ...
LEMMA FaultedEffect ==
  ASSUME NEW m \in Masters
  PROVE  SameBut(m, Faulted(m), {"system", "pendingRun"}) /\ Faulted(m).system = "FAULT"
BY DEF Faulted, Masters, SameBut, Fields

\* ... and so is a pause, which orders the stop.
LEMMA PausedEffect ==
  ASSUME NEW m \in Masters
  PROVE  LET n == Paused(m)
         IN  IF m.system = "RUN"
             THEN /\ SameBut(m, n, {"system", "pendingRun", "orders"})
                  /\ n.system = "PAUSING" /\ n.pendingRun = FALSE
                  /\ n.orders = Append(m.orders, "PAUSE")
             ELSE n = m
BY DEF Paused, Masters, SameBut, Fields

\* bypass_station_b changes a product that waits at B, and nothing else.
LEMMA BypassedEffect ==
  ASSUME NEW m \in Masters, NEW p \in Products
  PROVE  LET n == Bypassed(m, p)
         IN  IF m.state[p] = Waiting["B"] /\ m.station[p]["B"].process = "PENDING"
             THEN /\ SameBut(m, n, {"skip", "station", "state"})
                  /\ n.skip = [m.skip EXCEPT ![p] = TRUE]
                  /\ n.station = Put(m.station, p, "B", Skipping(m.station[p]["B"]))
                  /\ n.state = [m.state EXCEPT ![p] = Sensor3Wait]
             ELSE n = m
BY DEF Bypassed, Put, Skipping, Masters, SameBut, Fields

\* A capture is counted once.
LEMMA CountedEffect ==
  ASSUME NEW m \in Masters, NEW p \in Products, NEW s \in Stations
  PROVE  /\ NextCapture(m, p, s) \in Nat \ {0} /\ NextCapture(m, p, s) > m.captures[p][s]
         /\ Counted(m, p, s)[p][s] = NextCapture(m, p, s)
         /\ \A u \in Stations \ {s} : Counted(m, p, s)[p][u] = m.captures[p][u]
         /\ \A q \in Products \ {p} : Counted(m, p, s)[q] = m.captures[q]
<1>1. m.captures \in [Products -> [Stations -> Nat]] /\ m.captures[p][s] \in Nat
  BY DEF Masters, Counts
<1>2. NextCapture(m, p, s) \in Nat \ {0} /\ NextCapture(m, p, s) > m.captures[p][s]
  BY <1>1 DEF NextCapture
<1> QED BY <1>1, <1>2 DEF Counted

\* A cycle begins with a capture that was never counted before.
LEMMA BegunEffect ==
  ASSUME NEW m \in Masters, NEW p \in Products, NEW s \in Stations
  PROVE  LET n == Begun(m, p, s)
         IN  /\ SameBut(m, n, {"captures", "station", "cycle", "lateStart"})
             /\ n.captures = Counted(m, p, s)
             /\ n.station = Put(m.station, p, s,
                                Positioning(m.station[p][s], NextCapture(m, p, s)))
             /\ n.cycle = [m.cycle EXCEPT ![s] = NewCycle(m, p, s)]
             /\ n.lateStart = m.lateStart \ {<<p, s>>}
BY DEF Begun, Put, Positioning, Counted, NextCapture, NewCycle, Masters, SameBut, Fields

\* The belt is let go now, or after the run.
LEMMA ResumingEffect ==
  ASSUME NEW m \in Masters, NEW s \in Stations, m.cycle[s] # None
  PROVE  LET n == Resuming(m, s)
         IN  /\ SameBut(m, n, {"cycle", "orders", "lateResume"})
             /\ n.cycle = [m.cycle EXCEPT ![s] =
                   [m.cycle[s] EXCEPT !.phase = "RESUME_PENDING", !.timed = TRUE]]
             /\ n.cycle[s].product = m.cycle[s].product
             /\ n.cycle[s].capture = m.cycle[s].capture
             /\ n.cycle[s].phase = "RESUME_PENDING" /\ n.cycle[s].timed
             /\ n.orders = IF m.system = "RUN" THEN Append(m.orders, s) ELSE m.orders
             /\ n.lateResume = IF m.system = "RUN" THEN m.lateResume
                               ELSE m.lateResume \union {<<m.cycle[s].product, s>>}
<1>1. m.cycle[s] \in Cycles BY CycleTyped
<1> DEFINE c == [m.cycle EXCEPT ![s] =
                    [m.cycle[s] EXCEPT !.phase = "RESUME_PENDING", !.timed = TRUE]]
<1>2. /\ c[s].product = m.cycle[s].product /\ c[s].capture = m.cycle[s].capture
      /\ c[s].phase = "RESUME_PENDING" /\ c[s].timed
  BY <1>1 DEF Masters, CycleMaps, Cycles
<1>3. Resuming(m, s) = IF m.system = "RUN"
                       THEN [m EXCEPT !.cycle = c, !.orders = Append(@, s)]
                       ELSE [m EXCEPT !.cycle = c,
                                      !.lateResume = @ \union {<<m.cycle[s].product, s>>}]
  BY DEF Resuming, Masters
<1> HIDE DEF c
<1>4. LET n == Resuming(m, s)
      IN  /\ SameBut(m, n, {"cycle", "orders", "lateResume"}) /\ n.cycle = c
          /\ n.orders = IF m.system = "RUN" THEN Append(m.orders, s) ELSE m.orders
          /\ n.lateResume = IF m.system = "RUN" THEN m.lateResume
                            ELSE m.lateResume \union {<<m.cycle[s].product, s>>}
  BY <1>3 DEF Masters, SameBut, Fields
<1> QED BY <1>2, <1>4 DEF c

\* A confirmed resume ends the cycle and lets its product go on.
LEMMA ResumedEffect ==
  ASSUME NEW m \in Masters, NEW s \in Stations
  PROVE  LET n == Resumed(m, s)
             p == m.cycle[s].product
         IN  \/ n = m
             \/ n = Faulted(m)
             \/ /\ m.system # "FAULT" /\ m.cycle[s] # None
                /\ m.cycle[s].phase = "RESUME_PENDING" /\ m.state[p] = Captured[s]
                /\ SameBut(m, n, {"state", "cycle", "lateResume"})
                /\ n.state = [m.state EXCEPT ![p] = Onward[s]]
                /\ n.cycle = [m.cycle EXCEPT ![s] = None]
                /\ n.lateResume = m.lateResume \ {<<p, s>>}
BY DEF Resumed, Masters, SameBut, Fields

\* A capture that has succeeded.
LEMMA PromotedEffect ==
  ASSUME NEW m \in Masters, NEW p \in Products, NEW s \in Stations
  PROVE  LET n == Promoted(m, p, s)
         IN  /\ SameBut(m, n, {"station", "state"})
             /\ n.station = Put(m.station, p, s, Completed(m.station[p][s]))
             /\ n.state = [m.state EXCEPT ![p] = Captured[s]]
BY DEF Promoted, Put, Completed, Masters, SameBut, Fields

\* A goal more for one product, or the line pauses.
LEMMA SentEffect ==
  ASSUME NEW m \in Masters, NEW p \in Products, NEW available \in BOOLEAN
  PROVE  LET n == Sent(m, p, available)
         IN  \/ n = Paused(m)
             \/ /\ SameBut(m, n, {"actuation"})
                /\ \A q \in Products : n.actuation[q].phase = m.actuation[q].phase
                /\ n.actuation[p].timed
                /\ n.actuation[p].sent = m.actuation[p].sent + 1
                /\ \A q \in Products \ {p} : n.actuation[q] = m.actuation[q]
<1>1. CASE ~ available BY <1>1 DEF Sent
<1>2. CASE available
  <2> DEFINE t == [m.actuation[p] EXCEPT !.timed = TRUE, !.sent = m.actuation[p].sent + 1]
  <2>1. m.actuation \in ActuationMaps /\ m.actuation[p] \in Actuations
    BY DEF Masters, ActuationMaps
  <2>2. t.phase = m.actuation[p].phase /\ t.timed /\ t.sent = m.actuation[p].sent + 1
    BY <2>1 DEF Actuations
  <2>3. Sent(m, p, available) = [m EXCEPT !.actuation = [m.actuation EXCEPT ![p] = t]]
    BY <1>2 DEF Sent
  <2> HIDE DEF t
  <2>4. /\ SameBut(m, Sent(m, p, available), {"actuation"})
        /\ Sent(m, p, available).actuation = [m.actuation EXCEPT ![p] = t]
    BY <2>3 DEF Masters, SameBut, Fields
  <2> QED BY <2>1, <2>2, <2>4 DEF ActuationMaps
<1> QED BY <1>1, <1>2

\* The reorder buffer is nobody else's.
LEMMA PublishedEffect ==
  ASSUME NEW m \in Masters, NEW p \in Products
  PROVE  SameBut(m, Published(m, p), {"reorder"})
<1>1. PICK b \in Buffers : Published(m, p) = [m EXCEPT !.reorder = b] BY PublishedTyped
<1> QED BY <1>1 DEF Masters, SameBut, Fields

-----------------------------------------------------------------------------
(* The records between the steps of the longer operators. *)

\* What becomes of the cycle, before the pause.
LEMMA RecoveringCases ==
  ASSUME NEW m \in Masters, NEW s \in Stations
  PROVE  LET t == m.station[m.cycle[s].product][s]
         IN  \/ m.cycle[s] = None /\ Recovering(m, s) = Paused(m)
             \/ Recovering(m, s) = Paused(Faulted(m))
             \/ /\ m.cycle[s] # None /\ ResultCompleted(t)
                /\ Recovering(m, s) = Paused(HandedOver(m, s))
             \/ /\ m.cycle[s] # None /\ ~ResultCompleted(t) /\ ~t.captured
                /\ Recovering(m, s) = Paused(Reset(m, s))
BY DEF Recovering, HandedOver, Reset

\* Such a cycle is kept for the run to finish, ...
LEMMA HandedOverEffect ==
  ASSUME NEW m \in Masters, NEW s \in Stations, m.cycle[s] # None
  PROVE  LET n == HandedOver(m, s)
             p == m.cycle[s].product
         IN  /\ n \in Masters
             /\ SameBut(m, n, {"station", "state", "cycle", "lateResume"})
             /\ n.station = Put(m.station, p, s, Completed(m.station[p][s]))
             /\ n.state = [m.state EXCEPT ![p] = Captured[s]]
             /\ n.cycle[s] \in Cycles
             /\ n.cycle[s].product = p /\ n.cycle[s].capture = m.cycle[s].capture
             /\ n.cycle[s].phase = "RESUME_PENDING" /\ n.cycle[s].timed = FALSE
             /\ \A u \in Stations \ {s} : n.cycle[u] = m.cycle[u]
             /\ n.lateResume = m.lateResume \union {<<p, s>>}
<1> DEFINE p == m.cycle[s].product
           q == Promoted(m, p, s)
           k == [m.cycle[s] EXCEPT !.phase = "RESUME_PENDING", !.timed = FALSE]
<1>1. p \in Products /\ m.cycle[s] \in Cycles BY CycleTyped
<1>2. q \in Masters BY <1>1, PromotedTyped
<1>3. /\ SameBut(m, q, {"station", "state"})
      /\ q.station = Put(m.station, p, s, Completed(m.station[p][s]))
      /\ q.state = [m.state EXCEPT ![p] = Captured[s]]
  BY <1>1, PromotedEffect
<1>4. /\ k \in Cycles /\ k.product = p /\ k.capture = m.cycle[s].capture
      /\ k.phase = "RESUME_PENDING" /\ k.timed = FALSE
  BY <1>1 DEF Cycles, Phases
<1>5. q.cycle = m.cycle /\ q.lateResume = m.lateResume BY <1>3 DEF SameBut, Fields
<1>6. HandedOver(m, s) = [q EXCEPT !.cycle[s] = k, !.lateResume = @ \union {<<p, s>>}]
  BY <1>5 DEF HandedOver
<1> HIDE DEF p, q, k
<1>7. q.lateResume \union {<<p, s>>} \in Pairs BY <1>1, <1>2 DEF Masters, Pairs
<1>8. [q.cycle EXCEPT ![s] = k] \in CycleMaps BY <1>2, <1>4 DEF Masters, CycleMaps
<1> DEFINE n == HandedOver(m, s)
<1>9. n \in Masters BY <1>2, <1>6, <1>7, <1>8 DEF Masters
<1>10. /\ SameBut(q, n, {"cycle", "lateResume"})
       /\ n.cycle = [q.cycle EXCEPT ![s] = k] /\ n.lateResume = q.lateResume \union {<<p, s>>}
  BY <1>2, <1>6 DEF Masters, SameBut, Fields
<1> HIDE DEF n
<1>11. n.cycle[s] = k /\ \A u \in Stations \ {s} : n.cycle[u] = m.cycle[u]
  BY <1>2, <1>5, <1>10 DEF Masters, CycleMaps
<1>12. SameBut(m, n, {"station", "state", "cycle", "lateResume"}) BY <1>3, <1>10 DEF SameBut
<1>13. n.station = q.station /\ n.state = q.state BY <1>10 DEF SameBut, Fields
<1> QED BY <1>3, <1>4, <1>5, <1>9, <1>10, <1>11, <1>12, <1>13 DEF n, p

\* ... and this one for the run to start again.
LEMMA ResetEffect ==
  ASSUME NEW m \in Masters, NEW s \in Stations, m.cycle[s] # None
  PROVE  LET n == Reset(m, s)
             p == m.cycle[s].product
         IN  /\ n \in Masters
             /\ SameBut(m, n, {"station", "cycle", "lateStart"})
             /\ n.station = Put(m.station, p, s, NewStation)
             /\ n.cycle = [m.cycle EXCEPT ![s] = None]
             /\ n.lateStart = m.lateStart \union {<<p, s>>}
<1> DEFINE p == m.cycle[s].product
           r == [m.station EXCEPT ![p][s] = NewStation]
           n == Reset(m, s)
<1>1. p \in Products BY CycleTyped
<1> HIDE DEF p
<1>2. NewStation \in StationType /\ m.station \in Records
  BY DEF NewStation, StationType, Masters
<1>3. r \in Records BY <1>1, <1>2, RecordTyped
<1>4. n = [m EXCEPT !.station = r, !.cycle[s] = None, !.lateStart = @ \union {<<p, s>>}]
  BY DEF Reset, p
<1>5. r = Put(m.station, p, s, NewStation) BY DEF Put
<1> HIDE DEF r, n
<1>6. m.lateStart \union {<<p, s>>} \in Pairs BY <1>1 DEF Masters, Pairs
<1>7. [m.cycle EXCEPT ![s] = None] \in CycleMaps BY DEF Masters, CycleMaps
<1>8. n \in Masters BY <1>3, <1>4, <1>6, <1>7 DEF Masters
<1>9. /\ SameBut(m, n, {"station", "cycle", "lateStart"}) /\ n.station = r
      /\ n.cycle = [m.cycle EXCEPT ![s] = None] /\ n.lateStart = m.lateStart \union {<<p, s>>}
  BY <1>4 DEF Masters, SameBut, Fields
<1> QED BY <1>5, <1>8, <1>9 DEF n, p

\* A product that is to skip station B ...
LEMMA SkipAskedEffect ==
  ASSUME NEW m \in Masters, NEW p \in Products
  PROVE  LET n == SkipAsked(m, p)
         IN  /\ n \in Masters /\ SameBut(m, n, {"skip"})
             /\ n.skip = [m.skip EXCEPT ![p] = TRUE]
<1>1. SkipAsked(m, p) \in Masters BY DEF SkipAsked, Masters, Skips
<1> QED BY <1>1 DEF SkipAsked, Masters, SameBut, Fields

\* ... and one whose cycle there ends with that.
LEMMA SkippedAtBEffect ==
  ASSUME NEW m \in Masters, NEW p \in Products
  PROVE  LET n == SkippedAtB(m, p)
         IN  /\ n \in Masters /\ SameBut(m, n, {"station", "state"})
             /\ n.station = Put(m.station, p, "B", Skipping(m.station[p]["B"]))
             /\ n.state = [m.state EXCEPT ![p] = Captured["B"]]
<1> DEFINE n == SkippedAtB(m, p)
           r == Put(m.station, p, "B", Skipping(m.station[p]["B"]))
<1>1. n = [m EXCEPT !.station = r, !.state[p] = Captured["B"]] BY DEF SkippedAtB, Put, Skipping
<1>2. r \in Records
  <2>1. 0 \in Nat /\ "B" \in Stations /\ m.station \in Records BY DEF Stations, Masters
  <2>2. m.station[p]["B"] \in StationType BY <2>1 DEF Records
  <2>3. Skipping(m.station[p]["B"]) \in StationType BY <2>1, <2>2, RecordEffect
  <2> QED BY <2>1, <2>3, PutEffect
<1>3. Captured["B"] \in Unseen .. Done BY DEF Captured, Unseen, Done
<1> HIDE DEF r, n
<1>4. n \in Masters BY <1>1, <1>2, <1>3 DEF Masters, States
<1>5. /\ SameBut(m, n, {"station", "state"}) /\ n.station = r
      /\ n.state = [m.state EXCEPT ![p] = Captured["B"]]
  BY <1>1 DEF Masters, SameBut, Fields
<1> QED BY <1>4, <1>5 DEF n, r

\* What a refusal at station A does to station B.
LEMMA CanceledBCases ==
  ASSUME NEW m \in Masters, NEW p \in Products
  PROVE  LET n == CanceledB(m, p)
             q == SkipAsked(m, p)
             b == q.station[p]["B"]
         IN  \/ n = m /\ ~ m.settings.skipB
             \/ /\ m.settings.skipB
                /\ \/ q.cycle["B"].product = p /\ n = Resuming(SkippedAtB(q, p), "B")
                   \/ q.cycle["B"].product = p /\ n = Resuming(Promoted(q, p, "B"), "B")
                   \/ q.cycle["B"].product = p /\ n = q
                   \/ q.cycle["B"].product # p /\ n = Bypassed(q, p)
<1>1. SkipAsked(m, p).settings = m.settings BY DEF SkipAsked, Masters
<1> QED BY <1>1 DEF CanceledB, SkipAsked, SkippedAtB

\* A capture that has failed.
LEMMA FailedAtEffect ==
  ASSUME NEW m \in Masters, NEW s \in Stations, m.cycle[s] # None
  PROVE  LET n == FailedAt(m, s)
             p == m.cycle[s].product
         IN  /\ n \in Masters /\ SameBut(m, n, {"station", "state"})
             /\ n.station = Put(m.station, p, s, Failing(m.station[p][s]))
             /\ n.state = [m.state EXCEPT ![p] = Captured[s]]
<1> DEFINE p == m.cycle[s].product
           n == FailedAt(m, s)
           r == Put(m.station, p, s, Failing(m.station[p][s]))
<1>1. n = [m EXCEPT !.station = r, !.state[p] = Captured[s]] BY DEF FailedAt, Put, Failing
<1>2. p \in Products BY CycleTyped
<1> HIDE DEF p
<1>3. r \in Records
  <2>1. 0 \in Nat /\ m.station \in Records BY DEF Masters
  <2>2. m.station[p][s] \in StationType BY <1>2, <2>1 DEF Records
  <2>3. Failing(m.station[p][s]) \in StationType BY <2>1, <2>2, RecordEffect
  <2> QED BY <1>2, <2>1, <2>3, PutEffect
<1>4. Captured[s] \in Unseen .. Done BY DEF Captured, Unseen, Done, Stations
<1> HIDE DEF r, n
<1>5. n \in Masters BY <1>1, <1>2, <1>3, <1>4 DEF Masters, States
<1>6. /\ SameBut(m, n, {"station", "state"}) /\ n.station = r
      /\ n.state = [m.state EXCEPT ![p] = Captured[s]]
  BY <1>1 DEF Masters, SameBut, Fields
<1> QED BY <1>5, <1>6 DEF n, r, p

\* _finish_capture_failure in these terms.
LEMMA CaptureFailedCases ==
  ASSUME NEW m \in Masters, NEW s \in Stations, NEW diskFull \in BOOLEAN
  PROVE  LET failed == FailedAt(m, s)
             p == m.cycle[s].product
             told == IF s = "A" THEN CanceledB(failed, p) ELSE failed
         IN  CaptureFailed(m, s, diskFull)
                = Resuming(IF diskFull THEN Paused(told) ELSE told, s)
BY DEF CaptureFailed, FailedAt

\* A product comes into the ledger.
LEMMA KnownEffect ==
  ASSUME NEW m \in Masters, NEW p \in Products
  PROVE  LET n == Known(m, p)
             k == KnownLate(m, p)
         IN  /\ n \in Masters /\ SameBut(m, n, {"fifo", "state"})
             /\ n.fifo = Append(m.fifo, p) /\ n.state = [m.state EXCEPT ![p] = Waiting["A"]]
             /\ k \in Masters /\ SameBut(n, k, {"lateStart"})
             /\ k.lateStart = m.lateStart \union {<<p, "A">>}
<1>1. Append(m.fifo, p) \in Fifos BY DEF Masters, Fifos
<1>2. Waiting["A"] \in Unseen .. Done BY DEF Waiting, Unseen, Done
<1>3. /\ Known(m, p) \in Masters /\ SameBut(m, Known(m, p), {"fifo", "state"})
      /\ Known(m, p).fifo = Append(m.fifo, p)
      /\ Known(m, p).state = [m.state EXCEPT ![p] = Waiting["A"]]
  BY <1>1, <1>2 DEF Known, Masters, States, SameBut, Fields
<1>4. Known(m, p).lateStart = m.lateStart BY <1>3 DEF SameBut, Fields
<1> DEFINE n == Known(m, p)
           k == KnownLate(m, p)
<1>5. k = [n EXCEPT !.lateStart = @ \union {<<p, "A">>}] BY DEF KnownLate
<1> HIDE DEF n, k
<1>6. n.lateStart \union {<<p, "A">>} \in Pairs BY <1>3 DEF n, Masters, Pairs, Stations
<1>7. k \in Masters /\ SameBut(n, k, {"lateStart"}) /\ k.lateStart = n.lateStart \union {<<p, "A">>}
  BY <1>3, <1>5, <1>6 DEF n, Masters, SameBut, Fields
<1> QED BY <1>3, <1>4, <1>7 DEF n, k

\* _handle_sensor1_entry in these terms.
LEMMA EnteredAt1Cases ==
  ASSUME NEW m \in Masters, NEW p \in Products
  PROVE  \/ EnteredAt1(m, p) = Faulted(m)
         \/ EnteredAt1(m, p) = Paused(KnownLate(m, p))
         \/ EnteredAt1(m, p) = Started(Known(m, p), p, "A")
BY DEF EnteredAt1, Known, KnownLate

\* A product comes to station B, or passes it.
LEMMA AtBEffect ==
  ASSUME NEW m \in Masters, NEW p \in Products
  PROVE  LET n == WaitingAtB(m, p)
             k == PassingB(m, p)
         IN  /\ n \in Masters /\ SameBut(m, n, {"state"})
             /\ n.state = [m.state EXCEPT ![p] = Waiting["B"]]
             /\ k \in Masters /\ SameBut(m, k, {"station", "state"})
             /\ k.station = Put(m.station, p, "B", Skipping(m.station[p]["B"]))
             /\ k.state = [m.state EXCEPT ![p] = Sensor3Wait]
<1>1. Waiting["B"] \in Unseen .. Done BY DEF Waiting, Unseen, Done
<1>2. /\ WaitingAtB(m, p) \in Masters /\ SameBut(m, WaitingAtB(m, p), {"state"})
      /\ WaitingAtB(m, p).state = [m.state EXCEPT ![p] = Waiting["B"]]
  BY <1>1 DEF WaitingAtB, Masters, States, SameBut, Fields
<1> DEFINE k == PassingB(m, p)
           r == Put(m.station, p, "B", Skipping(m.station[p]["B"]))
<1>3. k = [m EXCEPT !.station = r, !.state[p] = Sensor3Wait] BY DEF PassingB, Put, Skipping
<1>4. r \in Records
  <2>1. 0 \in Nat /\ "B" \in Stations /\ m.station \in Records BY DEF Stations, Masters
  <2>2. m.station[p]["B"] \in StationType BY <2>1 DEF Records
  <2>3. Skipping(m.station[p]["B"]) \in StationType BY <2>1, <2>2, RecordEffect
  <2> QED BY <2>1, <2>3, PutEffect
<1>5. Sensor3Wait \in Unseen .. Done BY DEF Sensor3Wait, Onward, Unseen, Done
<1> HIDE DEF r, k
<1>6. k \in Masters BY <1>3, <1>4, <1>5 DEF Masters, States
<1>7. /\ SameBut(m, k, {"station", "state"}) /\ k.station = r
      /\ k.state = [m.state EXCEPT ![p] = Sensor3Wait]
  BY <1>3 DEF Masters, SameBut, Fields
<1> QED BY <1>2, <1>6, <1>7 DEF k, r

\* _handle_sensor2_entry in these terms.
LEMMA EnteredAt2Cases ==
  ASSUME NEW m \in Masters
  PROVE  LET p == OldestIn(m, Flipping)
         IN  \/ EnteredAt2(m) = Faulted(m)
             \/ /\ p # 0 /\ m.skip[p] /\ EnteredAt2(m) = PassingB(m, p)
             \/ /\ p # 0 /\ EnteredAt2(m) = Started(WaitingAtB(m, p), p, "B")
BY DEF EnteredAt2, WaitingAtB, PassingB

\* A product's verdict is locked, and its actuation is due.
LEMMA LockedEffect ==
  ASSUME NEW m \in Masters, NEW p \in Products
  PROVE  LET n == Locked(m, p)
         IN  /\ n \in Masters /\ SameBut(m, n, {"locked", "state", "actuation"})
             /\ n.locked = [m.locked EXCEPT ![p] = Verdict(m, p)]
             /\ n.state = [m.state EXCEPT ![p] = AtSensor3]
             /\ n.actuation[p].phase = "pending"
             /\ n.actuation[p].sent = m.actuation[p].sent
             /\ \A q \in Products \ {p} : n.actuation[q] = m.actuation[q]
<1> DEFINE n == Locked(m, p)
           a == [m.actuation EXCEPT ![p].phase = "pending"]
           v == [m.locked EXCEPT ![p] = Verdict(m, p)]
<1>1. n = [m EXCEPT !.locked = v, !.state[p] = AtSensor3, !.actuation = a] BY DEF Locked
<1>2. m.actuation \in ActuationMaps BY DEF Masters
<1>3. /\ a \in ActuationMaps /\ a[p].phase = "pending" /\ a[p].sent = m.actuation[p].sent
      /\ \A q \in Products \ {p} : a[q] = m.actuation[q]
  BY <1>2 DEF ActuationMaps, Actuations
<1>4. AtSensor3 \in Unseen .. Done BY DEF AtSensor3, Unseen, Done
<1>5. v \in Verdicts BY VerdictTyped DEF Masters, Verdicts
<1> HIDE DEF a, v, n
<1>6. n \in Masters BY <1>1, <1>3, <1>4, <1>5 DEF Masters, States
<1>7. /\ SameBut(m, n, {"locked", "state", "actuation"}) /\ n.locked = v /\ n.actuation = a
      /\ n.state = [m.state EXCEPT ![p] = AtSensor3]
  BY <1>1 DEF Masters, SameBut, Fields
<1> QED BY <1>3, <1>6, <1>7 DEF n, v

\* _handle_sensor3_entry in these terms.
LEMMA EnteredAt3Cases ==
  ASSUME NEW m \in Masters, NEW available \in BOOLEAN
  PROVE  LET p == OldestIn(m, Sensor3Wait)
         IN  \/ EnteredAt3(m, available) = Faulted(m)
             \/ /\ p # 0
                /\ EnteredAt3(m, available) = Sent(Published(Locked(m, p), p), p, available)
BY DEF EnteredAt3, Locked

\* What Vision says is kept with the station, and its capture stays.
LEMMA NotedEffect ==
  ASSUME NEW m \in Masters, NEW f \in Frames, NEW outcome \in {"PASS", "NG", "FAILED"}
  PROVE  LET n == Noted(m, f, outcome)
             p == f.product
             s == f.station
             t == Terminal(m.station[p][s], outcome)
         IN  /\ n \in Masters /\ SameBut(m, n, {"station"})
             /\ n.station = Put(m.station, p, s, t)
             /\ t \in StationType
             /\ t.process = m.station[p][s].process /\ t.capture = m.station[p][s].capture
             /\ t.captured = m.station[p][s].captured
             /\ t.failed = (m.station[p][s].failed \/ outcome = "FAILED")
             /\ t.decision = IF outcome = "FAILED" THEN m.station[p][s].decision ELSE outcome
<1> DEFINE p == f.product
           s == f.station
           t == Terminal(m.station[p][s], outcome)
           n == Noted(m, f, outcome)
           r == Put(m.station, p, s, t)
<1>1. p \in Products /\ s \in Stations BY DEF Frames
<1>2. m.station \in Records /\ m.station[p][s] \in StationType BY <1>1 DEF Masters, Records
<1>3. n = [m EXCEPT !.station = r] BY DEF Noted, Terminal, Put
<1> HIDE DEF p, s, n
<1>4. /\ t \in StationType
      /\ t.process = m.station[p][s].process /\ t.capture = m.station[p][s].capture
      /\ t.captured = m.station[p][s].captured
      /\ t.failed = (m.station[p][s].failed \/ outcome = "FAILED")
      /\ t.decision = IF outcome = "FAILED" THEN m.station[p][s].decision ELSE outcome
  <2>1. CASE outcome = "FAILED" BY <1>2, <2>1 DEF Terminal, StationType
  <2>2. CASE outcome # "FAILED" BY <1>2, <2>2 DEF Terminal, StationType
  <2> QED BY <2>1, <2>2
<1> HIDE DEF t
<1>5. r \in Records BY <1>1, <1>2, <1>4, PutEffect
<1> HIDE DEF r
<1>6. n \in Masters /\ SameBut(m, n, {"station"}) /\ n.station = r
  BY <1>3, <1>5 DEF Masters, SameBut, Fields
<1> QED BY <1>4, <1>6 DEF n, r, t, p, s

\* The results of Vision in these terms.
LEMMA JudgedCases ==
  ASSUME NEW m \in Masters, NEW f \in Frames, NEW outcome \in {"PASS", "NG", "FAILED"},
         NEW outOfMemory \in BOOLEAN
  PROVE  LET p == f.product
             n == Noted(m, f, outcome)
             told == IF f.station = "A" /\ outcome \in {"NG", "FAILED"}
                     THEN CanceledB(n, p) ELSE n
         IN  \/ Judged(m, f, outcome, outOfMemory) = m
             \/ /\ Applicable(m, f)
                /\ outcome # "FAILED" => m.station[p][f.station].decision = "none"
                /\ Judged(m, f, outcome, outOfMemory)
                      = IF outOfMemory THEN Paused(told) ELSE told
BY DEF Judged, Noted

\* A capture is asked for.
LEMMA AskedEffect ==
  ASSUME NEW m \in Masters, NEW s \in Stations, m.cycle[s] # None
  PROVE  LET n == Asked(m, s)
             p == m.cycle[s].product
         IN  /\ n \in Masters /\ SameBut(m, n, {"station", "cycle"})
             /\ n.station = Put(m.station, p, s, Requested(m.station[p][s]))
             /\ n.cycle[s] \in Cycles
             /\ n.cycle[s].product = p /\ n.cycle[s].capture = m.cycle[s].capture
             /\ n.cycle[s].phase = "CAPTURE_GOAL" /\ n.cycle[s].timed
             /\ \A u \in Stations \ {s} : n.cycle[u] = m.cycle[u]
<1> DEFINE p == m.cycle[s].product
           n == Asked(m, s)
           k == [m.cycle[s] EXCEPT !.phase = "CAPTURE_GOAL", !.timed = TRUE]
           r == Put(m.station, p, s, Requested(m.station[p][s]))
<1>1. p \in Products /\ m.cycle[s] \in Cycles BY CycleTyped
<1>2. n = [m EXCEPT !.station = r, !.cycle[s] = k] BY DEF Asked, Put, Requested
<1>3. /\ k \in Cycles /\ k.product = p /\ k.capture = m.cycle[s].capture
      /\ k.phase = "CAPTURE_GOAL" /\ k.timed
  BY <1>1 DEF Cycles, Phases
<1> HIDE DEF p, k, n
<1>4. r \in Records
  <2>1. 0 \in Nat /\ m.station \in Records BY DEF Masters
  <2>2. m.station[p][s] \in StationType BY <1>1, <2>1 DEF Records
  <2>3. Requested(m.station[p][s]) \in StationType BY <2>1, <2>2, RecordEffect
  <2> QED BY <1>1, <2>1, <2>3, PutEffect
<1> HIDE DEF r
<1>5. [m.cycle EXCEPT ![s] = k] \in CycleMaps BY <1>3 DEF Masters, CycleMaps
<1>6. n \in Masters BY <1>2, <1>4, <1>5 DEF Masters
<1>7. /\ SameBut(m, n, {"station", "cycle"}) /\ n.station = r
      /\ n.cycle = [m.cycle EXCEPT ![s] = k]
  BY <1>2 DEF Masters, SameBut, Fields
<1>8. n.cycle[s] = k /\ \A u \in Stations \ {s} : n.cycle[u] = m.cycle[u]
  BY <1>7 DEF Masters, CycleMaps
<1> QED BY <1>3, <1>6, <1>7, <1>8 DEF n, r, p

-----------------------------------------------------------------------------
(* A definite verdict rests on what Vision said. *)

\* Evidence is about some fields only.
LEMMA EvidenceFrame ==
  ASSUME NEW m, NEW n, NEW F, Evidence(m, F),
         NEW changed, SameBut(m, n, changed), changed \cap EvidenceFields = {}
  PROVE  Evidence(n, F)
<1>1. /\ n.settings = m.settings /\ n.station = m.station /\ n.captures = m.captures
      /\ n.locked = m.locked /\ n.skip = m.skip
  BY DEF SameBut, Fields, EvidenceFields
<1> QED BY <1>1 DEF Evidence, ProductSound

\* Where all that was said is still said there is no less evidence.
LEMMA MoreEvidence ==
  ASSUME NEW m \in Masters, NEW F, NEW G, Evidence(m, F),
         \A p, s, c : \A o \in {"PASS", "NG"} : Said(F, p, s, c, o) => Said(G, p, s, c, o)
  PROVE  Evidence(m, G)
<1>1. ASSUME NEW p \in Products, NEW s \in Stations
      PROVE  StationSound(m.station[p][s], m.captures[p][s], G, p, s)
  <2>1. m.station[p][s].decision \in {"none", "PASS", "NG"} BY DEF Masters, Records, StationType
  <2> QED BY <2>1 DEF Evidence, ProductSound, StationSound
<1> QED BY <1>1 DEF Evidence, ProductSound

\* One product's record at one station changes.
LEMMA EvidenceUpdate ==
  ASSUME NEW m \in Masters, NEW n \in Masters, NEW F, Evidence(m, F),
         NEW p \in Products, NEW s \in Stations, NEW t \in StationType,
         n.station = Put(m.station, p, s, t),
         n.settings = m.settings,
         \A q \in Products \ {p} : /\ n.captures[q] = m.captures[q]
                                   /\ n.locked[q] = m.locked[q] /\ n.skip[q] = m.skip[q],
         \A u \in Stations \ {s} : n.captures[p][u] = m.captures[p][u],
         StationSound(t, n.captures[p][s], F, p, s),
         VerdictSound(n.station[p], n.locked[p], n.skip[p], n.settings.skipB)
  PROVE  Evidence(n, F)
<1>1. m.station \in Records BY DEF Masters
<1>2. n.station[p][s] = t /\ \A u \in Stations \ {s} : n.station[p][u] = m.station[p][u]
  BY <1>1, PutEffect
<1>3. \A q \in Products \ {p} : n.station[q] = m.station[q] BY <1>1, PutEffect
<1>4. ProductSound(n, F, p)
  <2>1. \A u \in Stations : StationSound(n.station[p][u], n.captures[p][u], F, p, u)
    BY <1>2 DEF Evidence, ProductSound
  <2> QED BY <2>1 DEF ProductSound
<1>5. \A q \in Products \ {p} : ProductSound(n, F, q) BY <1>3 DEF Evidence, ProductSound
<1> QED BY <1>4, <1>5 DEF Evidence

\* A record that keeps its decision and its failure keeps the evidence.
LEMMA EvidenceKept ==
  ASSUME NEW m \in Masters, NEW n \in Masters, NEW F, Evidence(m, F),
         NEW p \in Products, NEW s \in Stations, NEW t \in StationType,
         n.station = Put(m.station, p, s, t),
         n.settings = m.settings, n.captures = m.captures, n.locked = m.locked,
         \A q \in Products : \/ n.skip[q] = m.skip[q]
                             \/ q = p /\ m.settings.skipB /\ RefusedAtA(n.station[p]["A"]),
         \/ t = NewStation
         \/ t.process # "PENDING" /\ t.capture = m.station[p][s].capture,
         t.decision = m.station[p][s].decision,
         m.station[p][s].failed => t.failed
  PROVE  Evidence(n, F)
<1> DEFINE old == m.station[p][s]
<1>1. /\ StationSound(old, m.captures[p][s], F, p, s)
      /\ VerdictSound(m.station[p], m.locked[p], m.skip[p], m.settings.skipB)
  BY DEF Evidence, ProductSound
<1>2. m.station \in Records BY DEF Masters
<1>3. n.station[p][s] = t /\ \A u \in Stations \ {s} : n.station[p][u] = m.station[p][u]
  BY <1>2, PutEffect
<1>4. StationSound(t, n.captures[p][s], F, p, s)
  <2>1. CASE t = NewStation BY <2>1 DEF StationSound, NewStation
  <2>2. CASE t.process # "PENDING" /\ t.capture = old.capture BY <1>1, <2>2 DEF StationSound
  <2> QED BY <2>1, <2>2
<1>5. /\ \A u \in Stations : n.station[p][u].decision = m.station[p][u].decision
      /\ m.station[p]["A"].failed => n.station[p]["A"].failed
  BY <1>3 DEF Stations
<1>6. VerdictSound(n.station[p], n.locked[p], n.skip[p], n.settings.skipB)
  BY <1>1, <1>5 DEF VerdictSound, RefusedAtA, Stations
<1>7. /\ \A q \in Products \ {p} : /\ n.captures[q] = m.captures[q]
                                   /\ n.locked[q] = m.locked[q] /\ n.skip[q] = m.skip[q]
      /\ \A u \in Stations \ {s} : n.captures[p][u] = m.captures[p][u]
  OBVIOUS
<1> QED BY <1>4, <1>6, <1>7, EvidenceUpdate

\* Stops leave the evidence.
LEMMA StopEvidence ==
  ASSUME NEW m \in Masters, NEW F, Evidence(m, F)
  PROVE  Evidence(Faulted(m), F) /\ Evidence(Paused(m), F)
<1>1. Evidence(Faulted(m), F) BY FaultedEffect, EvidenceFrame DEF EvidenceFields
<1>2. Evidence(Paused(m), F) BY PausedEffect, EvidenceFrame DEF EvidenceFields
<1> QED BY <1>1, <1>2

\* A product may skip station B that was refused at A.
LEMMA BypassedEvidence ==
  ASSUME NEW m \in Masters, NEW F, Evidence(m, F), NEW p \in Products,
         m.settings.skipB, RefusedAtA(m.station[p]["A"])
  PROVE  Evidence(Bypassed(m, p), F)
<1> DEFINE n == Bypassed(m, p)
           t == Skipping(m.station[p]["B"])
<1>1. CASE n = m BY <1>1
<1>2. CASE n # m
  <2>1. /\ n.station = Put(m.station, p, "B", t)
        /\ n.skip = [m.skip EXCEPT ![p] = TRUE]
        /\ n.settings = m.settings /\ n.captures = m.captures /\ n.locked = m.locked
    BY <1>2, BypassedEffect DEF SameBut, Fields
  <2>2. n \in Masters BY BypassedTyped
  <2> HIDE DEF n
  <2>3. m.station[p]["B"] \in StationType /\ "B" \in Stations /\ "A" \in Stations
    BY DEF Masters, Records, Stations
  <2>4. /\ t \in StationType /\ t.process # "PENDING" /\ t.capture = m.station[p]["B"].capture
        /\ t.decision = m.station[p]["B"].decision /\ t.failed = m.station[p]["B"].failed
    <3>1. 0 \in Nat OBVIOUS
    <3> QED BY <2>3, <3>1, RecordEffect
  <2> HIDE DEF t
  <2>5. n.station[p]["A"] = m.station[p]["A"]
    <3>1. m.station \in Records /\ "A" \in Stations \ {"B"} BY DEF Masters, Stations
    <3> QED BY <2>1, <2>3, <2>4, <3>1, PutEffect
  <2>6. \A q \in Products : \/ n.skip[q] = m.skip[q]
                            \/ q = p /\ m.settings.skipB /\ RefusedAtA(n.station[p]["A"])
    <3>1. \A q \in Products \ {p} : n.skip[q] = m.skip[q] BY <2>1 DEF Masters, Skips
    <3> QED BY <2>5, <3>1
  <2>7. Evidence(n, F) BY <2>1, <2>2, <2>3, <2>4, <2>6, EvidenceKept
  <2> QED BY <2>7 DEF n
<1> QED BY <1>1, <1>2

\* A cycle begins with nothing said of its capture.
LEMMA BegunEvidence ==
  ASSUME NEW m \in Masters, NEW F, Evidence(m, F), NEW p \in Products, NEW s \in Stations,
         m.station[p][s].process = "PENDING"
  PROVE  Evidence(Begun(m, p, s), F)
<1> DEFINE n == Begun(m, p, s)
           id == NextCapture(m, p, s)
           t == Positioning(m.station[p][s], id)
<1>0. /\ SameBut(m, n, {"captures", "station", "cycle", "lateStart"})
      /\ n.captures = Counted(m, p, s)
      /\ n.station = Put(m.station, p, s, t)
  BY BegunEffect
<1>2. n \in Masters BY BegunTyped
<1> HIDE DEF n
<1>1. n.settings = m.settings /\ n.locked = m.locked /\ n.skip = m.skip
  BY <1>0 DEF SameBut, Fields
<1>3. m.station[p][s] \in StationType BY DEF Masters, Records
<1>4. m.station[p][s] = NewStation BY DEF Evidence, ProductSound, StationSound
<1>5. id \in Nat BY CountedEffect
<1>6. /\ t \in StationType /\ t.process # "PENDING" /\ t.capture = id
      /\ t.decision = m.station[p][s].decision /\ t.failed = m.station[p][s].failed
      /\ t.decision = "none"
  <2>1. m.station[p][s].decision = "none" BY <1>4 DEF NewStation
  <2> QED BY <1>3, <1>5, <2>1, RecordEffect
<1> HIDE DEF t
<1>7. /\ n.captures[p][s] = id
      /\ \A q \in Products \ {p} : n.captures[q] = m.captures[q]
      /\ \A u \in Stations \ {s} : n.captures[p][u] = m.captures[p][u]
  BY <1>0, CountedEffect
<1> HIDE DEF id
<1>8. StationSound(t, n.captures[p][s], F, p, s) BY <1>6, <1>7 DEF StationSound
<1>9. VerdictSound(n.station[p], n.locked[p], n.skip[p], n.settings.skipB)
  <2>1. VerdictSound(m.station[p], m.locked[p], m.skip[p], m.settings.skipB)
    BY DEF Evidence, ProductSound
  <2>2. \A u \in Stations : /\ n.station[p][u].decision = m.station[p][u].decision
                            /\ n.station[p][u].failed = m.station[p][u].failed
    <3>1. m.station \in Records BY DEF Masters
    <3>2. n.station[p][s] = t /\ \A u \in Stations \ {s} : n.station[p][u] = m.station[p][u]
      BY <1>0, <1>6, <3>1, PutEffect
    <3> QED BY <1>6, <3>2
  <2> QED BY <1>1, <2>1, <2>2 DEF VerdictSound, RefusedAtA, Stations
<1>10. \A q \in Products \ {p} : /\ n.captures[q] = m.captures[q]
                                 /\ n.locked[q] = m.locked[q] /\ n.skip[q] = m.skip[q]
  BY <1>1, <1>7
<1>12. t \in StationType /\ n.station = Put(m.station, p, s, t) /\ n.settings = m.settings
  BY <1>0, <1>1, <1>6
<1>13. \A u \in Stations \ {s} : n.captures[p][u] = m.captures[p][u] BY <1>7
<1>11. Evidence(n, F) BY <1>2, <1>8, <1>9, <1>10, <1>12, <1>13, EvidenceUpdate
<1> QED BY <1>11 DEF n

\* _start_station_cycle: only a product that may skip station B does.
LEMMA StartedEvidence ==
  ASSUME NEW m \in Masters, NEW F, Evidence(m, F), NEW p \in Products, NEW s \in Stations
  PROVE  Evidence(Started(m, p, s), F)
<1>1. Evidence([m EXCEPT !.lateStart = @ \union {<<p, s>>}], F)
  <2>1. SameBut(m, [m EXCEPT !.lateStart = @ \union {<<p, s>>}], {"lateStart"})
    BY DEF Masters, SameBut, Fields
  <2> QED BY <2>1, EvidenceFrame DEF EvidenceFields
<1>2. m.skip[p] => m.settings.skipB /\ RefusedAtA(m.station[p]["A"])
  BY DEF Evidence, ProductSound, VerdictSound
<1> QED BY <1>1, <1>2, StopEvidence, BypassedEvidence, BegunEvidence DEF Started

\* A resume is not about evidence, ...
LEMMA ResumeEvidence ==
  ASSUME NEW m \in Masters, NEW F, Evidence(m, F), NEW s \in Stations
  PROVE  /\ m.cycle[s] # None => Evidence(Resuming(m, s), F)
         /\ Evidence(Resumed(m, s), F)
<1>1. ASSUME m.cycle[s] # None PROVE Evidence(Resuming(m, s), F)
  BY <1>1, ResumingEffect, EvidenceFrame DEF EvidenceFields
<1>2. Evidence(Resumed(m, s), F)
  <2>1. CASE Resumed(m, s) = m BY <2>1
  <2>2. CASE Resumed(m, s) = Faulted(m) BY <2>2, StopEvidence
  <2>3. CASE SameBut(m, Resumed(m, s), {"state", "cycle", "lateResume"})
    BY <2>3, EvidenceFrame DEF EvidenceFields
  <2> QED BY <2>1, <2>2, <2>3, ResumedEffect
<1> QED BY <1>1, <1>2

\* ... and a capture that has succeeded says nothing of the product.
LEMMA PromotedEvidence ==
  ASSUME NEW m \in Masters, NEW F, Evidence(m, F), NEW p \in Products, NEW s \in Stations
  PROVE  Evidence(Promoted(m, p, s), F)
<1> DEFINE n == Promoted(m, p, s)
           t == Completed(m.station[p][s])
<1>1. SameBut(m, n, {"station", "state"}) /\ n.station = Put(m.station, p, s, t)
  BY PromotedEffect
<1>2. n \in Masters BY PromotedTyped
<1> HIDE DEF n
<1>6. /\ n.settings = m.settings /\ n.captures = m.captures
      /\ n.locked = m.locked /\ n.skip = m.skip
  BY <1>1 DEF SameBut, Fields
<1>3. m.station[p][s] \in StationType BY DEF Masters, Records
<1>4. /\ t \in StationType /\ t.process # "PENDING" /\ t.capture = m.station[p][s].capture
      /\ t.decision = m.station[p][s].decision /\ t.failed = m.station[p][s].failed
  <2>1. 0 \in Nat OBVIOUS
  <2> QED BY <1>3, <2>1, RecordEffect
<1> HIDE DEF t
<1>5. Evidence(n, F) BY <1>1, <1>2, <1>4, <1>6, EvidenceKept
<1> QED BY <1>5 DEF n

\* A cycle that is started again forgets only what was never said.
LEMMA RecoveringEvidence ==
  ASSUME NEW m \in Masters, NEW F, Evidence(m, F), NEW s \in Stations
  PROVE  Evidence(Recovering(m, s), F)
<1> DEFINE p == m.cycle[s].product
           old == m.station[p][s]
<1>1. CASE m.cycle[s] = None BY <1>1, RecoveringCases, StopEvidence, FaultedTyped
<1>2. CASE m.cycle[s] # None
  <2>1. p \in Products BY <1>2, CycleTyped
  <2>2. old \in StationType /\ 0 \in Nat BY <2>1 DEF Masters, Records
  <2>3. Evidence(HandedOver(m, s), F)
    <3> DEFINE n == HandedOver(m, s)
               t == Completed(old)
    <3>1. /\ n \in Masters /\ SameBut(m, n, {"station", "state", "cycle", "lateResume"})
          /\ n.station = Put(m.station, p, s, t)
      BY <1>2, HandedOverEffect
    <3>2. /\ t \in StationType /\ t.process # "PENDING" /\ t.capture = old.capture
          /\ t.decision = old.decision /\ t.failed = old.failed
      BY <2>2, RecordEffect
    <3> HIDE DEF n, t, p
    <3>3. /\ n.settings = m.settings /\ n.captures = m.captures
          /\ n.locked = m.locked /\ n.skip = m.skip
      BY <3>1 DEF SameBut, Fields
    <3>4. Evidence(n, F) BY <2>1, <3>1, <3>2, <3>3, EvidenceKept
    <3> QED BY <3>4 DEF n
  <2>4. ASSUME ~ResultCompleted(old) PROVE Evidence(Reset(m, s), F)
    <3> DEFINE n == Reset(m, s)
               t == NewStation
    <3>1. /\ n \in Masters /\ SameBut(m, n, {"station", "cycle", "lateStart"})
          /\ n.station = Put(m.station, p, s, t)
      BY <1>2, ResetEffect
    <3>2. t \in StationType /\ t = NewStation /\ t.decision = old.decision /\ ~ old.failed
      BY <2>4 DEF NewStation, StationType, ResultCompleted
    <3> HIDE DEF n, t, p
    <3>3. /\ n.settings = m.settings /\ n.captures = m.captures
          /\ n.locked = m.locked /\ n.skip = m.skip
      BY <3>1 DEF SameBut, Fields
    <3>4. Evidence(n, F) BY <2>1, <3>1, <3>2, <3>3, EvidenceKept
    <3> QED BY <3>4 DEF n
  <2>5. HandedOver(m, s) \in Masters /\ Reset(m, s) \in Masters
    BY <1>2, HandedOverEffect, ResetEffect
  <2> QED BY <2>3, <2>4, <2>5, RecoveringCases, StopEvidence, FaultedTyped
<1> QED BY <1>1, <1>2

\* Vision is told to skip station B only after a refusal at station A.
LEMMA CanceledBEvidence ==
  ASSUME NEW m \in Masters, NEW F, Evidence(m, F), NEW p \in Products,
         RefusedAtA(m.station[p]["A"])
  PROVE  Evidence(CanceledB(m, p), F)
<1>1. CASE ~ m.settings.skipB
  <2>1. CanceledB(m, p) = m BY <1>1, CanceledBCases
  <2> QED BY <2>1
<1>2. CASE m.settings.skipB
  <2> DEFINE q == SkipAsked(m, p)
             old == q.station[p]["B"]
  <2>1. q \in Masters /\ SameBut(m, q, {"skip"}) /\ q.skip = [m.skip EXCEPT ![p] = TRUE]
    BY SkipAskedEffect
  <2> HIDE DEF q
  <2>2. /\ q.settings = m.settings /\ q.captures = m.captures
        /\ q.locked = m.locked /\ q.station = m.station
    BY <2>1 DEF SameBut, Fields
  <2>3. Evidence(q, F)
    <3>1. q.skip[p] /\ \A r \in Products \ {p} : q.skip[r] = m.skip[r]
      BY <2>1 DEF Masters, Skips
    <3>2. ProductSound(q, F, p) BY <1>2, <2>2 DEF Evidence, ProductSound, VerdictSound
    <3>3. \A r \in Products \ {p} : ProductSound(q, F, r)
      BY <2>2, <3>1 DEF Evidence, ProductSound
    <3> QED BY <3>2, <3>3 DEF Evidence
  <2>4. "B" \in Stations /\ 0 \in Nat /\ old \in StationType
    BY <2>1 DEF Masters, Records, Stations
  <2>5. SkippedAtB(q, p) \in Masters /\ Evidence(SkippedAtB(q, p), F)
    <3> DEFINE n == SkippedAtB(q, p)
               t == Skipping(old)
    <3>1. /\ n \in Masters /\ SameBut(q, n, {"station", "state"})
          /\ n.station = Put(q.station, p, "B", t)
      BY <2>1, SkippedAtBEffect
    <3>2. /\ t \in StationType /\ t.process # "PENDING" /\ t.capture = old.capture
          /\ t.decision = old.decision /\ t.failed = old.failed
      BY <2>4, RecordEffect
    <3> HIDE DEF n, t
    <3>3. /\ n.settings = q.settings /\ n.captures = q.captures
          /\ n.locked = q.locked /\ n.skip = q.skip
      BY <3>1 DEF SameBut, Fields
    <3>4. Evidence(n, F) BY <2>1, <2>3, <2>4, <3>1, <3>2, <3>3, EvidenceKept
    <3> QED BY <3>1, <3>4 DEF n
  <2>6. Promoted(q, p, "B") \in Masters /\ Evidence(Promoted(q, p, "B"), F)
    BY <2>1, <2>3, <2>4, PromotedTyped, PromotedEvidence
  <2>7. Evidence(Bypassed(q, p), F) BY <1>2, <2>1, <2>2, <2>3, BypassedEvidence
  <2>8. ASSUME q.cycle["B"].product = p
        PROVE  /\ SkippedAtB(q, p).cycle["B"] # None
               /\ Promoted(q, p, "B").cycle["B"] # None
    <3>1. q.cycle["B"] # None BY <2>1, <2>4, <2>8, CycleTyped
    <3>2. SkippedAtB(q, p).cycle = q.cycle
      <4>1. SameBut(q, SkippedAtB(q, p), {"station", "state"}) BY <2>1, SkippedAtBEffect
      <4> QED BY <4>1 DEF SameBut, Fields
    <3> QED BY <2>1, <2>4, <3>1, <3>2, PromotedTyped
  <2>9. \/ q.cycle["B"].product = p /\ CanceledB(m, p) = Resuming(SkippedAtB(q, p), "B")
        \/ q.cycle["B"].product = p /\ CanceledB(m, p) = Resuming(Promoted(q, p, "B"), "B")
        \/ CanceledB(m, p) = q
        \/ CanceledB(m, p) = Bypassed(q, p)
    BY <1>2, CanceledBCases DEF q
  <2> QED BY <2>3, <2>4, <2>5, <2>6, <2>7, <2>8, <2>9, ResumeEvidence
<1> QED BY <1>1, <1>2

\* A capture that has failed is a refusal.
LEMMA CaptureFailedEvidence ==
  ASSUME NEW m \in Masters, NEW F, Evidence(m, F), NEW s \in Stations,
         NEW diskFull \in BOOLEAN, m.cycle[s] # None
  PROVE  Evidence(CaptureFailed(m, s, diskFull), F)
<1> DEFINE p == m.cycle[s].product
           old == m.station[p][s]
           n == FailedAt(m, s)
           t == Failing(old)
           told == IF s = "A" THEN CanceledB(n, p) ELSE n
           paused == IF diskFull THEN Paused(told) ELSE told
<1>1. p \in Products BY CycleTyped
<1>2. old \in StationType /\ 0 \in Nat /\ m.station \in Records BY <1>1 DEF Masters, Records
<1>3. /\ n \in Masters /\ SameBut(m, n, {"station", "state"})
      /\ n.station = Put(m.station, p, s, t)
  BY FailedAtEffect
<1>4. /\ t \in StationType /\ t.process # "PENDING" /\ t.capture = old.capture
      /\ t.decision = old.decision /\ t.failed
  BY <1>2, RecordEffect
<1> HIDE DEF n, t, p
<1>5. /\ n.settings = m.settings /\ n.captures = m.captures /\ n.cycle = m.cycle
      /\ n.locked = m.locked /\ n.skip = m.skip
  BY <1>3 DEF SameBut, Fields
<1>6. Evidence(n, F) BY <1>1, <1>3, <1>4, <1>5, EvidenceKept
<1>7. s = "A" => RefusedAtA(n.station[p]["A"])
  BY <1>1, <1>2, <1>3, <1>4, PutEffect DEF RefusedAtA
<1>8. told \in Masters /\ Evidence(told, F) /\ told.cycle[s] # None
  BY <1>1, <1>3, <1>5, <1>6, <1>7, CanceledBTyped, CanceledBEvidence
<1> HIDE DEF told
<1>9. Paused(told).cycle = told.cycle
  <2>1. SameBut(told, Paused(told), {"system", "pendingRun", "orders"}) \/ Paused(told) = told
    BY <1>8, PausedEffect
  <2> QED BY <2>1 DEF SameBut, Fields
<1>10. paused \in Masters /\ Evidence(paused, F) /\ paused.cycle[s] # None
  BY <1>8, <1>9, PausedTyped, StopEvidence
<1> HIDE DEF paused
<1>11. Evidence(Resuming(paused, s), F) BY <1>10, ResumeEvidence
<1>12. CaptureFailed(m, s, diskFull) = Resuming(paused, s)
  BY CaptureFailedCases DEF paused, told, n, p
<1> QED BY <1>11, <1>12

\* The sensors: a verdict is locked on what the stations have.
LEMMA EntryEvidence ==
  ASSUME NEW m \in Masters, NEW F, Evidence(m, F)
  PROVE  /\ \A p \in Products : Evidence(EnteredAt1(m, p), F)
         /\ Evidence(EnteredAt2(m), F)
         /\ \A available \in BOOLEAN : Evidence(EnteredAt3(m, available), F)
<1>1. ASSUME NEW p \in Products PROVE Evidence(EnteredAt1(m, p), F)
  <2>0. /\ Known(m, p) \in Masters /\ SameBut(m, Known(m, p), {"fifo", "state"})
        /\ KnownLate(m, p) \in Masters /\ SameBut(Known(m, p), KnownLate(m, p), {"lateStart"})
    BY KnownEffect
  <2>1. Known(m, p) \in Masters /\ Evidence(Known(m, p), F)
    BY <2>0, EvidenceFrame DEF EvidenceFields
  <2>2. KnownLate(m, p) \in Masters /\ Evidence(KnownLate(m, p), F)
    BY <2>0, <2>1, EvidenceFrame DEF EvidenceFields
  <2>3. "A" \in Stations BY DEF Stations
  <2> QED BY <2>1, <2>2, <2>3, EnteredAt1Cases, StopEvidence, StartedEvidence
<1>2. Evidence(EnteredAt2(m), F)
  <2> DEFINE p == OldestIn(m, Flipping)
  <2>1. CASE p = 0 \/ EnteredAt2(m) = Faulted(m) BY <2>1, EnteredAt2Cases, StopEvidence
  <2>2. CASE p # 0
    <3>1. p \in Products /\ "B" \in Stations /\ 0 \in Nat BY <2>2, OldestInFifo DEF Stations
    <3> HIDE DEF p
    <3>2. WaitingAtB(m, p) \in Masters /\ Evidence(WaitingAtB(m, p), F)
      BY <3>1, AtBEffect, EvidenceFrame DEF EvidenceFields
    <3>3. Evidence(Started(WaitingAtB(m, p), p, "B"), F) BY <3>1, <3>2, StartedEvidence
    <3>4. Evidence(PassingB(m, p), F)
      <4> DEFINE n == PassingB(m, p)
                 old == m.station[p]["B"]
                 t == Skipping(old)
      <4>1. /\ n \in Masters /\ SameBut(m, n, {"station", "state"})
            /\ n.station = Put(m.station, p, "B", t)
        BY <3>1, AtBEffect
      <4>2. old \in StationType BY <3>1 DEF Masters, Records
      <4>3. /\ t \in StationType /\ t.process # "PENDING" /\ t.capture = old.capture
            /\ t.decision = old.decision /\ t.failed = old.failed
        BY <3>1, <4>2, RecordEffect
      <4> HIDE DEF n, t
      <4>4. /\ n.settings = m.settings /\ n.captures = m.captures
            /\ n.locked = m.locked /\ n.skip = m.skip
        BY <4>1 DEF SameBut, Fields
      <4>5. Evidence(n, F) BY <3>1, <4>1, <4>3, <4>4, EvidenceKept
      <4> QED BY <4>5 DEF n
    <3> QED BY <2>2, <3>3, <3>4, EnteredAt2Cases, StopEvidence DEF p
  <2> QED BY <2>1, <2>2
<1>3. ASSUME NEW available \in BOOLEAN PROVE Evidence(EnteredAt3(m, available), F)
  <2> DEFINE p == OldestIn(m, Sensor3Wait)
             n == Locked(m, p)
             k == Published(n, p)
  <2>1. CASE EnteredAt3(m, available) = Faulted(m) BY <2>1, StopEvidence
  <2>2. CASE p # 0
    <3>1. p \in Products BY <2>2, OldestInFifo
    <3> HIDE DEF p
    <3>2. /\ n \in Masters /\ SameBut(m, n, {"locked", "state", "actuation"})
          /\ n.locked = [m.locked EXCEPT ![p] = Verdict(m, p)]
      BY <3>1, LockedEffect
    <3> HIDE DEF n
    <3>3. /\ n.settings = m.settings /\ n.captures = m.captures
          /\ n.station = m.station /\ n.skip = m.skip
      BY <3>2 DEF SameBut, Fields
    <3>4. /\ n.locked[p] = Verdict(m, p)
          /\ \A q \in Products \ {p} : n.locked[q] = m.locked[q]
      BY <3>1, <3>2 DEF Masters, Verdicts
    <3>5. m.station[p]["A"] \in StationType /\ m.station[p]["B"] \in StationType
      BY <3>1 DEF Masters, Records, Stations
    <3>6. /\ Verdict(m, p) = "PASS" =>
                m.station[p]["A"].decision = "PASS" /\ m.station[p]["B"].decision = "PASS"
          /\ Verdict(m, p) = "NG" =>
                m.station[p]["A"].decision = "NG" \/ m.station[p]["B"].decision = "NG"
      BY <3>5 DEF Verdict, StationType
    <3>7. ProductSound(n, F, p)
      BY <3>1, <3>3, <3>4, <3>6 DEF Evidence, ProductSound, VerdictSound, Stations
    <3>8. \A q \in Products \ {p} : ProductSound(n, F, q)
      BY <3>3, <3>4 DEF Evidence, ProductSound
    <3>9. Evidence(n, F) BY <3>7, <3>8 DEF Evidence
    <3>10. k \in Masters /\ Evidence(k, F)
      BY <3>1, <3>2, <3>9, PublishedTyped, PublishedEffect, EvidenceFrame DEF EvidenceFields
    <3> HIDE DEF k
    <3>11. Evidence(Sent(k, p, available), F)
      <4>1. CASE Sent(k, p, available) = Paused(k) BY <3>10, <4>1, StopEvidence
      <4>2. CASE SameBut(k, Sent(k, p, available), {"actuation"})
        BY <3>10, <4>2, EvidenceFrame DEF EvidenceFields
      <4> QED BY <3>1, <3>10, <4>1, <4>2, SentEffect
    <3> QED BY <2>1, <3>11, EnteredAt3Cases DEF k, n, p
  <2> QED BY <2>1, <2>2, EnteredAt3Cases
<1> QED BY <1>1, <1>2, <1>3

-----------------------------------------------------------------------------
(* What holds of a record and is kept by every resume, start and goal that a run goes on  *)
(* with holds after the run.                                                              *)

\* _resume_deferred_operations
LEMMA DeferredKeeps ==
  ASSUME NEW m \in Masters, NEW available \in BOOLEAN, NEW Kept \in SUBSET Masters, m \in Kept,
         \A n \in Kept, ps \in Products \X Stations :
             ResumeOne(n, ps) \in Kept /\ StartOne(n, ps) \in Kept,
         \A n \in Kept, p \in Products : Sent(n, p, available) \in Kept
  PROVE  Deferred(m, available) \in Kept
<1> DEFINE Good(S) == {g \in (SUBSET S) \X Masters : g[2] \in Kept}
<1>0. \A n \in Masters, ps \in Products \X Stations :
         ResumeOne(n, ps) \in Masters /\ StartOne(n, ps) \in Masters
  BY ResumeOneTyped, StartOneTyped
<1>1. ASSUME NEW n \in Kept PROVE LateResumed(n) \in Kept
  <2> DEFINE G == Good(n.lateResume)
  <2>1. n \in Masters /\ n.lateResume \subseteq Products \X Stations BY DEF Masters, Pairs
  <2>2. \A q \in SUBSET n.lateResume, x \in n.lateResume, k \in Masters :
           /\ ResumeOne(k, x) \in Masters
           /\ x \notin q /\ <<q, k>> \in G => <<q \cup {x}, ResumeOne(k, x)>> \in G
    BY <1>0, <2>1
  <2>3. <<{}, n>> \in G BY <2>1
  <2> HIDE DEF G
  <2>4. <<n.lateResume, LateResumed(n)>> \in G BY <2>1, <2>2, <2>3, LateResumedInduction
  <2> QED BY <2>4 DEF G
<1>2. ASSUME NEW n \in Kept PROVE LateStarted(n) \in Kept
  <2> DEFINE G == Good(n.lateStart)
  <2>1. n \in Masters /\ n.lateStart \subseteq Products \X Stations BY DEF Masters, Pairs
  <2>2. \A q \in SUBSET n.lateStart, x \in n.lateStart, k \in Masters :
           /\ StartOne(k, x) \in Masters
           /\ x \notin q /\ <<q, k>> \in G => <<q \cup {x}, StartOne(k, x)>> \in G
    BY <1>0, <2>1
  <2>3. <<{}, n>> \in G BY <2>1
  <2> HIDE DEF G
  <2>4. <<n.lateStart, LateStarted(n)>> \in G BY <2>1, <2>2, <2>3, LateStartedInduction
  <2> QED BY <2>4 DEF G
<1>3. ASSUME NEW n \in Kept PROVE LateSent(n, available) \in Kept
  <2> DEFINE G == Good(Pending(n))
  <2>1. n \in Masters OBVIOUS
  <2>2. \A q \in SUBSET Pending(n), x \in Pending(n), k \in Masters :
           /\ Sent(k, x, available) \in Masters
           /\ x \notin q /\ <<q, k>> \in G => <<q \cup {x}, Sent(k, x, available)>> \in G
    BY SentTyped DEF Pending
  <2>3. <<{}, n>> \in G BY <2>1
  <2> HIDE DEF G
  <2>4. <<Pending(n), LateSent(n, available)>> \in G BY <2>1, <2>2, <2>3, LateSentInduction
  <2> QED BY <2>4 DEF G
<1> QED BY <1>1, <1>2, <1>3 DEF Deferred

\* The resumes a report of the belts confirms.
LEMMA ConfirmedKeeps ==
  ASSUME NEW m \in Masters, NEW R \in SUBSET Stations, NEW Kept \in SUBSET Masters, m \in Kept,
         \A n \in Kept, s \in Stations : Resumed(n, s) \in Kept
  PROVE  Confirmed(m, R) \in Kept
<1> DEFINE G == {g \in (SUBSET R) \X Masters : g[2] \in Kept}
<1>1. \A q \in SUBSET R, x \in R, k \in Masters :
         /\ Resumed(k, x) \in Masters
         /\ x \notin q /\ <<q, k>> \in G => <<q \cup {x}, Resumed(k, x)>> \in G
  BY ResumedTyped
<1>2. <<{}, m>> \in G OBVIOUS
<1> HIDE DEF G
<1>3. <<R, Confirmed(m, R)>> \in G BY <1>1, <1>2, ConfirmedInduction
<1> QED BY <1>3 DEF G

\* Both are about the system only.
LEMMA RunEffect ==
  ASSUME NEW m \in Masters
  PROVE  /\ m.orders # <<>> => Passed(m) \in Masters
         /\ SameBut(m, Passed(m), {"orders"}) /\ Passed(m).orders = Tail(m.orders)
         /\ Rerun(m) \in Masters /\ SameBut(m, Rerun(m), {"system", "pendingRun"})
         /\ Rerun(m).system = "RUN" /\ Rerun(m).pendingRun = FALSE
<1>1. m.orders # <<>> => Tail(m.orders) \in OrderLists BY DEF Masters, OrderLists
<1>2. m.orders # <<>> => Passed(m) \in Masters BY <1>1 DEF Passed, Masters
<1>3. SameBut(m, Passed(m), {"orders"}) /\ Passed(m).orders = Tail(m.orders)
  BY DEF Passed, Masters, SameBut, Fields
<1>4. Rerun(m) \in Masters BY DEF Rerun, Masters, Systems
<1>5. /\ SameBut(m, Rerun(m), {"system", "pendingRun"})
      /\ Rerun(m).system = "RUN" /\ Rerun(m).pendingRun = FALSE
  BY DEF Rerun, Masters, SameBut, Fields
<1> QED BY <1>2, <1>3, <1>4, <1>5

\* A report of the belts, and the run it may confirm, leave the evidence.
LEMMA RunningEvidence ==
  ASSUME NEW m \in Masters, NEW F, Evidence(m, F), NEW R \in SUBSET Stations, NEW allRun,
         NEW available \in BOOLEAN
  PROVE  Evidence(Running(m, R, allRun, available), F)
<1> DEFINE Kept == {n \in Masters : Evidence(n, F)}
           k == Confirmed(m, R)
<1>1. \A n \in Kept, s \in Stations : Resumed(n, s) \in Kept BY ResumedTyped, ResumeEvidence
<1>2. ASSUME NEW n \in Kept, NEW ps \in Products \X Stations
      PROVE  ResumeOne(n, ps) \in Kept /\ StartOne(n, ps) \in Kept
  <2>1. ps[1] \in Products /\ ps[2] \in Stations OBVIOUS
  <2>2. ResumeOne(n, ps) \in Kept BY <1>1, <2>1 DEF ResumeOne
  <2>3. SameBut(n, [n EXCEPT !.lateStart = @ \ {ps}], {"lateStart"})
    BY DEF Masters, SameBut, Fields
  <2>4. Evidence([n EXCEPT !.lateStart = @ \ {ps}], F) BY <2>3, EvidenceFrame DEF EvidenceFields
  <2>5. StartOne(n, ps) \in Kept BY <2>1, <2>4, StartOneTyped, StartedEvidence DEF StartOne
  <2> QED BY <2>2, <2>5
<1>3. ASSUME NEW n \in Kept, NEW p \in Products PROVE Sent(n, p, available) \in Kept
  <2>1. CASE Sent(n, p, available) = Paused(n) BY <2>1, PausedTyped, StopEvidence
  <2>2. CASE SameBut(n, Sent(n, p, available), {"actuation"})
    BY <2>2, SentTyped, EvidenceFrame DEF EvidenceFields
  <2> QED BY <2>1, <2>2, SentEffect
<1>4. m \in Kept OBVIOUS
<1>5. Kept \in SUBSET Masters OBVIOUS
<1> HIDE DEF Kept
<1>6. k \in Kept BY <1>1, <1>4, <1>5, ConfirmedKeeps
<1> HIDE DEF k
<1>7. Rerun(k) \in Masters /\ Rerun(k) \in Kept
  BY <1>6, RunEffect, EvidenceFrame DEF EvidenceFields, Kept
<1>8. Deferred(Rerun(k), available) \in Kept BY <1>2, <1>3, <1>5, <1>7, DeferredKeeps
<1>9. Running(m, R, allRun, available) \in Kept BY <1>6, <1>8 DEF Running, Rerun, k
<1> QED BY <1>9 DEF Kept

\* What Vision says of a capture is kept with the station, and nothing that was said is lost.
LEMMA JudgedEvidence ==
  ASSUME NEW m \in Masters, NEW F \in SUBSET Frames, Evidence(m, F), NEW f \in F,
         NEW outcome \in {"PASS", "NG", "FAILED"}, NEW outOfMemory \in BOOLEAN,
         f.outcome \in {"none", outcome}
  PROVE  Evidence(Judged(m, f, outcome, outOfMemory),
                  IF Applicable(m, f) THEN (F \ {f}) \union {[f EXCEPT !.outcome = outcome]}
                  ELSE F)
<1> DEFINE p == f.product
           s == f.station
           e == [f EXCEPT !.outcome = outcome]
           H == (F \ {f}) \union {e}
           G == IF Applicable(m, f) THEN H ELSE F
           n == Noted(m, f, outcome)
           old == m.station[p][s]
           t == Terminal(old, outcome)
           told == IF s = "A" /\ outcome \in {"NG", "FAILED"} THEN CanceledB(n, p) ELSE n
<1>0. f \in Frames /\ p \in Products /\ s \in Stations BY DEF Frames
<1>1. e.product = p /\ e.station = s /\ e.capture = f.capture /\ e.outcome = outcome
  BY <1>0 DEF Frames
<1>2. \A q, u, c : \A o \in {"PASS", "NG"} : Said(F, q, u, c, o) => Said(H, q, u, c, o)
  <2> SUFFICES ASSUME NEW q, NEW u, NEW c, NEW o \in {"PASS", "NG"}, Said(F, q, u, c, o)
               PROVE  Said(H, q, u, c, o)
    OBVIOUS
  <2>1. PICK g \in F : g.product = q /\ g.station = u /\ g.capture = c /\ g.outcome = o
    BY DEF Said
  <2>2. CASE g # f
    <3>1. g \in H BY <2>2
    <3> HIDE DEF H
    <3> QED BY <2>1, <3>1 DEF Said
  <2>3. CASE g = f
    <3>1. e.product = q /\ e.station = u /\ e.capture = c /\ e.outcome = o BY <1>1, <2>1, <2>3
    <3>2. e \in H OBVIOUS
    <3> HIDE DEF H, e
    <3> QED BY <3>1, <3>2 DEF Said
  <2> QED BY <2>2, <2>3
<1>3. e \in H OBVIOUS
<1> HIDE DEF e, H
<1>4. Evidence(m, H) BY <1>2, MoreEvidence
<1>5. CASE Judged(m, f, outcome, outOfMemory) = m BY <1>4, <1>5 DEF H, e
<1>6. CASE /\ Applicable(m, f)
           /\ outcome # "FAILED" => old.decision = "none"
           /\ Judged(m, f, outcome, outOfMemory) = IF outOfMemory THEN Paused(told) ELSE told
  <2>1. f.capture # 0 /\ old.capture = f.capture /\ m.locked[p] = "none"
    BY <1>0, <1>6 DEF Applicable, Frames
  <2>2. /\ n \in Masters /\ SameBut(m, n, {"station"})
        /\ n.station = Put(m.station, p, s, t) /\ t \in StationType
        /\ t.process = old.process /\ t.capture = old.capture
        /\ t.failed = (old.failed \/ outcome = "FAILED")
        /\ t.decision = IF outcome = "FAILED" THEN old.decision ELSE outcome
    BY <1>0, NotedEffect
  <2>3. /\ StationSound(old, m.captures[p][s], H, p, s)
        /\ VerdictSound(m.station[p], m.locked[p], m.skip[p], m.settings.skipB)
    BY <1>0, <1>4 DEF Evidence, ProductSound
  <2>4. old.process # "PENDING" BY <2>1, <2>3 DEF StationSound, NewStation
  <2> HIDE DEF p, s, n, t, old
  <2>5. m.station \in Records /\ n.station[p][s] = t
        /\ \A u \in Stations \ {s} : n.station[p][u] = m.station[p][u]
    <3>1. m.station \in Records BY DEF Masters
    <3> QED BY <1>0, <2>2, <3>1, PutEffect
  <2>6. /\ n.settings = m.settings /\ n.captures = m.captures
        /\ n.locked = m.locked /\ n.skip = m.skip
    BY <2>2 DEF SameBut, Fields
  <2>7. Said(H, p, s, f.capture, outcome) BY <1>1, <1>3 DEF Said
  <2>8. StationSound(t, n.captures[p][s], H, p, s)
    BY <2>1, <2>2, <2>3, <2>4, <2>6, <2>7 DEF StationSound
  <2>9. RefusedAtA(m.station[p]["A"]) => RefusedAtA(n.station[p]["A"])
    <3>1. CASE s = "A" BY <1>6, <2>2, <2>5, <3>1 DEF RefusedAtA, old
    <3>2. CASE s # "A"
      <4>1. "A" \in Stations \ {s} BY <3>2 DEF Stations
      <4> QED BY <2>5, <4>1
    <3> QED BY <3>1, <3>2
  <2>10. VerdictSound(n.station[p], n.locked[p], n.skip[p], n.settings.skipB)
    BY <2>1, <2>3, <2>6, <2>9 DEF VerdictSound
  <2>11. Evidence(n, H) BY <1>0, <1>4, <2>2, <2>6, <2>8, <2>10, EvidenceUpdate
  <2>12. s = "A" /\ outcome \in {"NG", "FAILED"} => RefusedAtA(n.station[p]["A"])
    BY <2>2, <2>5 DEF RefusedAtA
  <2>13. told \in Masters /\ Evidence(told, H)
    BY <1>0, <2>2, <2>11, <2>12, CanceledBTyped, CanceledBEvidence DEF p, s
  <2> HIDE DEF told
  <2>14. Evidence(Judged(m, f, outcome, outOfMemory), H) BY <1>6, <2>13, StopEvidence
  <2> QED BY <1>6, <2>14 DEF H, e
<1> QED BY <1>0, <1>5, <1>6, JudgedCases DEF n, told, p, s, old

-----------------------------------------------------------------------------
(* Every step of the line leaves the evidence. *)

\* Nothing is known at the start.
LEMMA InitEvidence == Init => Evidence(master, frames)
<1> SUFFICES ASSUME Init PROVE Evidence(master, frames) OBVIOUS
<1>1. PICK settings \in Settings : master = InitialMaster(settings) BY DEF Init
<1>2. ASSUME NEW p \in Products
      PROVE  /\ \A s \in Stations : master.station[p][s] = NewStation /\ master.captures[p][s] = 0
             /\ master.locked[p] = "none" /\ master.skip[p] = FALSE
  BY <1>1 DEF InitialMaster
<1>3. \A p \in Products, s \in Stations : StationSound(NewStation, 0, frames, p, s)
  BY DEF StationSound, NewStation
<1> QED BY <1>2, <1>3 DEF Evidence, ProductSound, VerdictSound

\* The sensors, the end of a positioning and the next command.
LEMMA BeltEvidence ==
  ASSUME Typed, Evidence(master, frames), NEW s \in Stations, NEW available \in BOOLEAN,
         LineStep(s, available)
  PROVE  Evidence(master, frames)'
<1>1. master \in Masters BY DEF Typed
<1>2. frames' = frames BY DEF LineStep, Sensor1, Sensor2, Sensor3, Leave, Settled, Control
<1> SUFFICES Evidence(master', frames) BY <1>2
<1>3. CASE Sensor1
  <2>1. Oldest("before") \in Products BY <1>3, OldestThere DEF Sensor1, Typed
  <2> QED BY <1>1, <1>3, <2>1, EntryEvidence DEF Sensor1, Heard
<1>4. CASE Sensor2 BY <1>1, <1>4, EntryEvidence DEF Sensor2, Heard
<1>5. CASE Sensor3(available) BY <1>1, <1>5, EntryEvidence DEF Sensor3, Heard
<1>6. CASE Leave(s) BY <1>6 DEF Leave
<1>7. CASE Settled(s, available)
  <2> DEFINE p == master.cycle[s].product
             n == Asked(master, s)
             old == master.station[p][s]
             t == Requested(old)
  <2>1. ASSUME master.cycle[s] # None PROVE Evidence(n, frames)
    <3>1. p \in Products BY <1>1, <2>1, CycleTyped
    <3>2. old \in StationType /\ 0 \in Nat BY <1>1, <3>1 DEF Masters, Records
    <3>3. /\ n \in Masters /\ SameBut(master, n, {"station", "cycle"})
          /\ n.station = Put(master.station, p, s, t)
      BY <1>1, <2>1, AskedEffect
    <3>4. /\ t \in StationType /\ t.process # "PENDING" /\ t.capture = old.capture
          /\ t.decision = old.decision /\ t.failed = old.failed
      BY <3>2, RecordEffect
    <3> HIDE DEF n, t, p
    <3>5. /\ n.settings = master.settings /\ n.captures = master.captures
          /\ n.locked = master.locked /\ n.skip = master.skip
      BY <3>3 DEF SameBut, Fields
    <3> QED BY <1>1, <3>1, <3>3, <3>4, <3>5, EvidenceKept
  <2>2. Evidence(Recovering(master, s), frames) BY <1>1, RecoveringEvidence
  <2> QED BY <1>7, <2>1, <2>2 DEF Settled, Asked
<1>8. CASE Control(available)
  <2> DEFINE order == Head(master.orders)
             m     == Passed(master)
             runs  == IF order = "RESUME" THEN Stations ELSE {order}
             new   == {u \in runs : belt[u] # "running"}
  <2>1. master.orders # <<>> BY <1>8 DEF Control
  <2>2. order \in {"PAUSE", "RESUME"} \union Stations BY <1>1, <2>1 DEF Masters, OrderLists
  <2>3. m \in Masters /\ Evidence(m, frames)
    BY <1>1, <2>1, RunEffect, EvidenceFrame DEF EvidenceFields
  <2>4. CASE order = "PAUSE"
    <3>1. master' = Stopped(m) BY <1>8, <2>4 DEF Control, Passed
    <3> HIDE DEF m
    <3>2. SameBut(m, [m EXCEPT !.system = "PAUSED"], {"system"})
      BY <2>3 DEF Masters, SameBut, Fields
    <3>3. Evidence([m EXCEPT !.system = "PAUSED"], frames)
      BY <2>3, <3>2, EvidenceFrame DEF EvidenceFields
    <3> QED BY <2>3, <3>1, <3>3, StopEvidence DEF Stopped
  <2>5. CASE order # "PAUSE"
    <3>1. master' = Running(m, new, \A u \in Stations : belt'[u] = "running", available)
      BY <1>8, <2>5 DEF Control, Passed
    <3>2. new \in SUBSET Stations BY <2>2, <2>5
    <3> HIDE DEF m, new
    <3> QED BY <2>3, <3>1, <3>2, RunningEvidence
  <2> QED BY <2>4, <2>5
<1> QED BY <1>3, <1>4, <1>5, <1>6, <1>7, <1>8 DEF LineStep

\* Vision's answers.
LEMMA VisionEvidence ==
  ASSUME Typed, Evidence(master, frames),
         VisionStep
  PROVE  Evidence(master, frames)'
<1>1. master \in Masters /\ frames \in SUBSET Frames BY DEF Typed
<1>2. ASSUME NEW g \in goals, GoalAccepted(g) PROVE Evidence(master, frames)'
  <2> DEFINE n == [master EXCEPT !.cycle[g.station].phase = "WAITING_CAPTURE_RESULT"]
  <2>1. SameBut(master, n, {"cycle"}) BY <1>1 DEF Masters, SameBut, Fields
  <2> HIDE DEF n
  <2>2. Evidence(n, frames) BY <2>1, EvidenceFrame DEF EvidenceFields
  <2> QED BY <1>2, <2>2 DEF GoalAccepted, n
<1>3. ASSUME NEW g \in goals, GoalRefused(g) \/ CaptureResultLost(g)
      PROVE  Evidence(master, frames)'
  <2>1. g.station \in Stations BY CurrentTyped
  <2> QED BY <1>1, <1>3, <2>1, RecoveringEvidence DEF GoalRefused, CaptureResultLost
<1>4. ASSUME NEW g \in goals, Capture(g) PROVE Evidence(master, frames)'
  <2>1. frames \subseteq frames' /\ master' = master BY <1>4 DEF Capture
  <2>2. \A p, s, c : \A o \in {"PASS", "NG"} : Said(frames, p, s, c, o) => Said(frames', p, s, c, o)
    BY <2>1 DEF Said
  <2> QED BY <1>1, <2>1, <2>2, MoreEvidence
<1>5. ASSUME NEW g \in goals, CaptureResult(g) PROVE Evidence(master, frames)'
  <2> DEFINE s == g.station
             p == g.product
             m == Promoted(master, p, s)
  <2>1. p \in Products /\ s \in Stations BY CurrentTyped
  <2>2. ASSUME Current(g) PROVE master.cycle[s] # None BY <2>2, CurrentTyped
  <2> HIDE DEF p, s
  <2>3. m \in Masters /\ m.cycle = master.cycle /\ Evidence(m, frames)
    BY <1>1, <2>1, PromotedTyped, PromotedEvidence
  <2> HIDE DEF m
  <2>4. ASSUME Current(g)
        PROVE  /\ Evidence(Resuming(master, s), frames) /\ Evidence(Resuming(m, s), frames)
               /\ Evidence(CaptureFailed(master, s, g.stage = "diskFull"), frames)
    <3>1. (g.stage = "diskFull") \in BOOLEAN OBVIOUS
    <3> QED BY <1>1, <2>1, <2>2, <2>3, <2>4, <3>1, ResumeEvidence, CaptureFailedEvidence
  <2>5. frames' = frames /\ Evidence(master', frames) BY <1>5, <2>4 DEF CaptureResult, m, p, s
  <2> QED BY <2>5
<1>6. ASSUME NEW f \in frames, NEW outcome \in {"PASS", "NG", "FAILED"},
             NEW outOfMemory \in BOOLEAN, StationTerminal(f, outcome, outOfMemory)
      PROVE  Evidence(master, frames)'
  BY <1>1, <1>6, JudgedEvidence DEF StationTerminal
<1> QED BY <1>2, <1>3, <1>4, <1>5, <1>6 DEF VisionStep

\* remove_completed_prefix is about the FIFO and the actuations.
LEMMA WithoutCompletedEffect ==
  ASSUME NEW m \in Masters
  PROVE  SameBut(m, WithoutCompleted(m), {"fifo", "actuation"})
BY DEF WithoutCompleted, Masters, SameBut, Fields

\* Control's answers, the Master's deadlines and the operator.
LEMMA OtherEvidence ==
  ASSUME Typed, Evidence(master, frames), NEW p \in Products, NEW s \in Stations,
         OtherStep(p, s)
  PROVE  Evidence(master, frames)'
<1>1. master \in Masters BY DEF Typed
<1>2. frames' = frames
  BY DEF OtherStep, ActuationAccepted, ActuationRefused, ActuationTimeout,
         ActuationResult, CaptureTimeout, PositionTimeout, ResumeTimeout, OperatorPause, OperatorResume
<1> SUFFICES Evidence(master', frames) BY <1>2
<1>3. Evidence(Paused(master), frames) /\ Evidence(Faulted(master), frames)
  BY <1>1, StopEvidence
<1>4. CASE ActuationAccepted(p)
  <2> DEFINE n == [master EXCEPT !.state[p] = Actuating, !.actuation[p].phase = "waiting"]
  <2>1. SameBut(master, n, {"state", "actuation"}) BY <1>1 DEF Masters, SameBut, Fields
  <2>2. master' = master \/ master' = n BY <1>4 DEF ActuationAccepted
  <2> HIDE DEF n
  <2>3. Evidence(n, frames) BY <2>1, EvidenceFrame DEF EvidenceFields
  <2> QED BY <2>2, <2>3
<1>5. CASE ActuationRefused(p) BY <1>3, <1>5 DEF ActuationRefused
<1>6. CASE ActuationTimeout(p)
  <2> DEFINE a == Untimed(master.actuation, p)
             n == [master EXCEPT !.actuation = a]
  <2>1. a \in ActuationMaps BY <1>1, ActuationMarked DEF Masters
  <2>2. master' = Faulted(master) \/ master' = Paused(n) BY <1>6 DEF ActuationTimeout, Untimed
  <2> HIDE DEF a
  <2>3. n \in Masters /\ SameBut(master, n, {"actuation"})
    BY <1>1, <2>1 DEF Masters, SameBut, Fields
  <2> HIDE DEF n
  <2>4. Evidence(n, frames) BY <2>3, EvidenceFrame DEF EvidenceFields
  <2>5. Evidence(Paused(n), frames) BY <2>3, <2>4, StopEvidence
  <2> QED BY <1>3, <2>2, <2>5
<1>7. ASSUME NEW success \in BOOLEAN, ActuationResult(p, success)
      PROVE  Evidence(master', frames)
  <2> DEFINE a == Ended(master.actuation, p)
             n == [master EXCEPT !.state[p] = Done, !.actuation = a]
  <2>1. a \in ActuationMaps BY <1>1, ActuationMarked DEF Masters
  <2>2. master' = master \/ master' = Faulted(master) \/ master' = WithoutCompleted(n)
    BY <1>7 DEF ActuationResult, Ended
  <2> HIDE DEF a
  <2>3. Done \in Unseen .. Done BY DEF Unseen, Done
  <2>4. n \in Masters /\ SameBut(master, n, {"state", "actuation"})
    BY <1>1, <2>1, <2>3 DEF Masters, States, SameBut, Fields
  <2> HIDE DEF n
  <2>5. Evidence(n, frames) BY <2>4, EvidenceFrame DEF EvidenceFields
  <2>6. Evidence(WithoutCompleted(n), frames)
    BY <2>4, <2>5, WithoutCompletedEffect, EvidenceFrame DEF EvidenceFields
  <2> QED BY <1>3, <2>2, <2>6
<1>8. CASE CaptureTimeout(s) BY <1>1, <1>8, CaptureFailedEvidence DEF CaptureTimeout
<1>9. CASE PositionTimeout(s)
  <2> DEFINE k == [master.cycle EXCEPT ![s].timed = FALSE]
             n == [master EXCEPT !.cycle = k]
  <2>1. master.cycle[s] \in Cycles BY <1>1, <1>9, CycleTyped DEF PositionTimeout
  <2>2. k \in CycleMaps BY <1>1, <2>1 DEF Masters, CycleMaps, Cycles
  <2> HIDE DEF k
  <2>3. n \in Masters /\ SameBut(master, n, {"cycle"})
    BY <1>1, <2>2 DEF Masters, SameBut, Fields
  <2> HIDE DEF n
  <2>4. Evidence(Recovering(n, s), frames)
    BY <2>3, RecoveringEvidence, EvidenceFrame DEF EvidenceFields
  <2> QED BY <1>3, <1>9, <2>4 DEF PositionTimeout, n, k
<1>10. CASE ResumeTimeout(s)
  <2> DEFINE k == [master.cycle EXCEPT ![s].timed = FALSE]
             l == master.lateResume \union {<<master.cycle[s].product, s>>}
             n == [master EXCEPT !.cycle = k, !.lateResume = l]
  <2>1. master.cycle[s] \in Cycles BY <1>1, <1>10, CycleTyped DEF ResumeTimeout
  <2>2. k \in CycleMaps /\ l \in Pairs
    <3>1. k \in CycleMaps BY <1>1, <2>1 DEF Masters, CycleMaps, Cycles
    <3>2. l \in Pairs BY <1>1, <2>1 DEF Masters, Pairs, Cycles
    <3> QED BY <3>1, <3>2
  <2>3. master' = Paused(n) BY <1>10 DEF ResumeTimeout
  <2> HIDE DEF k, l
  <2>4. n \in Masters /\ SameBut(master, n, {"cycle", "lateResume"})
    BY <1>1, <2>2 DEF Masters, SameBut, Fields
  <2> HIDE DEF n
  <2> QED BY <2>3, <2>4, StopEvidence, EvidenceFrame DEF EvidenceFields
<1>11. CASE OperatorPause BY <1>3, <1>11 DEF OperatorPause
<1>12. CASE OperatorResume
  <2> DEFINE n == [master EXCEPT !.pendingRun = TRUE, !.orders = Append(@, "RESUME")]
  <2>1. SameBut(master, n, {"pendingRun", "orders"}) BY <1>1 DEF Masters, SameBut, Fields
  <2> HIDE DEF n
  <2>2. Evidence(n, frames) BY <2>1, EvidenceFrame DEF EvidenceFields
  <2> QED BY <1>12, <2>2 DEF OperatorResume, n
<1> QED BY <1>4, <1>5, <1>6, <1>7, <1>8, <1>9, <1>10, <1>11, <1>12 DEF OtherStep

\* Every step leaves it.
LEMMA NextEvidence ==
  ASSUME Typed, Evidence(master, frames), [Next]_vars
  PROVE  Evidence(master, frames)'
<1>1. CASE UNCHANGED vars BY <1>1 DEF vars
<1> QED BY <1>1, StepKinds, BeltEvidence, VisionEvidence, OtherEvidence

\* A verdict of PASS rests on a PASS that Vision gave of the counted capture at both
\* stations, a verdict of NG on an NG of one.
LEMMA EvidenceIsEnough ==
  ASSUME Typed, Evidence(master, frames)
  PROVE  VerdictHasEvidence
<1>1. ASSUME NEW p \in Products, NEW s \in Stations, NEW outcome \in {"PASS", "NG"},
             master.station[p][s].decision = outcome
      PROVE  \E f \in frames : /\ f.product = p /\ f.station = s
                               /\ f.capture = master.captures[p][s] /\ f.outcome = outcome
  BY <1>1 DEF Evidence, ProductSound, StationSound, Said
<1>2. \A p \in Products : VerdictSound(master.station[p], master.locked[p], master.skip[p],
                                       master.settings.skipB)
  BY DEF Evidence, ProductSound
<1> QED BY <1>1, <1>2 DEF VerdictHasEvidence, VerdictSound

\* A definite verdict has its evidence, for any number of products, whatever is lost, late,
\* canceled or refused: what the Master keeps of a station is what Vision said of the
\* capture that counts, and a capture that is started again starts with nothing.
THEOREM VerdictEvidence == Spec => []VerdictHasEvidence
<1> DEFINE Inv == Typed /\ Evidence(master, frames)
<1>1. Init => Inv BY InitTyped, InitEvidence
<1>2. Inv /\ [Next]_vars => Inv' BY NextTyped, NextEvidence
<1>3. Inv => VerdictHasEvidence BY EvidenceIsEnough
<1> QED BY <1>1, <1>2, <1>3, PTL DEF Spec

-----------------------------------------------------------------------------
(* The ledger follows the line. *)

\* The ranks of the places.
LEMMA Ranks ==
  /\ Rank["before"] = 0 /\ Rank["A"] = 1 /\ Rank["toB"] = 2 /\ Rank["B"] = 3
  /\ Rank["toC"] = 4 /\ Rank["past"] = 5
  /\ \A place \in Places : Rank[place] \in 0 .. 5
  /\ \A place, other \in Places : Rank[place] = Rank[other] => place = other
BY DEF Rank, Places

\* The oldest product of a place goes on to the next.
LEMMA PositionsMove ==
  ASSUME NEW P \in [Products -> Places], Positions(P), NEW p \in Products, NEW place \in Places,
         Rank[place] = Rank[P[p]] + 1,
         \A q \in Products : q < p => P[q] # P[p],
         place \in {"A", "B"} => \A q \in Products : P[q] # place
  PROVE  Positions([P EXCEPT ![p] = place])
<1> DEFINE N == [P EXCEPT ![p] = place]
<1>1. N[p] = place /\ \A q \in Products : q # p => N[q] = P[q] OBVIOUS
<1> HIDE DEF N
<1>2. \A q \in Products : q \in Nat BY LineAssumption DEF Products
<1>3. \A q \in Products : Rank[P[q]] \in 0 .. 5 BY Ranks
<1>4. Rank[place] \in 0 .. 5 BY Ranks
<1>5. ASSUME NEW q \in Products, q < p PROVE Rank[N[q]] >= Rank[N[p]]
  <2>1. Rank[P[q]] >= Rank[P[p]] /\ P[q] # P[p] BY <1>2, <1>5 DEF Positions
  <2>2. Rank[P[q]] # Rank[P[p]] BY <2>1, Ranks
  <2> QED BY <1>1, <1>2, <1>3, <1>4, <1>5, <2>1, <2>2
<1>6. ASSUME NEW q \in Products, p < q PROVE Rank[N[p]] >= Rank[N[q]]
  <2>1. Rank[P[p]] >= Rank[P[q]] BY <1>2, <1>6 DEF Positions
  <2> QED BY <1>1, <1>2, <1>3, <1>4, <1>6, <2>1
<1>7. ASSUME NEW q \in Products, NEW r \in Products, q # p, r # p, q < r
      PROVE  Rank[N[q]] >= Rank[N[r]]
  BY <1>1, <1>2, <1>7 DEF Positions
<1>8. ASSUME NEW q \in Products, NEW r \in Products, q # r, N[q] = N[r]
      PROVE  N[q] \notin {"A", "B"}
  BY <1>1, <1>8 DEF Positions
<1>9. Positions(N) BY <1>5, <1>6, <1>7, <1>8 DEF Positions
<1> QED BY <1>9 DEF N

\* The values of the states.
LEMMA StateValues ==
  /\ Unseen = 0 /\ AtSensor3 = 7 /\ Actuating = 8 /\ Done = 9
  /\ Waiting["A"] = 1 /\ Captured["A"] = 2 /\ Onward["A"] = 3 /\ Flipping = 3
  /\ Waiting["B"] = 4 /\ Captured["B"] = 5 /\ Onward["B"] = 6 /\ Sensor3Wait = 6
  /\ Stations = {"A", "B"} /\ "A" # "B"
BY DEF Unseen, AtSensor3, Actuating, Done, Waiting, Captured, Onward, Flipping, Sensor3Wait,
     Stations

\* Nothing that the tracking is about changes.
LEMMA TrackedFrame ==
  ASSUME NEW m, NEW n, NEW P, NEW B, Tracked(m, P, B), NEW changed, SameBut(m, n, changed),
         changed \cap {"system", "pendingRun", "orders", "fifo", "state", "cycle", "actuation"}
            = {}
  PROVE  Tracked(n, P, B)
<1>1. /\ n.system = m.system /\ n.pendingRun = m.pendingRun /\ n.orders = m.orders
      /\ n.fifo = m.fifo /\ n.state = m.state /\ n.cycle = m.cycle
      /\ n.actuation = m.actuation
  BY DEF SameBut, Fields
<1> QED BY <1>1 DEF Tracked, Commands, Ledger, Follows, Queued, Cycled, Acting, InQueue

\* A product stays between two sensors, and cycles stay with their stations.
LEMMA TrackedMove ==
  ASSUME NEW m \in Masters, NEW n, NEW P, NEW B, Tracked(m, P, B),
         NEW p \in Products, NEW b \in 1 .. 6,
         m.system # "FAULT" => m.state[p] \in 1 .. 6 /\ (m.state[p] >= 4 <=> b >= 4),
         SameBut(m, n, {"station", "state", "cycle", "lateStart", "lateResume", "skip",
                        "captures"}),
         n.state = [m.state EXCEPT ![p] = b],
         m.system # "FAULT" => Cycled(n)
  PROVE  Tracked(n, P, B)
<1>1. /\ n.system = m.system /\ n.pendingRun = m.pendingRun /\ n.orders = m.orders
      /\ n.fifo = m.fifo /\ n.actuation = m.actuation
  BY DEF SameBut, Fields
<1>2. Commands(n, B) BY <1>1 DEF Tracked, Commands
<1>3. ASSUME m.system # "FAULT" PROVE Ledger(n, P)
  <2>1. Ledger(m, P) /\ m.state[p] \in 1 .. 6 /\ (m.state[p] >= 4 <=> b >= 4)
    BY <1>3 DEF Tracked
  <2>2. m.state \in [Products -> 0 .. 9] BY StateValues DEF Masters, States
  <2>3. n.state[p] = b /\ \A q \in Products : q # p => n.state[q] = m.state[q] BY <2>2
  <2>4. Follows(n, P) BY <2>1, <2>2, <2>3, StateValues DEF Ledger, Follows
  <2>5. Queued(n)
    <3>1. m.fifo \in Seq(Products) BY DEF Masters, Fifos
    <3>2. \A i \in DOMAIN m.fifo : n.state[m.fifo[i]] # 0
      BY <2>1, <2>3, <3>1, StateValues DEF Ledger, Queued
    <3>3. \A q \in Products : n.state[q] \in 1 .. 8 => InQueue(m, q)
      BY <2>1, <2>3 DEF Ledger, Queued
    <3>4. \A q : InQueue(n, q) <=> InQueue(m, q) BY <1>1 DEF InQueue
    <3> QED BY <1>1, <2>1, <3>2, <3>3, <3>4, StateValues DEF Ledger, Queued
  <2>6. Acting(n)
    <3>1. \A q : InQueue(n, q) <=> InQueue(m, q) BY <1>1 DEF InQueue
    <3>2. m.actuation[p].phase = "none" BY <2>1, StateValues DEF Ledger, Acting
    <3> QED BY <1>1, <2>1, <2>3, <3>1, <3>2 DEF Ledger, Acting
  <2> QED BY <1>3, <2>4, <2>5, <2>6 DEF Ledger
<1> QED BY <1>1, <1>2, <1>3 DEF Tracked

\* The commands are about three fields.
LEMMA CommandsFrame ==
  ASSUME NEW m, NEW n, NEW B, Commands(m, B),
         n.system = m.system, n.pendingRun = m.pendingRun, n.orders = m.orders
  PROVE  Commands(n, B)
BY DEF Commands

\* Cycles begin, go on and end.
LEMMA TrackedCycles ==
  ASSUME NEW m \in Masters, NEW n, NEW P, NEW B, Tracked(m, P, B),
         SameBut(m, n, {"station", "cycle", "lateStart", "lateResume", "skip", "captures",
                        "orders"}),
         Commands(n, B), m.system # "FAULT" => Cycled(n)
  PROVE  Tracked(n, P, B)
<1>1. /\ n.system = m.system /\ n.pendingRun = m.pendingRun
      /\ n.fifo = m.fifo /\ n.actuation = m.actuation /\ n.state = m.state
  BY DEF SameBut, Fields
<1> QED BY <1>1 DEF Tracked, Ledger, Follows, Queued, Acting, InQueue

\* More may change than does.
LEMMA SameButMore ==
  ASSUME NEW m, NEW n, NEW c, NEW d, SameBut(m, n, c), c \subseteq d
  PROVE  SameBut(m, n, d)
BY DEF SameBut

\* A cycle whose product stays at its station.
LEMMA CycledAtStation ==
  ASSUME NEW m \in Masters, Cycled(m), NEW n, NEW s \in Stations, m.cycle[s] # None,
         NEW b \in {Waiting[s], Captured[s]},
         n.state = [m.state EXCEPT ![m.cycle[s].product] = b],
         \A u \in Stations : \/ n.cycle[u] = m.cycle[u]
                             \/ u = s /\ n.cycle[s].product = m.cycle[s].product
  PROVE  Cycled(n)
<1> DEFINE p == m.cycle[s].product
<1>1. p \in Products BY CycleTyped
<1>2. m.state[p] \in {Waiting[s], Captured[s]} BY DEF Cycled
<1>3. n.state[p] = b /\ \A q \in Products : q # p => n.state[q] = m.state[q]
  BY <1>1 DEF Masters, States
<1>4. ASSUME NEW u \in Stations, n.cycle[u] # None
      PROVE  n.state[n.cycle[u].product] \in {Waiting[u], Captured[u]}
  <2>1. CASE u = s BY <1>3, <2>1
  <2>2. CASE u # s
    <3>1. n.cycle[u] = m.cycle[u] BY <2>2
    <3> DEFINE q == m.cycle[u].product
    <3>2. q \in Products /\ m.state[q] \in {Waiting[u], Captured[u]}
      BY <1>4, <3>1, CycleTyped DEF Cycled
    <3>3. q # p BY <1>2, <2>2, <3>2, StateValues
    <3> HIDE DEF p
    <3> QED BY <1>3, <3>1, <3>2, <3>3
  <2> QED BY <2>1, <2>2
<1> QED BY <1>4 DEF Cycled

\* A fault or a pause: the PAUSE becomes the last command.
LEMMA StopTracked ==
  ASSUME NEW m \in Masters, NEW P, NEW B
  PROVE  /\ Tracked(Faulted(m), P, B)
         /\ Tracked(m, P, B) => Tracked(Paused(m), P, B)
<1>1. Tracked(Faulted(m), P, B) BY FaultedEffect DEF Tracked, Commands
<1>2. ASSUME Tracked(m, P, B) PROVE Tracked(Paused(m), P, B)
  <2> DEFINE n == Paused(m)
  <2>1. CASE m.system = "RUN"
    <3>1. /\ SameBut(m, n, {"system", "pendingRun", "orders"})
          /\ n.system = "PAUSING" /\ n.pendingRun = FALSE /\ n.orders = Append(m.orders, "PAUSE")
      BY <2>1, PausedEffect
    <3> HIDE DEF n
    <3>2. /\ n.fifo = m.fifo /\ n.state = m.state /\ n.cycle = m.cycle
          /\ n.actuation = m.actuation
      BY <3>1 DEF SameBut, Fields
    <3>3. Ledger(n, P) BY <1>2, <2>1, <3>2
         DEF Tracked, Ledger, Follows, Queued, Cycled, Acting, InQueue
    <3>4. m.orders \in Seq(Stations) BY <1>2, <2>1 DEF Tracked, Commands
    <3>5. Commands(n, B) BY <3>1, <3>4 DEF Commands
    <3>6. Tracked(n, P, B) BY <3>3, <3>5 DEF Tracked
    <3> QED BY <3>6 DEF n
  <2>2. CASE m.system # "RUN" BY <1>2, <2>2, PausedEffect
  <2> QED BY <2>1, <2>2
<1> QED BY <1>1, <1>2

\* bypass_station_b, of a product that has no cycle at B
LEMMA BypassedTracked ==
  ASSUME NEW m \in Masters, NEW P, NEW B, Tracked(m, P, B), NEW p \in Products,
         m.cycle["B"].product # p
  PROVE  Tracked(Bypassed(m, p), P, B)
<1> DEFINE n == Bypassed(m, p)
<1>1. CASE n = m BY <1>1
<1>2. CASE n # m
  <2>1. /\ m.state[p] = Waiting["B"] /\ SameBut(m, n, {"skip", "station", "state"})
        /\ n.state = [m.state EXCEPT ![p] = Sensor3Wait]
    BY <1>2, BypassedEffect
  <2> HIDE DEF n
  <2>2. n.cycle = m.cycle BY <2>1 DEF SameBut, Fields
  <2>3. ASSUME m.system # "FAULT" PROVE Cycled(n)
    <3>1. Cycled(m) BY <2>3 DEF Tracked, Ledger
    <3>2. ASSUME NEW u \in Stations, m.cycle[u] # None
          PROVE  n.state[m.cycle[u].product] \in {Waiting[u], Captured[u]}
      <4> DEFINE q == m.cycle[u].product
      <4>1. q \in Products /\ m.state[q] \in {Waiting[u], Captured[u]}
        BY <3>1, <3>2, CycleTyped DEF Cycled
      <4>2. q # p BY <2>1, <4>1, StateValues
      <4> HIDE DEF q
      <4>3. n.state[q] = m.state[q] BY <2>1, <4>1, <4>2 DEF Masters, States
      <4> QED BY <4>1, <4>3 DEF q
    <3> QED BY <2>2, <3>2 DEF Cycled
  <2>4. Sensor3Wait \in 1 .. 6 /\ m.state[p] \in 1 .. 6 /\ (m.state[p] >= 4 <=> Sensor3Wait >= 4)
    BY <2>1, StateValues
  <2>5. SameBut(m, n, {"station", "state", "cycle", "lateStart", "lateResume", "skip", "captures"})
    BY <2>1, SameButMore
  <2>6. Tracked(n, P, B) BY <2>1, <2>3, <2>4, <2>5, TrackedMove
  <2> QED BY <2>6 DEF n
<1> QED BY <1>1, <1>2

\* begin_station_cycle
LEMMA BegunTracked ==
  ASSUME NEW m \in Masters, NEW P, NEW B, Tracked(m, P, B), NEW p \in Products,
         NEW s \in Stations, m.state[p] = Waiting[s]
  PROVE  Tracked(Begun(m, p, s), P, B)
<1> DEFINE n == Begun(m, p, s)
           c == NewCycle(m, p, s)
<1>1. /\ SameBut(m, n, {"captures", "station", "cycle", "lateStart"})
      /\ n.cycle = [m.cycle EXCEPT ![s] = c]
  BY BegunEffect
<1>2. c.product = p BY DEF NewCycle
<1> HIDE DEF n, c
<1>3. /\ n.system = m.system /\ n.pendingRun = m.pendingRun /\ n.orders = m.orders
      /\ n.state = m.state
  BY <1>1 DEF SameBut, Fields
<1>4. Commands(n, B) BY <1>3, CommandsFrame DEF Tracked
<1>5. n.cycle[s] = c /\ \A u \in Stations : u # s => n.cycle[u] = m.cycle[u]
  BY <1>1 DEF Masters, CycleMaps
<1>6. m.system # "FAULT" => Cycled(n) BY <1>2, <1>3, <1>5 DEF Tracked, Ledger, Cycled
<1>7. SameBut(m, n, {"station", "cycle", "lateStart", "lateResume", "skip", "captures",
                     "orders"})
  BY <1>1, SameButMore
<1>8. Tracked(n, P, B) BY <1>4, <1>6, <1>7, TrackedCycles
<1> QED BY <1>8 DEF n

\* _start_station_cycle
LEMMA StartedTracked ==
  ASSUME NEW m \in Masters, NEW P, NEW B, Tracked(m, P, B), NEW p \in Products,
         NEW s \in Stations
  PROVE  Tracked(Started(m, p, s), P, B)
<1>1. Tracked([m EXCEPT !.lateStart = @ \union {<<p, s>>}], P, B)
  <2>1. SameBut(m, [m EXCEPT !.lateStart = @ \union {<<p, s>>}], {"lateStart"})
    BY DEF Masters, SameBut, Fields
  <2> QED BY <2>1, TrackedFrame
<1>2. s = "B" /\ m.cycle[s] = None => m.cycle["B"].product # p
  BY LineAssumption DEF None, Products
<1> QED BY <1>1, <1>2, StopTracked, BypassedTracked, BegunTracked DEF Started

\* _resume_conveyor_after_capture: the RESUME goes out in RUN_SYS only.
LEMMA ResumingTracked ==
  ASSUME NEW m \in Masters, NEW P, NEW B, Tracked(m, P, B), NEW s \in Stations,
         m.cycle[s] # None
  PROVE  Tracked(Resuming(m, s), P, B)
<1> DEFINE n == Resuming(m, s)
<1>1. /\ SameBut(m, n, {"cycle", "orders", "lateResume"})
      /\ n.cycle[s].product = m.cycle[s].product
      /\ n.orders = IF m.system = "RUN" THEN Append(m.orders, s) ELSE m.orders
  BY ResumingEffect
<1>2. \A u \in Stations : u # s => n.cycle[u] = m.cycle[u] BY ResumingTyped
<1> HIDE DEF n
<1>3. n.system = m.system /\ n.pendingRun = m.pendingRun /\ n.state = m.state
  BY <1>1 DEF SameBut, Fields
<1>4. Commands(n, B)
  <2>1. CASE m.system = "RUN"
    <3>1. m.orders \in Seq(Stations) /\ m.pendingRun = FALSE BY <2>1 DEF Tracked, Commands
    <3>2. n.orders \in Seq(Stations) BY <1>1, <2>1, <3>1
    <3> QED BY <1>3, <2>1, <3>1, <3>2 DEF Commands
  <2>2. CASE m.system # "RUN" BY <1>1, <1>3, <2>2, CommandsFrame DEF Tracked
  <2> QED BY <2>1, <2>2
<1>5. m.system # "FAULT" => Cycled(n) BY <1>1, <1>2, <1>3 DEF Tracked, Ledger, Cycled
<1>6. SameBut(m, n, {"station", "cycle", "lateStart", "lateResume", "skip", "captures",
                     "orders"})
  BY <1>1, SameButMore
<1>7. Tracked(n, P, B) BY <1>4, <1>5, <1>6, TrackedCycles
<1> QED BY <1>7 DEF n

\* A resume ends the cycle of a product that has been at its station.
LEMMA ResumeEnds ==
  ASSUME NEW m \in Masters, NEW n, NEW P, NEW B, Tracked(m, P, B), NEW s \in Stations,
         m.system # "FAULT", m.cycle[s] # None, NEW p, p = m.cycle[s].product,
         m.state[p] = Captured[s],
         SameBut(m, n, {"state", "cycle", "lateResume"}),
         n.state = [m.state EXCEPT ![p] = Onward[s]],
         n.cycle = [m.cycle EXCEPT ![s] = None]
  PROVE  Tracked(n, P, B)
<1>1. p \in Products BY CycleTyped
<1>2. /\ Onward[s] \in 1 .. 6 /\ m.state[p] \in 1 .. 6
      /\ (m.state[p] >= 4 <=> Onward[s] >= 4)
  BY StateValues
<1>3. Cycled(n)
  <2>1. Cycled(m) BY DEF Tracked, Ledger
  <2>2. n.cycle[s] = None /\ \A u \in Stations : u # s => n.cycle[u] = m.cycle[u]
    BY DEF Masters, CycleMaps
  <2>3. ASSUME NEW u \in Stations, n.cycle[u] # None
        PROVE  n.state[n.cycle[u].product] \in {Waiting[u], Captured[u]}
    <3> DEFINE q == m.cycle[u].product
    <3>1. u # s /\ n.cycle[u] = m.cycle[u] BY <2>2, <2>3
    <3>2. q \in Products /\ m.state[q] \in {Waiting[u], Captured[u]}
      BY <2>1, <2>3, <3>1, CycleTyped DEF Cycled
    <3>3. q # p BY <3>1, <3>2, StateValues
    <3> HIDE DEF q
    <3>4. n.state[q] = m.state[q] BY <1>1, <3>2, <3>3 DEF Masters, States
    <3> QED BY <3>1, <3>2, <3>4 DEF q
  <2> QED BY <2>3 DEF Cycled
<1>4. SameBut(m, n, {"station", "state", "cycle", "lateStart", "lateResume", "skip", "captures"})
  BY SameButMore
<1> QED BY <1>1, <1>2, <1>3, <1>4, TrackedMove

\* confirm_conveyor_resumed
LEMMA ResumedTracked ==
  ASSUME NEW m \in Masters, NEW P, NEW B, Tracked(m, P, B), NEW s \in Stations
  PROVE  Tracked(Resumed(m, s), P, B)
<1> DEFINE n == Resumed(m, s)
           p == m.cycle[s].product
<1>1. CASE n = m BY <1>1
<1>2. CASE n = Faulted(m) BY <1>2, StopTracked
<1>3. CASE /\ m.system # "FAULT" /\ m.cycle[s] # None /\ m.state[p] = Captured[s]
           /\ SameBut(m, n, {"state", "cycle", "lateResume"})
           /\ n.state = [m.state EXCEPT ![p] = Onward[s]]
           /\ n.cycle = [m.cycle EXCEPT ![s] = None]
  <2>1. p = m.cycle[s].product OBVIOUS
  <2> HIDE DEF n, p
  <2>2. Tracked(n, P, B) BY <1>3, <2>1, ResumeEnds
  <2> QED BY <2>2 DEF n
<1> QED BY <1>1, <1>2, <1>3, ResumedEffect

\* A product that is at a camera is photographed, or given up, there.
LEMMA AtStationTracked ==
  ASSUME NEW m \in Masters, NEW n, NEW P, NEW B, Tracked(m, P, B), NEW s \in Stations,
         m.cycle[s] # None,
         SameBut(m, n, {"station", "state", "cycle", "lateStart", "lateResume", "skip",
                        "captures"}),
         n.state = [m.state EXCEPT ![m.cycle[s].product] = Captured[s]],
         SameProducts(m, n, s)
  PROVE  Tracked(n, P, B)
<1> DEFINE p == m.cycle[s].product
<1>1. p \in Products BY CycleTyped
<1>2. m.system # "FAULT" => Cycled(m) /\ m.state[p] \in {Waiting[s], Captured[s]}
  BY DEF Tracked, Ledger, Cycled
<1>3. m.system # "FAULT" => Cycled(n) BY <1>2, CycledAtStation DEF SameProducts
<1> HIDE DEF p
<1>4. Captured[s] \in 1 .. 6 BY StateValues
<1>5. m.system # "FAULT" => m.state[p] \in 1 .. 6 /\ (m.state[p] >= 4 <=> Captured[s] >= 4)
  BY <1>2, StateValues
<1>6. n.state = [m.state EXCEPT ![p] = Captured[s]] BY DEF p
<1> DEFINE b == Captured[s]
<1>7. b \in 1 .. 6 /\ n.state = [m.state EXCEPT ![p] = b] BY <1>4, <1>6
<1>8. m.system # "FAULT" => m.state[p] \in 1 .. 6 /\ (m.state[p] >= 4 <=> b >= 4) BY <1>5
<1> HIDE DEF b
<1> QED BY <1>1, <1>3, <1>7, <1>8, TrackedMove

\* mark_capture_succeeded and promote_capture_completion_from_vision
LEMMA PromotedTracked ==
  ASSUME NEW m \in Masters, NEW P, NEW B, Tracked(m, P, B), NEW p \in Products,
         NEW s \in Stations, m.cycle[s].product = p
  PROVE  Tracked(Promoted(m, p, s), P, B)
<1> DEFINE n == Promoted(m, p, s)
<1>1. SameBut(m, n, {"station", "state"}) /\ n.state = [m.state EXCEPT ![p] = Captured[s]]
  BY PromotedEffect
<1> HIDE DEF n
<1>2. m.cycle[s] # None BY CycleTyped
<1>3. n.cycle = m.cycle BY <1>1 DEF SameBut, Fields
<1>4. SameBut(m, n, {"station", "state", "cycle", "lateStart", "lateResume", "skip", "captures"})
  BY <1>1, SameButMore
<1>5. Tracked(n, P, B) BY <1>1, <1>2, <1>3, <1>4, AtStationTracked DEF SameProducts
<1> QED BY <1>5 DEF n

\* _pause_station_for_recovery
LEMMA RecoveringTracked ==
  ASSUME NEW m \in Masters, NEW P, NEW B, Tracked(m, P, B), NEW s \in Stations
  PROVE  Tracked(Recovering(m, s), P, B)
<1>1. CASE m.cycle[s] = None BY <1>1, RecoveringCases, StopTracked, FaultedTyped
<1>2. CASE m.cycle[s] # None
  <2>1. HandedOver(m, s) \in Masters /\ Tracked(HandedOver(m, s), P, B)
    <3> DEFINE n == HandedOver(m, s)
    <3>1. /\ n \in Masters /\ SameBut(m, n, {"station", "state", "cycle", "lateResume"})
          /\ n.state = [m.state EXCEPT ![m.cycle[s].product] = Captured[s]]
          /\ n.cycle[s].product = m.cycle[s].product
          /\ \A u \in Stations \ {s} : n.cycle[u] = m.cycle[u]
      BY <1>2, HandedOverEffect
    <3> HIDE DEF n
    <3>2. SameBut(m, n, {"station", "state", "cycle", "lateStart", "lateResume", "skip",
                         "captures"})
      BY <3>1, SameButMore
    <3>3. Tracked(n, P, B) BY <1>2, <3>1, <3>2, AtStationTracked DEF SameProducts
    <3> QED BY <3>1, <3>3 DEF n
  <2>2. Reset(m, s) \in Masters /\ Tracked(Reset(m, s), P, B)
    <3> DEFINE n == Reset(m, s)
    <3>1. /\ n \in Masters /\ SameBut(m, n, {"station", "cycle", "lateStart"})
          /\ n.cycle = [m.cycle EXCEPT ![s] = None]
      BY <1>2, ResetEffect
    <3> HIDE DEF n
    <3>2. /\ n.system = m.system /\ n.pendingRun = m.pendingRun /\ n.orders = m.orders
          /\ n.state = m.state
      BY <3>1 DEF SameBut, Fields
    <3>3. n.cycle[s] = None /\ \A u \in Stations : u # s => n.cycle[u] = m.cycle[u]
      BY <3>1 DEF Masters, CycleMaps
    <3>4. m.system # "FAULT" => Cycled(n) BY <3>2, <3>3 DEF Tracked, Ledger, Cycled
    <3>5. Commands(n, B) BY <3>2, CommandsFrame DEF Tracked
    <3>6. SameBut(m, n, {"station", "cycle", "lateStart", "lateResume", "skip", "captures",
                         "orders"})
      BY <3>1, SameButMore
    <3>7. Tracked(n, P, B) BY <3>4, <3>5, <3>6, TrackedCycles
    <3> QED BY <3>1, <3>7 DEF n
  <2> QED BY <2>1, <2>2, RecoveringCases, StopTracked, FaultedTyped
<1> QED BY <1>1, <1>2

\* _cancel_station_b_after_a_terminal
LEMMA CanceledBTracked ==
  ASSUME NEW m \in Masters, NEW P, NEW B, Tracked(m, P, B), NEW p \in Products
  PROVE  Tracked(CanceledB(m, p), P, B)
<1> DEFINE q == SkipAsked(m, p)
<1>1. q \in Masters /\ SameBut(m, q, {"skip"}) BY SkipAskedEffect
<1> HIDE DEF q
<1>2. Tracked(q, P, B) BY <1>1, TrackedFrame
<1>3. "B" \in Stations BY DEF Stations
<1>4. ASSUME q.cycle["B"].product = p
      PROVE  /\ SkippedAtB(q, p) \in Masters /\ Tracked(SkippedAtB(q, p), P, B)
             /\ SkippedAtB(q, p).cycle["B"] # None
  <2> DEFINE n == SkippedAtB(q, p)
  <2>1. /\ n \in Masters /\ SameBut(q, n, {"station", "state"})
        /\ n.state = [q.state EXCEPT ![p] = Captured["B"]]
    BY <1>1, SkippedAtBEffect
  <2> HIDE DEF n
  <2>2. q.cycle["B"] # None BY <1>1, <1>3, <1>4, CycleTyped
  <2>3. n.cycle = q.cycle BY <2>1 DEF SameBut, Fields
  <2>4. SameBut(q, n, {"station", "state", "cycle", "lateStart", "lateResume", "skip",
                       "captures"})
    BY <2>1, SameButMore
  <2>5. Tracked(n, P, B) BY <1>1, <1>2, <1>3, <1>4, <2>1, <2>2, <2>3, <2>4, AtStationTracked DEF SameProducts
  <2> QED BY <2>1, <2>2, <2>3, <2>5 DEF n
<1>5. ASSUME q.cycle["B"].product = p
      PROVE  /\ Promoted(q, p, "B") \in Masters /\ Tracked(Promoted(q, p, "B"), P, B)
             /\ Promoted(q, p, "B").cycle["B"] # None
  BY <1>1, <1>2, <1>3, <1>5, CycleTyped, PromotedTyped, PromotedTracked
<1>6. q.cycle["B"].product # p => Tracked(Bypassed(q, p), P, B) BY <1>1, <1>2, BypassedTracked
<1>7. \/ CanceledB(m, p) = m
      \/ q.cycle["B"].product = p /\ CanceledB(m, p) = Resuming(SkippedAtB(q, p), "B")
      \/ q.cycle["B"].product = p /\ CanceledB(m, p) = Resuming(Promoted(q, p, "B"), "B")
      \/ CanceledB(m, p) = q
      \/ q.cycle["B"].product # p /\ CanceledB(m, p) = Bypassed(q, p)
  BY CanceledBCases DEF q
<1>8. CASE q.cycle["B"].product = p /\ CanceledB(m, p) = Resuming(SkippedAtB(q, p), "B")
  BY <1>3, <1>4, <1>8, ResumingTracked
<1>9. CASE q.cycle["B"].product = p /\ CanceledB(m, p) = Resuming(Promoted(q, p, "B"), "B")
  BY <1>3, <1>5, <1>9, ResumingTracked
<1> QED BY <1>2, <1>6, <1>7, <1>8, <1>9

\* _finish_capture_failure
LEMMA CaptureFailedTracked ==
  ASSUME NEW m \in Masters, NEW P, NEW B, Tracked(m, P, B), NEW s \in Stations,
         NEW diskFull \in BOOLEAN, m.cycle[s] # None
  PROVE  Tracked(CaptureFailed(m, s, diskFull), P, B)
<1> DEFINE p == m.cycle[s].product
           n == FailedAt(m, s)
           told == IF s = "A" THEN CanceledB(n, p) ELSE n
           paused == IF diskFull THEN Paused(told) ELSE told
<1>1. p \in Products BY CycleTyped
<1>2. /\ n \in Masters /\ SameBut(m, n, {"station", "state"})
      /\ n.state = [m.state EXCEPT ![p] = Captured[s]]
  BY FailedAtEffect
<1> HIDE DEF n
<1>3. n.cycle = m.cycle BY <1>2 DEF SameBut, Fields
<1>4. SameBut(m, n, {"station", "state", "cycle", "lateStart", "lateResume", "skip", "captures"})
  BY <1>2, SameButMore
<1>5. Tracked(n, P, B) BY <1>2, <1>3, <1>4, AtStationTracked DEF SameProducts
<1> HIDE DEF p
<1>6. told \in Masters /\ Tracked(told, P, B) /\ told.cycle[s] # None
  BY <1>1, <1>2, <1>3, <1>5, CanceledBTyped, CanceledBTracked
<1> HIDE DEF told
<1>7. Paused(told).cycle = told.cycle
  <2>1. SameBut(told, Paused(told), {"system", "pendingRun", "orders"}) \/ Paused(told) = told
    BY <1>6, PausedEffect
  <2> QED BY <2>1 DEF SameBut, Fields
<1>8. paused \in Masters /\ Tracked(paused, P, B) /\ paused.cycle[s] # None
  BY <1>6, <1>7, PausedTyped, StopTracked
<1> HIDE DEF paused
<1>9. Tracked(Resuming(paused, s), P, B) BY <1>8, ResumingTracked
<1>10. CaptureFailed(m, s, diskFull) = Resuming(paused, s)
  BY CaptureFailedCases DEF paused, told, n, p
<1> QED BY <1>9, <1>10

\* The results of Vision move no product.
LEMMA JudgedTracked ==
  ASSUME NEW m \in Masters, NEW P, NEW B, Tracked(m, P, B), NEW f \in Frames,
         NEW outcome \in {"PASS", "NG", "FAILED"}, NEW outOfMemory \in BOOLEAN
  PROVE  Tracked(Judged(m, f, outcome, outOfMemory), P, B)
<1> DEFINE p == f.product
           n == Noted(m, f, outcome)
           told == IF f.station = "A" /\ outcome \in {"NG", "FAILED"}
                   THEN CanceledB(n, p) ELSE n
<1>1. p \in Products BY DEF Frames
<1>2. n \in Masters /\ SameBut(m, n, {"station"}) BY NotedEffect
<1> HIDE DEF n, p
<1>3. Tracked(n, P, B) BY <1>2, TrackedFrame
<1>4. told \in Masters /\ Tracked(told, P, B)
  BY <1>1, <1>2, <1>3, CanceledBTyped, CanceledBTracked
<1> HIDE DEF told
<1>5. Tracked(Paused(told), P, B) BY <1>4, StopTracked
<1> QED BY <1>4, <1>5, JudgedCases DEF told, n, p

\* The cycles stay with their products.
LEMMA SameProductsTracked ==
  ASSUME NEW m \in Masters, NEW n, NEW P, NEW B, Tracked(m, P, B), NEW s \in Stations,
         m.cycle[s] # None, SameBut(m, n, {"station", "cycle", "lateResume"}),
         SameProducts(m, n, s)
  PROVE  Tracked(n, P, B)
<1>1. /\ n.system = m.system /\ n.pendingRun = m.pendingRun /\ n.orders = m.orders
      /\ n.state = m.state
  BY DEF SameBut, Fields
<1>2. Commands(n, B) BY <1>1, CommandsFrame DEF Tracked
<1>3. m.system # "FAULT" => Cycled(n) BY <1>1 DEF Tracked, Ledger, Cycled, SameProducts
<1>4. SameBut(m, n, {"station", "cycle", "lateStart", "lateResume", "skip", "captures",
                     "orders"})
  BY SameButMore
<1> QED BY <1>2, <1>3, <1>4, TrackedCycles

\* A capture is asked for, with the product at its station.
LEMMA AskedTracked ==
  ASSUME NEW m \in Masters, NEW P, NEW B, Tracked(m, P, B), NEW s \in Stations,
         m.cycle[s] # None
  PROVE  Tracked(Asked(m, s), P, B)
<1> DEFINE n == Asked(m, s)
<1>1. SameBut(m, n, {"station", "cycle"}) /\ SameProducts(m, n, s)
  BY AskedEffect DEF SameProducts
<1> HIDE DEF n
<1>2. SameBut(m, n, {"station", "cycle", "lateResume"}) BY <1>1, SameButMore
<1>3. Tracked(n, P, B) BY <1>1, <1>2, SameProductsTracked
<1> QED BY <1>3 DEF n

\* The actuations keep their phases.
LEMMA PhasesTracked ==
  ASSUME NEW m \in Masters, NEW n, NEW P, NEW B, Tracked(m, P, B),
         SameBut(m, n, {"actuation"}),
         \A q \in Products : n.actuation[q].phase = m.actuation[q].phase
  PROVE  Tracked(n, P, B)
<1>1. /\ n.system = m.system /\ n.pendingRun = m.pendingRun /\ n.orders = m.orders
      /\ n.fifo = m.fifo /\ n.state = m.state /\ n.cycle = m.cycle
  BY DEF SameBut, Fields
<1> QED BY <1>1 DEF Tracked, Commands, Ledger, Follows, Queued, Cycled, Acting, InQueue

\* A goal for an actuation that has begun is no other actuation.
LEMMA SentTracked ==
  ASSUME NEW m \in Masters, NEW P, NEW B, Tracked(m, P, B), NEW p \in Products,
         NEW available \in BOOLEAN
  PROVE  Tracked(Sent(m, p, available), P, B)
BY SentEffect, StopTracked, PhasesTracked

\* A product that a sensor sees goes on in the ledger as it does on the line.
LEMMA MovedOn ==
  ASSUME NEW m \in Masters, NEW n, NEW P \in [Products -> Places], NEW B, Tracked(m, P, B),
         m.system # "FAULT", NEW p \in Products, NEW b \in 1 .. 7, NEW place \in Places,
         m.state[p] \in {Unseen, Onward["A"], Onward["B"]},
         place # "before", place \in {"B", "toC", "past"} <=> b >= 4, place = "past" <=> b >= 7,
         SameBut(m, n, {"fifo", "state", "station", "lateStart", "locked", "actuation"}),
         n.state = [m.state EXCEPT ![p] = b], Queued(n), Acting(n)
  PROVE  Tracked(n, [P EXCEPT ![p] = place], B)
<1> DEFINE N == [P EXCEPT ![p] = place]
<1>1. N[p] = place /\ \A q \in Products : q # p => N[q] = P[q] OBVIOUS
<1> HIDE DEF N
<1>2. /\ n.system = m.system /\ n.pendingRun = m.pendingRun /\ n.orders = m.orders
      /\ n.cycle = m.cycle
  BY DEF SameBut, Fields
<1>3. Commands(n, B) BY <1>2, CommandsFrame DEF Tracked
<1>4. n.state[p] = b /\ \A q \in Products : q # p => n.state[q] = m.state[q]
  BY DEF Masters, States
<1>5. Ledger(m, P) BY DEF Tracked
<1>6. Follows(n, N)
  <2>1. ASSUME NEW q \in Products, q # p
        PROVE  /\ N[q] = "before" <=> n.state[q] = Unseen
               /\ N[q] \in {"B", "toC", "past"} <=> n.state[q] >= Waiting["B"]
               /\ N[q] = "past" <=> n.state[q] >= AtSensor3
    BY <1>1, <1>4, <1>5, <2>1 DEF Ledger, Follows
  <2>2. /\ N[p] = "before" <=> n.state[p] = Unseen
        /\ N[p] \in {"B", "toC", "past"} <=> n.state[p] >= Waiting["B"]
        /\ N[p] = "past" <=> n.state[p] >= AtSensor3
    BY <1>1, <1>4, StateValues
  <2> QED BY <2>1, <2>2 DEF Follows
<1>7. Cycled(n)
  <2>1. ASSUME NEW s \in Stations, m.cycle[s] # None
        PROVE  n.state[m.cycle[s].product] \in {Waiting[s], Captured[s]}
    <3> DEFINE q == m.cycle[s].product
    <3>1. q \in Products /\ m.state[q] \in {Waiting[s], Captured[s]}
      BY <1>5, <2>1, CycleTyped DEF Ledger, Cycled
    <3>2. q # p BY <3>1, StateValues
    <3> HIDE DEF q
    <3> QED BY <1>4, <3>1, <3>2 DEF q
  <2> QED BY <1>2, <2>1 DEF Cycled
<1>8. Tracked(n, N, B) BY <1>3, <1>6, <1>7 DEF Tracked, Ledger
<1> QED BY <1>8 DEF N

\* The FIFO of a product that goes on.
LEMMA QueuedMove ==
  ASSUME NEW m \in Masters, NEW n, Queued(m), NEW p \in Products, NEW b \in 1 .. 8,
         m.state[p] \in 1 .. 8, n.state = [m.state EXCEPT ![p] = b], n.fifo = m.fifo
  PROVE  Queued(n)
<1>1. n.state[p] = b /\ \A q \in Products : q # p => n.state[q] = m.state[q]
  BY DEF Masters, States
<1>2. m.fifo \in Seq(Products) BY DEF Masters, Fifos
<1>3. \A i \in DOMAIN m.fifo : n.state[m.fifo[i]] # 0 BY <1>1, <1>2, StateValues DEF Queued
<1>4. \A q : InQueue(n, q) <=> InQueue(m, q) BY DEF InQueue
<1>5. \A q \in Products : n.state[q] \in 1 .. 8 => InQueue(n, q) BY <1>1, <1>4 DEF Queued
<1> QED BY <1>3, <1>5, StateValues DEF Queued

\* The product the Master takes for the one at a sensor is the one that is there.
LEMMA OldestIsThere ==
  ASSUME NEW m \in Masters, NEW P \in [Products -> Places], Positions(P), Queued(m),
         NEW q \in 1 .. 8, OldestIn(m, q) # 0,
         NEW place \in Places, NEW r \in Products, P[r] = place,
         \A x \in Products : P[x] = place => r <= x,
         m.state[r] \in 1 .. q,
         \A x \in Products : m.state[x] = q => P[x] = place \/ Rank[P[x]] < Rank[place]
  PROVE  OldestIn(m, q) = r
<1>1. PICK i \in DOMAIN m.fifo :
         /\ OldestIn(m, q) = m.fifo[i] /\ m.fifo[i] \in Products
         /\ m.state[m.fifo[i]] = q
         /\ \A j \in 1 .. i - 1 : m.state[m.fifo[j]] # q /\ ~(m.state[m.fifo[j]] < q)
  BY OldestInFifo
<1> DEFINE p == m.fifo[i]
<1>2. PICK j \in DOMAIN m.fifo : m.fifo[j] = r BY DEF Queued, InQueue
<1>3. m.fifo \in Seq(Products) BY DEF Masters, Fifos
<1>4. i \in Nat \ {0} /\ j \in Nat \ {0} BY <1>3
<1>5. Products \subseteq Nat BY LineAssumption DEF Products
<1>6. ASSUME r < p PROVE FALSE
  <2>1. j < i BY <1>1, <1>2, <1>4, <1>5, <1>6 DEF Queued
  <2>2. j \in 1 .. i - 1 BY <1>4, <2>1
  <2>3. m.state[r] # q /\ ~(m.state[r] < q) BY <1>1, <1>2, <2>2
  <2> QED BY <2>3
<1>7. ASSUME p < r PROVE FALSE
  <2>1. p \in Products BY <1>1
  <2>2. p # r BY <1>5, <1>7, <2>1
  <2> HIDE DEF p
  <2>3. Rank[P[p]] >= Rank[P[r]] BY <1>7, <2>1, <2>2 DEF Positions
  <2>4. P[p] = place \/ Rank[P[p]] < Rank[place] BY <1>1, <2>1 DEF p
  <2>5. Rank[P[p]] \in 0 .. 5 /\ Rank[place] \in 0 .. 5 BY <2>1, Ranks
  <2>6. r <= p BY <2>1, <2>3, <2>4, <2>5
  <2> QED BY <1>5, <1>7, <2>1, <2>6
<1>8. p \in Nat /\ r \in Nat /\ OldestIn(m, q) = p BY <1>1, <1>5
<1> HIDE DEF p
<1> QED BY <1>6, <1>7, <1>8

\* _handle_sensor1_entry: the product comes in behind those that are on the line.
LEMMA EnteredAt1Tracked ==
  ASSUME NEW m \in Masters, NEW P \in [Products -> Places], NEW B, Tracked(m, P, B),
         Positions(P), m.system # "FAULT", NEW p, Comes(P, p, "before")
  PROVE  Tracked(EnteredAt1(m, p), [P EXCEPT ![p] = "A"], B)
<1> DEFINE n == Known(m, p)
           k == KnownLate(m, p)
           N == [P EXCEPT ![p] = "A"]
<1>0. p \in Products BY DEF Comes
<1>1. /\ n \in Masters /\ SameBut(m, n, {"fifo", "state"})
      /\ n.fifo = Append(m.fifo, p) /\ n.state = [m.state EXCEPT ![p] = Waiting["A"]]
      /\ k \in Masters /\ SameBut(n, k, {"lateStart"})
  BY <1>0, KnownEffect
<1> HIDE DEF n, k
<1>2. Ledger(m, P) BY DEF Tracked
<1>3. m.state[p] = 0 BY <1>0, <1>2, StateValues DEF Ledger, Follows, Comes
<1>4. m.fifo \in Seq(Products) BY DEF Masters, Fifos
<1>5. n.state[p] = 1 /\ \A q \in Products : q # p => n.state[q] = m.state[q]
  BY <1>0, <1>1, StateValues DEF Masters, States
<1>6. Products \subseteq Nat BY LineAssumption DEF Products
<1>7. ASSUME NEW i \in DOMAIN m.fifo PROVE m.fifo[i] < p /\ m.fifo[i] # p
  <2> DEFINE q == m.fifo[i]
  <2>1. q \in Products /\ m.state[q] # Unseen BY <1>2, <1>4 DEF Ledger, Queued
  <2> HIDE DEF q
  <2>2. P[q] # "before" BY <1>2, <2>1 DEF Ledger, Follows
  <2>3. q # p BY <2>2 DEF Comes
  <2>4. ASSUME p < q PROVE FALSE
    <3>1. Rank[P[p]] >= Rank[P[q]] BY <1>0, <2>1, <2>3, <2>4 DEF Positions
    <3>2. Rank[P[p]] = 0 BY Ranks DEF Comes
    <3>3. Rank[P[q]] \in 0 .. 5 BY <2>1, Ranks
    <3>4. Rank[P[q]] = Rank["before"] BY <3>1, <3>2, <3>3, Ranks
    <3>5. P[q] = "before" BY <2>1, <3>4, Ranks DEF Places
    <3> QED BY <2>2, <3>5
  <2>5. p \in Nat /\ q \in Nat BY <1>0, <1>6, <2>1
  <2>6. q < p BY <2>3, <2>4, <2>5
  <2> QED BY <2>3, <2>6 DEF q
<1>8. /\ Len(n.fifo) = Len(m.fifo) + 1 /\ n.fifo[Len(m.fifo) + 1] = p
      /\ \A i \in DOMAIN m.fifo : i \in DOMAIN n.fifo /\ n.fifo[i] = m.fifo[i]
      /\ \A i \in DOMAIN n.fifo : i \in DOMAIN m.fifo \/ i = Len(m.fifo) + 1
      /\ Len(m.fifo) \in Nat /\ DOMAIN m.fifo = 1 .. Len(m.fifo)
      /\ Len(m.fifo) + 1 \in DOMAIN n.fifo
  BY <1>0, <1>1, <1>4
<1>9. \A q : InQueue(m, q) => InQueue(n, q) BY <1>8 DEF InQueue
<1>10. InQueue(n, p) BY <1>8 DEF InQueue
<1>11. Queued(n)
  <2>1. ASSUME NEW i \in DOMAIN n.fifo, NEW j \in DOMAIN n.fifo, i < j
        PROVE  n.fifo[i] < n.fifo[j]
    <3>1. i \in DOMAIN m.fifo BY <1>8, <2>1
    <3>2. CASE j \in DOMAIN m.fifo BY <1>2, <1>8, <2>1, <3>1, <3>2 DEF Ledger, Queued
    <3>3. CASE j = Len(m.fifo) + 1 BY <1>7, <1>8, <3>1, <3>3
    <3> QED BY <1>8, <3>2, <3>3
  <2>2. ASSUME NEW i \in DOMAIN n.fifo PROVE n.state[n.fifo[i]] # 0
    <3>1. CASE i \in DOMAIN m.fifo
      <4>1. m.fifo[i] \in Products /\ m.state[m.fifo[i]] # 0 /\ m.fifo[i] # p
        BY <1>2, <1>4, <1>7, <3>1, StateValues DEF Ledger, Queued
      <4> QED BY <1>5, <1>8, <3>1, <4>1
    <3>2. CASE i = Len(m.fifo) + 1 BY <1>5, <1>8, <3>2
    <3> QED BY <1>8, <3>1, <3>2
  <2>3. \A q \in Products : n.state[q] \in 1 .. 8 => InQueue(n, q)
    BY <1>2, <1>5, <1>9, <1>10 DEF Ledger, Queued
  <2> QED BY <2>1, <2>2, <2>3, StateValues DEF Queued
<1>12. Acting(n)
  <2>1. n.actuation = m.actuation BY <1>1 DEF SameBut, Fields
  <2>2. m.actuation[p].phase = "none" BY <1>0, <1>2, <1>3, StateValues DEF Ledger, Acting
  <2> QED BY <1>2, <1>5, <1>9, <2>1, <2>2 DEF Ledger, Acting
<1>13. Tracked(n, N, B)
  <2> DEFINE b == Waiting["A"]
             place == "A"
  <2>1. /\ b \in 1 .. 7 /\ place \in Places /\ place # "before"
        /\ place \in {"B", "toC", "past"} <=> b >= 4
        /\ place = "past" <=> b >= 7
    BY StateValues DEF Places
  <2>2. SameBut(m, n, {"fifo", "state", "station", "lateStart", "locked", "actuation"})
    BY <1>1, SameButMore
  <2>3. m.state[p] \in {Unseen, Onward["A"], Onward["B"]} BY <1>3, StateValues
  <2>4. n.state = [m.state EXCEPT ![p] = b] BY <1>1
  <2> HIDE DEF b, place
  <2>5. Tracked(n, [P EXCEPT ![p] = place], B)
    BY <1>0, <1>11, <1>12, <2>1, <2>2, <2>3, <2>4, MovedOn
  <2> QED BY <2>5 DEF place
<1> HIDE DEF N
<1>14. Tracked(k, N, B) BY <1>1, <1>13, TrackedFrame
<1>15. "A" \in Stations BY DEF Stations
<1>16. Tracked(Started(n, p, "A"), N, B) BY <1>0, <1>1, <1>13, <1>15, StartedTracked
<1>17. Tracked(Paused(k), N, B) /\ Tracked(Faulted(m), N, B) BY <1>1, <1>14, StopTracked
<1> QED BY <1>0, <1>16, <1>17, EnteredAt1Cases DEF n, k, N

\* _handle_sensor2_entry: the product that comes is the one that waits for station B next.
LEMMA EnteredAt2Tracked ==
  ASSUME NEW m \in Masters, NEW P \in [Products -> Places], NEW B, Tracked(m, P, B),
         Positions(P), m.system # "FAULT", NEW r, Comes(P, r, "toB")
  PROVE  Tracked(EnteredAt2(m), [P EXCEPT ![r] = "B"], B)
<1> DEFINE p == OldestIn(m, Flipping)
           N == [P EXCEPT ![r] = "B"]
<1>1. CASE EnteredAt2(m) = Faulted(m) BY <1>1, StopTracked
<1>2. CASE p # 0
  <2>1. Ledger(m, P) BY DEF Tracked
  <2>2. r \in Products BY DEF Comes
  <2>3. m.state[r] \in 1 .. 3
    <3>1. m.state[r] \in 0 .. 9 BY <2>2, StateValues DEF Masters, States
    <3>2. ~(m.state[r] >= 4) /\ m.state[r] # 0
      BY <2>1, <2>2, StateValues DEF Ledger, Follows, Comes
    <3> QED BY <3>1, <3>2
  <2>4. ASSUME NEW x \in Products, m.state[x] = 3
        PROVE  P[x] = "toB" \/ Rank[P[x]] < Rank["toB"]
    <3>1. P[x] \notin {"before", "B", "toC", "past"}
      BY <2>1, <2>4, StateValues DEF Ledger, Follows
    <3>2. P[x] \in {"A", "toB"} BY <3>1 DEF Places
    <3> QED BY <3>2, Ranks
  <2>5. p = r
    <3>1. Flipping = 3 /\ 3 \in 1 .. 8 /\ "toB" \in Places BY StateValues DEF Places
    <3>2. P[r] = "toB" /\ \A x \in Products : P[x] = "toB" => r <= x BY DEF Comes
    <3>3. OldestIn(m, 3) # 0 /\ Queued(m) BY <1>2, <2>1, <3>1 DEF Ledger
    <3>4. OldestIn(m, 3) = r BY <2>2, <2>3, <2>4, <3>1, <3>2, <3>3, OldestIsThere
    <3> QED BY <3>1, <3>4
  <2>6. m.state[r] = Flipping /\ m.state[r] = 3 BY <1>2, <2>5, OldestInFifo, StateValues
  <2>7. ASSUME NEW n, NEW b \in {Waiting["B"], Sensor3Wait},
               SameBut(m, n, {"station", "state"}), n.state = [m.state EXCEPT ![r] = b]
        PROVE  Tracked(n, N, B)
    <3> DEFINE place == "B"
    <3>1. /\ b \in 1 .. 7 /\ b \in 1 .. 8 /\ place \in Places /\ place # "before"
          /\ place \in {"B", "toC", "past"} <=> b >= 4
          /\ place = "past" <=> b >= 7
      BY StateValues DEF Places
    <3>2. n.fifo = m.fifo /\ n.actuation = m.actuation BY <2>7 DEF SameBut, Fields
    <3>3. Queued(n)
      <4>1. Queued(m) /\ m.state[r] \in 1 .. 8 BY <2>1, <2>6 DEF Ledger
      <4>2. b \in 1 .. 8 /\ n.state = [m.state EXCEPT ![r] = b] BY <2>7, <3>1
      <4> QED BY <2>2, <3>2, <4>1, <4>2, QueuedMove
    <3>4. Acting(n)
      <4>1. n.state[r] = b /\ \A q \in Products : q # r => n.state[q] = m.state[q]
        BY <2>2, <2>7 DEF Masters, States
      <4>2. \A q : InQueue(n, q) <=> InQueue(m, q) BY <3>2 DEF InQueue
      <4>3. m.actuation[r].phase = "none" BY <2>1, <2>2, <2>6, StateValues DEF Ledger, Acting
      <4> QED BY <2>1, <3>2, <4>1, <4>2, <4>3 DEF Ledger, Acting
    <3>5. SameBut(m, n, {"fifo", "state", "station", "lateStart", "locked", "actuation"})
      BY <2>7, SameButMore
    <3>6. m.state[r] \in {Unseen, Onward["A"], Onward["B"]} BY <2>6, StateValues
    <3> HIDE DEF place
    <3>7. Tracked(n, [P EXCEPT ![r] = place], B)
      BY <2>2, <2>7, <3>1, <3>3, <3>4, <3>5, <3>6, MovedOn
    <3> QED BY <3>7 DEF place
  <2>8. /\ WaitingAtB(m, r) \in Masters /\ SameBut(m, WaitingAtB(m, r), {"state"})
        /\ WaitingAtB(m, r).state = [m.state EXCEPT ![r] = Waiting["B"]]
        /\ SameBut(m, PassingB(m, r), {"station", "state"})
        /\ PassingB(m, r).state = [m.state EXCEPT ![r] = Sensor3Wait]
    BY <2>2, AtBEffect
  <2>9. SameBut(m, WaitingAtB(m, r), {"station", "state"}) BY <2>8, SameButMore
  <2> HIDE DEF N, p
  <2>10. Tracked(WaitingAtB(m, r), N, B) /\ Tracked(PassingB(m, r), N, B) BY <2>7, <2>8, <2>9
  <2>11. "B" \in Stations BY DEF Stations
  <2>12. Tracked(Started(WaitingAtB(m, r), r, "B"), N, B)
    BY <2>2, <2>8, <2>10, <2>11, StartedTracked
  <2> QED BY <1>1, <2>5, <2>10, <2>12, EnteredAt2Cases DEF N, p
<1> QED BY <1>1, <1>2, EnteredAt2Cases

\* _handle_sensor3_entry: the product that comes is the one whose verdict is locked.
LEMMA EnteredAt3Tracked ==
  ASSUME NEW m \in Masters, NEW P \in [Products -> Places], NEW B, Tracked(m, P, B),
         Positions(P), m.system # "FAULT", NEW r, Comes(P, r, "toC"),
         NEW available \in BOOLEAN
  PROVE  Tracked(EnteredAt3(m, available), [P EXCEPT ![r] = "past"], B)
<1> DEFINE p == OldestIn(m, Sensor3Wait)
           N == [P EXCEPT ![r] = "past"]
<1>1. CASE EnteredAt3(m, available) = Faulted(m) BY <1>1, StopTracked
<1>2. CASE p # 0
  <2>1. Ledger(m, P) BY DEF Tracked
  <2>2. r \in Products BY DEF Comes
  <2>3. m.state[r] \in 1 .. 6
    <3>1. m.state[r] \in 0 .. 9 BY <2>2, StateValues DEF Masters, States
    <3>2. ~(m.state[r] >= 7) /\ m.state[r] # 0
      BY <2>1, <2>2, StateValues DEF Ledger, Follows, Comes
    <3> QED BY <3>1, <3>2
  <2>4. ASSUME NEW x \in Products, m.state[x] = 6
        PROVE  P[x] = "toC" \/ Rank[P[x]] < Rank["toC"]
    <3>1. P[x] # "past" BY <2>1, <2>4, StateValues DEF Ledger, Follows
    <3>2. P[x] \in {"before", "A", "toB", "B", "toC"} BY <3>1 DEF Places
    <3> QED BY <3>2, Ranks
  <2>5. p = r
    <3>1. Sensor3Wait = 6 /\ 6 \in 1 .. 8 /\ "toC" \in Places BY StateValues DEF Places
    <3>2. P[r] = "toC" /\ \A x \in Products : P[x] = "toC" => r <= x BY DEF Comes
    <3>3. OldestIn(m, 6) # 0 /\ Queued(m) BY <1>2, <2>1, <3>1 DEF Ledger
    <3>4. OldestIn(m, 6) = r BY <2>2, <2>3, <2>4, <3>1, <3>2, <3>3, OldestIsThere
    <3> QED BY <3>1, <3>4
  <2>6. m.state[r] = Sensor3Wait /\ m.state[r] = 6 /\ InQueue(m, r)
    BY <1>2, <2>5, OldestInFifo, StateValues DEF InQueue
  <2> DEFINE n == Locked(m, r)
             k == Published(n, r)
  <2>7. /\ n \in Masters /\ SameBut(m, n, {"locked", "state", "actuation"})
        /\ n.state = [m.state EXCEPT ![r] = AtSensor3]
        /\ n.actuation[r].phase = "pending"
        /\ \A q \in Products \ {r} : n.actuation[q] = m.actuation[q]
    BY <2>2, LockedEffect
  <2> HIDE DEF n, p
  <2>8. Tracked(n, N, B)
    <3> DEFINE place == "past"
               b == AtSensor3
    <3>1. /\ b \in 1 .. 7 /\ b \in 1 .. 8 /\ place \in Places /\ place # "before"
          /\ place \in {"B", "toC", "past"} <=> b >= 4
          /\ place = "past" <=> b >= 7
      BY StateValues DEF Places
    <3>2. n.fifo = m.fifo BY <2>7 DEF SameBut, Fields
    <3>3. n.state = [m.state EXCEPT ![r] = b] BY <2>7
    <3>4. n.state[r] = AtSensor3 /\ \A q \in Products : q # r => n.state[q] = m.state[q]
      BY <2>2, <2>7 DEF Masters, States
    <3> HIDE DEF b, place
    <3>5. m.state[r] \in 1 .. 8 BY <2>3
    <3>6. Queued(n) BY <2>1, <2>2, <3>1, <3>2, <3>3, <3>5, QueuedMove DEF Ledger
    <3>7. Acting(n)
      <4>1. \A q : InQueue(n, q) <=> InQueue(m, q) BY <3>2 DEF InQueue
      <4> QED BY <2>1, <2>6, <2>7, <3>4, <4>1, StateValues DEF Ledger, Acting
    <3>8. SameBut(m, n, {"fifo", "state", "station", "lateStart", "locked", "actuation"})
      BY <2>7, SameButMore
    <3>9. m.state[r] \in {Unseen, Onward["A"], Onward["B"]} BY <2>6, StateValues
    <3>10. Tracked(n, [P EXCEPT ![r] = place], B)
      BY <2>2, <3>1, <3>3, <3>6, <3>7, <3>8, <3>9, MovedOn
    <3> QED BY <3>10 DEF place
  <2> HIDE DEF N
  <2>9. k \in Masters /\ SameBut(n, k, {"reorder"}) BY <2>2, <2>7, PublishedTyped, PublishedEffect
  <2> HIDE DEF k
  <2>10. Tracked(k, N, B) BY <2>8, <2>9, TrackedFrame
  <2>11. Tracked(Sent(k, r, available), N, B) BY <2>2, <2>9, <2>10, SentTracked
  <2>12. \/ EnteredAt3(m, available) = Faulted(m)
         \/ EnteredAt3(m, available) = Sent(k, r, available)
    BY <2>5, EnteredAt3Cases DEF k, n, p
  <2> QED BY <1>1, <2>11, <2>12 DEF N
<1> QED BY <1>1, <1>2, EnteredAt3Cases

\* _resume_deferred_operations: each thing a run goes on with keeps the tracking.
LEMMA DeferredTracked ==
  ASSUME NEW m \in Masters, NEW P, NEW B, Tracked(m, P, B), NEW available \in BOOLEAN
  PROVE  Tracked(Deferred(m, available), P, B)
<1> DEFINE Kept == {n \in Masters : Tracked(n, P, B)}
<1>1. ASSUME NEW n \in Kept, NEW ps \in Products \X Stations
      PROVE  ResumeOne(n, ps) \in Kept /\ StartOne(n, ps) \in Kept
  <2>1. n \in Masters /\ Tracked(n, P, B) /\ ps[1] \in Products /\ ps[2] \in Stations
    OBVIOUS
  <2> HIDE DEF Kept
  <2>2. Tracked(ResumeOne(n, ps), P, B) BY <2>1, ResumedTracked DEF ResumeOne
  <2>3. SameBut(n, [n EXCEPT !.lateStart = @ \ {ps}], {"lateStart"})
    BY <2>1 DEF Masters, SameBut, Fields
  <2>4. Tracked([n EXCEPT !.lateStart = @ \ {ps}], P, B) BY <2>1, <2>3, TrackedFrame
  <2>5. Tracked(StartOne(n, ps), P, B) BY <2>1, <2>4, StartedTracked DEF StartOne
  <2> QED BY <2>1, <2>2, <2>5, ResumeOneTyped, StartOneTyped DEF Kept
<1>2. ASSUME NEW n \in Kept, NEW p \in Products PROVE Sent(n, p, available) \in Kept
  BY SentTyped, SentTracked
<1>3. m \in Kept /\ Kept \in SUBSET Masters OBVIOUS
<1> HIDE DEF Kept
<1>4. Deferred(m, available) \in Kept BY <1>1, <1>2, <1>3, DeferredKeeps
<1> QED BY <1>4 DEF Kept

\* What a confirmed resume leaves of the system.
LEMMA ResumedSystem ==
  ASSUME NEW m \in Masters, NEW s \in Stations
  PROVE  LET n == Resumed(m, s)
         IN  \/ n.system = "FAULT" /\ n.pendingRun = FALSE
             \/ n.system = m.system /\ n.pendingRun = m.pendingRun /\ n.orders = m.orders
<1> DEFINE n == Resumed(m, s)
<1>1. CASE n = m BY <1>1
<1>2. CASE n = Faulted(m)
  <2>1. Faulted(m).system = "FAULT" /\ Faulted(m).pendingRun = FALSE BY DEF Faulted, Masters
  <2> QED BY <1>2, <2>1
<1>3. CASE SameBut(m, n, {"state", "cycle", "lateResume"}) BY <1>3 DEF SameBut, Fields
<1> QED BY <1>1, <1>2, <1>3, ResumedEffect

\* A report of the belts while no run is asked for.
LEMMA ReportTracked ==
  ASSUME NEW m \in Masters, NEW P, NEW B, Tracked(m, P, B), m.pendingRun = FALSE,
         NEW R \in SUBSET Stations, NEW allRun, NEW available \in BOOLEAN
  PROVE  Tracked(Running(m, R, allRun, available), P, B)
<1> DEFINE Kept == {n \in Masters : Tracked(n, P, B) /\ n.pendingRun = FALSE}
           k == Confirmed(m, R)
<1>1. ASSUME NEW n \in Kept, NEW s \in Stations PROVE Resumed(n, s) \in Kept
  <2>1. n \in Masters /\ Tracked(n, P, B) /\ n.pendingRun = FALSE OBVIOUS
  <2>2. Resumed(n, s).pendingRun = FALSE BY <2>1, ResumedSystem
  <2> QED BY <2>1, <2>2, ResumedTyped, ResumedTracked
<1>2. m \in Kept /\ Kept \in SUBSET Masters OBVIOUS
<1> HIDE DEF Kept
<1>3. k \in Kept BY <1>1, <1>2, ConfirmedKeeps
<1>4. Running(m, R, allRun, available) = k BY <1>3 DEF Running, Kept
<1> QED BY <1>3, <1>4 DEF Kept

\* The report that confirms the run: all the belts have just started.
LEMMA RerunTracked ==
  ASSUME NEW m \in Masters, NEW P, NEW B, m.system = "PAUSED", m.pendingRun = TRUE,
         Tracked(Rerun(m), P, B), NEW R \in SUBSET Stations, NEW available \in BOOLEAN
  PROVE  Tracked(Running(m, R, TRUE, available), P, B)
<1> DEFINE Kept == {n \in Masters :
                       \/ n.system = "FAULT" /\ n.pendingRun = FALSE
                       \/ n.system = "PAUSED" /\ n.pendingRun = TRUE /\ Tracked(Rerun(n), P, B)}
           k == Confirmed(m, R)
<1>1. ASSUME NEW n \in Kept, NEW s \in Stations PROVE Resumed(n, s) \in Kept
  <2> DEFINE r == Resumed(n, s)
             p == n.cycle[s].product
  <2>1. n \in Masters OBVIOUS
  <2>2. r \in Masters BY <2>1, ResumedTyped
  <2>3. CASE r = n BY <2>3
  <2>4. CASE r = Faulted(n)
    <3>1. Faulted(n).system = "FAULT" /\ Faulted(n).pendingRun = FALSE
      BY <2>1 DEF Faulted, Masters
    <3> QED BY <2>2, <2>4, <3>1
  <2>5. CASE /\ n.system # "FAULT" /\ n.cycle[s] # None /\ n.state[p] = Captured[s]
             /\ SameBut(n, r, {"state", "cycle", "lateResume"})
             /\ r.state = [n.state EXCEPT ![p] = Onward[s]]
             /\ r.cycle = [n.cycle EXCEPT ![s] = None]
    <3>1. n.system = "PAUSED" /\ n.pendingRun = TRUE /\ Tracked(Rerun(n), P, B) BY <2>5
    <3>2. p = n.cycle[s].product OBVIOUS
    <3> HIDE DEF r, p, Kept
    <3>3. r.system = n.system /\ r.pendingRun = n.pendingRun BY <2>5 DEF SameBut, Fields
    <3> DEFINE a == Rerun(n)
               b == Rerun(r)
    <3>4. /\ a \in Masters /\ SameBut(n, a, {"system", "pendingRun"})
          /\ a.system = "RUN" /\ a.pendingRun = FALSE
          /\ SameBut(r, b, {"system", "pendingRun"})
          /\ b.system = "RUN" /\ b.pendingRun = FALSE
      BY <2>1, <2>2, RunEffect
    <3> HIDE DEF a, b
    <3>5. /\ a.state = n.state /\ a.cycle = n.cycle /\ b.state = r.state /\ b.cycle = r.cycle
      BY <3>4 DEF SameBut, Fields
    <3>6. SameBut(a, b, {"state", "cycle", "lateResume"}) BY <2>5, <3>4 DEF SameBut, Fields
    <3>7. /\ a.cycle[s] # None /\ p = a.cycle[s].product /\ a.state[p] = Captured[s]
          /\ b.state = [a.state EXCEPT ![p] = Onward[s]]
          /\ b.cycle = [a.cycle EXCEPT ![s] = None]
          /\ a.system # "FAULT"
      BY <2>5, <3>2, <3>4, <3>5
    <3>8. Tracked(a, P, B) BY <3>1 DEF a
    <3>9. Tracked(b, P, B) BY <3>4, <3>6, <3>7, <3>8, ResumeEnds
    <3> QED BY <2>2, <3>1, <3>3, <3>9 DEF b, r, Kept
  <2> QED BY <2>1, <2>3, <2>4, <2>5, ResumedEffect
<1>2. m \in Kept /\ Kept \in SUBSET Masters OBVIOUS
<1> HIDE DEF Kept
<1>3. k \in Kept BY <1>1, <1>2, ConfirmedKeeps
<1> HIDE DEF k
<1>4. k \in Masters BY <1>3 DEF Kept
<1>5. CASE k.system = "FAULT" /\ k.pendingRun = FALSE
  <2>1. Running(m, R, TRUE, available) = k BY <1>5 DEF Running, k
  <2>2. Tracked(k, P, B) BY <1>5 DEF Tracked, Commands
  <2> QED BY <2>1, <2>2
<1>6. CASE k.pendingRun = TRUE /\ Tracked(Rerun(k), P, B)
  <2>1. Running(m, R, TRUE, available) = Deferred(Rerun(k), available)
    BY <1>6 DEF Running, Rerun, k
  <2>2. Rerun(k) \in Masters BY <1>4, RunEffect
  <2> QED BY <1>6, <2>1, <2>2, DeferredTracked
<1> QED BY <1>3, <1>5, <1>6 DEF Kept

\* remove_completed_prefix: what is forgotten is done, and the rest of the FIFO stays.
LEMMA WithoutCompletedTracked ==
  ASSUME NEW m \in Masters, NEW P, NEW B, Tracked(m, P, B)
  PROVE  Tracked(WithoutCompleted(m), P, B)
<1> DEFINE kept == {i \in DOMAIN m.fifo : m.state[m.fifo[i]] # Done}
           first == IF kept = {} THEN Len(m.fifo) + 1
                    ELSE CHOOSE i \in kept : \A j \in kept : i <= j
           removed == {m.fifo[i] : i \in 1 .. first - 1}
           n == WithoutCompleted(m)
<1>1. m.fifo \in Seq(Products) BY DEF Masters, Fifos
<1>2. /\ first \in 1 .. Len(m.fifo) + 1
      /\ \A i \in DOMAIN m.fifo : m.state[m.fifo[i]] # Done => first <= i
  <2>1. CASE kept = {} BY <1>1, <2>1
  <2>2. CASE kept # {}
    <3>1. kept \subseteq 1 .. Len(m.fifo) BY <1>1
    <3>2. first \in kept /\ \A j \in kept : first <= j
      <4>1. kept \subseteq Nat BY <3>1
      <4> HIDE DEF kept
      <4> QED BY <2>2, <4>1, FirstIsLeast
    <3> HIDE DEF first
    <3>3. \A i \in DOMAIN m.fifo : m.state[m.fifo[i]] # Done => first <= i BY <3>2
    <3> HIDE DEF kept
    <3> QED BY <1>1, <3>1, <3>2, <3>3
  <2> QED BY <2>1, <2>2
<1>3. /\ n.fifo = SubSeq(m.fifo, first, Len(m.fifo))
      /\ \A p \in Products : p \notin removed => n.actuation[p] = m.actuation[p]
      /\ \A p \in Products : p \in removed => n.actuation[p].phase = "none"
  <2> DEFINE Freed(p) == IF p \in removed
                         THEN [m.actuation[p] EXCEPT !.phase = "none", !.timed = FALSE]
                         ELSE m.actuation[p]
             a == [p \in Products |-> Freed(p)]
             f == SubSeq(m.fifo, first, Len(m.fifo))
  <2>1. n = [m EXCEPT !.fifo = f, !.actuation = a] BY DEF WithoutCompleted
  <2> HIDE DEF f, n, first, kept
  <2>2. \A p \in Products : p \notin removed => a[p] = m.actuation[p] OBVIOUS
  <2>3. \A p \in Products : p \in removed => a[p].phase = "none"
    BY DEF Masters, ActuationMaps, Actuations
  <2> HIDE DEF a
  <2>4. n.fifo = f /\ n.actuation = a BY <2>1 DEF Masters
  <2> QED BY <2>2, <2>3, <2>4 DEF f
<1>4. SameBut(m, n, {"fifo", "actuation"}) BY WithoutCompletedEffect
<1> HIDE DEF first, kept, n
<1>5. /\ n.system = m.system /\ n.pendingRun = m.pendingRun /\ n.orders = m.orders
      /\ n.state = m.state /\ n.cycle = m.cycle
  BY <1>4 DEF SameBut, Fields
<1>6. /\ DOMAIN m.fifo = 1 .. Len(m.fifo) /\ Len(m.fifo) \in Nat
      /\ DOMAIN n.fifo = 1 .. Len(m.fifo) - first + 1
      /\ \A i \in DOMAIN n.fifo : n.fifo[i] = m.fifo[first + i - 1]
  BY <1>1, <1>2, <1>3
<1>7. \A i \in DOMAIN n.fifo : first + i - 1 \in DOMAIN m.fifo BY <1>2, <1>6
<1>8. ASSUME NEW j \in DOMAIN m.fifo, first <= j PROVE InQueue(n, m.fifo[j])
  <2> DEFINE i == j - first + 1
  <2>1. i \in DOMAIN n.fifo /\ first + i - 1 = j BY <1>2, <1>6, <1>8
  <2> HIDE DEF i
  <2> QED BY <1>6, <2>1 DEF InQueue
<1>9. ASSUME Ledger(m, P) PROVE Ledger(n, P)
  <2>1. Follows(n, P) /\ Cycled(n) BY <1>5, <1>9 DEF Ledger, Follows, Cycled
  <2>2. Queued(n)
    <3>1. ASSUME NEW i \in DOMAIN n.fifo, NEW j \in DOMAIN n.fifo, i < j
          PROVE  n.fifo[i] < n.fifo[j]
      <4>1. first + i - 1 < first + j - 1 BY <1>2, <1>6, <3>1
      <4> QED BY <1>6, <1>7, <1>9, <4>1 DEF Ledger, Queued
    <3>2. \A i \in DOMAIN n.fifo : n.state[n.fifo[i]] # Unseen
      BY <1>5, <1>6, <1>7, <1>9 DEF Ledger, Queued
    <3>3. ASSUME NEW p \in Products, n.state[p] \in 1 .. 8 PROVE InQueue(n, p)
      <4>1. PICK j \in DOMAIN m.fifo : m.fifo[j] = p
        BY <1>5, <1>9, <3>3 DEF Ledger, Queued, InQueue
      <4>2. first <= j BY <1>2, <1>5, <3>3, <4>1, StateValues
      <4> QED BY <1>8, <4>1, <4>2
    <3> QED BY <3>1, <3>2, <3>3 DEF Queued
  <2>3. Acting(n)
    <3>1. ASSUME NEW p \in Products, n.actuation[p].phase # "none"
          PROVE  n.state[p] >= AtSensor3 /\ InQueue(n, p)
      <4>1. p \notin removed /\ m.actuation[p].phase # "none"
        <5> HIDE DEF removed
        <5> QED BY <1>3, <3>1
      <4>2. m.state[p] >= AtSensor3 /\ InQueue(m, p) BY <1>9, <4>1 DEF Ledger, Acting
      <4>3. PICK j \in DOMAIN m.fifo : m.fifo[j] = p BY <4>2 DEF InQueue
      <4>4. j \notin 1 .. first - 1 BY <4>1, <4>3
      <4>5. first <= j BY <1>2, <1>6, <4>3, <4>4
      <4> QED BY <1>5, <1>8, <4>2, <4>3, <4>5
    <3> QED BY <3>1 DEF Acting
  <2> QED BY <2>1, <2>2, <2>3 DEF Ledger
<1>10. Commands(n, B) BY <1>5, CommandsFrame DEF Tracked
<1>11. Tracked(n, P, B) BY <1>5, <1>9, <1>10 DEF Tracked
<1> QED BY <1>11 DEF n

\* An actuation that has begun goes on, or is done.
LEMMA ActedTracked ==
  ASSUME NEW m \in Masters, NEW n, NEW P, NEW B, Tracked(m, P, B), NEW p \in Products,
         m.actuation[p].phase # "none", NEW b \in {Actuating, Done},
         SameBut(m, n, {"state", "actuation"}), n.state = [m.state EXCEPT ![p] = b],
         \A q \in Products \ {p} : n.actuation[q] = m.actuation[q]
  PROVE  Tracked(n, P, B)
<1>1. /\ n.system = m.system /\ n.pendingRun = m.pendingRun /\ n.orders = m.orders
      /\ n.fifo = m.fifo /\ n.cycle = m.cycle
  BY DEF SameBut, Fields
<1>2. n.state[p] = b /\ \A q \in Products : q # p => n.state[q] = m.state[q]
  BY DEF Masters, States
<1>3. ASSUME Ledger(m, P) PROVE Ledger(n, P)
  <2>1. m.state[p] \in 7 .. 9 /\ InQueue(m, p)
    <3>1. m.state[p] \in 0 .. 9 BY StateValues DEF Masters, States
    <3> QED BY <1>3, <3>1, StateValues DEF Ledger, Acting
  <2>2. \A q : InQueue(n, q) <=> InQueue(m, q) BY <1>1 DEF InQueue
  <2>3. Follows(n, P)
    <3>1. \A q \in Products : q # p =>
             /\ P[q] = "before" <=> n.state[q] = Unseen
             /\ P[q] \in {"B", "toC", "past"} <=> n.state[q] >= Waiting["B"]
             /\ P[q] = "past" <=> n.state[q] >= AtSensor3
      BY <1>2, <1>3 DEF Ledger, Follows
    <3>2. P[p] = "past" BY <1>3, <2>1, StateValues DEF Ledger, Follows
    <3>3. n.state[p] \in {8, 9} BY <1>2, StateValues
    <3> QED BY <3>1, <3>2, <3>3, StateValues DEF Follows
  <2>4. Queued(n)
    <3>1. m.fifo \in Seq(Products) BY DEF Masters, Fifos
    <3>2. \A i \in DOMAIN m.fifo : n.state[m.fifo[i]] # Unseen
      BY <1>2, <1>3, <3>1, StateValues DEF Ledger, Queued
    <3>3. \A q \in Products : n.state[q] \in 1 .. 8 => InQueue(n, q)
      BY <1>2, <1>3, <2>1, <2>2 DEF Ledger, Queued
    <3> QED BY <1>1, <1>3, <3>2, <3>3 DEF Ledger, Queued
  <2>5. Cycled(n)
    <3>1. ASSUME NEW s \in Stations, m.cycle[s] # None
          PROVE  n.state[m.cycle[s].product] \in {Waiting[s], Captured[s]}
      <4> DEFINE q == m.cycle[s].product
      <4>1. q \in Products /\ m.state[q] \in {Waiting[s], Captured[s]}
        BY <1>3, <3>1, CycleTyped DEF Ledger, Cycled
      <4>2. q # p BY <2>1, <4>1, StateValues
      <4> HIDE DEF q
      <4> QED BY <1>2, <4>1, <4>2 DEF q
    <3> QED BY <1>1, <3>1 DEF Cycled
  <2>6. Acting(n)
    <3>1. n.state[p] >= AtSensor3 BY <1>2, StateValues
    <3> QED BY <1>2, <1>3, <2>1, <2>2, <3>1 DEF Ledger, Acting
  <2> QED BY <2>3, <2>4, <2>5, <2>6 DEF Ledger
<1>4. Commands(n, B) BY <1>1, CommandsFrame DEF Tracked
<1> QED BY <1>1, <1>3, <1>4 DEF Tracked

-----------------------------------------------------------------------------
(* Every step of the line keeps the ledger with it. *)

\* The belts are of consequence to a Master that waits for a run only.
LEMMA BeltsTracked ==
  ASSUME NEW m, NEW P, NEW B, NEW C, Tracked(m, P, B), m.system # "PAUSED"
  PROVE  Tracked(m, P, C)
BY DEF Tracked, Commands

\* Nothing has come yet.
LEMMA InitTracked == Init => Positions(pos) /\ Tracked(master, pos, belt)
<1> SUFFICES ASSUME Init PROVE Positions(pos) /\ Tracked(master, pos, belt) OBVIOUS
<1>1. PICK settings \in Settings : master = InitialMaster(settings) BY DEF Init
<1>2. /\ master.system = "RUN" /\ master.pendingRun = FALSE /\ master.orders = <<>>
      /\ master.fifo = <<>>
      /\ \A p \in Products : master.state[p] = Unseen /\ master.actuation[p].phase = "none"
      /\ \A s \in Stations : master.cycle[s] = None
  BY <1>1 DEF InitialMaster
<1>3. \A p \in Products : pos[p] = "before" BY DEF Init
<1>4. Positions(pos) BY <1>3, Ranks DEF Positions
<1>5. Commands(master, belt)
  <2>1. <<>> \in Seq(Stations) OBVIOUS
  <2> QED BY <1>2, <2>1 DEF Commands
<1>6. Follows(master, pos) BY <1>2, <1>3, StateValues DEF Follows
<1>7. Queued(master) BY <1>2, StateValues DEF Queued
<1>8. Cycled(master) /\ Acting(master) BY <1>2 DEF Cycled, Acting
<1> QED BY <1>4, <1>5, <1>6, <1>7, <1>8 DEF Tracked, Ledger

\* A sensor has the oldest product of a place before it, ...
LEMMA SensorSees ==
  ASSUME Typed, NEW place, \E p \in Products : pos[p] = place
  PROVE  Comes(pos, Oldest(place), place)
BY OldestThere DEF Typed, Comes

\* ... and the belts run, so that the Master listens.
LEMMA MasterListens ==
  ASSUME Typed, Tracked(master, pos, belt), Alive,
         NEW s \in Stations, belt[s] # "stopped"
  PROVE  master.system \in {"RUN", "PAUSING"}
BY DEF Typed, Masters, Systems, Tracked, Commands, Alive

\* The sensors.
LEMMA SensorsTracked ==
  ASSUME Typed, Positions(pos), Tracked(master, pos, belt), NEW available \in BOOLEAN,
         Sensor1 \/ Sensor2 \/ Sensor3(available)
  PROVE  Positions(pos') /\ Tracked(master', pos', belt')
<1>1. master \in Masters /\ pos \in [Products -> Places] /\ "A" \in Stations /\ "B" \in Stations
  BY DEF Typed, Stations
<1>2. ASSUME NEW from \in Places, NEW to \in Places, Rank[to] = Rank[from] + 1,
             \E p \in Products : pos[p] = from,
             to \in {"A", "B"} => \A q \in Products : pos[q] # to
      PROVE  Positions([pos EXCEPT ![Oldest(from)] = to])
  <2>1. Comes(pos, Oldest(from), from) BY <1>2, SensorSees
  <2> DEFINE p == Oldest(from)
  <2>2. p \in Products /\ pos[p] = from BY <2>1 DEF Comes
  <2>3. \A q \in Products : q < p => pos[q] # pos[p] BY <2>1, LineAssumption DEF Comes, Products
  <2> HIDE DEF p
  <2>4. Positions([pos EXCEPT ![p] = to]) BY <1>1, <1>2, <2>2, <2>3, PositionsMove
  <2> QED BY <2>4 DEF p
<1>3. CASE Sensor1
  <2> DEFINE p == Oldest("before")
  <2>1. /\ \E q \in Products : pos[q] = "before"
        /\ belt["A"] = "running" /\ Alive /\ \A q \in Products : pos[q] # "A"
        /\ pos' = [pos EXCEPT ![p] = "A"] /\ Heard(EnteredAt1(master, p))
    BY <1>3 DEF Sensor1, Runs
  <2>2. Comes(pos, p, "before") BY <2>1, SensorSees
  <2>3. "before" \in Places /\ "A" \in Places /\ Rank["A"] = Rank["before"] + 1
    BY Ranks DEF Places
  <2>4. Positions(pos') BY <1>2, <2>1, <2>3
  <2> HIDE DEF p
  <2>5. master.system \in {"RUN", "PAUSING"} BY <1>1, <2>1, MasterListens
  <2>6. master' = EnteredAt1(master, p) BY <2>1, <2>5 DEF Heard
  <2>7. Tracked(master, pos, belt') BY <2>5, BeltsTracked
  <2>8. Tracked(EnteredAt1(master, p), [pos EXCEPT ![p] = "A"], belt')
    BY <1>1, <2>2, <2>5, <2>7, EnteredAt1Tracked
  <2> QED BY <2>1, <2>4, <2>6, <2>8
<1>4. CASE Sensor2
  <2> DEFINE p == Oldest("toB")
  <2>1. /\ \E q \in Products : pos[q] = "toB"
        /\ belt["B"] = "running" /\ Alive /\ \A q \in Products : pos[q] # "B"
        /\ pos' = [pos EXCEPT ![p] = "B"] /\ Heard(EnteredAt2(master))
    BY <1>4 DEF Sensor2, Runs
  <2>2. Comes(pos, p, "toB") BY <2>1, SensorSees
  <2>3. "toB" \in Places /\ "B" \in Places /\ Rank["B"] = Rank["toB"] + 1 BY Ranks DEF Places
  <2>4. Positions(pos') BY <1>2, <2>1, <2>3
  <2> HIDE DEF p
  <2>5. master.system \in {"RUN", "PAUSING"} BY <1>1, <2>1, MasterListens
  <2>6. master' = EnteredAt2(master) BY <2>1, <2>5 DEF Heard
  <2>7. Tracked(master, pos, belt') BY <2>5, BeltsTracked
  <2>8. Tracked(EnteredAt2(master), [pos EXCEPT ![p] = "B"], belt')
    BY <1>1, <2>2, <2>5, <2>7, EnteredAt2Tracked
  <2> QED BY <2>1, <2>4, <2>6, <2>8
<1>5. CASE Sensor3(available)
  <2> DEFINE p == Oldest("toC")
  <2>1. /\ \E q \in Products : pos[q] = "toC"
        /\ belt["B"] # "stopped" /\ Alive
        /\ pos' = [pos EXCEPT ![p] = "past"] /\ Heard(EnteredAt3(master, available))
    BY <1>5 DEF Sensor3
  <2>2. Comes(pos, p, "toC") BY <2>1, SensorSees
  <2>3. "toC" \in Places /\ "past" \in Places /\ Rank["past"] = Rank["toC"] + 1
    BY Ranks DEF Places
  <2>4. Positions(pos') BY <1>2, <2>1, <2>3
  <2> HIDE DEF p
  <2>5. master.system \in {"RUN", "PAUSING"} BY <1>1, <2>1, MasterListens
  <2>6. master' = EnteredAt3(master, available) BY <2>1, <2>5 DEF Heard
  <2>7. Tracked(master, pos, belt') BY <2>5, BeltsTracked
  <2>8. Tracked(EnteredAt3(master, available), [pos EXCEPT ![p] = "past"], belt')
    BY <1>1, <2>2, <2>5, <2>7, EnteredAt3Tracked
  <2> QED BY <2>1, <2>4, <2>6, <2>8
<1> QED BY <1>3, <1>4, <1>5

\* A product leaves a camera: the ledger does not tell before it from behind it.
LEMMA LeaveTracked ==
  ASSUME Typed, Positions(pos), Tracked(master, pos, belt), NEW s \in Stations, Leave(s)
  PROVE  Positions(pos') /\ Tracked(master', pos', belt')
<1> DEFINE to == IF s = "A" THEN "toB" ELSE "toC"
<1>1. PICK p \in Products : pos[p] = s /\ pos' = [pos EXCEPT ![p] = to] BY DEF Leave
<1>2. master' = master /\ belt' = belt BY DEF Leave
<1>3. pos \in [Products -> Places] BY DEF Typed
<1>4. /\ to \in Places /\ Rank[to] = Rank[s] + 1 /\ s \in {"A", "B"} /\ to \notin {"A", "B"}
      /\ to \notin {"before", "past"} /\ (to \in {"B", "toC", "past"} <=> s = "B")
  BY Ranks DEF Places, Stations
<1> HIDE DEF to
<1>5. \A q \in Products : q < p => pos[q] # pos[p]
  <2>1. Products \subseteq Nat BY LineAssumption DEF Products
  <2> QED BY <1>1, <1>4, <2>1 DEF Positions
<1>6. Positions([pos EXCEPT ![p] = to]) BY <1>1, <1>3, <1>4, <1>5, PositionsMove
<1>7. pos'[p] = to /\ \A q \in Products : q # p => pos'[q] = pos[q] BY <1>1, <1>3
<1>8. Follows(master, pos) => Follows(master, pos')
  <2> SUFFICES ASSUME Follows(master, pos), NEW q \in Products
               PROVE  /\ pos'[q] = "before" <=> pos[q] = "before"
                      /\ pos'[q] \in {"B", "toC", "past"} <=> pos[q] \in {"B", "toC", "past"}
                      /\ pos'[q] = "past" <=> pos[q] = "past"
    BY DEF Follows
  <2>1. CASE q = p BY <1>1, <1>4, <1>7, <2>1
  <2>2. CASE q # p BY <1>7, <2>2
  <2> QED BY <2>1, <2>2
<1>9. Tracked(master, pos', belt) BY <1>8 DEF Tracked, Ledger
<1> QED BY <1>1, <1>2, <1>6, <1>9

\* A product stands before a camera.
LEMMA SettledTracked ==
  ASSUME Typed, Tracked(master, pos, belt), NEW s \in Stations,
         NEW available \in BOOLEAN, Settled(s, available)
  PROVE  Tracked(master', pos', belt')
<1>1. /\ master \in Masters /\ belt[s] = "positioning" /\ Alive /\ pos' = pos
      /\ \/ master' = master
         \/ master.cycle[s] # None /\ master' = Asked(master, s)
         \/ master' = Recovering(master, s)
  BY DEF Typed, Settled, Asked
<1>2. master.system # "PAUSED" BY <1>1, MasterListens
<1>3. Tracked(master, pos, belt') BY <1>2, BeltsTracked
<1> QED BY <1>1, <1>3, AskedTracked, RecoveringTracked

\* Behind the only element of a sequence there is none.
LEMMA TailOfOne ==
  ASSUME NEW S, NEW q \in Seq(S), Len(q) = 1
  PROVE  Tail(q) = <<>>
<1> DEFINE r == Tail(q)
<1>1. r \in Seq(S) /\ Len(r) = 0 OBVIOUS
<1> HIDE DEF r
<1>2. r = <<>> BY <1>1
<1> QED BY <1>2 DEF r

\* Control passes the next command on.
LEMMA ControlTracked ==
  ASSUME Typed, Tracked(master, pos, belt), NEW available \in BOOLEAN, Control(available)
  PROVE  Tracked(master', pos', belt')
<1> DEFINE order == Head(master.orders)
           m     == Passed(master)
           runs  == IF order = "RESUME" THEN Stations ELSE {order}
           new   == {u \in runs : belt[u] # "running"}
           all   == \A u \in Stations : belt'[u] = "running"
<1>1. /\ master.orders # <<>> /\ Alive /\ pos' = pos /\ master \in Masters
      /\ master.orders \in OrderLists /\ "PAUSE" # "RESUME"
  BY DEF Control, Typed, Masters
<1>2. order \in {"PAUSE", "RESUME"} \union Stations BY <1>1 DEF OrderLists
<1>3. \/ /\ order = "PAUSE" /\ belt' = [u \in Stations |-> "stopped"] /\ master' = Stopped(m)
      \/ /\ order # "PAUSE"
         /\ belt' = [u \in Stations |-> IF u \in runs THEN "running" ELSE belt[u]]
         /\ master' = Running(m, new, all, available)
  BY DEF Control, Passed
<1>4. (new \in SUBSET Stations /\ all \in BOOLEAN) \/ order = "PAUSE" BY <1>2
<1>5. /\ m \in Masters /\ SameBut(master, m, {"orders"}) /\ m.orders = Tail(master.orders)
  BY <1>1, RunEffect
<1> HIDE DEF m, new, all
<1>6. /\ m.system = master.system /\ m.pendingRun = master.pendingRun /\ m.fifo = master.fifo
      /\ m.state = master.state /\ m.cycle = master.cycle /\ m.actuation = master.actuation
  BY <1>5 DEF SameBut, Fields
<1>7. Ledger(m, pos)
  BY <1>1, <1>6 DEF Tracked, Alive, Ledger, Follows, Queued, Cycled, Acting, InQueue
<1>8. CASE master.system = "RUN"
  <2>1. master.orders \in Seq(Stations) /\ master.pendingRun = FALSE
    BY <1>8 DEF Tracked, Commands
  <2>2. order \in Stations /\ m.orders \in Seq(Stations) BY <1>1, <1>5, <2>1
  <2>3. Commands(m, belt') BY <1>6, <1>8, <2>1, <2>2 DEF Commands
  <2>4. Tracked(m, pos, belt') BY <1>7, <2>3 DEF Tracked
  <2>5. order # "PAUSE" BY <2>2 DEF Stations
  <2> HIDE DEF order
  <2>6. Tracked(Running(m, new, all, available), pos, belt')
    BY <1>4, <1>5, <1>6, <2>1, <2>4, <2>5, ReportTracked
  <2> QED BY <1>1, <1>3, <2>5, <2>6
<1>9. CASE master.system = "PAUSING"
  <2>1. /\ master.orders[Len(master.orders)] = "PAUSE" /\ master.pendingRun = FALSE
        /\ \A i \in 1 .. Len(master.orders) - 1 : master.orders[i] \in Stations
    BY <1>9 DEF Tracked, Commands
  <2>2. order = master.orders[1] BY <1>1 DEF OrderLists
  <2>3. Len(master.orders) \in Nat /\ Len(master.orders) >= 1 BY <1>1 DEF OrderLists
  <2>4. CASE Len(master.orders) = 1
    <3>1. order = "PAUSE" /\ m.orders = <<>>
      <4>1. order = "PAUSE" BY <2>1, <2>2, <2>4
      <4>2. Tail(master.orders) = <<>>
        <5>1. PICK S : master.orders \in Seq(S) BY <1>1 DEF OrderLists
        <5> QED BY <1>1, <2>4, <5>1, TailOfOne
      <4> QED BY <1>5, <4>1, <4>2
    <3>2. belt' = [u \in Stations |-> "stopped"] /\ master' = Stopped(m) BY <1>3, <3>1
    <3> DEFINE n == [m EXCEPT !.system = "PAUSED"]
    <3>3. SameBut(m, n, {"system"}) /\ n.system = "PAUSED" BY <1>5 DEF Masters, SameBut, Fields
    <3>4. Stopped(m) = n \/ Stopped(m) = Faulted(m) BY <1>6, <1>9 DEF Stopped
    <3> HIDE DEF n
    <3>5. /\ n.orders = m.orders /\ n.pendingRun = m.pendingRun /\ n.fifo = m.fifo
          /\ n.state = m.state /\ n.cycle = m.cycle /\ n.actuation = m.actuation
      BY <3>3 DEF SameBut, Fields
    <3>6. Commands(n, belt') BY <1>6, <2>1, <3>1, <3>2, <3>3, <3>5 DEF Commands
    <3>7. Ledger(n, pos) BY <1>7, <3>5 DEF Ledger, Follows, Queued, Cycled, Acting, InQueue
    <3>8. Tracked(n, pos, belt') BY <3>6, <3>7 DEF Tracked
    <3> QED BY <1>1, <1>5, <3>2, <3>4, <3>8, StopTracked
  <2>5. CASE Len(master.orders) # 1
    <3>1. order \in Stations
      <4> DEFINE k == Len(master.orders)
      <4>0. k \in Nat /\ k >= 1 /\ k # 1 BY <2>3, <2>5
      <4>1. 1 \in 1 .. k - 1
        <5> HIDE DEF k
        <5> QED BY <4>0
      <4>2. master.orders[1] \in Stations BY <2>1, <4>1
      <4> QED BY <2>2, <4>2
    <3>2. order # "PAUSE" BY <3>1 DEF Stations
    <3>3. /\ m.orders # <<>> /\ m.orders[Len(m.orders)] = "PAUSE"
          /\ \A i \in 1 .. Len(m.orders) - 1 : m.orders[i] \in Stations
      <4>1. /\ Len(m.orders) = Len(master.orders) - 1
            /\ \A i \in 1 .. Len(m.orders) : m.orders[i] = master.orders[i + 1]
        BY <1>1, <1>5 DEF OrderLists
      <4> DEFINE k == Len(master.orders)
      <4>0. k \in Nat /\ k >= 1 /\ k # 1 /\ Len(m.orders) = k - 1 BY <2>3, <2>5, <4>1
      <4>2. Len(m.orders) >= 1 /\ Len(m.orders) \in Nat
        <5> HIDE DEF k
        <5> QED BY <4>0
      <4>3. m.orders # <<>> BY <4>2
      <4>4. m.orders[Len(m.orders)] = "PAUSE" BY <2>1, <2>3, <4>1, <4>2
      <4>5. \A i \in 1 .. Len(m.orders) - 1 : m.orders[i] \in Stations BY <2>1, <2>3, <4>1, <4>2
      <4> QED BY <4>3, <4>4, <4>5
    <3>4. Commands(m, belt') BY <1>6, <1>9, <2>1, <3>3 DEF Commands
    <3>5. Tracked(m, pos, belt') BY <1>7, <3>4 DEF Tracked
    <3> HIDE DEF order
    <3>6. Tracked(Running(m, new, all, available), pos, belt')
      BY <1>4, <1>5, <1>6, <2>1, <3>2, <3>5, ReportTracked
    <3> QED BY <1>1, <1>3, <3>2, <3>6
  <2> QED BY <2>4, <2>5
<1>10. CASE master.system = "PAUSED"
  <2>1. master.pendingRun = TRUE /\ master.orders = <<"RESUME">>
    BY <1>1, <1>10 DEF Tracked, Commands, Masters
  <2>2. order = "RESUME" /\ m.orders = <<>> BY <1>5, <2>1
  <2>3. belt' = [u \in Stations |-> "running"] /\ order # "PAUSE" BY <1>1, <1>3, <2>2
  <2>4. all = TRUE BY <2>3 DEF all
  <2> DEFINE n == Rerun(m)
  <2>5. /\ SameBut(m, n, {"system", "pendingRun"}) /\ n.system = "RUN" /\ n.pendingRun = FALSE
    BY <1>5, RunEffect
  <2> HIDE DEF n
  <2>6. /\ n.orders = m.orders /\ n.fifo = m.fifo
        /\ n.state = m.state /\ n.cycle = m.cycle /\ n.actuation = m.actuation
    BY <2>5 DEF SameBut, Fields
  <2>7. Commands(n, belt')
    <3>1. n.orders \in Seq(Stations) BY <2>2, <2>6
    <3> QED BY <2>5, <3>1 DEF Commands
  <2>8. Ledger(n, pos) BY <1>7, <2>6 DEF Ledger, Follows, Queued, Cycled, Acting, InQueue
  <2>9. Tracked(Rerun(m), pos, belt') BY <2>7, <2>8 DEF Tracked, n
  <2> HIDE DEF order
  <2>10. Tracked(Running(m, new, TRUE, available), pos, belt')
    BY <1>4, <1>5, <1>6, <1>10, <2>1, <2>3, <2>9, RerunTracked
  <2> QED BY <1>1, <1>3, <2>3, <2>4, <2>10
<1> QED BY <1>1, <1>8, <1>9, <1>10 DEF Alive, Masters, Systems

\* Vision's answers.
LEMMA VisionTracked ==
  ASSUME Typed, Tracked(master, pos, belt),
         VisionStep
  PROVE  pos' = pos /\ Tracked(master', pos, belt')
<1>1. master \in Masters /\ frames \in SUBSET Frames BY DEF Typed
<1>2. pos' = pos /\ belt' = belt
  BY DEF VisionStep, GoalAccepted, GoalRefused, Capture, CaptureResult, CaptureResultLost,
         StationTerminal
<1> SUFFICES Tracked(master', pos, belt) BY <1>2
<1>3. ASSUME NEW g \in goals, GoalAccepted(g) PROVE Tracked(master', pos, belt)
  <2> DEFINE s == g.station
             k == [master.cycle EXCEPT ![s].phase = "WAITING_CAPTURE_RESULT"]
             n == [master EXCEPT !.cycle = k]
  <2>1. s \in Stations BY CurrentTyped
  <2>2. \/ master' = master
        \/ Current(g) /\ master' = [master EXCEPT !.cycle[s].phase = "WAITING_CAPTURE_RESULT"]
    BY <1>3, Zenon DEF GoalAccepted
  <2>4. n = [master EXCEPT !.cycle[s].phase = "WAITING_CAPTURE_RESULT"] OBVIOUS
  <2>3. ASSUME Current(g) PROVE Tracked(n, pos, belt)
    <3>1. master.cycle[s] # None /\ master.cycle[s] \in Cycles BY <2>3, CurrentTyped
    <3> HIDE DEF s
    <3>2. /\ \A u \in Stations : u # s => k[u] = master.cycle[u]
          /\ k[s].product = master.cycle[s].product
      BY <1>1, <2>1, <3>1 DEF Masters, CycleMaps, Cycles
    <3> HIDE DEF k
    <3>3. SameBut(master, n, {"cycle"}) /\ n.cycle = k BY <1>1 DEF Masters, SameBut, Fields
    <3> HIDE DEF n
    <3>4. SameBut(master, n, {"station", "cycle", "lateResume"}) BY <3>3, SameButMore
    <3>5. SameProducts(master, n, s) BY <3>2, <3>3 DEF SameProducts
    <3> QED BY <1>1, <2>1, <3>1, <3>4, <3>5, SameProductsTracked
  <2> HIDE DEF n
  <2> QED BY <2>2, <2>3, <2>4
<1>4. ASSUME NEW g \in goals, GoalRefused(g) \/ CaptureResultLost(g)
      PROVE  Tracked(master', pos, belt)
  <2>1. g.station \in Stations BY CurrentTyped
  <2> QED BY <1>1, <1>4, <2>1, RecoveringTracked DEF GoalRefused, CaptureResultLost
<1>5. ASSUME NEW g \in goals, Capture(g) PROVE Tracked(master', pos, belt) BY <1>5 DEF Capture
<1>6. ASSUME NEW g \in goals, CaptureResult(g) PROVE Tracked(master', pos, belt)
  <2> DEFINE s == g.station
             p == g.product
             m == Promoted(master, p, s)
  <2>1. p \in Products /\ s \in Stations BY CurrentTyped
  <2>2. ASSUME Current(g) PROVE master.cycle[s] # None /\ master.cycle[s].product = p
    BY <2>2, CurrentTyped DEF Current
  <2> HIDE DEF p, s
  <2>3. ASSUME Current(g)
        PROVE  m \in Masters /\ m.cycle = master.cycle /\ Tracked(m, pos, belt)
    <3>1. master.cycle[s].product = p BY <2>2, <2>3
    <3> QED BY <1>1, <2>1, <3>1, PromotedTyped, PromotedTracked
  <2> HIDE DEF m
  <2>4. ASSUME Current(g)
        PROVE  /\ Tracked(Resuming(master, s), pos, belt)
               /\ Tracked(Resuming(m, s), pos, belt)
               /\ Tracked(CaptureFailed(master, s, g.stage = "diskFull"), pos, belt)
    <3>1. (g.stage = "diskFull") \in BOOLEAN OBVIOUS
    <3>2. Tracked(Resuming(master, s), pos, belt) BY <1>1, <2>1, <2>2, <2>4, ResumingTracked
    <3>3. Tracked(Resuming(m, s), pos, belt) BY <2>1, <2>2, <2>3, <2>4, ResumingTracked
    <3>4. Tracked(CaptureFailed(master, s, g.stage = "diskFull"), pos, belt)
      BY <1>1, <2>1, <2>2, <2>4, <3>1, CaptureFailedTracked
    <3> QED BY <3>2, <3>3, <3>4
  <2> QED BY <1>6, <2>4 DEF CaptureResult, m, p, s
<1>7. ASSUME NEW f \in frames, NEW outcome \in {"PASS", "NG", "FAILED"},
             NEW outOfMemory \in BOOLEAN, StationTerminal(f, outcome, outOfMemory)
      PROVE  Tracked(master', pos, belt)
  BY <1>1, <1>7, JudgedTracked DEF StationTerminal
<1> QED BY <1>3, <1>4, <1>5, <1>6, <1>7 DEF VisionStep

\* Control's answers, the Master's deadlines and the operator.
LEMMA OtherTracked ==
  ASSUME Typed, Tracked(master, pos, belt), NEW p \in Products, NEW s \in Stations,
         OtherStep(p, s)
  PROVE  pos' = pos /\ Tracked(master', pos, belt')
<1>1. master \in Masters BY DEF Typed
<1>2. pos' = pos /\ belt' = belt
  BY DEF OtherStep, ActuationAccepted, ActuationRefused, ActuationTimeout,
         ActuationResult, CaptureTimeout, PositionTimeout, ResumeTimeout, OperatorPause, OperatorResume
<1> SUFFICES Tracked(master', pos, belt) BY <1>2
<1>3. Tracked(Paused(master), pos, belt) /\ Tracked(Faulted(master), pos, belt)
  BY <1>1, StopTracked
<1>4. CASE ActuationAccepted(p)
  <2> DEFINE t == [master.state EXCEPT ![p] = Actuating]
             a == [master.actuation EXCEPT ![p].phase = "waiting"]
             n == [master EXCEPT !.state = t, !.actuation = a]
  <2>1. \A q \in Products \ {p} : a[q] = master.actuation[q] BY <1>1 DEF Masters, ActuationMaps
  <2>2. \/ master' = master
        \/ master.actuation[p].phase # "none" /\ master' = n
    BY <1>4 DEF ActuationAccepted
  <2> HIDE DEF a
  <2>3. SameBut(master, n, {"state", "actuation"}) /\ n.state = t /\ n.actuation = a
    BY <1>1 DEF Masters, SameBut, Fields
  <2> HIDE DEF n
  <2>4. ASSUME master.actuation[p].phase # "none" PROVE Tracked(n, pos, belt)
    BY <1>1, <2>1, <2>3, <2>4, ActedTracked
  <2> QED BY <2>2, <2>4
<1>5. CASE ActuationRefused(p) BY <1>3, <1>5 DEF ActuationRefused
<1>6. CASE ActuationTimeout(p)
  <2> DEFINE a == Untimed(master.actuation, p)
             n == [master EXCEPT !.actuation = a]
  <2>0. master.actuation \in ActuationMaps BY <1>1 DEF Masters
  <2>1. a \in ActuationMaps /\ \A q \in Products : a[q].phase = master.actuation[q].phase
    <3>1. a \in ActuationMaps BY <2>0, ActuationMarked
    <3> QED BY <2>0, <3>1 DEF ActuationMaps, Actuations, Untimed
  <2>2. master' = Faulted(master) \/ master' = Paused(n) BY <1>6 DEF ActuationTimeout, Untimed
  <2> HIDE DEF a
  <2>3. n \in Masters /\ SameBut(master, n, {"actuation"}) /\ n.actuation = a
    BY <1>1, <2>1 DEF Masters, SameBut, Fields
  <2> HIDE DEF n
  <2>4. Tracked(n, pos, belt) BY <1>1, <2>1, <2>3, PhasesTracked
  <2> QED BY <1>3, <2>2, <2>3, <2>4, StopTracked
<1>7. ASSUME NEW success \in BOOLEAN, ActuationResult(p, success)
      PROVE  Tracked(master', pos, belt)
  <2> DEFINE a == Ended(master.actuation, p)
             t == [master.state EXCEPT ![p] = Done]
             n == [master EXCEPT !.state = t, !.actuation = a]
  <2>0. master.actuation \in ActuationMaps BY <1>1 DEF Masters
  <2>1. a \in ActuationMaps /\ \A q \in Products \ {p} : a[q] = master.actuation[q]
    BY <2>0, ActuationMarked DEF ActuationMaps, Ended
  <2>2. \/ master' = master \/ master' = Faulted(master)
        \/ master.actuation[p].phase # "none" /\ master' = WithoutCompleted(n)
    BY <1>7 DEF ActuationResult, Ended
  <2> HIDE DEF a
  <2>3. t \in States
    <3>1. Done \in Unseen .. Done BY DEF Unseen, Done
    <3> QED BY <1>1, <3>1 DEF Masters, States
  <2>4. /\ n \in Masters /\ SameBut(master, n, {"state", "actuation"})
        /\ n.state = t /\ n.actuation = a
    <3> HIDE DEF t
    <3> QED BY <1>1, <2>1, <2>3 DEF Masters, SameBut, Fields
  <2> HIDE DEF n
  <2>5. ASSUME master.actuation[p].phase # "none" PROVE Tracked(n, pos, belt)
    BY <1>1, <2>1, <2>4, <2>5, ActedTracked
  <2> QED BY <1>3, <2>2, <2>4, <2>5, WithoutCompletedTracked
<1>8. CASE CaptureTimeout(s)
  <2>1. master.cycle[s] # None /\ master' = CaptureFailed(master, s, FALSE)
    BY <1>8 DEF CaptureTimeout
  <2> QED BY <1>1, <2>1, CaptureFailedTracked
<1>9. ASSUME master.cycle[s] # None
      PROVE  LET k == [master.cycle EXCEPT ![s].timed = FALSE]
             IN  /\ k \in CycleMaps
                 /\ \A u \in Stations : u # s => k[u] = master.cycle[u]
                 /\ k[s].product = master.cycle[s].product
  <2>1. master.cycle[s] \in Cycles BY <1>1, <1>9, CycleTyped
  <2> QED BY <1>1, <2>1 DEF Masters, CycleMaps, Cycles
<1>10. CASE PositionTimeout(s)
  <2> DEFINE k == [master.cycle EXCEPT ![s].timed = FALSE]
             n == [master EXCEPT !.cycle = k]
  <2>1. /\ master.cycle[s] # None
        /\ master' = Faulted(master) \/ master' = Recovering(n, s)
    BY <1>10 DEF PositionTimeout
  <2>2. /\ k \in CycleMaps /\ \A u \in Stations : u # s => k[u] = master.cycle[u]
        /\ k[s].product = master.cycle[s].product
    BY <1>9, <2>1
  <2> HIDE DEF k
  <2>3. n \in Masters /\ SameBut(master, n, {"cycle"}) /\ n.cycle = k
    BY <1>1, <2>2 DEF Masters, SameBut, Fields
  <2> HIDE DEF n
  <2>4. SameBut(master, n, {"station", "cycle", "lateResume"}) BY <2>3, SameButMore
  <2>5. SameProducts(master, n, s) BY <2>2, <2>3 DEF SameProducts
  <2>6. Tracked(n, pos, belt) BY <1>1, <2>1, <2>4, <2>5, SameProductsTracked
  <2> QED BY <1>3, <2>1, <2>3, <2>6, RecoveringTracked
<1>11. CASE ResumeTimeout(s)
  <2> DEFINE k == [master.cycle EXCEPT ![s].timed = FALSE]
             l == master.lateResume \union {<<master.cycle[s].product, s>>}
             n == [master EXCEPT !.cycle = k, !.lateResume = l]
  <2>1. master.cycle[s] # None /\ master' = Paused(n) BY <1>11 DEF ResumeTimeout
  <2>2. /\ k \in CycleMaps /\ \A u \in Stations : u # s => k[u] = master.cycle[u]
        /\ k[s].product = master.cycle[s].product
    BY <1>9, <2>1
  <2>3. l \in Pairs
    <3>1. master.cycle[s] \in Cycles BY <1>1, <2>1, CycleTyped
    <3> QED BY <1>1, <3>1 DEF Masters, Pairs, Cycles
  <2> HIDE DEF k, l
  <2>4. n \in Masters /\ SameBut(master, n, {"cycle", "lateResume"}) /\ n.cycle = k
    BY <1>1, <2>2, <2>3 DEF Masters, SameBut, Fields
  <2> HIDE DEF n
  <2>5. SameBut(master, n, {"station", "cycle", "lateResume"}) BY <2>4, SameButMore
  <2>6. SameProducts(master, n, s) BY <2>2, <2>4 DEF SameProducts
  <2>7. Tracked(n, pos, belt) BY <1>1, <2>1, <2>5, <2>6, SameProductsTracked
  <2> QED BY <2>1, <2>4, <2>7, StopTracked
<1>12. CASE OperatorPause BY <1>3, <1>12 DEF OperatorPause
<1>13. CASE OperatorResume
  <2> DEFINE o == Append(master.orders, "RESUME")
             n == [master EXCEPT !.pendingRun = TRUE, !.orders = o]
  <2>1. /\ master.system = "PAUSED" /\ ~ master.pendingRun /\ master' = n
        /\ \A u \in Stations : belt[u] = "stopped"
    BY <1>13 DEF OperatorResume
  <2>2. Ledger(master, pos) /\ master.orders = <<>> BY <2>1 DEF Tracked, Commands
  <2>3. o = <<"RESUME">> BY <2>2
  <2> HIDE DEF o
  <2>4. /\ SameBut(master, n, {"pendingRun", "orders"})
        /\ n.pendingRun = TRUE /\ n.orders = o
    BY <1>1 DEF Masters, SameBut, Fields
  <2> HIDE DEF n
  <2>5. /\ n.system = master.system /\ n.fifo = master.fifo /\ n.state = master.state
        /\ n.cycle = master.cycle /\ n.actuation = master.actuation
    BY <2>4 DEF SameBut, Fields
  <2>6. Commands(n, belt) BY <2>1, <2>3, <2>4, <2>5 DEF Commands
  <2>7. Ledger(n, pos) BY <2>2, <2>5 DEF Ledger, Follows, Queued, Cycled, Acting, InQueue
  <2> QED BY <2>1, <2>6, <2>7 DEF Tracked
<1> QED BY <1>4, <1>5, <1>6, <1>7, <1>8, <1>10, <1>11, <1>12, <1>13 DEF OtherStep

\* Every step keeps the ledger with the line.
LEMMA NextTracked ==
  ASSUME Typed, Positions(pos), Tracked(master, pos, belt), [Next]_vars
  PROVE  Positions(pos') /\ Tracked(master', pos', belt')
<1>1. CASE UNCHANGED vars BY <1>1 DEF vars
<1>2. ASSUME NEW s \in Stations, NEW available \in BOOLEAN, LineStep(s, available)
      PROVE  Positions(pos') /\ Tracked(master', pos', belt')
  <2>1. Settled(s, available) \/ Control(available) => pos' = pos BY DEF Settled, Control
  <2> QED BY <1>2, <2>1, SensorsTracked, LeaveTracked, SettledTracked, ControlTracked
          DEF LineStep
<1> QED BY <1>1, <1>2, StepKinds, VisionTracked, OtherTracked

\* The product a sensor sees is the one the Master takes it for, for any number of
\* products, any limits of the FIFO and whatever is lost, late, canceled or refused: as
\* long as the Master has not given up, its ledger has a product behind a sensor exactly
\* when it is there, and its FIFO has the products in their order.
THEOREM LedgerFollows == Spec => []LedgerFollowsLine
<1> DEFINE Inv == Typed /\ Positions(pos) /\ Tracked(master, pos, belt)
<1>1. Init => Inv BY InitTyped, InitTracked
<1>2. Inv /\ [Next]_vars => Inv' BY NextTyped, NextTracked DEF Positions, Tracked
<1>3. Inv => LedgerFollowsLine BY DEF Alive, Tracked, Ledger, Follows, Queued,
                                    LedgerFollowsLine
<1> QED BY <1>1, <1>2, <1>3, PTL DEF Spec

-----------------------------------------------------------------------------
(* Every capture that was asked for is that of a cycle which waits for no position any    *)
(* more, or of none.                                                                      *)

\* A cycle goes on from one to the next.
LEMMA ContinuesThrough ==
  ASSUME NEW m, NEW n, NEW k, Continues(m, n), Continues(n, k)
  PROVE  Continues(m, k)
BY DEF Continues, Later

\* Nothing that this is about changes.
LEMMA ContinuesFrame ==
  ASSUME NEW m, NEW n, NEW changed, SameBut(m, n, changed),
         changed \cap {"settings", "captures", "system", "cycle"} = {}
  PROVE  Continues(m, n)
<1>1. n.settings = m.settings /\ n.captures = m.captures /\ n.system = m.system
      /\ n.cycle = m.cycle
  BY DEF SameBut, Fields
<1> QED BY <1>1 DEF Continues, Later

\* What is kept of the goals while the cycles go on.
LEMMA ContinuesAwaited ==
  ASSUME NEW m \in Masters, NEW n, NEW G \in SUBSET Goals, Awaited(m, G), Continues(m, n)
  PROVE  Awaited(n, G)
<1>1. n.captures = m.captures BY DEF Continues
<1>2. ASSUME NEW s \in Stations, n.cycle[s] # None
      PROVE  /\ m.cycle[s] # None
             /\ n.cycle[s].product = m.cycle[s].product
             /\ n.cycle[s].capture = m.cycle[s].capture
             /\ n.cycle[s].phase = "WAITING_POSITION" => m.cycle[s].phase = "WAITING_POSITION"
  BY <1>2 DEF Continues, Later
<1>3. ASSUME NEW g \in G, n.cycle[g.station].product = g.product,
             n.cycle[g.station].capture = g.capture
      PROVE  n.cycle[g.station].phase # "WAITING_POSITION"
  <2>1. g.station \in Stations /\ g.product \in Products BY DEF Goals
  <2>2. n.cycle[g.station] # None BY <1>3, <2>1, LineAssumption DEF None, Products
  <2> QED BY <1>2, <1>3, <2>1, <2>2 DEF Awaited
<1> QED BY <1>1, <1>2, <1>3 DEF Awaited

\* A fault and a pause stop the line.
LEMMA StopContinues ==
  ASSUME NEW m \in Masters
  PROVE  /\ Continues(m, Faulted(m)) /\ Faulted(m).system # "RUN"
         /\ Continues(m, Paused(m)) /\ Paused(m).system # "RUN"
         /\ Paused(m).cycle = m.cycle /\ Faulted(m).cycle = m.cycle
<1>1. ASSUME NEW n, SameBut(m, n, {"system", "pendingRun", "orders"}), n.system # "RUN"
      PROVE  Continues(m, n) /\ n.cycle = m.cycle
  <2>1. n.settings = m.settings /\ n.captures = m.captures /\ n.cycle = m.cycle
    BY <1>1 DEF SameBut, Fields
  <2> QED BY <1>1, <2>1 DEF Continues, Later
<1>2. SameBut(m, Faulted(m), {"system", "pendingRun", "orders"}) /\ Faulted(m).system = "FAULT"
  BY FaultedEffect, SameButMore
<1>3. Continues(m, m) BY DEF Continues, Later
<1>4. CASE m.system = "RUN"
  <2>1. SameBut(m, Paused(m), {"system", "pendingRun", "orders"}) /\ Paused(m).system = "PAUSING"
    BY <1>4, PausedEffect
  <2> QED BY <1>1, <1>2, <2>1
<1>5. CASE m.system # "RUN"
  <2>1. Paused(m) = m BY <1>5, PausedEffect
  <2> QED BY <1>1, <1>2, <1>3, <1>5, <2>1
<1> QED BY <1>4, <1>5

\* One cycle changes; its capture stays.
LEMMA ContinuesAt ==
  ASSUME NEW m, NEW n, NEW s \in Stations, NEW changed, SameBut(m, n, changed),
         changed \cap {"settings", "captures", "system"} = {},
         \A u \in Stations \ {s} : n.cycle[u] = m.cycle[u], Later(m.cycle[s], n.cycle[s])
  PROVE  Continues(m, n)
<1>1. n.settings = m.settings /\ n.captures = m.captures /\ n.system = m.system
  BY DEF SameBut, Fields
<1> QED BY <1>1 DEF Continues, Later

\* _resume_conveyor_after_capture
LEMMA ResumingContinues ==
  ASSUME NEW m \in Masters, NEW s \in Stations, m.cycle[s] # None
  PROVE  LET n == Resuming(m, s)
         IN  /\ Continues(m, n) /\ n.cycle[s] # None
             /\ n.cycle[s].phase = "RESUME_PENDING" /\ n.cycle[s].timed
             /\ \A u \in Stations \ {s} : n.cycle[u] = m.cycle[u]
<1> DEFINE n == Resuming(m, s)
<1>1. /\ SameBut(m, n, {"cycle", "orders", "lateResume"})
      /\ n.cycle[s].product = m.cycle[s].product /\ n.cycle[s].capture = m.cycle[s].capture
      /\ n.cycle[s].phase = "RESUME_PENDING" /\ n.cycle[s].timed
  BY ResumingEffect
<1>2. /\ \A u \in Stations : u # s => n.cycle[u] = m.cycle[u]
      /\ n \in Masters
  BY ResumingTyped
<1> HIDE DEF n
<1>3. m.cycle[s].product # 0 BY CycleTyped, LineAssumption DEF Products
<1>4. n.cycle[s] # None BY <1>1, <1>3 DEF None
<1>5. Later(m.cycle[s], n.cycle[s]) BY <1>1, <1>4 DEF Later
<1>6. Continues(m, n) BY <1>1, <1>2, <1>5, ContinuesAt
<1> QED BY <1>1, <1>2, <1>4, <1>6 DEF n

\* confirm_conveyor_resumed
LEMMA ResumedContinues ==
  ASSUME NEW m \in Masters, NEW s \in Stations
  PROVE  /\ Continues(m, Resumed(m, s))
         /\ \A u \in Stations \ {s} : Resumed(m, s).cycle[u] = m.cycle[u]
<1> DEFINE n == Resumed(m, s)
           p == m.cycle[s].product
<1>1. CASE n = m BY <1>1 DEF Continues, Later
<1>2. CASE n = Faulted(m) BY <1>2, StopContinues
<1>3. CASE /\ SameBut(m, n, {"state", "cycle", "lateResume"})
           /\ n.cycle = [m.cycle EXCEPT ![s] = None]
  <2> HIDE DEF n
  <2>1. n.cycle[s] = None /\ \A u \in Stations \ {s} : n.cycle[u] = m.cycle[u]
    BY <1>3 DEF Masters, CycleMaps
  <2>2. Later(m.cycle[s], n.cycle[s]) BY <2>1 DEF Later
  <2>3. SameBut(m, n, {"state", "cycle", "lateResume"}) BY <1>3
  <2>4. Continues(m, n) BY <2>1, <2>2, <2>3, ContinuesAt
  <2> QED BY <2>1, <2>4 DEF n
<1> QED BY <1>1, <1>2, <1>3, ResumedEffect

\* _pause_station_for_recovery stops the line.
LEMMA RecoveringContinues ==
  ASSUME NEW m \in Masters, NEW s \in Stations
  PROVE  Continues(m, Recovering(m, s)) /\ Recovering(m, s).system # "RUN"
<1>1. ASSUME NEW n \in Masters, Continues(m, n)
      PROVE  Continues(m, Paused(n)) /\ Paused(n).system # "RUN"
  BY <1>1, StopContinues, ContinuesThrough
<1>2. Continues(m, m) BY DEF Continues, Later
<1>3. Faulted(m) \in Masters /\ Continues(m, Faulted(m)) BY FaultedTyped, StopContinues
<1>4. CASE m.cycle[s] = None BY <1>1, <1>2, <1>3, <1>4, RecoveringCases
<1>5. CASE m.cycle[s] # None
  <2>1. HandedOver(m, s) \in Masters /\ Continues(m, HandedOver(m, s))
    <3> DEFINE n == HandedOver(m, s)
    <3>1. /\ n \in Masters /\ SameBut(m, n, {"station", "state", "cycle", "lateResume"})
          /\ n.cycle[s].product = m.cycle[s].product
          /\ n.cycle[s].capture = m.cycle[s].capture /\ n.cycle[s].phase = "RESUME_PENDING"
          /\ n.cycle[s] \in Cycles
          /\ \A u \in Stations \ {s} : n.cycle[u] = m.cycle[u]
      BY <1>5, HandedOverEffect
    <3> HIDE DEF n
    <3>2. n.cycle[s] # None BY <1>5, <3>1, CycleTyped, LineAssumption DEF None, Products
    <3>3. Later(m.cycle[s], n.cycle[s]) BY <1>5, <3>1, <3>2 DEF Later
    <3>4. Continues(m, n) BY <3>1, <3>3, ContinuesAt
    <3> QED BY <3>1, <3>4 DEF n
  <2>2. Reset(m, s) \in Masters /\ Continues(m, Reset(m, s))
    <3> DEFINE n == Reset(m, s)
    <3>1. /\ n \in Masters /\ SameBut(m, n, {"station", "cycle", "lateStart"})
          /\ n.cycle = [m.cycle EXCEPT ![s] = None]
      BY <1>5, ResetEffect
    <3> HIDE DEF n
    <3>2. n.cycle[s] = None /\ \A u \in Stations \ {s} : n.cycle[u] = m.cycle[u]
      BY <3>1 DEF Masters, CycleMaps
    <3>3. Later(m.cycle[s], n.cycle[s]) BY <3>2 DEF Later
    <3>4. SameBut(m, n, {"station", "cycle", "lateStart"}) BY <3>1
    <3>5. Continues(m, n) BY <3>2, <3>3, <3>4, ContinuesAt
    <3> QED BY <3>1, <3>5 DEF n
  <2> QED BY <1>1, <1>3, <1>5, <2>1, <2>2, RecoveringCases
<1> QED BY <1>4, <1>5

\* _cancel_station_b_after_a_terminal
LEMMA CanceledBContinues ==
  ASSUME NEW m \in Masters, NEW p \in Products
  PROVE  /\ Continues(m, CanceledB(m, p))
         /\ ~ m.settings.skipB => CanceledB(m, p) = m
<1> DEFINE q == SkipAsked(m, p)
<1>1. q \in Masters /\ SameBut(m, q, {"skip"}) BY SkipAskedEffect
<1>2. "B" \in Stations BY DEF Stations
<1> HIDE DEF q
<1>3. Continues(m, q) BY <1>1, ContinuesFrame
<1>4. ASSUME NEW n \in Masters, SameBut(q, n, {"station", "state"}), q.cycle["B"].product = p
      PROVE  Continues(m, Resuming(n, "B"))
  <2>1. n.cycle = q.cycle BY <1>4 DEF SameBut, Fields
  <2>2. n.cycle["B"] # None BY <1>1, <1>2, <1>4, <2>1, CycleTyped
  <2>3. Continues(q, n) BY <1>4, ContinuesFrame
  <2>4. Continues(n, Resuming(n, "B")) BY <1>2, <2>2, ResumingContinues
  <2> QED BY <1>3, <2>3, <2>4, ContinuesThrough
<1>5. SkippedAtB(q, p) \in Masters /\ SameBut(q, SkippedAtB(q, p), {"station", "state"})
  BY <1>1, SkippedAtBEffect
<1>6. Promoted(q, p, "B") \in Masters /\ SameBut(q, Promoted(q, p, "B"), {"station", "state"})
  BY <1>1, <1>2, PromotedTyped, PromotedEffect
<1>7. Continues(m, Bypassed(q, p))
  <2>1. SameBut(q, Bypassed(q, p), {"skip", "station", "state"}) \/ Bypassed(q, p) = q
    BY <1>1, BypassedEffect
  <2>2. CASE Bypassed(q, p) = q BY <1>3, <2>2
  <2>3. CASE SameBut(q, Bypassed(q, p), {"skip", "station", "state"})
    <3>1. Continues(q, Bypassed(q, p)) BY <2>3, ContinuesFrame
    <3> QED BY <1>3, <3>1, ContinuesThrough
  <2> QED BY <2>1, <2>2, <2>3
<1>8. \/ CanceledB(m, p) = m
      \/ q.cycle["B"].product = p /\ CanceledB(m, p) = Resuming(SkippedAtB(q, p), "B")
      \/ q.cycle["B"].product = p /\ CanceledB(m, p) = Resuming(Promoted(q, p, "B"), "B")
      \/ CanceledB(m, p) = q
      \/ CanceledB(m, p) = Bypassed(q, p)
  BY CanceledBCases DEF q
<1>9. Continues(m, m) BY DEF Continues, Later
<1>10. ~ m.settings.skipB => CanceledB(m, p) = m BY CanceledBCases
<1> QED BY <1>3, <1>4, <1>5, <1>6, <1>7, <1>8, <1>9, <1>10

\* _finish_capture_failure: its cycle lets the belt go.
LEMMA CaptureFailedContinues ==
  ASSUME NEW m \in Masters, NEW s \in Stations, NEW diskFull \in BOOLEAN, m.cycle[s] # None
  PROVE  LET n == CaptureFailed(m, s, diskFull)
         IN  /\ Continues(m, n) /\ n.cycle[s] # None
             /\ n.cycle[s].phase = "RESUME_PENDING" /\ n.cycle[s].timed
             /\ ~ m.settings.skipB => \A u \in Stations \ {s} : n.cycle[u] = m.cycle[u]
<1> DEFINE p == m.cycle[s].product
           n == FailedAt(m, s)
           told == IF s = "A" THEN CanceledB(n, p) ELSE n
           paused == IF diskFull THEN Paused(told) ELSE told
<1>1. p \in Products BY CycleTyped
<1>2. n \in Masters /\ SameBut(m, n, {"station", "state"}) BY FailedAtEffect
<1> HIDE DEF n, p
<1>3. n.cycle = m.cycle /\ n.settings = m.settings BY <1>2 DEF SameBut, Fields
<1>4. Continues(m, n) BY <1>2, ContinuesFrame
<1>5. told \in Masters BY <1>1, <1>2, CanceledBTyped
<1>6. Continues(m, told) BY <1>1, <1>2, <1>4, CanceledBContinues, ContinuesThrough
<1>7. told.cycle[s] # None BY <1>1, <1>2, <1>3, CanceledBTyped
<1>8. ~ m.settings.skipB => told.cycle = m.cycle BY <1>1, <1>2, <1>3, CanceledBContinues
<1> HIDE DEF told
<1>9. /\ paused \in Masters /\ Continues(told, paused) /\ paused.cycle = told.cycle
  <2>1. Continues(told, told) BY DEF Continues, Later
  <2> QED BY <1>5, <2>1, PausedTyped, StopContinues
<1>10. CaptureFailed(m, s, diskFull) = Resuming(paused, s)
  BY CaptureFailedCases DEF paused, told, n, p
<1> HIDE DEF paused
<1> DEFINE k == Resuming(paused, s)
<1>11. /\ Continues(paused, k) /\ k.cycle[s] # None
       /\ k.cycle[s].phase = "RESUME_PENDING" /\ k.cycle[s].timed
       /\ \A u \in Stations \ {s} : k.cycle[u] = paused.cycle[u]
  BY <1>7, <1>9, ResumingContinues
<1> HIDE DEF k
<1>12. Continues(m, paused) BY <1>6, <1>9, ContinuesThrough
<1>13. Continues(m, k) BY <1>11, <1>12, ContinuesThrough
<1> QED BY <1>8, <1>9, <1>10, <1>11, <1>13 DEF k

\* _handle_station_result and _handle_station_failure
LEMMA JudgedContinues ==
  ASSUME NEW m \in Masters, NEW f \in Frames, NEW outcome \in {"PASS", "NG", "FAILED"},
         NEW outOfMemory \in BOOLEAN
  PROVE  LET n == Judged(m, f, outcome, outOfMemory)
         IN  Continues(m, n) /\ (~ m.settings.skipB => n.cycle = m.cycle)
<1> DEFINE p == f.product
           n == Noted(m, f, outcome)
           told == IF f.station = "A" /\ outcome \in {"NG", "FAILED"}
                   THEN CanceledB(n, p) ELSE n
<1>1. p \in Products BY DEF Frames
<1>2. n \in Masters /\ SameBut(m, n, {"station"}) BY NotedEffect
<1> HIDE DEF n, p
<1>3. n.cycle = m.cycle /\ n.settings = m.settings BY <1>2 DEF SameBut, Fields
<1>4. Continues(m, n) BY <1>2, ContinuesFrame
<1>5. told \in Masters /\ Continues(m, told)
  BY <1>1, <1>2, <1>4, CanceledBTyped, CanceledBContinues, ContinuesThrough
<1>6. ~ m.settings.skipB => told.cycle = m.cycle BY <1>1, <1>2, <1>3, CanceledBContinues
<1> HIDE DEF told
<1>7. Continues(m, Paused(told)) /\ Paused(told).cycle = told.cycle
  BY <1>5, StopContinues, ContinuesThrough
<1>8. Continues(m, m) BY DEF Continues, Later
<1>9. \/ Judged(m, f, outcome, outOfMemory) = m
      \/ Judged(m, f, outcome, outOfMemory) = IF outOfMemory THEN Paused(told) ELSE told
  BY JudgedCases DEF told, n, p
<1> QED BY <1>5, <1>6, <1>7, <1>8, <1>9

\* _request_station_capture
LEMMA AskedContinues ==
  ASSUME NEW m \in Masters, NEW s \in Stations, m.cycle[s] # None
  PROVE  LET n == Asked(m, s)
         IN  /\ Continues(m, n) /\ n.cycle[s] # None
             /\ n.cycle[s].product = m.cycle[s].product
             /\ n.cycle[s].capture = m.cycle[s].capture
             /\ n.cycle[s].phase = "CAPTURE_GOAL" /\ n.cycle[s].timed
             /\ \A u \in Stations \ {s} : n.cycle[u] = m.cycle[u]
<1> DEFINE n == Asked(m, s)
<1>1. /\ SameBut(m, n, {"station", "cycle"}) /\ n.cycle[s] \in Cycles
      /\ n.cycle[s].product = m.cycle[s].product /\ n.cycle[s].capture = m.cycle[s].capture
      /\ n.cycle[s].phase = "CAPTURE_GOAL" /\ n.cycle[s].timed
      /\ \A u \in Stations \ {s} : n.cycle[u] = m.cycle[u]
  BY AskedEffect
<1> HIDE DEF n
<1>2. n.cycle[s] # None BY <1>1, CycleTyped, LineAssumption DEF None, Products
<1>3. Later(m.cycle[s], n.cycle[s]) BY <1>1, <1>2 DEF Later
<1>4. Continues(m, n) BY <1>1, <1>3, ContinuesAt
<1> QED BY <1>1, <1>2, <1>4 DEF n

\* _send_actuation_goal
LEMMA SentContinues ==
  ASSUME NEW m \in Masters, NEW p \in Products, NEW available \in BOOLEAN
  PROVE  Continues(m, Sent(m, p, available)) /\ Sent(m, p, available).cycle = m.cycle
<1>1. CASE Sent(m, p, available) = Paused(m) BY <1>1, StopContinues
<1>2. CASE SameBut(m, Sent(m, p, available), {"actuation"})
  <2>1. Continues(m, Sent(m, p, available)) BY <1>2, ContinuesFrame
  <2>2. Sent(m, p, available).cycle = m.cycle BY <1>2 DEF SameBut, Fields
  <2> QED BY <2>1, <2>2
<1> QED BY <1>1, <1>2, SentEffect

\* begin_station_cycle: its capture is a new one.
LEMMA BegunAwaited ==
  ASSUME NEW m \in Masters, NEW p \in Products, NEW s \in Stations,
         NEW G \in SUBSET Goals, Awaited(m, G)
  PROVE  Awaited(Begun(m, p, s), G)
<1> DEFINE n == Begun(m, p, s)
           c == NewCycle(m, p, s)
           k == NextCapture(m, p, s)
<1>1. /\ SameBut(m, n, {"captures", "station", "cycle", "lateStart"})
      /\ n.captures = Counted(m, p, s) /\ n.cycle = [m.cycle EXCEPT ![s] = c]
  BY BegunEffect
<1>2. c.product = p /\ c.capture = k BY DEF NewCycle
<1> HIDE DEF n, c
<1>3. /\ k \in Nat \ {0} /\ k > m.captures[p][s]
      /\ n.captures[p][s] = k
      /\ \A u \in Stations \ {s} : n.captures[p][u] = m.captures[p][u]
      /\ \A q \in Products \ {p} : n.captures[q] = m.captures[q]
  BY <1>1, CountedEffect
<1> HIDE DEF k
<1>4. n.cycle[s] = c /\ \A u \in Stations \ {s} : n.cycle[u] = m.cycle[u]
  BY <1>1 DEF Masters, CycleMaps
<1>5. \A q \in Products, u \in Stations :
         /\ m.captures[q][u] \in Nat /\ n.captures[q][u] \in Nat
         /\ n.captures[q][u] >= m.captures[q][u]
  <2>1. \A q \in Products, u \in Stations : m.captures[q][u] \in Nat BY DEF Masters, Counts
  <2>2. ASSUME NEW q \in Products, NEW u \in Stations
        PROVE  n.captures[q][u] \in Nat /\ n.captures[q][u] >= m.captures[q][u]
    <3>1. CASE q = p /\ u = s BY <1>3, <2>1, <3>1
    <3>2. CASE q # p \/ u # s
      <4>1. n.captures[q][u] = m.captures[q][u] BY <1>3, <3>2
      <4> QED BY <2>1, <4>1
    <3> QED BY <3>1, <3>2
  <2> QED BY <2>1, <2>2
<1>6. ASSUME NEW u \in Stations, n.cycle[u] # None
      PROVE  n.cycle[u].capture <= n.captures[n.cycle[u].product][u]
  <2>1. CASE u = s
    <3>1. n.cycle[u].capture = k /\ n.captures[n.cycle[u].product][u] = k
      BY <1>2, <1>3, <1>4, <2>1
    <3> QED BY <1>3, <3>1
  <2>2. CASE u # s
    <3> DEFINE d == m.cycle[u]
    <3>1. n.cycle[u] = d BY <1>4, <2>2
    <3>2. d.product \in Products /\ d.capture \in Nat /\ d.capture <= m.captures[d.product][u]
      BY <1>6, <3>1, CycleTyped DEF Awaited
    <3> HIDE DEF d
    <3>3. m.captures[d.product][u] \in Nat /\ n.captures[d.product][u] \in Nat
          /\ n.captures[d.product][u] >= m.captures[d.product][u]
      BY <1>5, <3>2
    <3> QED BY <3>1, <3>2, <3>3
  <2> QED BY <2>1, <2>2
<1>7. ASSUME NEW g \in G
      PROVE  /\ g.capture <= n.captures[g.product][g.station]
             /\ n.cycle[g.station].product = g.product /\ n.cycle[g.station].capture = g.capture
                   => n.cycle[g.station].phase # "WAITING_POSITION"
  <2>1. g.product \in Products /\ g.station \in Stations /\ g.capture \in Nat BY DEF Goals
  <2>2. g.capture <= m.captures[g.product][g.station] BY DEF Awaited
  <2>3. /\ m.captures[g.product][g.station] \in Nat /\ n.captures[g.product][g.station] \in Nat
        /\ n.captures[g.product][g.station] >= m.captures[g.product][g.station]
    BY <1>5, <2>1
  <2>4. g.capture <= n.captures[g.product][g.station] BY <2>1, <2>2, <2>3
  <2>5. CASE g.station = s
    <3>1. ASSUME p = g.product, k = g.capture PROVE FALSE
      <4>1. k <= m.captures[p][s] /\ m.captures[p][s] \in Nat BY <1>5, <2>2, <2>5, <3>1
      <4> QED BY <1>3, <4>1
    <3> QED BY <1>2, <1>4, <2>4, <2>5, <3>1
  <2>6. CASE g.station # s BY <1>4, <2>1, <2>4, <2>6 DEF Awaited
  <2> QED BY <2>5, <2>6
<1>8. Awaited(n, G) BY <1>6, <1>7 DEF Awaited
<1> QED BY <1>8 DEF n

\* _start_station_cycle
LEMMA StartedAwaited ==
  ASSUME NEW m \in Masters, NEW p \in Products, NEW s \in Stations,
         NEW G \in SUBSET Goals, Awaited(m, G)
  PROVE  Awaited(Started(m, p, s), G)
<1>1. Awaited([m EXCEPT !.lateStart = @ \union {<<p, s>>}], G)
  <2>1. SameBut(m, [m EXCEPT !.lateStart = @ \union {<<p, s>>}], {"lateStart"})
    BY DEF Masters, SameBut, Fields
  <2>2. Continues(m, [m EXCEPT !.lateStart = @ \union {<<p, s>>}]) BY <2>1, ContinuesFrame
  <2> QED BY <2>2, ContinuesAwaited
<1>2. Awaited(Faulted(m), G) BY StopContinues, ContinuesAwaited
<1>3. Awaited(Bypassed(m, p), G)
  <2>1. SameBut(m, Bypassed(m, p), {"skip", "station", "state"}) \/ Bypassed(m, p) = m
    BY BypassedEffect
  <2>2. CASE Bypassed(m, p) = m BY <2>2
  <2>3. CASE SameBut(m, Bypassed(m, p), {"skip", "station", "state"})
    BY <2>3, ContinuesFrame, ContinuesAwaited
  <2> QED BY <2>1, <2>2, <2>3
<1> QED BY <1>1, <1>2, <1>3, BegunAwaited DEF Started

\* What the goals are compared with.
LEMMA AwaitedFrame ==
  ASSUME NEW m, NEW n, NEW G, Awaited(m, G), n.captures = m.captures, n.cycle = m.cycle
  PROVE  Awaited(n, G)
BY DEF Awaited

\* The sensors: only a new cycle counts a capture.
LEMMA EntryAwaited ==
  ASSUME NEW m \in Masters, NEW G \in SUBSET Goals, Awaited(m, G), NEW p \in Products,
         NEW available \in BOOLEAN
  PROVE  /\ Awaited(EnteredAt1(m, p), G) /\ Awaited(EnteredAt2(m), G)
         /\ Awaited(EnteredAt3(m, available), G)
<1>1. Awaited(Faulted(m), G) BY StopContinues, ContinuesAwaited
<1>2. Awaited(EnteredAt1(m, p), G)
  <2> DEFINE n == Known(m, p)
             k == KnownLate(m, p)
  <2>1. /\ n \in Masters /\ SameBut(m, n, {"fifo", "state"})
        /\ k \in Masters /\ SameBut(n, k, {"lateStart"})
    BY KnownEffect
  <2> HIDE DEF n, k
  <2>2. Awaited(n, G) BY <2>1, ContinuesFrame, ContinuesAwaited
  <2>3. Awaited(k, G) BY <2>1, <2>2, ContinuesFrame, ContinuesAwaited
  <2>4. Awaited(Paused(k), G) BY <2>1, <2>3, StopContinues, ContinuesAwaited
  <2>5. "A" \in Stations BY DEF Stations
  <2>6. Awaited(Started(n, p, "A"), G) BY <2>1, <2>2, <2>5, StartedAwaited
  <2> QED BY <1>1, <2>4, <2>6, EnteredAt1Cases DEF n, k
<1>3. Awaited(EnteredAt2(m), G)
  <2> DEFINE q == OldestIn(m, Flipping)
  <2>1. CASE EnteredAt2(m) = Faulted(m) BY <1>1, <2>1
  <2>2. CASE EnteredAt2(m) # Faulted(m)
    <3>1. q # 0 BY <2>2, EnteredAt2Cases
    <3>2. q \in Products BY <3>1, OldestInFifo, StateValues
    <3> HIDE DEF q
    <3>3. /\ WaitingAtB(m, q) \in Masters /\ SameBut(m, WaitingAtB(m, q), {"state"})
          /\ SameBut(m, PassingB(m, q), {"station", "state"})
      BY <3>2, AtBEffect
    <3>4. Awaited(WaitingAtB(m, q), G) /\ Awaited(PassingB(m, q), G)
      BY <3>3, ContinuesFrame, ContinuesAwaited
    <3>5. "B" \in Stations BY DEF Stations
    <3>6. Awaited(Started(WaitingAtB(m, q), q, "B"), G)
      BY <3>2, <3>3, <3>4, <3>5, StartedAwaited
    <3> QED BY <2>2, <3>4, <3>6, EnteredAt2Cases DEF q
  <2> QED BY <2>1, <2>2
<1>4. Awaited(EnteredAt3(m, available), G)
  <2> DEFINE q == OldestIn(m, Sensor3Wait)
  <2>1. CASE EnteredAt3(m, available) = Faulted(m) BY <1>1, <2>1
  <2>2. CASE EnteredAt3(m, available) # Faulted(m)
    <3>1. q # 0 BY <2>2, EnteredAt3Cases
    <3>2. q \in Products BY <3>1, OldestInFifo, StateValues
    <3> DEFINE n == Locked(m, q)
               k == Published(n, q)
    <3>3. EnteredAt3(m, available) = Sent(k, q, available) BY <2>2, EnteredAt3Cases
    <3> HIDE DEF q
    <3>4. n \in Masters /\ SameBut(m, n, {"locked", "state", "actuation"}) BY <3>2, LockedEffect
    <3> HIDE DEF n
    <3>5. Awaited(n, G) BY <3>4, ContinuesFrame, ContinuesAwaited
    <3>6. k \in Masters /\ SameBut(n, k, {"reorder"}) BY <3>2, <3>4, PublishedTyped, PublishedEffect
    <3> HIDE DEF k
    <3>7. Awaited(k, G) BY <3>4, <3>5, <3>6, ContinuesFrame, ContinuesAwaited
    <3>8. Awaited(Sent(k, q, available), G) BY <3>2, <3>6, <3>7, SentContinues, ContinuesAwaited
    <3> QED BY <3>3, <3>8
  <2> QED BY <2>1, <2>2
<1> QED BY <1>2, <1>3, <1>4

\* A report of the belts, and the run it may confirm.
LEMMA RunningAwaited ==
  ASSUME NEW m \in Masters, NEW G \in SUBSET Goals, Awaited(m, G), NEW R \in SUBSET Stations,
         NEW allRun, NEW available \in BOOLEAN
  PROVE  Awaited(Running(m, R, allRun, available), G)
<1> DEFINE Kept == {n \in Masters : Awaited(n, G)}
           k == Confirmed(m, R)
<1>1. \A n \in Kept, s \in Stations : Resumed(n, s) \in Kept
  BY ResumedTyped, ResumedContinues, ContinuesAwaited
<1>2. ASSUME NEW n \in Kept, NEW ps \in Products \X Stations
      PROVE  ResumeOne(n, ps) \in Kept /\ StartOne(n, ps) \in Kept
  <2>1. n \in Masters /\ Awaited(n, G) /\ ps[1] \in Products /\ ps[2] \in Stations OBVIOUS
  <2>2. ResumeOne(n, ps) \in Kept BY <1>1, <2>1 DEF ResumeOne
  <2> HIDE DEF Kept
  <2>3. SameBut(n, [n EXCEPT !.lateStart = @ \ {ps}], {"lateStart"})
    BY <2>1 DEF Masters, SameBut, Fields
  <2>4. Continues(n, [n EXCEPT !.lateStart = @ \ {ps}]) BY <2>3, ContinuesFrame
  <2>5. Awaited([n EXCEPT !.lateStart = @ \ {ps}], G) BY <2>1, <2>4, ContinuesAwaited
  <2>6. Awaited(Started(n, ps[1], ps[2]), G) BY <2>1, StartedAwaited
  <2>7. Awaited(StartOne(n, ps), G) BY <2>5, <2>6 DEF StartOne
  <2> QED BY <2>1, <2>2, <2>7, StartOneTyped DEF Kept
<1>3. \A n \in Kept, p \in Products : Sent(n, p, available) \in Kept
  BY SentTyped, SentContinues, ContinuesAwaited
<1>4. m \in Kept /\ Kept \in SUBSET Masters OBVIOUS
<1> HIDE DEF Kept
<1>5. k \in Kept BY <1>1, <1>4, ConfirmedKeeps
<1> HIDE DEF k
<1>6. Rerun(k) \in Masters /\ Rerun(k) \in Kept
  <2>1. k \in Masters /\ Awaited(k, G) BY <1>5 DEF Kept
  <2>2. Rerun(k) \in Masters /\ SameBut(k, Rerun(k), {"system", "pendingRun"})
    BY <2>1, RunEffect
  <2>3. Rerun(k).captures = k.captures /\ Rerun(k).cycle = k.cycle BY <2>2 DEF SameBut, Fields
  <2> QED BY <2>1, <2>2, <2>3, AwaitedFrame DEF Kept
<1>7. Deferred(Rerun(k), available) \in Kept BY <1>2, <1>3, <1>4, <1>6, DeferredKeeps
<1>8. Running(m, R, allRun, available) \in Kept BY <1>5, <1>7 DEF Running, Rerun, k
<1> QED BY <1>8 DEF Kept

\* Nothing has been asked for yet.
LEMMA InitAwaited == Init => Awaited(master, goals)
<1> SUFFICES ASSUME Init PROVE Awaited(master, goals) OBVIOUS
<1>1. PICK settings \in Settings : master = InitialMaster(settings) BY DEF Init
<1>2. \A s \in Stations : master.cycle[s] = None BY <1>1 DEF InitialMaster
<1> QED BY <1>2 DEF Init, Awaited

\* The sensors, the cameras and the belts.
LEMMA LineAwaited ==
  ASSUME Typed, Awaited(master, goals), NEW s \in Stations, NEW available \in BOOLEAN,
         LineStep(s, available)
  PROVE  Awaited(master', goals')
<1>1. master \in Masters /\ goals \in SUBSET Goals BY DEF Typed, Goals
<1>2. CASE Sensor1 \/ Sensor2 \/ Sensor3(available)
  <2>0. 1 \in Products BY LineAssumption DEF Products
  <2>1. goals' = goals BY <1>2 DEF Sensor1, Sensor2, Sensor3
  <2> DEFINE p == Oldest("before")
  <2>2. Sensor1 => p \in Products BY SensorSees DEF Sensor1, Comes
  <2>3. \/ master' = master
        \/ p \in Products /\ master' = EnteredAt1(master, p)
        \/ master' = EnteredAt2(master)
        \/ master' = EnteredAt3(master, available)
    BY <1>2, <2>2 DEF Sensor1, Sensor2, Sensor3, Heard
  <2> HIDE DEF p
  <2> QED BY <1>1, <2>0, <2>1, <2>3, EntryAwaited
<1>3. CASE Leave(s) BY <1>3 DEF Leave
<1>4. CASE Settled(s, available)
  <2> DEFINE c == master.cycle[s]
             g == [product |-> c.product, station |-> s, capture |-> c.capture,
                   stage |-> "sent", awaited |-> TRUE]
             n == Asked(master, s)
  <2>1. \/ master' = master /\ goals' = goals
        \/ master.cycle[s] # None /\ master' = n /\ goals' = goals \union {g}
        \/ master' = Recovering(master, s) /\ goals' = goals
    BY <1>4 DEF Settled, Asked
  <2>2. Awaited(Recovering(master, s), goals) BY <1>1, RecoveringContinues, ContinuesAwaited
  <2>3. ASSUME master.cycle[s] # None PROVE Awaited(n, goals \union {g})
    <3>1. /\ Continues(master, n) /\ n.cycle[s].product = c.product
          /\ n.cycle[s].capture = c.capture /\ n.cycle[s].phase = "CAPTURE_GOAL"
      BY <1>1, <2>3, AskedContinues
    <3>2. c.capture <= master.captures[c.product][s] BY <2>3 DEF Awaited
    <3>3. g.product = c.product /\ g.station = s /\ g.capture = c.capture OBVIOUS
    <3> HIDE DEF n, g, c
    <3>4. Awaited(n, goals) BY <1>1, <3>1, ContinuesAwaited
    <3>5. n.captures = master.captures BY <3>1 DEF Continues
    <3> QED BY <3>1, <3>2, <3>3, <3>4, <3>5 DEF Awaited
  <2> HIDE DEF n, g, c
  <2> QED BY <2>1, <2>2, <2>3
<1>5. CASE Control(available)
  <2> DEFINE order == Head(master.orders)
             m     == Passed(master)
             runs  == IF order = "RESUME" THEN Stations ELSE {order}
             new   == {u \in runs : belt[u] # "running"}
             all   == \A u \in Stations : belt'[u] = "running"
  <2>1. /\ master.orders # <<>> /\ goals' = goals
        /\ \/ master' = Stopped(m)
           \/ order # "PAUSE" /\ master' = Running(m, new, all, available)
    BY <1>5 DEF Control, Passed
  <2>2. order \in {"PAUSE", "RESUME"} \union Stations BY <1>1, <2>1 DEF Masters, OrderLists
  <2>3. order # "PAUSE" => new \in SUBSET Stations BY <2>2
  <2>4. m \in Masters /\ SameBut(master, m, {"orders"}) BY <1>1, <2>1, RunEffect
  <2> HIDE DEF m, new, all, order
  <2>5. Awaited(m, goals) BY <1>1, <2>4, ContinuesFrame, ContinuesAwaited
  <2>6. order # "PAUSE" => Awaited(Running(m, new, all, available), goals)
    BY <1>1, <2>3, <2>4, <2>5, RunningAwaited
  <2>7. Awaited(Stopped(m), goals)
    <3> DEFINE n == [m EXCEPT !.system = "PAUSED"]
    <3>1. SameBut(m, n, {"system"}) BY <2>4 DEF Masters, SameBut, Fields
    <3>2. Stopped(m) \in {m, n, Faulted(m)} BY DEF Stopped
    <3> HIDE DEF n
    <3>3. n.captures = m.captures /\ n.cycle = m.cycle BY <3>1 DEF SameBut, Fields
    <3>4. Awaited(n, goals) BY <2>5, <3>3, AwaitedFrame
    <3>5. Awaited(Faulted(m), goals) BY <1>1, <2>4, <2>5, StopContinues, ContinuesAwaited
    <3> QED BY <2>5, <3>2, <3>4, <3>5
  <2> QED BY <2>1, <2>6, <2>7
<1> QED BY <1>2, <1>3, <1>4, <1>5 DEF LineStep

\* Nothing changes in the cycles.
LEMMA GoesOnFrame ==
  ASSUME NEW m, NEW n, NEW changed, SameBut(m, n, changed),
         changed \cap {"settings", "captures", "system", "cycle"} = {}
  PROVE  GoesOn(m, n)
<1>1. Continues(m, n) BY ContinuesFrame
<1>2. n.cycle = m.cycle BY DEF SameBut, Fields
<1> QED BY <1>1, <1>2 DEF GoesOn, Watches

\* The line stops.
LEMMA GoesOnStopped ==
  ASSUME NEW m \in Masters
  PROVE  GoesOn(m, m) /\ GoesOn(m, Faulted(m)) /\ GoesOn(m, Paused(m))
BY StopContinues DEF GoesOn, Continues, Later, Watches

\* The goals are of captures that were asked for.
LEMMA AwaitedGoals ==
  ASSUME NEW m, NEW G, NEW H, Awaited(m, G), SameCaptures(G, H)
  PROVE  Awaited(m, H)
BY DEF Awaited, SameCaptures

\* Vision's answers.
LEMMA VisionGoesOn ==
  ASSUME Typed, Awaited(master, goals),
         VisionStep
  PROVE  GoesOn(master, master') /\ SameCaptures(goals, goals') /\ belt' = belt
<1>1. master \in Masters /\ frames \in SUBSET Frames BY DEF Typed
<1>2. belt' = belt
  BY DEF VisionStep, GoalAccepted, GoalRefused, Capture, CaptureResult, CaptureResultLost,
         StationTerminal
<1>3. GoesOn(master, master) BY <1>1, GoesOnStopped
<1>4. SameCaptures(goals, goals) BY DEF SameCaptures
<1>5. ASSUME NEW g \in goals, NEW h,
             h.product = g.product, h.station = g.station, h.capture = g.capture
      PROVE  SameCaptures(goals, (goals \ {g}) \union {h})
  BY <1>5 DEF SameCaptures
<1>6. ASSUME NEW g \in goals PROVE SameCaptures(goals, goals \ {g}) BY DEF SameCaptures
<1>7. ASSUME NEW g \in goals, NEW s, s = g.station
      PROVE  GoesOn(master, Recovering(master, s))
  <2>1. s \in Stations BY <1>7, CurrentTyped
  <2> QED BY <1>1, <2>1, RecoveringContinues DEF GoesOn
<1>8. ASSUME NEW g \in goals, GoalAccepted(g)
      PROVE  GoesOn(master, master') /\ SameCaptures(goals, goals')
  <2> DEFINE s == g.station
             k == [master.cycle EXCEPT ![s].phase = "WAITING_CAPTURE_RESULT"]
             n == [master EXCEPT !.cycle = k]
  <2>1. s \in Stations /\ g \in Goals BY CurrentTyped DEF Typed, Goals
  <2>2. \/ master' = master
        \/ Current(g) /\ master' = [master EXCEPT !.cycle[s].phase = "WAITING_CAPTURE_RESULT"]
    BY <1>8, Zenon DEF GoalAccepted
  <2>3. n = [master EXCEPT !.cycle[s].phase = "WAITING_CAPTURE_RESULT"] OBVIOUS
  <2>4. ASSUME Current(g) PROVE GoesOn(master, n)
    <3>1. master.cycle[s] # None /\ master.cycle[s] \in Cycles BY <2>4, CurrentTyped
    <3>2. master.cycle[s].phase # "WAITING_POSITION" BY <2>4 DEF Current, Awaited
    <3> HIDE DEF s
    <3>3. /\ \A u \in Stations \ {s} : k[u] = master.cycle[u]
          /\ k[s].product = master.cycle[s].product
          /\ k[s].capture = master.cycle[s].capture
          /\ k[s].timed = master.cycle[s].timed /\ k[s].phase = "WAITING_CAPTURE_RESULT"
      BY <1>1, <2>1, <3>1 DEF Masters, CycleMaps, Cycles
    <3> HIDE DEF k
    <3>4. SameBut(master, n, {"cycle"}) /\ n.cycle = k BY <1>1 DEF Masters, SameBut, Fields
    <3> HIDE DEF n
    <3>5. k[s] # None BY <3>1, <3>3, LineAssumption DEF Cycles, None, Products
    <3>6. Later(master.cycle[s], n.cycle[s]) BY <3>1, <3>3, <3>4, <3>5 DEF Later
    <3>7. Continues(master, n) BY <2>1, <3>3, <3>4, <3>6, ContinuesAt
    <3>8. ASSUME NEW u \in Stations PROVE Watches(master.cycle[u], n.cycle[u])
      BY <3>1, <3>2, <3>3, <3>4, <3>5 DEF Watches
    <3> QED BY <3>7, <3>8 DEF GoesOn
  <2> HIDE DEF n
  <2>5. GoesOn(master, master') BY <1>3, <2>2, <2>3, <2>4
  <2> DEFINE awaited == Current(g) /\ ~(g.station = "B" /\ master.skip[g.product])
             h == [g EXCEPT !.stage = "accepted", !.awaited = awaited]
  <2>6. goals' = (goals \ {g}) \union {h} BY <1>8 DEF GoalAccepted
  <2> HIDE DEF awaited
  <2>7. h.product = g.product /\ h.station = g.station /\ h.capture = g.capture
    BY <2>1 DEF Goals
  <2> HIDE DEF h
  <2> QED BY <1>5, <2>5, <2>6, <2>7
<1>9. ASSUME NEW g \in goals, GoalRefused(g) \/ CaptureResultLost(g)
      PROVE  GoesOn(master, master') /\ SameCaptures(goals, goals')
  <2>1. g \in Goals BY DEF Typed, Goals
  <2>2. GoesOn(master, master') BY <1>3, <1>7, <1>9 DEF GoalRefused, CaptureResultLost
  <2> DEFINE h == [g EXCEPT !.stage = "accepted", !.awaited = FALSE]
             k == [g EXCEPT !.awaited = FALSE]
  <2>3. /\ h.product = g.product /\ h.station = g.station /\ h.capture = g.capture
        /\ k.product = g.product /\ k.station = g.station /\ k.capture = g.capture
    BY <2>1 DEF Goals
  <2>4. \/ goals' = goals \ {g}
        \/ goals' = (goals \ {g}) \union {h}
        \/ goals' = (goals \ {g}) \union {k}
    BY <1>9 DEF GoalRefused, CaptureResultLost
  <2> HIDE DEF h, k
  <2> QED BY <1>5, <1>6, <2>2, <2>3, <2>4
<1>10. ASSUME NEW g \in goals, Capture(g)
       PROVE  GoesOn(master, master') /\ SameCaptures(goals, goals')
  <2>1. g \in Goals BY DEF Typed, Goals
  <2>2. PICK stage \in {"saved", "failed", "diskFull"} :
           goals' = (goals \ {g}) \union IF g.awaited THEN {[g EXCEPT !.stage = stage]} ELSE {}
    BY <1>10 DEF Capture
  <2> DEFINE h == [g EXCEPT !.stage = stage]
  <2>3. h.product = g.product /\ h.station = g.station /\ h.capture = g.capture
    BY <2>1 DEF Goals
  <2>4. goals' = goals \ {g} \/ goals' = (goals \ {g}) \union {h} BY <2>2
  <2>5. master' = master BY <1>10 DEF Capture
  <2> HIDE DEF h
  <2> QED BY <1>3, <1>5, <1>6, <2>3, <2>4, <2>5
<1>11. ASSUME NEW g \in goals, CaptureResult(g)
       PROVE  GoesOn(master, master') /\ SameCaptures(goals, goals')
  <2> DEFINE s == g.station
             p == g.product
             m == Promoted(master, p, s)
             full == g.stage = "diskFull"
  <2>1. p \in Products /\ s \in Stations /\ full \in BOOLEAN BY CurrentTyped
  <2>2. \/ master' = master
        \/ /\ Current(g)
           /\ \/ master' = Resuming(master, s)
              \/ master' = Resuming(m, s)
              \/ master' = CaptureFailed(master, s, full)
    BY <1>11 DEF CaptureResult
  <2>3. goals' = goals \ {g} BY <1>11 DEF CaptureResult
  <2>4. ASSUME Current(g)
        PROVE  master.cycle[s] # None /\ master.cycle[s].phase # "WAITING_POSITION"
    BY <2>4, CurrentTyped DEF Current, Awaited
  <2> HIDE DEF p, s, full
  <2>5. m \in Masters /\ m.cycle = master.cycle /\ SameBut(master, m, {"station", "state"})
    BY <1>1, <2>1, PromotedTyped, PromotedEffect
  <2>6. Continues(master, m) BY <2>5, ContinuesFrame
  <2>7. ASSUME NEW n, Current(g), Continues(master, n), n.cycle[s] # None,
               n.cycle[s].phase = "RESUME_PENDING", n.cycle[s].timed,
               ~ master.settings.skipB => \A u \in Stations \ {s} : n.cycle[u] = master.cycle[u]
        PROVE  GoesOn(master, n)
    <3>1. n.settings = master.settings BY <2>7 DEF Continues
    <3> QED BY <2>4, <2>7, <3>1 DEF GoesOn, Watches
  <2> HIDE DEF m
  <2>8. ASSUME Current(g) PROVE GoesOn(master, Resuming(master, s))
    BY <1>1, <2>1, <2>4, <2>7, <2>8, ResumingContinues
  <2>9. ASSUME Current(g) PROVE GoesOn(master, Resuming(m, s))
    <3> DEFINE n == Resuming(m, s)
    <3>1. /\ Continues(m, n) /\ n.cycle[s] # None
          /\ n.cycle[s].phase = "RESUME_PENDING" /\ n.cycle[s].timed
          /\ \A u \in Stations \ {s} : n.cycle[u] = m.cycle[u]
      BY <2>1, <2>4, <2>5, <2>9, ResumingContinues
    <3> HIDE DEF n
    <3>2. Continues(master, n) BY <2>6, <3>1, ContinuesThrough
    <3>3. GoesOn(master, n) BY <2>5, <2>7, <2>9, <3>1, <3>2
    <3> QED BY <3>3 DEF n
  <2>10. ASSUME Current(g) PROVE GoesOn(master, CaptureFailed(master, s, full))
    BY <1>1, <2>1, <2>4, <2>7, <2>10, CaptureFailedContinues
  <2> QED BY <1>3, <1>6, <2>2, <2>3, <2>8, <2>9, <2>10
<1>12. ASSUME NEW f \in frames, NEW outcome \in {"PASS", "NG", "FAILED"},
              NEW outOfMemory \in BOOLEAN, StationTerminal(f, outcome, outOfMemory)
       PROVE  GoesOn(master, master') /\ SameCaptures(goals, goals')
  <2> DEFINE n == Judged(master, f, outcome, outOfMemory)
  <2>1. master' = n /\ goals' = goals BY <1>12 DEF StationTerminal
  <2>2. Continues(master, n) /\ (~ master.settings.skipB => n.cycle = master.cycle)
    BY <1>1, JudgedContinues
  <2> HIDE DEF n
  <2> QED BY <1>4, <2>1, <2>2 DEF GoesOn, Watches, Continues
<1> QED BY <1>2, <1>8, <1>9, <1>10, <1>11, <1>12 DEF VisionStep

\* Control's answers, the Master's deadlines and the operator.
LEMMA OtherGoesOn ==
  ASSUME Typed, NEW p \in Products, NEW s \in Stations,
         OtherStep(p, s)
  PROVE  GoesOn(master, master') /\ goals' = goals /\ belt' = belt
<1>1. master \in Masters BY DEF Typed
<1>2. goals' = goals /\ belt' = belt
  BY DEF OtherStep, ActuationAccepted, ActuationRefused, ActuationTimeout,
         ActuationResult, CaptureTimeout, PositionTimeout, ResumeTimeout, OperatorPause, OperatorResume
<1>3. /\ GoesOn(master, master) /\ GoesOn(master, Paused(master))
      /\ GoesOn(master, Faulted(master))
  BY <1>1, GoesOnStopped
<1>4. CASE ActuationAccepted(p)
  <2> DEFINE t == [master.state EXCEPT ![p] = Actuating]
             a == [master.actuation EXCEPT ![p].phase = "waiting"]
             n == [master EXCEPT !.state = t, !.actuation = a]
  <2>1. master' = master \/ master' = n BY <1>4 DEF ActuationAccepted
  <2> HIDE DEF a, t
  <2>2. SameBut(master, n, {"state", "actuation"}) BY <1>1 DEF Masters, SameBut, Fields
  <2> HIDE DEF n
  <2>3. GoesOn(master, n) BY <2>2, GoesOnFrame
  <2> QED BY <1>2, <1>3, <2>1, <2>3
<1>5. CASE ActuationRefused(p) BY <1>2, <1>3, <1>5 DEF ActuationRefused
<1>6. CASE ActuationTimeout(p)
  <2> DEFINE a == Untimed(master.actuation, p)
             n == [master EXCEPT !.actuation = a]
  <2>1. a \in ActuationMaps BY <1>1, ActuationMarked DEF Masters
  <2>2. master' = Faulted(master) \/ master' = Paused(n) BY <1>6 DEF ActuationTimeout, Untimed
  <2> HIDE DEF a
  <2>3. n \in Masters /\ SameBut(master, n, {"actuation"})
    BY <1>1, <2>1 DEF Masters, SameBut, Fields
  <2> HIDE DEF n
  <2>4. Continues(master, n) BY <2>3, ContinuesFrame
  <2>5. Continues(master, Paused(n)) /\ Paused(n).system # "RUN"
    BY <2>3, <2>4, StopContinues, ContinuesThrough
  <2> QED BY <1>2, <1>3, <2>2, <2>5 DEF GoesOn
<1>7. ASSUME NEW success \in BOOLEAN, ActuationResult(p, success)
      PROVE  GoesOn(master, master')
  <2> DEFINE a == Ended(master.actuation, p)
             t == [master.state EXCEPT ![p] = Done]
             n == [master EXCEPT !.state = t, !.actuation = a]
             k == WithoutCompleted(n)
  <2>1. \/ master' = master \/ master' = Faulted(master) \/ master' = k
    BY <1>7 DEF ActuationResult, Ended
  <2>2. a \in ActuationMaps BY <1>1, ActuationMarked DEF Masters
  <2>3. t \in States
    <3>1. Done \in Unseen .. Done BY DEF Unseen, Done
    <3> QED BY <1>1, <3>1 DEF Masters, States
  <2> HIDE DEF a, t
  <2>4. n \in Masters /\ SameBut(master, n, {"state", "actuation"})
    BY <1>1, <2>2, <2>3 DEF Masters, SameBut, Fields
  <2> HIDE DEF n
  <2>5. SameBut(n, k, {"fifo", "actuation"}) BY <2>4, WithoutCompletedEffect
  <2> HIDE DEF k
  <2>6. SameBut(master, k, {"state", "fifo", "actuation"}) BY <2>4, <2>5 DEF SameBut, Fields
  <2>7. GoesOn(master, k) BY <2>6, GoesOnFrame
  <2> QED BY <1>3, <2>1, <2>7
<1>8. CASE CaptureTimeout(s)
  <2> DEFINE n == CaptureFailed(master, s, FALSE)
  <2>1. /\ master.cycle[s] # None /\ master.cycle[s].phase # "WAITING_POSITION"
        /\ master' = n
    BY <1>8 DEF CaptureTimeout
  <2>2. /\ Continues(master, n) /\ n.cycle[s] # None
        /\ n.cycle[s].phase = "RESUME_PENDING" /\ n.cycle[s].timed
        /\ ~ master.settings.skipB => \A u \in Stations \ {s} : n.cycle[u] = master.cycle[u]
    BY <1>1, <2>1, CaptureFailedContinues
  <2> HIDE DEF n
  <2>3. n.settings = master.settings BY <2>2 DEF Continues
  <2> QED BY <1>2, <2>1, <2>2, <2>3 DEF GoesOn, Watches
<1>9. ASSUME master.cycle[s] # None
      PROVE  LET k == [master.cycle EXCEPT ![s].timed = FALSE]
             IN  /\ k \in CycleMaps
                 /\ \A u \in Stations \ {s} : k[u] = master.cycle[u]
                 /\ Later(master.cycle[s], k[s])
  <2> DEFINE k == [master.cycle EXCEPT ![s].timed = FALSE]
  <2>1. master.cycle[s] \in Cycles BY <1>1, <1>9, CycleTyped
  <2>2. /\ k \in CycleMaps /\ \A u \in Stations \ {s} : k[u] = master.cycle[u]
        /\ k[s] \in Cycles
        /\ k[s].product = master.cycle[s].product
        /\ k[s].capture = master.cycle[s].capture /\ k[s].phase = master.cycle[s].phase
    BY <1>1, <2>1 DEF Masters, CycleMaps, Cycles
  <2> HIDE DEF k
  <2>3. k[s] # None BY <2>2, LineAssumption DEF Cycles, None, Products
  <2>4. Later(master.cycle[s], k[s]) BY <1>9, <2>2, <2>3 DEF Later
  <2> QED BY <2>2, <2>4 DEF k
<1>10. CASE PositionTimeout(s)
  <2> DEFINE k == [master.cycle EXCEPT ![s].timed = FALSE]
             n == [master EXCEPT !.cycle = k]
  <2>1. /\ master.cycle[s] # None
        /\ master' = Faulted(master) \/ master' = Recovering(n, s)
    BY <1>10 DEF PositionTimeout
  <2>2. /\ k \in CycleMaps /\ \A u \in Stations \ {s} : k[u] = master.cycle[u]
        /\ Later(master.cycle[s], k[s])
    BY <1>9, <2>1
  <2> HIDE DEF k
  <2>3. n \in Masters /\ SameBut(master, n, {"cycle"}) /\ n.cycle = k
    BY <1>1, <2>2 DEF Masters, SameBut, Fields
  <2> HIDE DEF n
  <2>4. Continues(master, n)
    <3>1. /\ n.settings = master.settings /\ n.captures = master.captures
          /\ n.system = master.system
      BY <2>3 DEF SameBut, Fields
    <3>2. \A u \in Stations : Later(master.cycle[u], n.cycle[u]) BY <2>2, <2>3 DEF Later
    <3> QED BY <3>1, <3>2 DEF Continues
  <2>5. Continues(master, Recovering(n, s)) /\ Recovering(n, s).system # "RUN"
    BY <2>3, <2>4, RecoveringContinues, ContinuesThrough
  <2> QED BY <1>2, <1>3, <2>1, <2>5 DEF GoesOn
<1>11. CASE ResumeTimeout(s)
  <2> DEFINE k == [master.cycle EXCEPT ![s].timed = FALSE]
             l == master.lateResume \union {<<master.cycle[s].product, s>>}
             n == [master EXCEPT !.cycle = k, !.lateResume = l]
  <2>1. master.cycle[s] # None /\ master' = Paused(n) BY <1>11 DEF ResumeTimeout
  <2>2. /\ k \in CycleMaps /\ \A u \in Stations \ {s} : k[u] = master.cycle[u]
        /\ Later(master.cycle[s], k[s])
    BY <1>9, <2>1
  <2>3. l \in Pairs
    <3>1. master.cycle[s] \in Cycles BY <1>1, <2>1, CycleTyped
    <3> QED BY <1>1, <3>1 DEF Masters, Pairs, Cycles
  <2> HIDE DEF k, l
  <2>4. n \in Masters /\ SameBut(master, n, {"cycle", "lateResume"}) /\ n.cycle = k
    BY <1>1, <2>2, <2>3 DEF Masters, SameBut, Fields
  <2> HIDE DEF n
  <2>5. Continues(master, n)
    <3>1. /\ n.settings = master.settings /\ n.captures = master.captures
          /\ n.system = master.system
      BY <2>4 DEF SameBut, Fields
    <3>2. \A u \in Stations : Later(master.cycle[u], n.cycle[u]) BY <2>2, <2>4 DEF Later
    <3> QED BY <3>1, <3>2 DEF Continues
  <2>6. Continues(master, Paused(n)) /\ Paused(n).system # "RUN"
    BY <2>4, <2>5, StopContinues, ContinuesThrough
  <2> QED BY <1>2, <2>1, <2>6 DEF GoesOn
<1>12. CASE OperatorPause BY <1>2, <1>3, <1>12 DEF OperatorPause
<1>13. CASE OperatorResume
  <2> DEFINE n == [master EXCEPT !.pendingRun = TRUE, !.orders = Append(@, "RESUME")]
  <2>1. master' = n BY <1>13 DEF OperatorResume
  <2>2. SameBut(master, n, {"pendingRun", "orders"}) BY <1>1 DEF Masters, SameBut, Fields
  <2> HIDE DEF n
  <2> QED BY <1>2, <2>1, <2>2, GoesOnFrame
<1> QED BY <1>2, <1>4, <1>5, <1>6, <1>7, <1>8, <1>10, <1>11, <1>12, <1>13 DEF OtherStep

\* Every step.
LEMMA NextAwaited ==
  ASSUME Typed, Awaited(master, goals), [Next]_vars
  PROVE  Awaited(master', goals')
<1>1. CASE UNCHANGED vars BY <1>1 DEF vars
<1>2. master \in Masters /\ goals \in SUBSET Goals BY DEF Typed, Goals
<1>3. ASSUME GoesOn(master, master'), SameCaptures(goals, goals') PROVE Awaited(master', goals')
  <2>1. Awaited(master', goals) BY <1>2, <1>3, ContinuesAwaited DEF GoesOn
  <2> QED BY <1>3, <2>1, AwaitedGoals
<1>4. goals' = goals => SameCaptures(goals, goals') BY DEF SameCaptures
<1> QED BY <1>1, <1>3, <1>4, StepKinds, LineAwaited, VisionGoesOn, OtherGoesOn

-----------------------------------------------------------------------------
(* A belt that holds for the camera is released. *)

\* A step that goes on with the cycles goes on with the belts.
LEMMA GoesOnHeld ==
  ASSUME NEW m, NEW n, NEW B, Held(m, B), GoesOn(m, n)
  PROVE  Held(n, B)
<1> SUFFICES ASSUME n.system = "RUN", ~ n.settings.skipB, NEW s \in Stations
             PROVE  HeldAt(n.cycle[s], B[s])
  BY DEF Held
<1>1. m.system = "RUN" /\ ~ m.settings.skipB BY DEF GoesOn, Continues
<1>2. HeldAt(m.cycle[s], B[s]) BY <1>1 DEF Held
<1>3. Watches(m.cycle[s], n.cycle[s]) BY DEF GoesOn
<1> QED BY <1>2, <1>3 DEF HeldAt, Watches

\* What a station start comes to while the line runs: a cycle for the product.
LEMMA StartedCycle ==
  ASSUME NEW m \in Masters, NEW p \in Products, NEW s \in Stations,
         m.cycle[s].product # p, s = "B" => ~ m.skip[p], Started(m, p, s).system = "RUN"
  PROVE  LET n == Started(m, p, s)
         IN  /\ m.system = "RUN" /\ n.settings = m.settings
             /\ m.cycle[s] = None /\ m.state[p] = Waiting[s] /\ n = Begun(m, p, s)
             /\ n.cycle[s] # None /\ n.cycle[s].phase = "WAITING_POSITION" /\ n.cycle[s].timed
             /\ \A u \in Stations \ {s} : n.cycle[u] = m.cycle[u]
<1> DEFINE n == Started(m, p, s)
           l == [m EXCEPT !.lateStart = @ \union {<<p, s>>}]
           k == Begun(m, p, s)
           c == NewCycle(m, p, s)
<1>1. l.system = m.system BY DEF Masters
<1>2. Faulted(m).system # "RUN" BY StopContinues
<1>3. \/ m.system # "RUN" /\ n = l
      \/ n = Faulted(m)
      \/ m.system = "RUN" /\ m.cycle[s] = None /\ m.state[p] = Waiting[s] /\ n = k
  BY DEF Started
<1>4. m.system = "RUN" /\ m.cycle[s] = None /\ m.state[p] = Waiting[s] /\ n = k
  BY <1>1, <1>2, <1>3
<1>5. /\ SameBut(m, k, {"captures", "station", "cycle", "lateStart"})
      /\ k.cycle = [m.cycle EXCEPT ![s] = c]
  BY BegunEffect
<1>6. c.product = p /\ c.phase = "WAITING_POSITION" /\ c.timed BY DEF NewCycle
<1>7. c # None BY <1>6, LineAssumption DEF None, Products
<1> HIDE DEF c, k, n
<1>8. k.cycle[s] = c /\ \A u \in Stations \ {s} : k.cycle[u] = m.cycle[u]
  BY <1>5 DEF Masters, CycleMaps
<1>9. k.settings = m.settings BY <1>5 DEF SameBut, Fields
<1> QED BY <1>4, <1>6, <1>7, <1>8, <1>9 DEF n, k

\* A product that comes to a station while the line runs has a cycle there.
LEMMA EntryHeld ==
  ASSUME NEW m \in Masters, NEW B \in Belts, Held(m, B), NEW p \in Products,
         NEW s \in Stations, NEW n \in Masters,
         n.system = m.system, n.settings = m.settings, n.cycle = m.cycle, n.skip = m.skip,
         m.cycle[s].product # p, s = "B" /\ n.skip[p] => m.settings.skipB
  PROVE  Held(Started(n, p, s), [B EXCEPT ![s] = "positioning"])
<1> DEFINE k == Started(n, p, s)
           C == [B EXCEPT ![s] = "positioning"]
<1>0. k.settings = n.settings
  <2>1. [n EXCEPT !.lateStart = @ \union {<<p, s>>}].settings = n.settings BY DEF Masters
  <2>2. Faulted(n).settings = n.settings BY StopContinues DEF Continues
  <2>3. Bypassed(n, p).settings = n.settings BY BypassedEffect DEF SameBut, Fields
  <2>4. Begun(n, p, s).settings = n.settings
    <3> DEFINE j == Begun(n, p, s)
    <3>1. SameBut(n, j, {"captures", "station", "cycle", "lateStart"}) BY BegunEffect
    <3> HIDE DEF j
    <3>2. j.settings = n.settings BY <3>1 DEF SameBut, Fields
    <3> QED BY <3>2 DEF j
  <2> QED BY <2>1, <2>2, <2>3, <2>4 DEF Started
<1> SUFFICES ASSUME k.system = "RUN", ~ k.settings.skipB, NEW u \in Stations
             PROVE  HeldAt(k.cycle[u], C[u])
  BY DEF Held
<1>1. /\ n.system = "RUN" /\ k.cycle[s] # None /\ k.cycle[s].phase = "WAITING_POSITION"
      /\ k.cycle[s].timed /\ \A v \in Stations \ {s} : k.cycle[v] = n.cycle[v]
  BY <1>0, StartedCycle
<1> HIDE DEF k
<1>2. C[s] = "positioning" /\ \A v \in Stations \ {s} : C[v] = B[v] BY DEF Belts
<1> HIDE DEF C
<1>3. CASE u = s BY <1>1, <1>2, <1>3 DEF HeldAt
<1>4. CASE u # s
  <2>1. HeldAt(m.cycle[u], B[u]) BY <1>0, <1>1 DEF Held
  <2> QED BY <1>1, <1>2, <1>4, <2>1
<1> QED BY <1>3, <1>4

\* A line that does not run holds nothing.
LEMMA StoppedHeld ==
  ASSUME NEW m, NEW B, m.system # "RUN"
  PROVE  Held(m, B)
BY DEF Held

\* The sensors.
LEMMA SensorsHeld ==
  ASSUME Typed, Evidence(master, frames), Tracked(master, pos, belt), Held(master, belt),
         NEW available \in BOOLEAN, Sensor1 \/ Sensor2 \/ Sensor3(available)
  PROVE  Held(master', belt')
<1>1. master \in Masters /\ belt \in Belts /\ "A" \in Stations /\ "B" \in Stations
  BY DEF Typed, Stations
<1>2. Alive BY DEF Sensor1, Sensor2, Sensor3
<1>3. Ledger(master, pos) BY <1>2 DEF Tracked, Alive
<1>4. ASSUME NEW n, GoesOn(master, n) PROVE Held(n, belt) BY <1>4, GoesOnHeld
<1>5. Faulted(master).system # "RUN" BY <1>1, StopContinues
<1>6. ASSUME NEW q \in Products, NEW s \in Stations, master.state[q] \in {Unseen, Flipping}
      PROVE  master.cycle[s].product # q
  <2>1. \A u \in Stations : Unseen \notin {Waiting[u], Captured[u]}
                            /\ Flipping \notin {Waiting[u], Captured[u]}
    BY StateValues
  <2> QED BY <1>1, <1>3, <1>6, <2>1, CycleTyped DEF Ledger, Cycled
<1>7. CASE Sensor1
  <2> DEFINE p == Oldest("before")
             n == Known(master, p)
             k == KnownLate(master, p)
  <2>1. /\ Comes(pos, p, "before") /\ belt' = [belt EXCEPT !["A"] = "positioning"]
        /\ belt["A"] # "stopped" /\ Heard(EnteredAt1(master, p))
    BY <1>7, SensorSees DEF Sensor1, Runs
  <2>2. master' = EnteredAt1(master, p) BY <1>1, <1>2, <2>1, MasterListens DEF Heard
  <2> HIDE DEF p
  <2>3. p \in Products /\ master.state[p] = Unseen BY <1>3, <2>1 DEF Comes, Ledger, Follows
  <2>4. /\ n \in Masters /\ SameBut(master, n, {"fifo", "state"}) /\ k \in Masters
    BY <1>1, <2>3, KnownEffect
  <2> HIDE DEF n, k
  <2>5. /\ n.system = master.system /\ n.settings = master.settings
        /\ n.cycle = master.cycle /\ n.skip = master.skip
    BY <2>4 DEF SameBut, Fields
  <2>6. Held(Started(n, p, "A"), belt') BY <1>1, <1>6, <2>1, <2>3, <2>4, <2>5, EntryHeld
  <2>7. Paused(k).system # "RUN" BY <2>4, StopContinues
  <2>8. \/ master' = Faulted(master) \/ master' = Paused(k) \/ master' = Started(n, p, "A")
    BY <1>1, <2>2, <2>3, EnteredAt1Cases DEF n, k
  <2> QED BY <1>5, <2>6, <2>7, <2>8, StoppedHeld
<1>8. CASE Sensor2
  <2> DEFINE q == OldestIn(master, Flipping)
             n == WaitingAtB(master, q)
  <2>1. /\ belt' = [belt EXCEPT !["B"] = "positioning"]
        /\ belt["B"] # "stopped" /\ Heard(EnteredAt2(master))
    BY <1>8 DEF Sensor2, Runs
  <2>2. master' = EnteredAt2(master) BY <1>1, <1>2, <2>1, MasterListens DEF Heard
  <2>3. CASE master' = Faulted(master) BY <1>5, <2>3, StoppedHeld
  <2>4. CASE master' # Faulted(master)
    <3>1. /\ q # 0
          /\ \/ master.skip[q] /\ master' = PassingB(master, q)
             \/ master' = Started(n, q, "B")
      BY <1>1, <2>2, <2>4, EnteredAt2Cases
    <3>2. q \in Products /\ master.state[q] = Flipping BY <1>1, <3>1, OldestInFifo, StateValues
    <3> HIDE DEF q
    <3>3. master.skip[q] => master.settings.skipB
      BY <3>2 DEF Evidence, ProductSound, VerdictSound
    <3>4. n \in Masters /\ SameBut(master, n, {"state"})
          /\ SameBut(master, PassingB(master, q), {"station", "state"})
      BY <1>1, <3>2, AtBEffect
    <3> HIDE DEF n
    <3>5. /\ n.system = master.system /\ n.settings = master.settings
          /\ n.cycle = master.cycle /\ n.skip = master.skip
          /\ PassingB(master, q).settings = master.settings
      BY <3>4 DEF SameBut, Fields
    <3>6. Held(Started(n, q, "B"), belt') BY <1>1, <1>6, <2>1, <3>2, <3>3, <3>4, <3>5, EntryHeld
    <3>7. master.skip[q] => Held(PassingB(master, q), belt') BY <3>3, <3>5 DEF Held
    <3> QED BY <3>1, <3>6, <3>7
  <2> QED BY <2>3, <2>4
<1>9. CASE Sensor3(available)
  <2> DEFINE q == OldestIn(master, Sensor3Wait)
             n == Locked(master, q)
             k == Published(n, q)
  <2>1. belt' = belt /\ (master' = EnteredAt3(master, available) \/ master' = master)
    BY <1>9 DEF Sensor3, Heard
  <2>2. CASE master' = Faulted(master) \/ master' = master BY <1>5, <2>1, <2>2, StoppedHeld
  <2>3. CASE ~(master' = Faulted(master) \/ master' = master)
    <3>1. q # 0 /\ master' = Sent(k, q, available) BY <1>1, <2>1, <2>3, EnteredAt3Cases
    <3>2. q \in Products BY <1>1, <3>1, OldestInFifo, StateValues
    <3> HIDE DEF q
    <3>3. n \in Masters /\ SameBut(master, n, {"locked", "state", "actuation"})
      BY <1>1, <3>2, LockedEffect
    <3> HIDE DEF n
    <3>4. k \in Masters /\ SameBut(n, k, {"reorder"}) BY <3>2, <3>3, PublishedTyped, PublishedEffect
    <3> HIDE DEF k
    <3>5. Continues(master, n) BY <3>3, ContinuesFrame
    <3>6. Continues(master, k) BY <3>4, <3>5, ContinuesFrame, ContinuesThrough
    <3>7. Continues(k, Sent(k, q, available)) /\ Sent(k, q, available).cycle = k.cycle
      BY <3>2, <3>4, SentContinues
    <3>8. Continues(master, Sent(k, q, available)) BY <3>6, <3>7, ContinuesThrough
    <3>9. n.cycle = master.cycle /\ k.cycle = n.cycle BY <3>3, <3>4 DEF SameBut, Fields
    <3>10. GoesOn(master, Sent(k, q, available)) BY <3>7, <3>8, <3>9 DEF GoesOn, Watches
    <3> QED BY <1>4, <2>1, <3>1, <3>10
  <2> QED BY <2>2, <2>3
<1> QED BY <1>7, <1>8, <1>9

\* What the Mega has positioned.
LEMMA SettledHeld ==
  ASSUME Typed, Evidence(master, frames), Held(master, belt),
         NEW s \in Stations, NEW available \in BOOLEAN, Settled(s, available)
  PROVE  Held(master', belt')
<1> DEFINE c == master.cycle[s]
           n == Asked(master, s)
           B == [belt EXCEPT ![s] = "hold"]
           passing == s = "B" /\ master.skip[c.product]
<1>1. /\ master \in Masters /\ belt \in Belts /\ belt[s] = "positioning" /\ belt' = B
  BY DEF Typed, Settled
<1>2. \/ master' = master /\ ~(c # None /\ c.phase = "WAITING_POSITION" /\ ~ passing)
      \/ c # None /\ master' = n
      \/ master' = Recovering(master, s)
  BY DEF Settled, Asked
<1>3. B[s] = "hold" /\ \A u \in Stations \ {s} : B[u] = belt[u] BY <1>1 DEF Belts
<1>4. c # None => c.product \in Products BY <1>1, CycleTyped
<1>5. c # None /\ passing => master.settings.skipB
  BY <1>4 DEF Evidence, ProductSound, VerdictSound
<1> HIDE DEF B, passing
<1>6. CASE master' = master /\ ~(c # None /\ c.phase = "WAITING_POSITION" /\ ~ passing)
  <2>1. ASSUME master.system = "RUN", ~ master.settings.skipB PROVE FALSE
    <3>1. HeldAt(c, belt[s]) BY <2>1 DEF Held
    <3> QED BY <1>1, <1>5, <1>6, <2>1, <3>1 DEF HeldAt
  <2> QED BY <1>6, <2>1 DEF Held
<1>7. CASE c # None /\ master' = n
  <2>1. /\ Continues(master, n) /\ n.cycle[s] # None
        /\ n.cycle[s].phase = "CAPTURE_GOAL" /\ n.cycle[s].timed
        /\ \A u \in Stations \ {s} : n.cycle[u] = master.cycle[u]
    BY <1>1, <1>7, AskedContinues
  <2> HIDE DEF n
  <2> SUFFICES ASSUME n.system = "RUN", ~ n.settings.skipB, NEW u \in Stations
               PROVE  HeldAt(n.cycle[u], B[u])
    BY <1>1, <1>7 DEF Held
  <2>2. CASE u = s BY <1>3, <2>1, <2>2 DEF HeldAt
  <2>3. CASE u # s
    <3>1. HeldAt(master.cycle[u], belt[u]) BY <2>1 DEF Held, Continues
    <3> QED BY <1>3, <2>1, <2>3, <3>1
  <2> QED BY <2>2, <2>3
<1>8. CASE master' = Recovering(master, s)
  <2>1. Recovering(master, s).system # "RUN" BY <1>1, RecoveringContinues
  <2> QED BY <1>8, <2>1, StoppedHeld
<1> QED BY <1>2, <1>6, <1>7, <1>8

\* A report of the belts ends the cycles of the belts that start, and no other.
LEMMA ConfirmedEnds ==
  ASSUME NEW m \in Masters, NEW R \in SUBSET Stations, m.pendingRun = FALSE
  PROVE  LET n == Confirmed(m, R)
         IN  /\ Continues(m, n) /\ n.pendingRun = FALSE
             /\ \A u \in Stations \ R : n.cycle[u] = m.cycle[u]
<1> DEFINE Kept(n) == /\ Continues(m, n) /\ n.pendingRun = FALSE
                      /\ \A u \in Stations \ R : n.cycle[u] = m.cycle[u]
           G == {g \in (SUBSET R) \X Masters : Kept(g[2])}
           n == Confirmed(m, R)
<1>1. ASSUME NEW x \in R, NEW k \in Masters, Kept(k)
      PROVE  Resumed(k, x) \in Masters /\ Kept(Resumed(k, x))
  <2> DEFINE l == Resumed(k, x)
  <2>1. x \in Stations OBVIOUS
  <2>2. l \in Masters BY <2>1, ResumedTyped
  <2>3. Continues(k, l) /\ \A u \in Stations \ {x} : l.cycle[u] = k.cycle[u]
    BY <2>1, ResumedContinues
  <2>4. l.pendingRun = FALSE BY <1>1, <2>1, ResumedSystem
  <2> HIDE DEF l
  <2>5. Continues(m, l) BY <1>1, <2>3, ContinuesThrough
  <2>6. \A u \in Stations \ R : l.cycle[u] = m.cycle[u] BY <1>1, <2>3
  <2> QED BY <2>2, <2>4, <2>5, <2>6 DEF l
<1>2. Kept(m) BY DEF Continues, Later
<1> HIDE DEF Kept
<1>3. \A x \in R, q \in SUBSET R, k \in Masters :
         /\ Resumed(k, x) \in Masters
         /\ x \notin q /\ <<q, k>> \in G => <<q \union {x}, Resumed(k, x)>> \in G
  BY <1>1, ResumedTyped
<1>4. <<{}, m>> \in G BY <1>2
<1> HIDE DEF G
<1>5. <<R, n>> \in G BY <1>3, <1>4, ConfirmedInduction
<1> HIDE DEF n
<1>6. Kept(n) BY <1>5 DEF G
<1> QED BY <1>6 DEF Kept, n

\* Control's report of a command.
LEMMA ControlHeld ==
  ASSUME Typed, Tracked(master, pos, belt), Held(master, belt),
         NEW available \in BOOLEAN, Control(available)
  PROVE  Held(master', belt')
<1> DEFINE order == Head(master.orders)
           m     == Passed(master)
           runs  == IF order = "RESUME" THEN Stations ELSE {order}
           new   == {u \in runs : belt[u] # "running"}
           all   == \A u \in Stations : belt'[u] = "running"
           n     == Confirmed(m, new)
<1>1. /\ master.orders # <<>> /\ Alive /\ master \in Masters /\ master.orders \in OrderLists
      /\ "PAUSE" # "RESUME"
  BY DEF Control, Typed, Masters
<1>2. order \in {"PAUSE", "RESUME"} \union Stations BY <1>1 DEF OrderLists
<1>3. \/ order = "PAUSE" /\ master' = Stopped(m)
      \/ /\ order # "PAUSE"
         /\ belt' = [u \in Stations |-> IF u \in runs THEN "running" ELSE belt[u]]
         /\ master' = Running(m, new, all, available)
  BY DEF Control, Passed
<1>4. new \in SUBSET Stations \/ order = "PAUSE" BY <1>2
<1>5. m \in Masters /\ SameBut(master, m, {"orders"}) BY <1>1, RunEffect
<1>6. /\ order # "RESUME" => runs = {order} /\ new \in SUBSET {order}
      /\ order = "RESUME" => runs = Stations
  OBVIOUS
<1> HIDE DEF m, new, all, runs
<1>7. /\ m.system = master.system /\ m.pendingRun = master.pendingRun
      /\ m.settings = master.settings /\ m.cycle = master.cycle
  BY <1>5 DEF SameBut, Fields
<1>8. order # "PAUSE" /\ m.pendingRun = FALSE =>
         /\ master' = n /\ Continues(m, n)
         /\ \A u \in Stations \ new : n.cycle[u] = m.cycle[u]
  BY <1>3, <1>4, <1>5, ConfirmedEnds DEF Running
<1>9. Stopped(m).system = "RUN" => m.system = "RUN"
  <2> DEFINE k == [m EXCEPT !.system = "PAUSED"]
  <2>1. k.system = "PAUSED" /\ Faulted(m).system = "FAULT" BY <1>5, FaultedEffect DEF Masters
  <2>2. Stopped(m) \in {m, k, Faulted(m)} BY DEF Stopped
  <2> HIDE DEF k
  <2> QED BY <2>1, <2>2
<1> HIDE DEF n
<1>10. CASE master.system = "RUN"
  <2>1. master.orders \in Seq(Stations) /\ master.pendingRun = FALSE
    BY <1>1, <1>10 DEF Alive, Tracked, Commands
  <2>2. order \in Stations BY <1>1, <2>1
  <2>3. order # "PAUSE" /\ order # "RESUME" BY <2>2 DEF Stations
  <2> HIDE DEF order
  <2>4. /\ master' = n /\ Continues(m, n)
        /\ \A u \in Stations \ {order} : n.cycle[u] = m.cycle[u]
    BY <1>6, <1>7, <1>8, <2>1, <2>3
  <2>5. /\ belt'[order] = "running"
        /\ \A u \in Stations \ {order} : belt'[u] = belt[u]
    BY <1>3, <1>6, <2>2, <2>3
  <2> SUFFICES ASSUME n.system = "RUN", ~ n.settings.skipB, NEW u \in Stations
               PROVE  HeldAt(n.cycle[u], belt'[u])
    BY <2>4 DEF Held
  <2>6. CASE u = order BY <2>5, <2>6 DEF HeldAt
  <2>7. CASE u # order
    <3>1. HeldAt(master.cycle[u], belt[u]) BY <1>7, <2>4 DEF Held, Continues
    <3> QED BY <1>7, <2>4, <2>5, <2>7, <3>1
  <2> QED BY <2>6, <2>7
<1>11. CASE master.system = "PAUSING"
  <2>1. master.pendingRun = FALSE BY <1>1, <1>11 DEF Alive, Tracked, Commands
  <2>2. master'.system # "RUN"
    <3>1. CASE order = "PAUSE" BY <1>3, <1>7, <1>9, <1>11, <3>1
    <3>2. CASE order # "PAUSE" BY <1>7, <1>8, <1>11, <2>1, <3>2 DEF Continues
    <3> QED BY <3>1, <3>2
  <2> QED BY <2>2, StoppedHeld
<1>12. CASE master.system = "PAUSED"
  <2>1. master.orders = <<"RESUME">> BY <1>1, <1>12 DEF Alive, Tracked, Commands, Masters
  <2>2. order = "RESUME" BY <2>1
  <2> HIDE DEF order
  <2>3. \A u \in Stations : belt'[u] = "running" BY <1>1, <1>3, <1>6, <2>2
  <2> QED BY <2>3 DEF Held, HeldAt
<1> QED BY <1>1, <1>10, <1>11, <1>12 DEF Alive, Masters, Systems

\* At first every belt runs.
LEMMA InitHeld == Init => Held(master, belt)
BY DEF Init, Held, HeldAt

\* Every step.
LEMMA NextHeld ==
  ASSUME Typed, Evidence(master, frames), Tracked(master, pos, belt),
         Awaited(master, goals), Held(master, belt), [Next]_vars
  PROVE  Held(master', belt')
<1>1. CASE UNCHANGED vars BY <1>1 DEF vars
<1>2. ASSUME GoesOn(master, master'), belt' = belt PROVE Held(master', belt')
  BY <1>2, GoesOnHeld
<1>3. ASSUME NEW s \in Stations, NEW available \in BOOLEAN, LineStep(s, available)
      PROVE  Held(master', belt')
  <2>1. Leave(s) => master' = master /\ belt' = belt BY DEF Leave
  <2> QED BY <1>3, <2>1, SensorsHeld, SettledHeld, ControlHeld DEF LineStep
<1> QED BY <1>1, <1>2, <1>3, StepKinds, VisionGoesOn, OtherGoesOn

\* No belt is held for good by a Master that runs (_handle_position_settled,
\* _resume_conveyor_after_capture and the deadlines that watch them), for any number of
\* products and whatever is lost, late, refused or failed, where no station is skipped: a
\* belt that holds has a cycle past its positioning, and a deadline on it.
THEOREM HeldBeltReleased == Spec => []HeldBeltIsReleased
<1> DEFINE Inv == /\ Typed /\ Evidence(master, frames) /\ Positions(pos)
                  /\ Tracked(master, pos, belt)
                  /\ Awaited(master, goals) /\ Held(master, belt)
<1>1. Init => Inv BY InitTyped, InitEvidence, InitTracked, InitAwaited, InitHeld
<1>2. Inv /\ [Next]_vars => Inv'
  <2> SUFFICES ASSUME Inv, [Next]_vars PROVE Inv' OBVIOUS
  <2>1. Typed' BY NextTyped
  <2>2. Evidence(master', frames') BY NextEvidence
  <2>3. Positions(pos') /\ Tracked(master', pos', belt') BY NextTracked
  <2>4. Awaited(master', goals') /\ Held(master', belt') BY NextAwaited, NextHeld
  <2> QED BY <2>1, <2>2, <2>3, <2>4 DEF Evidence, Positions, Tracked, Awaited, Held
<1>3. Inv => HeldBeltIsReleased BY DEF Held, HeldAt, HeldBeltIsReleased
<1> QED BY <1>1, <1>2, <1>3, PTL DEF Spec

-----------------------------------------------------------------------------
(* A line on which nothing goes wrong but captures and inspections that fail. *)

\* Notes leave a steady line steady.
LEMMA NotesSteady ==
  ASSUME NEW m \in Masters, NEW n \in Masters, Notes(m, n), Cycled(m),
         NEW P, NEW B, NEW G \in SUBSET Goals, NEW R, NEW F \in SUBSET Frames,
         Steady(m, P, B, G, R, F)
  PROVE  Steady(n, P, B, G, R, F) /\ Cycled(n)
<1>1. /\ n.system = m.system /\ n.cycle = m.cycle /\ n.orders = m.orders
      /\ n.locked = m.locked /\ n.actuation = m.actuation
  BY DEF Notes, SameBut, Fields
<1>2. ASSUME NEW q \in Products, NEW u \in Stations, m.cycle[u].product = q
      PROVE  m.state[q] \in {Waiting[u], Captured[u]} /\ P[q] = u
  <2>1. m.cycle[u] # None BY <1>2, CycleTyped
  <2> QED BY <1>2, <2>1 DEF Cycled, Steady, Belted, BeltAgrees
<1>3. \A q \in Products : m.state[q] \in 0 .. 9 /\ n.state[q] \in 0 .. 9
  BY StateValues DEF Masters, States
<1>4. ASSUME NEW q \in Products
      PROVE  \/ n.state[q] = m.state[q]
             \/ \E u \in Stations : /\ m.cycle[u].product = q /\ n.state[q] = Captured[u]
                                    /\ m.state[q] \in {Waiting[u], Captured[u]} /\ P[q] = u
  BY <1>2 DEF Notes
<1>5. Belted(n, P, B)
  <2> SUFFICES ASSUME NEW s \in Stations PROVE BeltAgrees(n, P, B, s) BY DEF Belted
  <2>1. BeltAgrees(m, P, B, s) BY DEF Steady, Belted
  <2>2. ASSUME m.cycle[s] # None, m.state[m.cycle[s].product] = Captured[s]
        PROVE  n.state[m.cycle[s].product] = Captured[s]
    <3> DEFINE q == m.cycle[s].product
    <3>1. q \in Products /\ P[q] = s BY <1>2, <2>2, CycleTyped
    <3> QED BY <1>4, <2>2, <3>1
  <2> QED BY <1>1, <2>1, <2>2 DEF BeltAgrees, UnderWay
<1>6. Placed(n, P)
  <2> SUFFICES ASSUME NEW q \in Products PROVE InPlace(n, P, q) BY DEF Placed
  <2>1. InPlace(m, P, q) BY DEF Steady, Placed
  <2>2. ASSUME NEW s \in Stations, P[q] = s
        PROVE  n.state[q] = Onward[s] \/ n.cycle[s].product = q
    BY <1>1, <1>4, <2>1, <2>2 DEF InPlace
  <2>3. P[q] \in {"toB", "toC"} => n.state[q] = m.state[q] BY <1>4, StateValues
  <2>4. ASSUME NEW s \in Stations, n.state[q] < Waiting[s]
        PROVE  n.station[q][s].process = "PENDING"
    <3>1. m.state[q] < Waiting[s] BY <1>3, <1>4, <2>4, StateValues
    <3>2. m.cycle[s].product # q BY <1>2, <1>3, <3>1, StateValues
    <3> QED BY <2>1, <3>1, <3>2 DEF InPlace, Notes
  <2>5. n.station[q]["B"].process = "SKIPPED" => n.skip[q]
    <3>1. "B" \in Stations BY StateValues
    <3> QED BY <2>1, <3>1 DEF InPlace, Notes
  <2>6. n.locked[q] # "none" => n.state[q] >= AtSensor3
    <3>1. m.locked[q] # "none" => m.state[q] >= AtSensor3 BY <2>1 DEF InPlace
    <3>2. m.state[q] >= AtSensor3 => n.state[q] = m.state[q] BY <1>3, <1>4, StateValues
    <3> QED BY <1>1, <3>1, <3>2
  <2> QED BY <2>1, <2>2, <2>3, <2>4, <2>5, <2>6 DEF InPlace
<1>7. \A p \in Products, s \in Stations : Spoiled(m, p, s) => Spoiled(n, p, s)
  BY DEF Spoiled, Notes
<1>8. Pursuing(n, G)
  <2> SUFFICES ASSUME NEW g \in G PROVE Pursued(n, g) BY DEF Steady, Pursuing
  <2>1. Pursued(m, g) /\ g.product \in Products /\ g.station \in Stations
    BY DEF Steady, Pursuing, Goals
  <2>2. m.skip[g.product] => n.skip[g.product] BY <2>1 DEF Notes
  <2> QED BY <1>1, <1>7, <2>1, <2>2 DEF Pursued, OfCycle
<1>9. Serving(n, R)
  <2> SUFFICES ASSUME NEW q \in Products PROVE Served(n, R, q) BY DEF Serving
  <2>1. Served(m, R, q) BY DEF Steady, Serving
  <2>2. \/ n.state[q] = m.state[q]
        \/ m.state[q] < AtSensor3 /\ n.state[q] < AtSensor3
    BY <1>3, <1>4, StateValues
  <2> QED BY <1>1, <1>3, <2>1, <2>2, StateValues DEF Served
<1>10. Rested(n, G, F)
  <2>1. \A f \in F : f.product \in Products /\ f.station \in Stations BY DEF Frames
  <2> QED BY <1>1, <1>7, <2>1 DEF Steady, Rested
<1>11. Cycled(n) BY <1>1, <1>2, <1>4, CycleTyped DEF Cycled
<1> QED BY <1>1, <1>5, <1>6, <1>8, <1>9, <1>10, <1>11 DEF Steady

\* Letting go of a product whose capture Vision is not to carry out any more, or is done
\* with.
LEMMA ResumingSteady ==
  ASSUME NEW m \in Masters, NEW s \in Stations, m.cycle[s] # None,
         m.state[m.cycle[s].product] = Captured[s],
         NEW P, NEW B, NEW G \in SUBSET Goals, NEW R, NEW F \in SUBSET Frames,
         Steady(m, P, B, G, R, F),
         \A g \in G : g.station = s /\ OfCycle(m, g) =>
            /\ g.stage = "sent" => s = "B" /\ m.skip[g.product]
            /\ g.stage = "accepted" => Spoiled(m, g.product, s)
  PROVE  LET n == Resuming(m, s)
         IN  /\ n \in Masters /\ Steady(n, P, B, G, R, F)
             /\ s = "B" \/ LetGo(m) => LetGo(n)
<1> DEFINE n == Resuming(m, s)
<1>1. /\ n \in Masters
      /\ \A u \in Stations \ {s} : n.cycle[u] = m.cycle[u]
  BY ResumingTyped
<1>2. /\ SameBut(m, n, {"cycle", "orders", "lateResume"})
      /\ n.cycle[s].product = m.cycle[s].product
      /\ n.cycle[s].capture = m.cycle[s].capture
      /\ n.cycle[s].phase = "RESUME_PENDING"
      /\ n.orders = IF m.system = "RUN" THEN Append(m.orders, s) ELSE m.orders
  BY ResumingEffect
<1>3. n.cycle[s] # None BY ResumingContinues
<1> HIDE DEF n
<1>4. /\ n.system = m.system /\ n.state = m.state /\ n.station = m.station /\ n.skip = m.skip
      /\ n.locked = m.locked /\ n.actuation = m.actuation
  BY <1>2 DEF SameBut, Fields
<1>5. ASSUME NEW u \in Stations, u # s, UnderWay(n, u) PROVE UnderWay(m, u)
  <2>1. m.orders \in OrderLists BY DEF Masters
  <2>2. CASE n.orders = m.orders BY <1>5, <2>2 DEF UnderWay
  <2>3. CASE n.orders = Append(m.orders, s)
    <3>1. PICK i \in DOMAIN n.orders : n.orders[i] = u BY <1>5 DEF UnderWay
    <3>2. i \in DOMAIN m.orders /\ m.orders[i] = u
      <4>1. i \in 1 .. Len(m.orders) + 1 BY <2>1, <2>3, <3>1 DEF OrderLists
      <4>2. i # Len(m.orders) + 1 BY <1>5, <2>1, <2>3, <3>1 DEF OrderLists
      <4>3. i \in 1 .. Len(m.orders) BY <2>1, <4>1, <4>2 DEF OrderLists
      <4> QED BY <2>1, <2>3, <3>1, <4>3 DEF OrderLists
    <3> QED BY <3>2 DEF UnderWay
  <2> QED BY <1>2, <2>2, <2>3
<1>6. m.cycle[s].phase \in Phases BY CycleTyped
<1>7. Belted(n, P, B)
  <2> SUFFICES ASSUME NEW u \in Stations PROVE BeltAgrees(n, P, B, u) BY DEF Belted
  <2>1. BeltAgrees(m, P, B, u) BY DEF Steady, Belted
  <2>2. CASE u = s
    <3>1. P[m.cycle[s].product] = s /\ B[s] # "running"
      BY <1>6, <2>1, <2>2 DEF BeltAgrees, Phases, Asking
    <3>2. "RESUME_PENDING" \notin Asking /\ "RESUME_PENDING" # "WAITING_POSITION" BY DEF Asking
    <3> QED BY <1>2, <1>3, <1>4, <2>2, <3>1, <3>2 DEF BeltAgrees
  <2>3. CASE u # s
    <3>1. n.cycle[u] = m.cycle[u] /\ (UnderWay(n, u) => UnderWay(m, u)) BY <1>1, <1>5, <2>3
    <3> QED BY <1>4, <2>1, <3>1 DEF BeltAgrees
  <2> QED BY <2>2, <2>3
<1>8. \A u \in Stations : n.cycle[u].product = m.cycle[u].product
                          /\ n.cycle[u].capture = m.cycle[u].capture
  BY <1>1, <1>2
<1>9. Placed(n, P)
  <2> SUFFICES ASSUME NEW q \in Products PROVE InPlace(n, P, q) BY DEF Placed
  <2>1. InPlace(m, P, q) BY DEF Steady, Placed
  <2> QED BY <1>4, <1>8, <2>1 DEF InPlace
<1>10. Pursuing(n, G)
  <2> SUFFICES ASSUME NEW g \in G PROVE Pursued(n, g) BY DEF Steady, Pursuing
  <2>1. Pursued(m, g) /\ g.product \in Products /\ g.station \in Stations
    BY DEF Steady, Pursuing, Goals
  <2>2. OfCycle(n, g) <=> OfCycle(m, g) BY <1>8, <2>1 DEF OfCycle
  <2>3. \A u \in Stations : Spoiled(n, g.product, u) <=> Spoiled(m, g.product, u)
    BY <1>4 DEF Spoiled
  <2>4. CASE g.station # s
    <3>1. n.cycle[g.station] = m.cycle[g.station] BY <1>1, <2>1, <2>4
    <3> QED BY <1>4, <2>1, <2>2, <2>3, <3>1 DEF Pursued
  <2>5. CASE g.station = s
    <3>1. OfCycle(m, g) /\ g.stage = "sent" => s = "B" /\ m.skip[g.product] BY <2>5
    <3>2. OfCycle(m, g) /\ g.stage \in {"sent", "accepted"} => Spoiled(m, g.product, s)
      BY <2>5, <3>1 DEF Spoiled
    <3>3. g.stage = "sent" /\ OfCycle(n, g) => g.station = "B" /\ n.skip[g.product]
      BY <1>4, <2>2, <2>5, <3>1
    <3>4. g.stage \in {"sent", "accepted"} => Spoiled(n, g.product, g.station)
      BY <2>1, <2>3, <2>5, <3>2 DEF Pursued
    <3> QED BY <2>1, <3>3, <3>4 DEF Pursued
  <2> QED BY <2>4, <2>5
<1>11. Serving(n, R)
  <2> SUFFICES ASSUME NEW q \in Products PROVE Served(n, R, q) BY DEF Serving
  <2>1. Served(m, R, q) BY DEF Steady, Serving
  <2> QED BY <1>4, <2>1 DEF Served
<1>12. Rested(n, G, F) BY <1>4 DEF Steady, Rested, Spoiled
<1>13. s = "B" \/ LetGo(m) => LetGo(n)
  <2>1. "B" \in Stations BY DEF Stations
  <2>2. CASE s = "B" BY <1>2, <2>2 DEF LetGo
  <2>3. CASE s # "B"
    <3>1. n.cycle["B"] = m.cycle["B"] BY <1>1, <2>1, <2>3
    <3> QED BY <1>4, <2>3, <3>1 DEF LetGo
  <2> QED BY <2>2, <2>3
<1>14. Steady(n, P, B, G, R, F) BY <1>4, <1>7, <1>9, <1>10, <1>11, <1>12 DEF Steady
<1> QED BY <1>1, <1>13, <1>14 DEF n

\* A record is noted at its station.
LEMMA NotesAt ==
  ASSUME NEW m \in Masters, NEW n \in Masters, NEW p \in Products, NEW s \in Stations,
         NEW t \in StationType, SameBut(m, n, {"station", "state"}),
         n.station = Put(m.station, p, s, t),
         m.station[p][s].failed => t.failed,
         \/ n.state = m.state
         \/ m.cycle[s].product = p /\ n.state = [m.state EXCEPT ![p] = Captured[s]],
         \/ t.process = m.station[p][s].process
         \/ /\ m.cycle[s].product = p /\ t.process # "PENDING"
            /\ s = "B" /\ t.process = "SKIPPED" => m.skip[p]
  PROVE  Notes(m, n) /\ n.cycle = m.cycle /\ n.skip = m.skip /\ n.settings = m.settings
<1>1. n.cycle = m.cycle /\ n.skip = m.skip /\ n.settings = m.settings BY DEF SameBut, Fields
<1>2. SameBut(m, n, {"station", "state", "skip", "reorder"}) BY DEF SameBut, Fields
<1>3. m.station \in Records BY DEF Masters
<1>4. /\ n.station[p][s] = t
      /\ \A u \in Stations \ {s} : n.station[p][u] = m.station[p][u]
      /\ \A q \in Products \ {p} : n.station[q] = m.station[q]
  BY <1>3, PutEffect
<1>5. ASSUME NEW q \in Products, NEW u \in Stations
      PROVE  n.station[q][u] = m.station[q][u] \/ (q = p /\ u = s /\ n.station[q][u] = t)
  BY <1>4
<1>6. ASSUME NEW q \in Products
      PROVE  \/ n.state[q] = m.state[q]
             \/ q = p /\ m.cycle[s].product = p /\ n.state[q] = Captured[s]
  BY DEF Masters, States
<1>7. \A q \in Products, u \in Stations : m.station[q][u].failed => n.station[q][u].failed
  BY <1>5
<1>8. \A q \in Products, u \in Stations :
          \/ n.station[q][u].process = m.station[q][u].process
          \/ /\ m.cycle[u].product = q /\ n.station[q][u].process # "PENDING"
             /\ u = "B" /\ n.station[q][u].process = "SKIPPED" => n.skip[q]
  BY <1>1, <1>5
<1>9. \A q \in Products : \/ n.state[q] = m.state[q]
                         \/ \E u \in Stations : m.cycle[u].product = q /\ n.state[q] = Captured[u]
  BY <1>6
<1> QED BY <1>1, <1>2, <1>7, <1>8, <1>9 DEF Notes

\* A product is to skip station B.
LEMMA SkipAskedNotes ==
  ASSUME NEW m \in Masters, NEW p \in Products
  PROVE  LET n == SkipAsked(m, p)
         IN  /\ n \in Masters /\ Notes(m, n) /\ n.cycle = m.cycle /\ n.settings = m.settings
             /\ n.state = m.state /\ n.skip[p]
             /\ \A q \in Products \ {p} : n.skip[q] = m.skip[q]
<1> DEFINE n == SkipAsked(m, p)
<1>1. /\ n \in Masters /\ SameBut(m, n, {"skip"}) /\ n.skip = [m.skip EXCEPT ![p] = TRUE]
  BY SkipAskedEffect
<1> HIDE DEF n
<1>2. /\ n.cycle = m.cycle /\ n.settings = m.settings /\ n.state = m.state
      /\ n.station = m.station
  BY <1>1 DEF SameBut, Fields
<1>3. n.skip[p] /\ \A q \in Products \ {p} : n.skip[q] = m.skip[q] BY <1>1 DEF Masters, Skips
<1>4. SameBut(m, n, {"station", "state", "skip", "reorder"}) BY <1>1 DEF SameBut, Fields
<1>5. \A q \in Products : m.skip[q] => n.skip[q] BY <1>3
<1>6. Notes(m, n) BY <1>2, <1>4, <1>5 DEF Notes
<1> QED BY <1>1, <1>2, <1>3, <1>6 DEF n

\* Fewer goals are no harm.
LEMMA FewerGoals ==
  ASSUME NEW m, NEW P, NEW B, NEW G, NEW R, NEW F, Steady(m, P, B, G, R, F), NEW H \in SUBSET G
  PROVE  Steady(m, P, B, H, R, F)
BY DEF Steady, Pursuing, Rested

\* _cancel_station_b_after_a_terminal lets the belt of station B go, if the product is there.
LEMMA CanceledBSteady ==
  ASSUME NEW m \in Masters, NEW p \in Products, Cycled(m),
         NEW P, NEW B, NEW G \in SUBSET Goals, NEW R, NEW F \in SUBSET Frames,
         Steady(m, P, B, G, R, F), LetGo(m),
         m.cycle["B"].product = p \/ m.state[p] # Waiting["B"]
  PROVE  LET n == CanceledB(m, p)
         IN  /\ n \in Masters /\ Steady(n, P, B, G, R, F) /\ LetGo(n)
             /\ m.cycle["B"].product # p =>
                   n.state = m.state /\ n.cycle = m.cycle /\ n.station = m.station
<1> DEFINE n == CanceledB(m, p)
           q == SkipAsked(m, p)
<1>1. /\ q \in Masters /\ Notes(m, q) /\ q.cycle = m.cycle /\ q.state = m.state /\ q.skip[p]
      /\ \A r \in Products \ {p} : q.skip[r] = m.skip[r]
  BY SkipAskedNotes
<1>2. Steady(q, P, B, G, R, F) /\ Cycled(q) BY <1>1, NotesSteady
<1>3. q.station = m.station
  <2>1. SameBut(m, q, {"skip"}) BY SkipAskedEffect
  <2> HIDE DEF q
  <2> QED BY <2>1 DEF SameBut, Fields
<1>4. \/ n = m
      \/ q.cycle["B"].product = p /\ n = Resuming(SkippedAtB(q, p), "B")
      \/ q.cycle["B"].product = p /\ n = Resuming(Promoted(q, p, "B"), "B")
      \/ /\ q.cycle["B"].product = p /\ n = q
         /\ q.cycle["B"].phase = "RESUME_PENDING" \/ q.station[p]["B"].process = "SKIPPED"
      \/ q.cycle["B"].product # p /\ n = Bypassed(q, p)
  BY DEF CanceledB, SkipAsked, SkippedAtB
<1> HIDE DEF q, n
<1>5. "B" \in Stations BY StateValues
<1>6. ASSUME q.cycle["B"].product = p, NEW k \in Masters, Notes(q, k), k.cycle = q.cycle,
             k.skip = q.skip, k.state[p] = Captured["B"]
      PROVE  /\ Resuming(k, "B") \in Masters /\ Steady(Resuming(k, "B"), P, B, G, R, F)
             /\ LetGo(Resuming(k, "B"))
  <2>1. Steady(k, P, B, G, R, F) BY <1>1, <1>2, <1>6, NotesSteady
  <2>2. k.cycle["B"] # None BY <1>5, <1>6, CycleTyped
  <2>3. ASSUME NEW g \in G, g.station = "B" /\ OfCycle(k, g)
        PROVE  k.skip[g.product] /\ Spoiled(k, g.product, "B")
    <3>1. g.product = p BY <1>6, <2>3 DEF OfCycle
    <3> QED BY <1>1, <1>6, <3>1 DEF Spoiled
  <2> QED BY <1>5, <1>6, <2>1, <2>2, <2>3, ResumingSteady
<1>7. q.station[p]["B"] \in StationType BY <1>1, <1>5 DEF Masters, Records
<1>8. CASE q.cycle["B"].product = p /\ n = Resuming(SkippedAtB(q, p), "B")
  <2> DEFINE k == SkippedAtB(q, p)
             t == Skipping(q.station[p]["B"])
  <2>1. /\ k \in Masters /\ SameBut(q, k, {"station", "state"})
        /\ k.station = Put(q.station, p, "B", t)
        /\ k.state = [q.state EXCEPT ![p] = Captured["B"]]
    BY <1>1, SkippedAtBEffect
  <2>2. /\ t \in StationType /\ t.process = "SKIPPED" /\ t.failed = q.station[p]["B"].failed
    BY <1>7 DEF Skipping, StationType
  <2> HIDE DEF k, t
  <2>3. Notes(q, k) /\ k.cycle = q.cycle /\ k.skip = q.skip
    BY <1>1, <1>5, <1>8, <2>1, <2>2, NotesAt
  <2>4. k.state[p] = Captured["B"] BY <1>1, <2>1 DEF Masters, States
  <2> QED BY <1>1, <1>6, <1>8, <2>1, <2>3, <2>4 DEF k, n
<1>9. CASE q.cycle["B"].product = p /\ n = Resuming(Promoted(q, p, "B"), "B")
  <2> DEFINE k == Promoted(q, p, "B")
             t == Completed(q.station[p]["B"])
  <2>1. /\ k \in Masters /\ SameBut(q, k, {"station", "state"})
        /\ k.station = Put(q.station, p, "B", t)
        /\ k.state = [q.state EXCEPT ![p] = Captured["B"]]
    BY <1>1, <1>5, PromotedTyped, PromotedEffect
  <2>2. /\ t \in StationType /\ t.process = "CAPTURE_COMPLETED"
        /\ t.failed = q.station[p]["B"].failed
    BY <1>7 DEF Completed, StationType
  <2> HIDE DEF k, t
  <2>3. Notes(q, k) /\ k.cycle = q.cycle /\ k.skip = q.skip
    BY <1>1, <1>5, <1>9, <2>1, <2>2, NotesAt
  <2>4. k.state[p] = Captured["B"] BY <1>1, <2>1 DEF Masters, States
  <2> QED BY <1>1, <1>6, <1>9, <2>1, <2>3, <2>4 DEF k, n
<1>10. CASE q.cycle["B"].product = p /\ n = q
            /\ (q.cycle["B"].phase = "RESUME_PENDING" \/ q.station[p]["B"].process = "SKIPPED")
  <2>1. q.station[p]["B"].process = "SKIPPED" => m.skip[p] BY <1>3 DEF Steady, Placed, InPlace
  <2>2. m.cycle["B"] # None BY <1>1, <1>5, <1>10, CycleTyped
  <2>3. q.cycle["B"].phase = "RESUME_PENDING" BY <1>1, <1>10, <2>1, <2>2 DEF LetGo
  <2>4. LetGo(q) BY <2>3 DEF LetGo
  <2> QED BY <1>1, <1>2, <1>10, <2>4 DEF n
<1>11. CASE q.cycle["B"].product # p /\ n = Bypassed(q, p)
  <2>1. Bypassed(q, p) = q BY <1>1, <1>11 DEF Bypassed
  <2>2. q.cycle["B"] # None => q.cycle["B"].product \in Products BY <1>1, <1>5, CycleTyped
  <2>3. LetGo(q) BY <1>1, <1>11, <2>2 DEF LetGo
  <2> QED BY <1>1, <1>2, <1>3, <1>11, <2>1, <2>3 DEF n
<1> QED BY <1>1, <1>4, <1>8, <1>9, <1>10, <1>11 DEF n

\* _finish_capture_failure
LEMMA CaptureFailedSteady ==
  ASSUME NEW m \in Masters, NEW s \in Stations, m.cycle[s] # None, Cycled(m),
         NEW P, NEW B, NEW G \in SUBSET Goals, NEW R, NEW F \in SUBSET Frames,
         Steady(m, P, B, G, R, F), LetGo(m),
         \A g \in G : g.station = s /\ OfCycle(m, g) /\ g.stage = "sent" =>
            s = "B" /\ m.skip[g.product]
  PROVE  LET n == CaptureFailed(m, s, FALSE)
         IN  n \in Masters /\ Steady(n, P, B, G, R, F) /\ LetGo(n)
<1> DEFINE p == m.cycle[s].product
           k == FailedAt(m, s)
           t == Failing(m.station[p][s])
           told == IF s = "A" THEN CanceledB(k, p) ELSE k
<1>1. p \in Products BY CycleTyped
<1>2. /\ k \in Masters /\ SameBut(m, k, {"station", "state"})
      /\ k.station = Put(m.station, p, s, t)
      /\ k.state = [m.state EXCEPT ![p] = Captured[s]]
  BY FailedAtEffect
<1>3. m.station[p][s] \in StationType BY <1>1 DEF Masters, Records
<1>4. t \in StationType /\ t.process = "FAILED" /\ t.failed BY <1>3 DEF Failing, StationType
<1> HIDE DEF k, t
<1>5. Notes(m, k) /\ k.cycle = m.cycle /\ k.skip = m.skip BY <1>1, <1>2, <1>4, NotesAt
<1>6. Steady(k, P, B, G, R, F) /\ Cycled(k) BY <1>2, <1>5, NotesSteady
<1>7. LetGo(k) BY <1>5 DEF LetGo
<1>8. k.state[p] = Captured[s] /\ k.station[p][s].failed
  <2>1. k.station[p][s] = t BY <1>1, <1>2, <1>4, PutEffect DEF Masters
  <2> QED BY <1>1, <1>2, <1>4, <2>1 DEF Masters, States
<1>9. s = "A" => k.cycle["B"].product # p
  <2>1. P[p] = s BY DEF Steady, Belted, BeltAgrees
  <2>2. k.cycle["B"].product = p => P[p] = "B"
    BY <1>1, <1>2, <1>6, CycleTyped, StateValues DEF Steady, Belted, BeltAgrees
  <2> QED BY <2>1, <2>2
<1>10. /\ told \in Masters /\ Steady(told, P, B, G, R, F) /\ LetGo(told)
       /\ told.state = k.state /\ told.cycle = k.cycle /\ told.station = k.station
  <2>1. CASE s = "A"
    <3>1. k.state[p] # Waiting["B"] BY <1>8, <2>1, StateValues
    <3> HIDE DEF p
    <3> QED BY <1>1, <1>2, <1>6, <1>7, <1>9, <2>1, <3>1, CanceledBSteady
  <2>2. CASE s # "A" BY <1>2, <1>6, <1>7, <2>2
  <2> QED BY <2>1, <2>2
<1>11. CaptureFailed(m, s, FALSE) = Resuming(told, s) BY CaptureFailedCases DEF k
<1>12. s = "B" => told = k BY StateValues
<1> HIDE DEF told
<1>13. ASSUME NEW g \in G, g.station = s /\ OfCycle(told, g)
       PROVE  /\ g.stage = "sent" => s = "B" /\ told.skip[g.product]
              /\ g.stage = "accepted" => Spoiled(told, g.product, s)
  <2>1. OfCycle(m, g) BY <1>5, <1>10, <1>13 DEF OfCycle
  <2>2. g.product = p BY <1>13, <2>1 DEF OfCycle
  <2>3. Spoiled(told, g.product, s) BY <1>8, <1>10, <2>2 DEF Spoiled
  <2> QED BY <1>5, <1>12, <1>13, <2>1, <2>3
<1>14. told.cycle[s] # None /\ told.state[told.cycle[s].product] = Captured[s]
  BY <1>5, <1>8, <1>10
<1>15. /\ Resuming(told, s) \in Masters /\ Steady(Resuming(told, s), P, B, G, R, F)
       /\ LetGo(Resuming(told, s))
  BY <1>10, <1>13, <1>14, ResumingSteady
<1> QED BY <1>11, <1>15

\* _handle_station_result and _handle_station_failure
LEMMA JudgedSteady ==
  ASSUME NEW m \in Masters, NEW f \in Frames, NEW outcome \in {"PASS", "NG", "FAILED"}, Cycled(m),
         NEW P, NEW B, NEW G \in SUBSET Goals, NEW R, NEW F \in SUBSET Frames,
         Steady(m, P, B, G, R, F), LetGo(m),
         m.cycle["B"].product = f.product \/ m.state[f.product] # Waiting["B"]
  PROVE  LET n == Judged(m, f, outcome, FALSE)
         IN  Steady(n, P, B, G, R, F) /\ LetGo(n)
<1> DEFINE p == f.product
           s == f.station
           k == Noted(m, f, outcome)
           t == Terminal(m.station[p][s], outcome)
<1>1. p \in Products /\ s \in Stations BY DEF Frames
<1>2. /\ k \in Masters /\ SameBut(m, k, {"station"}) /\ k.station = Put(m.station, p, s, t)
      /\ t \in StationType /\ t.process = m.station[p][s].process
      /\ t.failed = (m.station[p][s].failed \/ outcome = "FAILED")
  BY NotedEffect
<1>3. \/ Judged(m, f, outcome, FALSE) = m
      \/ Judged(m, f, outcome, FALSE) = k
      \/ Judged(m, f, outcome, FALSE) = CanceledB(k, p)
  BY JudgedCases
<1> HIDE DEF k, t
<1>4. k.state = m.state /\ SameBut(m, k, {"station", "state"}) BY <1>2 DEF SameBut, Fields
<1>5. m.station[p][s].failed => t.failed BY <1>2
<1>6. Notes(m, k) /\ k.cycle = m.cycle /\ k.skip = m.skip BY <1>1, <1>2, <1>4, <1>5, NotesAt
<1>7. Steady(k, P, B, G, R, F) /\ Cycled(k) BY <1>2, <1>6, NotesSteady
<1>8. LetGo(k) BY <1>6 DEF LetGo
<1>9. Steady(CanceledB(k, p), P, B, G, R, F) /\ LetGo(CanceledB(k, p))
  BY <1>1, <1>2, <1>4, <1>6, <1>7, <1>8, CanceledBSteady
<1> QED BY <1>3, <1>7, <1>8, <1>9

\* A goal that Vision has got on with.
LEMMA SwappedGoal ==
  ASSUME NEW m, NEW P, NEW B, NEW G, NEW R, NEW F, Steady(m, P, B, G, R, F),
         NEW g \in G, NEW h, SameCapture(g, h),
         h.stage # "diskFull", h.stage # "sent",
         h.stage = "accepted" => g.stage \in {"sent", "accepted"}
  PROVE  Steady(m, P, B, (G \ {g}) \union {h}, R, F)
<1> DEFINE H == (G \ {g}) \union {h}
<1>1. ASSUME NEW x \in H, NEW y \in H, SameCapture(x, y) PROVE x = y
  <2>1. \A z \in G \ {g} : ~ SameCapture(z, h) /\ ~ SameCapture(h, z)
    BY DEF Steady, Pursuing, SameCapture
  <2> QED BY <1>1, <2>1 DEF Steady, Pursuing
<1>2. Pursued(m, h) BY DEF Steady, Pursuing, Pursued, SameCapture, OfCycle, Spoiled
<1>3. Pursuing(m, H) BY <1>1, <1>2 DEF Steady, Pursuing
<1>4. Rested(m, H, F)
  <2>1. ASSUME NEW p \in Products, m.locked[p] = "PASS", NEW x \in H, x.product = p
        PROVE  x.stage \notin {"sent", "accepted"}
    <3>1. CASE x \in G BY <2>1, <3>1 DEF Steady, Rested
    <3>2. CASE x = h
      <4>1. g.product = p BY <2>1, <3>2 DEF SameCapture
      <4>2. g.stage \notin {"sent", "accepted"} BY <2>1, <4>1 DEF Steady, Rested
      <4> QED BY <3>2, <4>2
    <3> QED BY <3>1, <3>2
  <2> QED BY <2>1 DEF Steady, Rested
<1> QED BY <1>3, <1>4 DEF Steady

\* Another image.
LEMMA MoreFrames ==
  ASSUME NEW m, NEW P, NEW B, NEW G, NEW R, NEW F, Steady(m, P, B, G, R, F), NEW f,
         f.still \/ Spoiled(m, f.product, f.station), m.locked[f.product] # "PASS"
  PROVE  Steady(m, P, B, G, R, F \union {f})
BY DEF Steady, Rested

\* What is said of the images.
LEMMA SameFrames ==
  ASSUME NEW m, NEW P, NEW B, NEW G, NEW R, NEW F, Steady(m, P, B, G, R, F), NEW E,
         \A e \in E : \E f \in F : /\ e.product = f.product /\ e.station = f.station
                                   /\ e.still = f.still
  PROVE  Steady(m, P, B, G, R, E)
BY DEF Steady, Rested

\* The cycle whose goal is accepted waits for its result.
LEMMA AwaitingSteady ==
  ASSUME NEW m \in Masters, NEW n \in Masters, NEW s \in Stations,
         m.cycle[s] # None, m.cycle[s].phase = "CAPTURE_GOAL",
         ~(s = "B" /\ m.skip[m.cycle[s].product]),
         SameBut(m, n, {"cycle"}), n.cycle[s] # None,
         n.cycle[s].product = m.cycle[s].product, n.cycle[s].capture = m.cycle[s].capture,
         n.cycle[s].phase = "WAITING_CAPTURE_RESULT",
         \A u \in Stations \ {s} : n.cycle[u] = m.cycle[u],
         NEW P, NEW B, NEW G \in SUBSET Goals, NEW R, NEW F,
         Steady(m, P, B, G, R, F), LetGo(m),
         \A g \in G : g.station = s /\ OfCycle(m, g) => g.stage # "sent"
  PROVE  Steady(n, P, B, G, R, F) /\ LetGo(n)
<1>1. /\ n.system = m.system /\ n.state = m.state /\ n.station = m.station /\ n.skip = m.skip
      /\ n.locked = m.locked /\ n.actuation = m.actuation /\ n.orders = m.orders
  BY DEF SameBut, Fields
<1>2. \A u \in Stations : /\ n.cycle[u].product = m.cycle[u].product
                          /\ n.cycle[u].capture = m.cycle[u].capture
                          /\ m.cycle[u].phase \in Asking => n.cycle[u].phase \in Asking
  BY DEF Asking
<1>3. Belted(n, P, B)
  <2> SUFFICES ASSUME NEW u \in Stations PROVE BeltAgrees(n, P, B, u) BY DEF Belted
  <2>1. BeltAgrees(m, P, B, u) BY DEF Steady, Belted
  <2>2. CASE u = s
    <3>1. P[m.cycle[s].product] = s /\ B[s] = "hold" /\ ~ UnderWay(m, s)
      BY <2>1, <2>2 DEF BeltAgrees, Asking
    <3> QED BY <1>1, <2>2, <3>1 DEF BeltAgrees, UnderWay
  <2>3. CASE u # s BY <1>1, <2>1, <2>3 DEF BeltAgrees, UnderWay
  <2> QED BY <2>2, <2>3
<1>4. Placed(n, P)
  <2> SUFFICES ASSUME NEW q \in Products PROVE InPlace(n, P, q) BY DEF Placed
  <2>1. InPlace(m, P, q) BY DEF Steady, Placed
  <2> QED BY <1>1, <1>2, <2>1 DEF InPlace
<1>5. Pursuing(n, G)
  <2> SUFFICES ASSUME NEW g \in G PROVE Pursued(n, g) BY DEF Steady, Pursuing
  <2>1. Pursued(m, g) /\ g.product \in Products /\ g.station \in Stations
    BY DEF Steady, Pursuing, Goals
  <2>2. OfCycle(n, g) <=> OfCycle(m, g) BY <1>2, <2>1 DEF OfCycle
  <2>3. g.stage = "sent" /\ OfCycle(n, g) => n.cycle[g.station] = m.cycle[g.station]
    BY <2>1, <2>2
  <2>4. g.stage = "sent" /\ OfCycle(n, g) =>
          n.cycle[g.station].phase = "CAPTURE_GOAL" \/ (g.station = "B" /\ n.skip[g.product])
    BY <1>1, <2>1, <2>2, <2>3 DEF Pursued
  <2>5. g.stage \in {"sent", "accepted"} =>
          \/ Spoiled(n, g.product, g.station)
          \/ OfCycle(n, g) /\ n.cycle[g.station].phase \in Asking
    BY <1>1, <1>2, <2>1, <2>2 DEF Pursued, Spoiled
  <2> QED BY <2>1, <2>4, <2>5 DEF Pursued
<1>6. Serving(n, R)
  <2> SUFFICES ASSUME NEW q \in Products PROVE Served(n, R, q) BY DEF Serving
  <2>1. Served(m, R, q) BY DEF Steady, Serving
  <2> QED BY <1>1, <2>1 DEF Served
<1>7. Rested(n, G, F) BY <1>1 DEF Steady, Rested, Spoiled
<1>8. LetGo(n)
  <2>1. CASE s = "B" BY <1>1, <2>1 DEF LetGo
  <2>2. CASE s # "B" BY <1>1, <2>2, StateValues DEF LetGo
  <2> QED BY <2>1, <2>2
<1> QED BY <1>1, <1>3, <1>4, <1>5, <1>6, <1>7, <1>8 DEF Steady

\* Its types, its ledger and its commands.
LEMMA CalmFacts ==
  ASSUME Calm
  PROVE  /\ Typed /\ master \in Masters /\ master.system = "RUN"
         /\ goals \in SUBSET Goals /\ frames \in SUBSET Frames
         /\ belt \in Belts /\ arm \in Arms /\ pos \in [Products -> Places]
         /\ Follows(master, pos) /\ Queued(master) /\ Cycled(master) /\ Acting(master)
         /\ Positions(pos) /\ Evidence(master, frames) /\ Awaited(master, goals)
         /\ master.orders \in Seq(Stations) /\ master.pendingRun = FALSE
         /\ Steady(master, pos, belt, goals, arm, frames) /\ LetGo(master)
BY DEF Calm, Typed, Steady, Tracked, Ledger, Commands

\* Vision's answers to the goals.
LEMMA GoalAcceptedSteady ==
  ASSUME Calm, NEW g \in goals, GoalAccepted(g)
  PROVE  Steady(master', pos', belt', goals', arm', frames') /\ LetGo(master')
<1> DEFINE s == g.station
           awaited == Current(g) /\ ~(s = "B" /\ master.skip[g.product])
           h == [g EXCEPT !.stage = "accepted", !.awaited = awaited]
           G == (goals \ {g}) \union {h}
           k == [master.cycle EXCEPT ![s].phase = "WAITING_CAPTURE_RESULT"]
           n == [master EXCEPT !.cycle = k]
<1>1. /\ Typed /\ master \in Masters /\ goals \in SUBSET Goals /\ g \in Goals /\ LetGo(master)
      /\ Steady(master, pos, belt, goals, arm, frames)
  BY CalmFacts
<1>2. /\ g.stage = "sent" /\ goals' = G
      /\ pos' = pos /\ belt' = belt /\ frames' = frames /\ arm' = arm
  BY DEF GoalAccepted
<1>3. \/ ~ awaited /\ master' = master
      \/ awaited /\ master' = [master EXCEPT !.cycle[s].phase = "WAITING_CAPTURE_RESULT"]
  BY Zenon DEF GoalAccepted
<1>4. n = [master EXCEPT !.cycle[s].phase = "WAITING_CAPTURE_RESULT"] OBVIOUS
<1>5. s \in Stations BY <1>1 DEF Goals
<1> HIDE DEF n
<1>6. SameCapture(g, h) /\ h.stage = "accepted" BY <1>1 DEF SameCapture, Goals
<1>7. h \in Goals
  <2>1. awaited \in BOOLEAN OBVIOUS
  <2> HIDE DEF awaited
  <2> QED BY <1>1, <2>1 DEF Goals
<1> HIDE DEF h
<1>8. Steady(master, pos, belt, G, arm, frames) BY <1>1, <1>2, <1>6, SwappedGoal
<1>9. ASSUME awaited PROVE Steady(n, pos, belt, G, arm, frames) /\ LetGo(n)
  <2>1. Current(g) /\ ~(s = "B" /\ master.skip[g.product]) BY <1>9
  <2>2. /\ OfCycle(master, g) /\ master.cycle[s] # None /\ master.cycle[s] \in Cycles
        /\ master.cycle[s].product = g.product
    BY <1>1, <2>1, CurrentTyped DEF Current, OfCycle
  <2>3. Pursued(master, g) BY <1>1 DEF Steady, Pursuing
  <2>4. master.cycle[s].phase = "CAPTURE_GOAL" BY <1>2, <2>1, <2>2, <2>3 DEF Pursued
  <2> HIDE DEF s
  <2>5. /\ k \in CycleMaps /\ \A u \in Stations \ {s} : k[u] = master.cycle[u]
        /\ k[s].product = master.cycle[s].product
        /\ k[s].capture = master.cycle[s].capture
        /\ k[s].phase = "WAITING_CAPTURE_RESULT" /\ k[s] \in Cycles
    BY <1>1, <1>5, <2>2 DEF Masters, CycleMaps, Cycles, Phases
  <2> HIDE DEF k
  <2>6. n \in Masters /\ SameBut(master, n, {"cycle"}) /\ n.cycle = k
    BY <1>1, <2>5 DEF Masters, SameBut, Fields, n
  <2>7. n.cycle[s] # None BY <2>5, <2>6, LineAssumption DEF Cycles, None, Products
  <2>8. G \in SUBSET Goals BY <1>1, <1>7
  <2>9. ASSUME NEW x \in G, x.station = s /\ OfCycle(master, x) PROVE x.stage # "sent"
    <3>1. SameCapture(g, x) BY <2>2, <2>9 DEF OfCycle, SameCapture, s
    <3>2. x \in goals => x = g BY <1>1, <3>1 DEF Steady, Pursuing
    <3> QED BY <1>6, <3>2
  <2> HIDE DEF G
  <2>10. /\ n.cycle[s].product = master.cycle[s].product
         /\ n.cycle[s].capture = master.cycle[s].capture
         /\ n.cycle[s].phase = "WAITING_CAPTURE_RESULT"
         /\ \A u \in Stations \ {s} : n.cycle[u] = master.cycle[u]
    BY <2>5, <2>6
  <2>11. ~(s = "B" /\ master.skip[master.cycle[s].product]) BY <2>1, <2>2 DEF s
  <2>12. n \in Masters /\ SameBut(master, n, {"cycle"}) BY <2>6
  <2> QED BY <1>1, <1>5, <1>8, <2>2, <2>4, <2>7, <2>8, <2>9, <2>10, <2>11, <2>12, AwaitingSteady
<1> HIDE DEF G, awaited
<1> QED BY <1>1, <1>2, <1>3, <1>4, <1>8, <1>9

\* All that may go wrong on a quiet line are captures and inspections.
LEMMA QuietKind ==
  ASSUME Quiet', NEW kind, Disturb(kind)
  PROVE  kind = "failure"
BY DEF Quiet, Disturb

\* Vision takes images of a product at rest, or of one that does not pass.
LEMMA CaptureSteady ==
  ASSUME Calm, NEW g \in goals, Capture(g), Quiet'
  PROVE  Steady(master', pos', belt', goals', arm', frames') /\ LetGo(master')
<1> DEFINE p == g.product
           s == g.station
<1>1. /\ Typed /\ master \in Masters /\ goals \in SUBSET Goals /\ g \in Goals /\ LetGo(master)
      /\ Steady(master, pos, belt, goals, arm, frames)
  BY CalmFacts
<1>2. /\ master' = master /\ pos' = pos /\ belt' = belt /\ arm' = arm
      /\ g.stage = "accepted"
      /\ \E stage \in {"saved", "failed"} :
           /\ goals' = (goals \ {g}) \union IF g.awaited THEN {[g EXCEPT !.stage = stage]} ELSE {}
           /\ frames' = IF stage # "saved" THEN frames
                        ELSE frames \union
                          {[product |-> p, station |-> s, capture |-> g.capture,
                            outcome |-> "none", still |-> AtRest(p, s)]}
  <2>1. ~ Disturb("vision") BY QuietKind
  <2> QED BY <2>1 DEF Capture
<1>3. p \in Products /\ s \in Stations BY <1>1 DEF Goals
<1>4. AtRest(p, s) \/ Spoiled(master, p, s)
  <2>1. Pursued(master, g) BY <1>1 DEF Steady, Pursuing
  <2>2. CASE OfCycle(master, g) /\ master.cycle[s].phase \in Asking
    <3>1. master.cycle[s] # None /\ master.cycle[s].product = p
      BY <1>1, <1>3, <2>2, CycleTyped DEF OfCycle
    <3>2. BeltAgrees(master, pos, belt, s) BY <1>1, <1>3 DEF Steady, Belted
    <3> QED BY <2>2, <3>1, <3>2 DEF BeltAgrees, AtRest
  <2> QED BY <1>2, <2>1, <2>2 DEF Pursued
<1>5. master.locked[p] # "PASS" BY <1>1, <1>2, <1>3 DEF Steady, Rested
<1>6. Steady(master, pos, belt, goals', arm, frames)
  <2>1. PICK stage \in {"saved", "failed"} :
           goals' = (goals \ {g}) \union IF g.awaited THEN {[g EXCEPT !.stage = stage]} ELSE {}
    BY <1>2
  <2> DEFINE h == [g EXCEPT !.stage = stage]
  <2>2. SameCapture(g, h) /\ h.stage = stage BY <1>1 DEF SameCapture, Goals
  <2> HIDE DEF h
  <2>3. CASE g.awaited
    <3>1. goals' = (goals \ {g}) \union {h} BY <2>1, <2>3 DEF h
    <3>2. h.stage # "diskFull" /\ h.stage # "sent" /\ h.stage # "accepted" BY <2>2
    <3> QED BY <1>1, <2>2, <3>1, <3>2, SwappedGoal
  <2>4. CASE ~ g.awaited
    <3>1. goals' \in SUBSET goals BY <2>1, <2>4
    <3> QED BY <1>1, <3>1, FewerGoals
  <2> QED BY <2>3, <2>4
<1>7. Steady(master, pos, belt, goals', arm, frames')
  <2> DEFINE f == [product |-> p, station |-> s, capture |-> g.capture,
                   outcome |-> "none", still |-> AtRest(p, s)]
  <2>1. frames' = frames \/ frames' = frames \union {f} BY <1>2
  <2>2. f.product = p /\ f.station = s /\ f.still = AtRest(p, s) OBVIOUS
  <2> HIDE DEF f, p, s
  <2>3. f.still \/ Spoiled(master, f.product, f.station) BY <1>4, <2>2
  <2>4. master.locked[f.product] # "PASS" BY <1>5, <2>2
  <2>5. Steady(master, pos, belt, goals', arm, frames \union {f})
    BY <1>6, <2>3, <2>4, MoreFrames
  <2> QED BY <1>6, <2>1, <2>5
<1> QED BY <1>1, <1>2, <1>7

\* _handle_capture_result
LEMMA CaptureResultSteady ==
  ASSUME Calm, NEW g \in goals, CaptureResult(g)
  PROVE  Steady(master', pos', belt', goals', arm', frames') /\ LetGo(master')
<1> DEFINE p == g.product
           s == g.station
           G == goals \ {g}
           k == Promoted(master, p, s)
<1>1. /\ Typed /\ master \in Masters /\ goals \in SUBSET Goals /\ frames \in SUBSET Frames
      /\ g \in Goals /\ LetGo(master) /\ Cycled(master)
      /\ Steady(master, pos, belt, goals, arm, frames)
  BY CalmFacts
<1>2. /\ goals' = G /\ pos' = pos /\ belt' = belt /\ frames' = frames /\ arm' = arm
      /\ g.stage \in {"saved", "failed", "diskFull"}
  BY DEF CaptureResult
<1>3. \/ ~ Current(g) /\ master' = master
      \/ /\ Current(g) /\ s = "B" /\ master.skip[p]
         /\ master' = IF master.cycle[s].phase # "RESUME_PENDING"
                      THEN Resuming(master, s) ELSE master
      \/ /\ Current(g) /\ ~ (s = "B" /\ master.skip[p])
         /\ master' = IF g.stage = "saved" THEN Resuming(k, s)
                      ELSE CaptureFailed(master, s, g.stage = "diskFull")
  BY DEF CaptureResult
<1>4. p \in Products /\ s \in Stations BY <1>1 DEF Goals
<1>5. g.stage # "diskFull" BY <1>1 DEF Steady, Pursuing, Pursued
<1>6. Steady(master, pos, belt, G, arm, frames)
  <2>1. G \in SUBSET goals OBVIOUS
  <2> HIDE DEF G
  <2> QED BY <1>1, <2>1, FewerGoals
<1>7. G \in SUBSET Goals BY <1>1
<1>8. Current(g) => /\ master.cycle[s] # None /\ master.cycle[s].product = p
                    /\ OfCycle(master, g)
  BY <1>1, CurrentTyped DEF Current, OfCycle
<1>9. ASSUME Current(g), NEW x \in G PROVE ~(x.station = s /\ OfCycle(master, x))
  <2>1. SUFFICES ASSUME x.station = s, OfCycle(master, x) PROVE SameCapture(g, x)
    BY <1>1 DEF Steady, Pursuing
  <2> QED BY <1>8, <1>9, <2>1 DEF OfCycle, SameCapture
<1> HIDE DEF G
<1>10. CASE ~ Current(g) /\ master' = master BY <1>1, <1>2, <1>6, <1>10
<1>11. CASE Current(g) /\ s = "B" /\ master.skip[p]
  <2>1. master.cycle[s].phase = "RESUME_PENDING" BY <1>1, <1>8, <1>11 DEF LetGo
  <2>2. master' = master BY <1>3, <1>11, <2>1
  <2> QED BY <1>1, <1>2, <1>6, <2>2
<1>12. CASE Current(g) /\ g.stage = "saved" /\ master' = Resuming(k, s)
  <2> DEFINE t == Completed(master.station[p][s])
  <2>1. master.station[p][s] \in StationType BY <1>1, <1>4 DEF Masters, Records
  <2>2. t \in StationType /\ t.process # "PENDING" /\ t.process # "SKIPPED"
        /\ t.failed = master.station[p][s].failed
    BY <2>1 DEF Completed, StationType
  <2>3. k \in Masters BY <1>1, <1>4, PromotedTyped
  <2>4. /\ SameBut(master, k, {"station", "state"})
        /\ k.station = Put(master.station, p, s, t)
        /\ k.state = [master.state EXCEPT ![p] = Captured[s]]
    BY <1>1, <1>4, PromotedEffect
  <2> HIDE DEF k, t
  <2>5. Notes(master, k) /\ k.cycle = master.cycle /\ k.skip = master.skip
    BY <1>1, <1>4, <1>8, <1>12, <2>2, <2>3, <2>4, NotesAt
  <2>6. Steady(k, pos, belt, G, arm, frames) BY <1>1, <1>6, <1>7, <2>3, <2>5, NotesSteady
  <2>7. k.cycle[s] # None /\ k.state[k.cycle[s].product] = Captured[s]
    BY <1>1, <1>4, <1>8, <1>12, <2>4, <2>5 DEF Masters, States
  <2>8. \A x \in G : ~ (x.station = s /\ OfCycle(k, x)) BY <1>9, <1>12, <2>5 DEF OfCycle
  <2>9. LetGo(k) BY <1>1, <2>5 DEF LetGo
  <2> HIDE DEF s
  <2>10. /\ Steady(Resuming(k, s), pos, belt, G, arm, frames)
         /\ LetGo(Resuming(k, s))
    BY <1>1, <1>4, <1>7, <2>3, <2>6, <2>7, <2>8, <2>9, ResumingSteady
  <2> QED BY <1>2, <1>12, <2>10
<1>13. CASE Current(g) /\ master' = CaptureFailed(master, s, FALSE)
  <2>1. \A x \in G : ~ (x.station = s /\ OfCycle(master, x)) BY <1>9, <1>13
  <2>2. master.cycle[s] # None BY <1>8, <1>13
  <2> HIDE DEF s
  <2>3. /\ Steady(CaptureFailed(master, s, FALSE), pos, belt, G, arm, frames)
        /\ LetGo(CaptureFailed(master, s, FALSE))
    BY <1>1, <1>4, <1>6, <1>7, <2>1, <2>2, CaptureFailedSteady
  <2> QED BY <1>2, <1>13, <2>3
<1>14. (g.stage = "diskFull") = FALSE BY <1>5
<1> QED BY <1>3, <1>10, <1>11, <1>12, <1>13, <1>14

\* _handle_station_result and _handle_station_failure: what Vision says of a product leaves
\* no product without a cycle.
LEMMA StationTerminalSteady ==
  ASSUME Calm, NEW f \in frames, NEW outcome \in {"PASS", "NG", "FAILED"},
         NEW outOfMemory \in BOOLEAN, StationTerminal(f, outcome, outOfMemory), Quiet'
  PROVE  Steady(master', pos', belt', goals', arm', frames') /\ LetGo(master')
<1> DEFINE p == f.product
<1>1. /\ Typed /\ master \in Masters /\ goals \in SUBSET Goals /\ frames \in SUBSET Frames
      /\ f \in Frames /\ LetGo(master) /\ Cycled(master) /\ Follows(master, pos)
      /\ Steady(master, pos, belt, goals, arm, frames) /\ pos \in [Products -> Places]
  BY CalmFacts
<1>2. ~ outOfMemory
  <2>1. ~ Disturb("vision") BY QuietKind
  <2> QED BY <2>1 DEF StationTerminal
<1>3. /\ master' = Judged(master, f, outcome, FALSE)
      /\ pos' = pos /\ belt' = belt /\ goals' = goals /\ arm' = arm
      /\ frames' \in {frames, (frames \ {f}) \union {[f EXCEPT !.outcome = outcome]}}
  <2>1. outOfMemory = FALSE BY <1>2
  <2> QED BY <2>1 DEF StationTerminal
<1>4. p \in Products BY <1>1 DEF Frames
<1>5. master.cycle["B"].product = p \/ master.state[p] # Waiting["B"]
  <2>1. SUFFICES ASSUME master.state[p] = Waiting["B"] PROVE master.cycle["B"].product = p
    OBVIOUS
  <2>2. InPlace(master, pos, p) BY <1>1, <1>4 DEF Steady, Placed
  <2>3. pos[p] \in {"B", "toC", "past"} /\ pos[p] # "past"
    BY <1>1, <1>4, <2>1, StateValues DEF Follows
  <2>4. pos[p] # "toC" BY <2>1, <2>2, StateValues DEF InPlace
  <2>5. "B" \in Stations /\ pos[p] = "B" BY <2>3, <2>4, StateValues
  <2> QED BY <2>1, <2>2, <2>5, StateValues DEF InPlace
<1>6. \A e \in frames' : \E x \in frames : /\ e.product = x.product /\ e.station = x.station
                                           /\ e.still = x.still
  <2> DEFINE h == [f EXCEPT !.outcome = outcome]
  <2>1. h.product = f.product /\ h.station = f.station /\ h.still = f.still BY <1>1 DEF Frames
  <2> HIDE DEF h
  <2>2. frames' = frames \/ frames' = (frames \ {f}) \union {h} BY <1>3 DEF h
  <2> QED BY <2>1, <2>2
<1>7. /\ Steady(master', pos, belt, goals, arm, frames) /\ LetGo(master')
  BY <1>1, <1>3, <1>5, JudgedSteady
<1>8. Steady(master', pos, belt, goals, arm, frames') BY <1>6, <1>7, SameFrames
<1> QED BY <1>3, <1>7, <1>8

\* A capture that is never answered is one Vision has accepted.
LEMMA CaptureTimeoutSteady ==
  ASSUME Calm, NEW s \in Stations, CaptureTimeout(s), Quiet'
  PROVE  Steady(master', pos', belt', goals', arm', frames') /\ LetGo(master')
<1>1. /\ Typed /\ master \in Masters /\ goals \in SUBSET Goals /\ frames \in SUBSET Frames
      /\ LetGo(master) /\ Cycled(master) /\ Steady(master, pos, belt, goals, arm, frames)
  BY CalmFacts
<1>2. /\ master.cycle[s] # None /\ master' = CaptureFailed(master, s, FALSE)
      /\ master.cycle[s].phase = "WAITING_CAPTURE_RESULT"
      /\ UNCHANGED <<pos, belt, goals, frames, arm>>
  <2>1. ~ Disturb("goal") BY QuietKind
  <2> QED BY <2>1 DEF CaptureTimeout
<1>3. ASSUME NEW g \in goals, g.station = s /\ OfCycle(master, g) /\ g.stage = "sent"
      PROVE  s = "B" /\ master.skip[g.product]
  <2>1. Pursued(master, g) BY <1>1 DEF Steady, Pursuing
  <2> QED BY <1>2, <1>3, <2>1 DEF Pursued
<1>4. /\ Steady(CaptureFailed(master, s, FALSE), pos, belt, goals, arm, frames)
      /\ LetGo(CaptureFailed(master, s, FALSE))
  BY <1>1, <1>2, <1>3, CaptureFailedSteady
<1> QED BY <1>2, <1>4

\* A cycle that begins waits for the product that has just come before the camera.
LEMMA BegunSteady ==
  ASSUME NEW m \in Masters, NEW p \in Products, NEW s \in Stations,
         m.cycle[s] = None, m.state[p] = Waiting[s], m.locked[p] = "none",
         NEW P, NEW B, NEW G \in SUBSET Goals, NEW R, NEW F \in SUBSET Frames,
         m.system = "RUN", P[p] = s, B[s] = "positioning", ~ UnderWay(m, s),
         s = "B" => ~ m.skip[p],
         \A u \in Stations \ {s} : BeltAgrees(m, P, B, u),
         \A q \in Products \ {p} : InPlace(m, P, q),
         \A u \in Stations : m.state[p] < Waiting[u] => m.station[p][u].process = "PENDING",
         m.station[p]["B"].process = "SKIPPED" => m.skip[p],
         Pursuing(m, G), Awaited(m, G), Serving(m, R), Rested(m, G, F), LetGo(m)
  PROVE  LET n == Begun(m, p, s) IN Steady(n, P, B, G, R, F) /\ LetGo(n)
<1> DEFINE n == Begun(m, p, s)
           t == Positioning(m.station[p][s], NextCapture(m, p, s))
<1>1. /\ SameBut(m, n, {"captures", "station", "cycle", "lateStart"})
      /\ n.station = Put(m.station, p, s, t)
      /\ n.cycle = [m.cycle EXCEPT ![s] = NewCycle(m, p, s)]
  BY BegunEffect
<1>2. NextCapture(m, p, s) \in Nat \ {0} /\ NextCapture(m, p, s) > m.captures[p][s]
      /\ m.captures[p][s] \in Nat
  BY DEF NextCapture, Masters, Counts
<1>3. m.station[p][s] \in StationType BY DEF Masters, Records
<1>4. /\ t \in StationType /\ t.process = "POSITIONING" /\ t.failed = m.station[p][s].failed
  BY <1>2, <1>3 DEF Positioning, StationType
<1>5. /\ NewCycle(m, p, s).product = p /\ NewCycle(m, p, s).capture = NextCapture(m, p, s)
      /\ NewCycle(m, p, s).phase = "WAITING_POSITION" /\ NewCycle(m, p, s) # None
  BY LineAssumption DEF NewCycle, None, Products
<1> HIDE DEF n, t
<1>6. /\ n.system = m.system /\ n.state = m.state /\ n.skip = m.skip
      /\ n.locked = m.locked /\ n.actuation = m.actuation /\ n.orders = m.orders
  BY <1>1 DEF SameBut, Fields
<1>7. n.cycle[s] = NewCycle(m, p, s) /\ \A u \in Stations \ {s} : n.cycle[u] = m.cycle[u]
  BY <1>1 DEF Masters, CycleMaps
<1>8. /\ n.station[p][s] = t
      /\ \A u \in Stations \ {s} : n.station[p][u] = m.station[p][u]
      /\ \A q \in Products \ {p} : n.station[q] = m.station[q]
  BY <1>1, <1>4, PutEffect DEF Masters
<1>9. \A q \in Products, u \in Stations : n.station[q][u].failed = m.station[q][u].failed
  BY <1>4, <1>8
<1>10. Belted(n, P, B)
  <2> SUFFICES ASSUME NEW u \in Stations PROVE BeltAgrees(n, P, B, u) BY DEF Belted
  <2>1. CASE u = s
    <3>1. ~ UnderWay(n, s) BY <1>6 DEF UnderWay
    <3>2. "WAITING_POSITION" \notin Asking /\ "WAITING_POSITION" # "RESUME_PENDING"
      BY DEF Asking
    <3> QED BY <1>5, <1>7, <2>1, <3>1, <3>2 DEF BeltAgrees
  <2>2. CASE u # s
    <3>1. BeltAgrees(m, P, B, u) /\ n.cycle[u] = m.cycle[u] BY <1>7, <2>2
    <3> QED BY <1>6, <3>1 DEF BeltAgrees, UnderWay
  <2> QED BY <2>1, <2>2
<1>11. Placed(n, P)
  <2> SUFFICES ASSUME NEW q \in Products PROVE InPlace(n, P, q) BY DEF Placed
  <2>1. CASE q = p
    <3>1. \A u \in Stations : P[q] = u => n.cycle[u].product = q BY <1>5, <1>7, <2>1
    <3>2. P[q] # "toB" /\ P[q] # "toC" BY <2>1, StateValues
    <3>3. ASSUME NEW u \in Stations, n.state[q] < Waiting[u]
          PROVE  n.station[q][u].process = "PENDING"
      <4>1. u # s
        <5>1. Waiting[s] \in Nat BY StateValues
        <5> QED BY <1>6, <2>1, <3>3, <5>1
      <4> QED BY <1>6, <1>8, <2>1, <3>3, <4>1
    <3>4. n.station[q]["B"].process = "SKIPPED" => n.skip[q]
      <4>1. CASE s = "B" BY <1>4, <1>8, <2>1, <4>1
      <4>2. CASE s # "B" BY <1>6, <1>8, <2>1, <4>2, StateValues
      <4> QED BY <4>1, <4>2
    <3>5. n.locked[q] = "none" BY <1>6, <2>1
    <3> QED BY <3>1, <3>2, <3>3, <3>4, <3>5 DEF InPlace
  <2>2. CASE q # p
    <3>1. InPlace(m, P, q) /\ n.station[q] = m.station[q] BY <1>8, <2>2
    <3>2. \A u \in Stations : m.cycle[u].product = q => n.cycle[u].product = q
      <4>1. m.cycle[s].product # q BY CycleTyped
      <4> QED BY <1>7, <4>1
    <3> QED BY <1>6, <3>1, <3>2 DEF InPlace
  <2> QED BY <2>1, <2>2
<1>12. ASSUME NEW g \in G, OfCycle(n, g)
       PROVE  g.station # s /\ n.cycle[g.station] = m.cycle[g.station]
  <2>1. g.station \in Stations /\ g.product \in Products /\ g.capture \in Nat BY DEF Goals
  <2>2. CASE g.station = s
    <3>1. g.product = p /\ g.capture = NextCapture(m, p, s)
      BY <1>5, <1>7, <1>12, <2>2 DEF OfCycle
    <3>2. g.capture <= m.captures[p][s] BY <2>2, <3>1 DEF Awaited
    <3> QED BY <1>2, <3>1, <3>2
  <2> QED BY <1>7, <2>1, <2>2
<1>13. ASSUME NEW g \in G, OfCycle(m, g) PROVE OfCycle(n, g)
  <2>1. g.station \in Stations /\ g.product \in Products BY DEF Goals
  <2>2. g.station # s BY <1>13, <2>1, CycleTyped DEF OfCycle
  <2> QED BY <1>7, <1>13, <2>1, <2>2 DEF OfCycle
<1>14. Pursuing(n, G)
  <2> SUFFICES ASSUME NEW g \in G PROVE Pursued(n, g) BY DEF Pursuing
  <2>1. Pursued(m, g) /\ g.product \in Products /\ g.station \in Stations BY DEF Pursuing, Goals
  <2>2. Spoiled(n, g.product, g.station) <=> Spoiled(m, g.product, g.station)
    BY <1>6, <1>9, <2>1 DEF Spoiled
  <2>3. CASE OfCycle(n, g)
    <3>1. n.cycle[g.station] = m.cycle[g.station] BY <1>12, <2>3
    <3> QED BY <1>6, <2>1, <2>2, <3>1 DEF Pursued, OfCycle
  <2>4. CASE ~ OfCycle(n, g)
    <3>1. ~ OfCycle(m, g) BY <1>13, <2>4
    <3> QED BY <2>1, <2>2, <2>4, <3>1 DEF Pursued
  <2> QED BY <2>3, <2>4
<1>15. Serving(n, R) BY <1>6 DEF Serving, Served
<1>16. Rested(n, G, F)
  <2>1. \A f \in F : Spoiled(m, f.product, f.station) => Spoiled(n, f.product, f.station)
    BY <1>6, <1>9 DEF Spoiled, Frames
  <2> QED BY <1>6, <2>1 DEF Rested
<1>17. LetGo(n)
  <2>1. CASE s = "B" BY <1>5, <1>6, <1>7, <2>1 DEF LetGo
  <2>2. CASE s # "B" BY <1>6, <1>7, <2>2, StateValues DEF LetGo
  <2> QED BY <2>1, <2>2
<1>18. Steady(n, P, B, G, R, F) BY <1>6, <1>10, <1>11, <1>14, <1>15, <1>16 DEF Steady
<1> QED BY <1>17, <1>18 DEF n

\* A product that comes before the camera of a station that is free gets a cycle.
LEMMA ArrivedSteady ==
  ASSUME NEW m \in Masters, NEW n \in Masters, NEW p \in Products, NEW s \in Stations,
         SameBut(m, n, {"fifo", "state"}), n.state = [m.state EXCEPT ![p] = Waiting[s]],
         NEW P \in [Products -> Places], NEW B \in Belts, NEW G \in SUBSET Goals, NEW R,
         NEW F \in SUBSET Frames,
         Steady(m, P, B, G, R, F), Awaited(m, G), LetGo(m),
         m.state[p] < Waiting[s], P[p] \notin Stations, \A q \in Products : P[q] # s,
         ~ UnderWay(m, s), s = "B" => ~ m.skip[p]
  PROVE  /\ Started(n, p, s) = Begun(n, p, s)
         /\ Steady(Begun(n, p, s), [P EXCEPT ![p] = s], [B EXCEPT ![s] = "positioning"], G, R, F)
         /\ LetGo(Begun(n, p, s))
<1> DEFINE Q == [P EXCEPT ![p] = s]
           C == [B EXCEPT ![s] = "positioning"]
<1>1. Q[p] = s /\ \A q \in Products \ {p} : Q[q] = P[q]
  OBVIOUS
<1>2. C[s] = "positioning" /\ \A u \in Stations \ {s} : C[u] = B[u] BY DEF Belts
<1> HIDE DEF Q, C
<1>3. /\ n.system = m.system /\ n.station = m.station /\ n.skip = m.skip
      /\ n.captures = m.captures /\ n.cycle = m.cycle /\ n.orders = m.orders
      /\ n.locked = m.locked /\ n.actuation = m.actuation
  BY DEF SameBut, Fields
<1>4. n.state[p] = Waiting[s] /\ \A q \in Products \ {p} : n.state[q] = m.state[q]
  BY DEF Masters, States
<1>5. \A q \in Products : m.state[q] \in 0 .. 9 /\ n.state[q] \in 0 .. 9
  BY StateValues DEF Masters, States
<1>6. ASSUME NEW u \in Stations, m.cycle[u] # None
      PROVE  m.cycle[u].product \in Products \ {p} /\ P[m.cycle[u].product] = u
  BY <1>6, CycleTyped DEF Steady, Belted, BeltAgrees
<1>7. m.cycle[s] = None BY <1>6
<1>8. InPlace(m, P, p) BY DEF Steady, Placed
<1>9. n.system = "RUN" BY <1>3 DEF Steady
<1>10. n.station[p][s].process = "PENDING" BY <1>3, <1>8 DEF InPlace
<1>11. Started(n, p, s) = Begun(n, p, s) BY <1>3, <1>4, <1>7, <1>9, <1>10 DEF Started
<1>12. n.locked[p] = "none"
  <2>1. m.state[p] < 7 BY <1>5, StateValues
  <2> QED BY <1>3, <1>5, <1>8, <2>1, StateValues DEF InPlace
<1>13. ~ UnderWay(n, s) BY <1>3 DEF UnderWay
<1>14. ASSUME NEW u \in Stations \ {s} PROVE BeltAgrees(n, Q, C, u)
  <2>1. BeltAgrees(m, P, B, u) BY DEF Steady, Belted
  <2>2. C[u] = B[u] BY <1>2
  <2>3. m.cycle[u] # None => /\ Q[m.cycle[u].product] = P[m.cycle[u].product]
                             /\ n.state[m.cycle[u].product] = m.state[m.cycle[u].product]
    BY <1>1, <1>4, <1>6
  <2> QED BY <1>3, <2>1, <2>2, <2>3 DEF BeltAgrees, UnderWay
<1>15. ASSUME NEW q \in Products \ {p} PROVE InPlace(n, Q, q)
  <2>1. InPlace(m, P, q) BY DEF Steady, Placed
  <2>2. Q[q] = P[q] /\ n.state[q] = m.state[q] BY <1>1, <1>4
  <2> QED BY <1>3, <2>1, <2>2 DEF InPlace
<1>16. ASSUME NEW u \in Stations, n.state[p] < Waiting[u]
       PROVE  n.station[p][u].process = "PENDING"
  <2>1. m.state[p] < Waiting[u] BY <1>4, <1>5, <1>16, StateValues
  <2> QED BY <1>3, <1>8, <2>1 DEF InPlace
<1>17. n.station[p]["B"].process = "SKIPPED" => n.skip[p] BY <1>3, <1>8 DEF InPlace
<1>18. Pursuing(n, G) BY <1>3 DEF Steady, Pursuing, Pursued, OfCycle, Spoiled
<1>19. Awaited(n, G) BY <1>3 DEF Awaited
<1>20. Serving(n, R)
  <2> SUFFICES ASSUME NEW q \in Products PROVE Served(n, R, q) BY DEF Serving
  <2>1. Served(m, R, q) BY DEF Steady, Serving
  <2>2. n.state[q] = m.state[q] \/ (m.state[q] < 7 /\ n.state[q] < 7)
    <3>1. Waiting[s] \in {1, 4} BY StateValues
    <3>2. CASE q = p BY <1>4, <1>5, <3>1, <3>2
    <3>3. CASE q # p BY <1>4, <3>3
    <3> QED BY <3>2, <3>3
  <2>3. m.state[q] \in 0 .. 9 BY <1>5
  <2> QED BY <1>3, <2>1, <2>2, <2>3, StateValues DEF Served
<1>21. Rested(n, G, F) BY <1>3 DEF Steady, Rested, Spoiled
<1>22. LetGo(n) BY <1>3 DEF LetGo
<1>23. s = "B" => ~ n.skip[p] BY <1>3
<1>24. n.cycle[s] = None BY <1>3, <1>7
<1>25. Steady(Begun(n, p, s), Q, C, G, R, F) /\ LetGo(Begun(n, p, s))
  BY <1>1, <1>2, <1>4, <1>9, <1>12, <1>13, <1>14, <1>15, <1>16, <1>17, <1>18, <1>19, <1>20,
     <1>21, <1>22, <1>23, <1>24, BegunSteady
<1> QED BY <1>11, <1>25 DEF Q, C

\* _handle_sensor1_entry below the soft limit
LEMMA Sensor1Steady ==
  ASSUME Calm, Sensor1, Quiet'
  PROVE  Steady(master', pos', belt', goals', arm', frames') /\ LetGo(master')
<1> DEFINE p == Oldest("before")
           n == Known(master, p)
<1>1. /\ Typed /\ master \in Masters /\ master.system = "RUN" /\ goals \in SUBSET Goals
      /\ frames \in SUBSET Frames /\ belt \in Belts /\ pos \in [Products -> Places]
      /\ Awaited(master, goals) /\ LetGo(master) /\ Follows(master, pos)
      /\ Steady(master, pos, belt, goals, arm, frames)
  BY CalmFacts
<1>2. /\ \E q \in Products : pos[q] = "before"
      /\ Runs("A") /\ \A q \in Products : pos[q] # "A"
      /\ pos' = [pos EXCEPT ![p] = "A"] /\ Heard(EnteredAt1(master, p))
      /\ belt' = [belt EXCEPT !["A"] = "positioning"]
      /\ UNCHANGED <<goals, frames, arm>>
  BY DEF Sensor1
<1>3. p \in Products /\ pos[p] = "before" BY <1>1, <1>2, OldestThere
<1>4. ~ (Len(master.fifo) + 1 >= master.settings.soft)
  <2>1. ~ Disturb("capacity") BY QuietKind
  <2>2. "capacity" \in disturbances => ~ Quiet' \/ ~ Undisturbed BY DEF Quiet, Undisturbed
  <2> QED BY <2>1, <2>2 DEF Sensor1
<1>5. master.state[p] = 0 BY <1>1, <1>3, StateValues DEF Follows
<1>6. EnteredAt1(master, p) = Started(n, p, "A")
  <2>1. n.fifo = Append(master.fifo, p) BY <1>1, <1>3, KnownEffect
  <2> DEFINE l == Len(master.fifo)
             soft == master.settings.soft
             hard == master.settings.hard
  <2>2. l \in Nat /\ Len(n.fifo) = l + 1 BY <1>1, <1>3, <2>1 DEF Masters, Fifos
  <2>3. soft \in Nat /\ hard \in Nat /\ soft <= hard BY <1>1, LineAssumption DEF Masters
  <2>4. ~ (l + 1 >= soft) BY <1>4
  <2> HIDE DEF l, soft, hard
  <2>5. ~ (l >= hard) /\ ~ (Len(n.fifo) >= soft) BY <2>2, <2>3, <2>4
  <2> QED BY <2>5 DEF EnteredAt1, Known, l, soft, hard
<1>7. master' = Started(n, p, "A") BY <1>1, <1>2, <1>6 DEF Heard
<1>8. /\ n \in Masters /\ SameBut(master, n, {"fifo", "state"})
      /\ n.state = [master.state EXCEPT ![p] = Waiting["A"]]
  BY <1>1, <1>3, KnownEffect
<1> HIDE DEF n, p
<1>9. PICK s \in Stations : s = "A" BY StateValues
<1>10. /\ pos[p] \notin Stations /\ (s = "B" => ~ master.skip[p])
       /\ master.state[p] < Waiting[s] /\ n.state = [master.state EXCEPT ![p] = Waiting[s]]
  BY <1>3, <1>5, <1>8, <1>9, StateValues
<1>11. ~ UnderWay(master, s) BY <1>2, <1>9 DEF Runs, UnderWay
<1>12. \A q \in Products : pos[q] # s BY <1>2, <1>9
<1>13. /\ Started(n, p, s) = Begun(n, p, s)
       /\ Steady(Begun(n, p, s), [pos EXCEPT ![p] = s], [belt EXCEPT ![s] = "positioning"],
                 goals, arm, frames)
       /\ LetGo(Begun(n, p, s))
  BY <1>1, <1>3, <1>8, <1>10, <1>11, <1>12, ArrivedSteady
<1> QED BY <1>2, <1>7, <1>9, <1>13

\* The product that comes to a sensor is the one that oldest_in_state returns.
LEMMA OldestCame ==
  ASSUME NEW m \in Masters, NEW P \in [Products -> Places], Positions(P), Follows(m, P),
         Queued(m), NEW place, NEW q, NEW r, Comes(P, r, place), m.state[r] = q,
         (q = Flipping /\ place = "toB") \/ (q = Sensor3Wait /\ place = "toC")
  PROVE  OldestIn(m, q) = r
<1>1. /\ r \in Products /\ P[r] = place /\ \A x \in Products : P[x] = place => r <= x
      /\ Products \subseteq Nat /\ place \in Places /\ q \in {3, 6} /\ q \in 1 .. 8
  <2>1. r \in Products /\ P[r] = place /\ \A x \in Products : P[x] = place => r <= x BY DEF Comes
  <2>2. Products \subseteq Nat BY LineAssumption DEF Products
  <2>3. q \in {3, 6} /\ q \in 1 .. 8 BY StateValues
  <2> QED BY <2>1, <2>2, <2>3
<1>2. ASSUME NEW x \in Products, x < r PROVE m.state[x] >= q /\ ~ (m.state[x] < q)
  <2>1. Rank[P[x]] >= Rank[P[r]] /\ P[x] # place
    <3>1. x # r /\ ~ (r <= x) BY <1>1, <1>2
    <3> QED BY <1>1, <1>2, <3>1 DEF Positions
  <2>2. P[x] \in Places /\ Rank[P[x]] \in 0 .. 5 /\ Rank[P[x]] # Rank[place] BY <1>1, <2>1, Ranks
  <2>3. m.state[x] \in 0 .. 9 BY StateValues DEF Masters, States
  <2>4. CASE q = 3 /\ place = "toB"
    <3>1. P[x] \in {"B", "toC", "past"} BY <1>1, <2>1, <2>2, <2>4, Ranks DEF Places
    <3>2. m.state[x] >= 4 BY <3>1, StateValues DEF Follows
    <3> QED BY <2>3, <2>4, <3>2
  <2>5. CASE q = 6 /\ place = "toC"
    <3>1. P[x] = "past" BY <1>1, <2>1, <2>2, <2>5, Ranks DEF Places
    <3>2. m.state[x] >= 7 BY <3>1, StateValues DEF Follows
    <3> QED BY <2>3, <2>5, <3>2
  <2> QED BY <2>4, <2>5, StateValues
<1>3. OldestIn(m, q) # 0
  <2> DEFINE waiting == {i \in DOMAIN m.fifo : m.state[m.fifo[i]] = q}
             first == CHOOSE i \in waiting : \A j \in waiting : i <= j
  <2>1. m.fifo \in Seq(Products) BY DEF Masters, Fifos
  <2>2. PICK i \in DOMAIN m.fifo : m.fifo[i] = r BY <1>1 DEF Queued, InQueue
  <2>3. i \in waiting BY <2>2
  <2>4. waiting \subseteq Nat /\ waiting # {} BY <2>1, <2>3
  <2>5. first \in waiting /\ first <= i
    <3> HIDE DEF waiting
    <3> QED BY <2>3, <2>4, FirstIsLeast
  <2>6. first \in DOMAIN m.fifo BY <2>5
  <2>7. OldestIn(m, q) = IF \E j \in 1 .. first - 1 : m.state[m.fifo[j]] < q THEN 0
                         ELSE m.fifo[first]
    BY <2>3 DEF OldestIn
  <2> HIDE DEF first, waiting
  <2>8. m.fifo[first] \in Products BY <2>1, <2>6
  <2>9. ASSUME NEW j \in 1 .. first - 1 PROVE ~ (m.state[m.fifo[j]] < q)
    <3>1. /\ j \in DOMAIN m.fifo /\ j < i /\ m.fifo[j] \in Products BY <2>1, <2>2, <2>5, <2>6
    <3>2. m.fifo[j] < r BY <2>2, <3>1 DEF Queued
    <3> QED BY <1>2, <3>1, <3>2
  <2>10. m.fifo[first] # 0 BY <2>8, LineAssumption DEF Products
  <2> QED BY <2>7, <2>9, <2>10
<1>4. m.state[r] \in 1 .. q BY <1>1
<1>5. ASSUME NEW x \in Products, m.state[x] = q
      PROVE  P[x] = place \/ Rank[P[x]] < Rank[place]
  <2>1. CASE q = 3 /\ place = "toB"
    <3>1. P[x] \notin {"before", "B", "toC", "past"} BY <1>5, <2>1, StateValues DEF Follows
    <3>2. P[x] \in {"A", "toB"} BY <3>1 DEF Places
    <3> QED BY <2>1, <3>2, Ranks
  <2>2. CASE q = 6 /\ place = "toC"
    <3>1. P[x] # "past" BY <1>5, <2>2, StateValues DEF Follows
    <3>2. P[x] \in {"before", "A", "toB", "B", "toC"} BY <3>1 DEF Places
    <3> QED BY <2>2, <3>2, Ranks
  <2> QED BY <2>1, <2>2, StateValues
<1> QED BY <1>1, <1>3, <1>4, <1>5, OldestIsThere

\* A product that skips station B goes past it.
LEMMA PassingSteady ==
  ASSUME NEW m \in Masters, NEW p \in Products,
         NEW P \in [Products -> Places], NEW B \in Belts, NEW G \in SUBSET Goals, NEW R,
         NEW F \in SUBSET Frames,
         Steady(m, P, B, G, R, F), LetGo(m), m.skip[p],
         m.state[p] < Waiting["B"], P[p] \notin Stations, \A q \in Products : P[q] # "B",
         ~ UnderWay(m, "B")
  PROVE  LET n == PassingB(m, p)
         IN  /\ Steady(n, [P EXCEPT ![p] = "B"], [B EXCEPT !["B"] = "positioning"], G, R, F)
             /\ LetGo(n)
<1> DEFINE n == PassingB(m, p)
           Q == [P EXCEPT ![p] = "B"]
           C == [B EXCEPT !["B"] = "positioning"]
           t == Skipping(m.station[p]["B"])
<1>1. /\ n \in Masters /\ SameBut(m, n, {"station", "state"})
      /\ n.station = Put(m.station, p, "B", t) /\ n.state = [m.state EXCEPT ![p] = Sensor3Wait]
  BY AtBEffect
<1>2. "B" \in Stations BY StateValues
<1>3. m.station[p]["B"] \in StationType BY <1>2 DEF Masters, Records
<1>4. t \in StationType /\ t.failed = m.station[p]["B"].failed BY <1>3 DEF Skipping, StationType
<1>5. Q[p] = "B" /\ \A q \in Products \ {p} : Q[q] = P[q] OBVIOUS
<1>6. C["B"] = "positioning" /\ \A u \in Stations \ {"B"} : C[u] = B[u] BY <1>2 DEF Belts
<1> HIDE DEF n, Q, C, t
<1>7. /\ n.system = m.system /\ n.skip = m.skip /\ n.cycle = m.cycle /\ n.orders = m.orders
      /\ n.locked = m.locked /\ n.actuation = m.actuation
  BY <1>1 DEF SameBut, Fields
<1>8. n.state[p] = 6 /\ \A q \in Products \ {p} : n.state[q] = m.state[q]
  BY <1>1, StateValues DEF Masters, States
<1>9. /\ n.station[p]["B"] = t
      /\ \A u \in Stations \ {"B"} : n.station[p][u] = m.station[p][u]
      /\ \A q \in Products \ {p} : n.station[q] = m.station[q]
  BY <1>1, <1>2, <1>4, PutEffect DEF Masters
<1>10. \A q \in Products, u \in Stations : n.station[q][u].failed = m.station[q][u].failed
  BY <1>4, <1>9
<1>11. \A q \in Products : m.state[q] \in 0 .. 9 BY StateValues DEF Masters, States
<1>12. ASSUME NEW u \in Stations, m.cycle[u] # None
       PROVE  m.cycle[u].product \in Products \ {p} /\ P[m.cycle[u].product] = u
  BY <1>12, CycleTyped DEF Steady, Belted, BeltAgrees
<1>13. m.cycle["B"] = None BY <1>2, <1>12
<1>14. InPlace(m, P, p) BY DEF Steady, Placed
<1>15. Belted(n, Q, C)
  <2> SUFFICES ASSUME NEW u \in Stations PROVE BeltAgrees(n, Q, C, u) BY DEF Belted
  <2>1. CASE u = "B" BY <1>7, <1>13, <2>1 DEF BeltAgrees, UnderWay
  <2>2. CASE u # "B"
    <3>1. BeltAgrees(m, P, B, u) BY DEF Steady, Belted
    <3>2. C[u] = B[u] BY <1>6, <2>2
    <3>3. m.cycle[u] # None => /\ Q[m.cycle[u].product] = P[m.cycle[u].product]
                               /\ n.state[m.cycle[u].product] = m.state[m.cycle[u].product]
      BY <1>5, <1>8, <1>12
    <3> QED BY <1>7, <3>1, <3>2, <3>3 DEF BeltAgrees, UnderWay
  <2> QED BY <2>1, <2>2
<1>16. Placed(n, Q)
  <2> SUFFICES ASSUME NEW q \in Products PROVE InPlace(n, Q, q) BY DEF Placed
  <2>1. CASE q = p
    <3>1. \A u \in Stations : Q[q] = u => n.state[q] = Onward[u] BY <1>5, <1>8, <2>1, StateValues
    <3>2. Q[q] # "toB" /\ Q[q] # "toC" BY <1>5, <2>1
    <3>3. \A u \in Stations : ~ (n.state[q] < Waiting[u]) BY <1>8, <2>1, StateValues
    <3>4. n.skip[q] BY <1>7, <2>1
    <3>5. ~ (m.state[p] >= AtSensor3) BY <1>11, StateValues
    <3>6. n.locked[q] = "none" BY <1>7, <1>14, <2>1, <3>5 DEF InPlace
    <3> QED BY <3>1, <3>2, <3>3, <3>4, <3>6 DEF InPlace
  <2>2. CASE q # p
    <3>1. /\ InPlace(m, P, q) /\ n.station[q] = m.station[q]
          /\ Q[q] = P[q] /\ n.state[q] = m.state[q]
      BY <1>5, <1>8, <1>9, <2>2 DEF Steady, Placed
    <3> QED BY <1>7, <3>1 DEF InPlace
  <2> QED BY <2>1, <2>2
<1>17. Pursuing(n, G)
  <2> SUFFICES ASSUME NEW g \in G PROVE Pursued(n, g) BY DEF Steady, Pursuing
  <2>1. Pursued(m, g) /\ g.product \in Products /\ g.station \in Stations
    BY DEF Steady, Pursuing, Goals
  <2>2. Spoiled(n, g.product, g.station) <=> Spoiled(m, g.product, g.station)
    BY <1>7, <1>10, <2>1 DEF Spoiled
  <2> QED BY <1>7, <2>1, <2>2 DEF Pursued, OfCycle
<1>18. Serving(n, R)
  <2> SUFFICES ASSUME NEW q \in Products PROVE Served(n, R, q) BY DEF Serving
  <2>1. Served(m, R, q) BY DEF Steady, Serving
  <2>2. n.state[q] = m.state[q] \/ (m.state[q] < 7 /\ n.state[q] < 7)
    <3>1. CASE q = p BY <1>8, <1>11, <3>1, StateValues
    <3>2. CASE q # p BY <1>8, <3>2
    <3> QED BY <3>1, <3>2
  <2>3. m.state[q] \in 0 .. 9 BY <1>11
  <2> QED BY <1>7, <2>1, <2>2, <2>3, StateValues DEF Served
<1>19. Rested(n, G, F)
  <2>1. \A f \in F : Spoiled(m, f.product, f.station) => Spoiled(n, f.product, f.station)
    BY <1>7, <1>10 DEF Spoiled, Frames
  <2> QED BY <1>7, <2>1 DEF Steady, Rested
<1>20. LetGo(n) BY <1>7, <1>13 DEF LetGo
<1>21. Steady(n, Q, C, G, R, F) BY <1>7, <1>15, <1>16, <1>17, <1>18, <1>19 DEF Steady
<1> QED BY <1>20, <1>21 DEF n, Q, C

\* _handle_sensor2_entry
LEMMA Sensor2Steady ==
  ASSUME Calm, Sensor2
  PROVE  Steady(master', pos', belt', goals', arm', frames') /\ LetGo(master')
<1> DEFINE p == Oldest("toB")
           n == WaitingAtB(master, p)
<1>1. /\ Typed /\ master \in Masters /\ master.system = "RUN" /\ goals \in SUBSET Goals
      /\ frames \in SUBSET Frames /\ belt \in Belts /\ pos \in [Products -> Places]
      /\ Awaited(master, goals) /\ LetGo(master) /\ Follows(master, pos) /\ Queued(master)
      /\ Positions(pos) /\ Steady(master, pos, belt, goals, arm, frames)
  BY CalmFacts
<1>2. /\ \E q \in Products : pos[q] = "toB"
      /\ Runs("B") /\ \A q \in Products : pos[q] # "B"
      /\ pos' = [pos EXCEPT ![p] = "B"] /\ Heard(EnteredAt2(master))
      /\ belt' = [belt EXCEPT !["B"] = "positioning"]
      /\ UNCHANGED <<goals, frames, arm>>
  BY DEF Sensor2
<1>3. p \in Products /\ pos[p] = "toB" /\ Comes(pos, p, "toB")
  BY <1>1, <1>2, OldestThere, SensorSees
<1>4. master.state[p] = Flipping /\ Flipping = 3
  BY <1>1, <1>3, StateValues DEF Steady, Placed, InPlace
<1>5. OldestIn(master, Flipping) = p /\ p # 0
  <2>1. OldestIn(master, Flipping) = p BY <1>1, <1>3, <1>4, OldestCame
  <2> QED BY <1>3, <2>1, LineAssumption DEF Products
<1>6. master' = EnteredAt2(master) BY <1>1, <1>2 DEF Heard
<1>7. EnteredAt2(master) = IF master.skip[p] THEN PassingB(master, p) ELSE Started(n, p, "B")
  BY <1>5 DEF EnteredAt2, PassingB, WaitingAtB
<1>8. /\ n \in Masters /\ SameBut(master, n, {"state"})
      /\ n.state = [master.state EXCEPT ![p] = Waiting["B"]]
  BY <1>1, <1>3, AtBEffect
<1> HIDE DEF n, p
<1>9. PICK s \in Stations : s = "B" BY StateValues
<1>10. /\ pos[p] \notin Stations /\ master.state[p] < Waiting[s]
       /\ n.state = [master.state EXCEPT ![p] = Waiting[s]]
       /\ SameBut(master, n, {"fifo", "state"})
  BY <1>3, <1>4, <1>8, <1>9, StateValues, SameButMore
<1>11. ~ UnderWay(master, s) BY <1>2, <1>9 DEF Runs, UnderWay
<1>12. \A q \in Products : pos[q] # s BY <1>2, <1>9
<1>13. CASE ~ master.skip[p]
  <2>1. /\ Started(n, p, s) = Begun(n, p, s)
        /\ Steady(Begun(n, p, s), [pos EXCEPT ![p] = s], [belt EXCEPT ![s] = "positioning"],
                  goals, arm, frames)
        /\ LetGo(Begun(n, p, s))
    BY <1>1, <1>3, <1>8, <1>10, <1>11, <1>12, <1>13, ArrivedSteady
  <2> QED BY <1>2, <1>6, <1>7, <1>9, <1>13, <2>1
<1>14. CASE master.skip[p]
  <2>1. master.state[p] < Waiting["B"] /\ ~ UnderWay(master, "B") BY <1>9, <1>10, <1>11
  <2>2. /\ Steady(PassingB(master, p), [pos EXCEPT ![p] = "B"],
                  [belt EXCEPT !["B"] = "positioning"], goals, arm, frames)
        /\ LetGo(PassingB(master, p))
    BY <1>1, <1>2, <1>3, <1>10, <1>14, <2>1, PassingSteady
  <2> QED BY <1>2, <1>6, <1>7, <1>14, <2>2
<1> QED BY <1>13, <1>14

\* The Action server being there, a goal is sent.
LEMMA SentNow ==
  ASSUME NEW m \in Masters, NEW p \in Products, m.system = "RUN"
  PROVE  LET n == Sent(m, p, TRUE)
         IN  /\ SameBut(m, n, {"actuation"})
             /\ n.actuation[p].phase = m.actuation[p].phase
             /\ n.actuation[p].sent = m.actuation[p].sent + 1
             /\ \A q \in Products \ {p} : n.actuation[q] = m.actuation[q]
<1> DEFINE n == Sent(m, p, TRUE)
<1>1. n.system = "RUN" BY DEF Sent, Masters
<1>2. Paused(m).system # "RUN" BY DEF Paused, Masters
<1>3. \/ n = Paused(m)
      \/ /\ SameBut(m, n, {"actuation"})
         /\ \A q \in Products : n.actuation[q].phase = m.actuation[q].phase
         /\ n.actuation[p].timed
         /\ n.actuation[p].sent = m.actuation[p].sent + 1
         /\ \A q \in Products \ {p} : n.actuation[q] = m.actuation[q]
  BY SentEffect
<1> HIDE DEF n
<1>4. /\ SameBut(m, n, {"actuation"}) /\ n.actuation[p].phase = m.actuation[p].phase
      /\ n.actuation[p].sent = m.actuation[p].sent + 1
      /\ \A q \in Products \ {p} : n.actuation[q] = m.actuation[q]
  BY <1>1, <1>2, <1>3
<1> QED BY <1>4 DEF n

\* What Sensor 3 decides of a product.
LEMMA LockedNow ==
  ASSUME NEW m \in Masters, m.system = "RUN", NEW p \in Products,
         OldestIn(m, Sensor3Wait) = p
  PROVE  LET n == EnteredAt3(m, TRUE)
         IN  /\ SameBut(m, n, {"locked", "state", "actuation", "reorder"})
             /\ n.locked[p] = Verdict(m, p)
             /\ \A q \in Products \ {p} : n.locked[q] = m.locked[q]
             /\ n.state[p] = AtSensor3
             /\ \A q \in Products \ {p} : n.state[q] = m.state[q]
             /\ n.actuation[p].phase = "pending"
             /\ n.actuation[p].sent = m.actuation[p].sent + 1
             /\ \A q \in Products \ {p} : n.actuation[q] = m.actuation[q]
<1> DEFINE k == Locked(m, p)
           l == Published(k, p)
           n == Sent(l, p, TRUE)
<1>1. p # 0 BY LineAssumption DEF Products
<1>2. EnteredAt3(m, TRUE) = n BY <1>1 DEF EnteredAt3, Locked
<1>3. /\ k \in Masters /\ SameBut(m, k, {"locked", "state", "actuation"})
      /\ k.locked = [m.locked EXCEPT ![p] = Verdict(m, p)]
      /\ k.state = [m.state EXCEPT ![p] = AtSensor3]
      /\ k.actuation[p].phase = "pending"
      /\ k.actuation[p].sent = m.actuation[p].sent
      /\ \A q \in Products \ {p} : k.actuation[q] = m.actuation[q]
  BY LockedEffect
<1> HIDE DEF k
<1>4. l \in Masters /\ SameBut(k, l, {"reorder"}) BY <1>3, PublishedTyped, PublishedEffect
<1> HIDE DEF l
<1>5. l.system = "RUN" BY <1>3, <1>4 DEF SameBut, Fields
<1>6. /\ SameBut(l, n, {"actuation"})
      /\ n.actuation[p].phase = l.actuation[p].phase
      /\ n.actuation[p].sent = l.actuation[p].sent + 1
      /\ \A q \in Products \ {p} : n.actuation[q] = l.actuation[q]
  BY <1>4, <1>5, SentNow
<1> HIDE DEF n
<1>7. SameBut(m, n, {"locked", "state", "actuation", "reorder"})
  BY <1>3, <1>4, <1>6 DEF SameBut, Fields
<1>8. n.locked = k.locked /\ n.state = k.state /\ l.actuation = k.actuation
  BY <1>4, <1>6 DEF SameBut, Fields
<1>9. /\ k.locked[p] = Verdict(m, p) /\ \A q \in Products \ {p} : k.locked[q] = m.locked[q]
      /\ k.state[p] = AtSensor3 /\ \A q \in Products \ {p} : k.state[q] = m.state[q]
  BY <1>3 DEF Masters, Verdicts, States
<1>10. /\ n.actuation[p].phase = "pending" /\ n.actuation[p].sent = m.actuation[p].sent + 1
       /\ \A q \in Products \ {p} : n.actuation[q] = m.actuation[q]
  BY <1>3, <1>6, <1>8
<1> QED BY <1>2, <1>7, <1>8, <1>9, <1>10

\* _handle_sensor3_entry: a product that passes was at rest for all its images.
LEMMA Sensor3Steady ==
  ASSUME Calm, Sensor3(TRUE)
  PROVE  Steady(master', pos', belt', goals', arm', frames') /\ LetGo(master')
<1> DEFINE p == Oldest("toC")
           n == EnteredAt3(master, TRUE)
           Q == [pos EXCEPT ![p] = "past"]
<1>1. /\ Typed /\ master \in Masters /\ master.system = "RUN" /\ goals \in SUBSET Goals
      /\ frames \in SUBSET Frames /\ pos \in [Products -> Places]
      /\ LetGo(master) /\ Follows(master, pos) /\ Queued(master)
      /\ Positions(pos) /\ Steady(master, pos, belt, goals, arm, frames)
      /\ Evidence(master, frames)
  BY CalmFacts
<1>2. /\ \E q \in Products : pos[q] = "toC"
      /\ pos' = Q /\ Heard(EnteredAt3(master, TRUE))
      /\ UNCHANGED <<belt, goals, frames, arm>>
  BY DEF Sensor3
<1>3. p \in Products /\ pos[p] = "toC" /\ Comes(pos, p, "toC")
  BY <1>1, <1>2, OldestThere, SensorSees
<1>4. InPlace(master, pos, p) BY <1>1, <1>3 DEF Steady, Placed
<1>5. master.state[p] = Sensor3Wait /\ master.state[p] = 6
  BY <1>3, <1>4, StateValues DEF InPlace
<1> HIDE DEF p
<1>6. OldestIn(master, Sensor3Wait) = p BY <1>1, <1>3, <1>5, OldestCame
<1>7. master' = n BY <1>1, <1>2 DEF Heard
<1>8. /\ SameBut(master, n, {"locked", "state", "actuation", "reorder"})
      /\ n.locked[p] = Verdict(master, p)
      /\ \A q \in Products \ {p} : n.locked[q] = master.locked[q]
      /\ n.state[p] = AtSensor3
      /\ \A q \in Products \ {p} : n.state[q] = master.state[q]
      /\ n.actuation[p].phase = "pending"
      /\ n.actuation[p].sent = master.actuation[p].sent + 1
      /\ \A q \in Products \ {p} : n.actuation[q] = master.actuation[q]
  BY <1>1, <1>3, <1>6, LockedNow
<1> HIDE DEF n
<1>9. /\ n.system = master.system /\ n.station = master.station /\ n.skip = master.skip
      /\ n.cycle = master.cycle /\ n.orders = master.orders
  BY <1>8 DEF SameBut, Fields
<1>10. Q[p] = "past" /\ \A q \in Products \ {p} : Q[q] = pos[q] BY <1>1, <1>3
<1> HIDE DEF Q
<1>11. ASSUME NEW u \in Stations, master.cycle[u] # None
       PROVE  /\ master.cycle[u].product \in Products /\ pos[master.cycle[u].product] = u
              /\ master.cycle[u].product # p
  BY <1>1, <1>3, <1>11, CycleTyped, StateValues DEF Steady, Belted, BeltAgrees
<1>12. Belted(n, Q, belt)
  <2> SUFFICES ASSUME NEW u \in Stations PROVE BeltAgrees(n, Q, belt, u) BY DEF Belted
  <2>1. BeltAgrees(master, pos, belt, u) BY <1>1 DEF Steady, Belted
  <2>2. master.cycle[u] # None => /\ Q[master.cycle[u].product] = pos[master.cycle[u].product]
                             /\ n.state[master.cycle[u].product]
                                  = master.state[master.cycle[u].product]
    BY <1>8, <1>10, <1>11
  <2> QED BY <1>9, <2>1, <2>2 DEF BeltAgrees, UnderWay
<1>13. Placed(n, Q)
  <2> SUFFICES ASSUME NEW q \in Products PROVE InPlace(n, Q, q) BY DEF Placed
  <2>1. CASE q = p
    <3>1. Q[q] \notin Stations /\ Q[q] # "toB" /\ Q[q] # "toC" BY <1>10, <2>1, StateValues
    <3>2. n.state[q] = 7 BY <1>8, <2>1, StateValues
    <3>3. \A u \in Stations : ~ (n.state[q] < Waiting[u]) BY <3>2, StateValues
    <3>4. n.station[q]["B"].process = "SKIPPED" => n.skip[q] BY <1>4, <1>9, <2>1 DEF InPlace
    <3>5. n.state[q] >= AtSensor3 BY <3>2, StateValues
    <3> QED BY <3>1, <3>3, <3>4, <3>5 DEF InPlace
  <2>2. CASE q # p
    <3>1. /\ InPlace(master, pos, q) /\ n.locked[q] = master.locked[q]
          /\ Q[q] = pos[q] /\ n.state[q] = master.state[q]
      BY <1>1, <1>8, <1>10, <2>2 DEF Steady, Placed
    <3> QED BY <1>9, <3>1 DEF InPlace
  <2> QED BY <2>1, <2>2
<1>14. Pursuing(n, goals) BY <1>1, <1>9 DEF Steady, Pursuing, Pursued, OfCycle, Spoiled
<1>15. Serving(n, arm)
  <2> SUFFICES ASSUME NEW q \in Products PROVE Served(n, arm, q) BY DEF Serving
  <2>1. Served(master, arm, q) BY <1>1 DEF Steady, Serving
  <2>2. CASE q = p
    <3>1. master.state[q] = 6 BY <1>5, <2>2
    <3>2. master.actuation[q].sent = 0 /\ arm[q].answered = 0 /\ arm[q].working = 0
      BY <2>1, <3>1, StateValues DEF Served
    <3> QED BY <1>8, <2>2, <3>2 DEF Served
  <2>3. CASE q # p
    <3>1. n.state[q] = master.state[q] /\ n.actuation[q] = master.actuation[q] BY <1>8, <2>3
    <3> QED BY <2>1, <3>1 DEF Served
  <2> QED BY <2>2, <2>3
<1>16. ASSUME Verdict(master, p) = "PASS", NEW s \in Stations PROVE ~ Spoiled(master, p, s)
  <2> DEFINE a == master.station[p]["A"]
             b == master.station[p]["B"]
  <2>1. ~ a.failed /\ ~ b.failed /\ a.decision # "NG" BY <1>16 DEF Verdict
  <2>2. master.skip[p] => RefusedAtA(a) BY <1>1, <1>3 DEF Evidence, ProductSound, VerdictSound
  <2>3. ~ master.skip[p] BY <2>1, <2>2 DEF RefusedAtA
  <2>4. ~ master.station[p][s].failed BY <2>1, StateValues
  <2> QED BY <2>3, <2>4 DEF Spoiled
<1>17. Rested(n, goals, frames)
  <2>1. \A f \in frames : ~ f.still => Spoiled(n, f.product, f.station)
    BY <1>1, <1>9 DEF Steady, Rested, Spoiled
  <2>2. ASSUME NEW q \in Products, n.locked[q] = "PASS", q # p
        PROVE  /\ \A f \in frames : f.product = q => f.still
               /\ \A g \in goals : g.product = q => g.stage \notin {"sent", "accepted"}
    <3>1. master.locked[q] = "PASS" BY <1>8, <2>2
    <3> QED BY <1>1, <3>1 DEF Steady, Rested
  <2>3. ASSUME n.locked[p] = "PASS"
        PROVE  /\ \A f \in frames : f.product = p => f.still
               /\ \A g \in goals : g.product = p => g.stage \notin {"sent", "accepted"}
    <3>1. Verdict(master, p) = "PASS" BY <1>8, <2>3
    <3>2. \A s \in Stations : ~ Spoiled(master, p, s) BY <1>16, <3>1
    <3>3. ASSUME NEW f \in frames, f.product = p PROVE f.still
      <4>1. f.station \in Stations BY <1>1 DEF Frames
      <4>2. ~ Spoiled(master, f.product, f.station) BY <3>2, <3>3, <4>1
      <4> QED BY <1>1, <4>2 DEF Steady, Rested
    <3>4. ASSUME NEW g \in goals, g.product = p, g.stage \in {"sent", "accepted"} PROVE FALSE
      <4>1. g.station \in Stations BY <1>1 DEF Goals
      <4>2. Pursued(master, g) BY <1>1 DEF Steady, Pursuing
      <4>3. ~ Spoiled(master, g.product, g.station) BY <3>2, <3>4, <4>1
      <4>4. master.cycle[g.station].product = p BY <3>4, <4>2, <4>3 DEF Pursued, OfCycle
      <4> QED BY <1>1, <1>3, <1>11, <4>1, <4>4, CycleTyped
    <3> QED BY <3>3, <3>4
  <2> QED BY <2>1, <2>2, <2>3 DEF Rested
<1>18. LetGo(n) BY <1>1, <1>9 DEF LetGo
<1>19. Steady(n, Q, belt, goals, arm, frames)
  BY <1>1, <1>9, <1>12, <1>13, <1>14, <1>15, <1>17 DEF Steady
<1> QED BY <1>2, <1>7, <1>18, <1>19

\* A product that leaves a camera is done there.
LEMMA LeaveSteady ==
  ASSUME Calm, NEW s \in Stations, Leave(s)
  PROVE  Steady(master', pos', belt', goals', arm', frames') /\ LetGo(master')
<1>1. /\ Typed /\ master \in Masters /\ pos \in [Products -> Places] /\ LetGo(master)
      /\ Steady(master, pos, belt, goals, arm, frames)
  BY CalmFacts
<1> DEFINE place == IF s = "A" THEN "toB" ELSE "toC"
<1>2. PICK p \in Products : pos[p] = s /\ pos' = [pos EXCEPT ![p] = place] BY DEF Leave
<1>3. belt[s] = "running" /\ UNCHANGED <<master, belt, goals, frames, arm>> BY DEF Leave
<1>4. place \notin Stations /\ (place = "toB" => s = "A") /\ (place = "toC" => s = "B")
  BY StateValues
<1> DEFINE Q == [pos EXCEPT ![p] = place]
<1> HIDE DEF place
<1>5. Q[p] = place /\ \A q \in Products \ {p} : Q[q] = pos[q] BY <1>1, <1>2
<1> HIDE DEF Q
<1>6. master.cycle[s] = None
  <2>1. BeltAgrees(master, pos, belt, s) BY <1>1 DEF Steady, Belted
  <2>2. master.cycle[s] # None => master.cycle[s].phase \in Phases BY <1>1, CycleTyped
  <2> QED BY <1>3, <2>1, <2>2 DEF BeltAgrees, Phases, Asking
<1>7. ASSUME NEW u \in Stations, master.cycle[u] # None
      PROVE  pos[master.cycle[u].product] = u /\ master.cycle[u].product \in Products \ {p}
  BY <1>1, <1>2, <1>6, <1>7, CycleTyped DEF Steady, Belted, BeltAgrees
<1>8. master.state[p] = Onward[s]
  <2>1. InPlace(master, pos, p) BY <1>1 DEF Steady, Placed
  <2>2. master.cycle[s].product # p BY <1>1, <1>6, CycleTyped
  <2> QED BY <1>2, <2>1, <2>2 DEF InPlace
<1>9. Belted(master, Q, belt)
  <2> SUFFICES ASSUME NEW u \in Stations PROVE BeltAgrees(master, Q, belt, u) BY DEF Belted
  <2>1. BeltAgrees(master, pos, belt, u) BY <1>1 DEF Steady, Belted
  <2>2. master.cycle[u] # None => Q[master.cycle[u].product] = pos[master.cycle[u].product]
    BY <1>5, <1>7
  <2> QED BY <2>1, <2>2 DEF BeltAgrees
<1>10. Placed(master, Q)
  <2> SUFFICES ASSUME NEW q \in Products PROVE InPlace(master, Q, q) BY DEF Placed
  <2>1. InPlace(master, pos, q) BY <1>1 DEF Steady, Placed
  <2>2. CASE q = p
    <3>1. \A u \in Stations : Q[q] # u BY <1>4, <1>5, <2>2
    <3>2. Q[q] = "toB" => master.state[q] = Onward["A"] BY <1>4, <1>5, <1>8, <2>2
    <3>3. Q[q] = "toC" => master.state[q] = Onward["B"] BY <1>4, <1>5, <1>8, <2>2
    <3> QED BY <2>1, <3>1, <3>2, <3>3 DEF InPlace
  <2>3. CASE q # p
    <3>1. Q[q] = pos[q] BY <1>5, <2>3
    <3> QED BY <2>1, <3>1 DEF InPlace
  <2> QED BY <2>2, <2>3
<1>11. Steady(master, Q, belt, goals, arm, frames) BY <1>1, <1>9, <1>10 DEF Steady
<1> QED BY <1>1, <1>2, <1>3, <1>11 DEF Q

\* _handle_position_settled when nothing is to be asked of Vision: the belt holds all the same.
LEMMA HoldingSteady ==
  ASSUME Calm, NEW s \in Stations, belt[s] = "positioning",
         LET c == master.cycle[s]
         IN  ~ (/\ c # None /\ c.phase = "WAITING_POSITION"
                /\ ~ (s = "B" /\ master.skip[c.product]))
  PROVE  Steady(master, pos, [belt EXCEPT ![s] = "hold"], goals, arm, frames)
<1> DEFINE C == [belt EXCEPT ![s] = "hold"]
<1>1. /\ Typed /\ master \in Masters /\ belt \in Belts /\ LetGo(master)
      /\ Steady(master, pos, belt, goals, arm, frames)
  BY CalmFacts
<1>2. C[s] = "hold" /\ \A u \in Stations \ {s} : C[u] = belt[u] BY <1>1 DEF Belts
<1> HIDE DEF C
<1>3. Belted(master, pos, C)
  <2> SUFFICES ASSUME NEW u \in Stations PROVE BeltAgrees(master, pos, C, u) BY DEF Belted
  <2>1. BeltAgrees(master, pos, belt, u) BY <1>1 DEF Steady, Belted
  <2>2. CASE u = s
    <3>1. CASE master.cycle[s] = None BY <2>1, <2>2, <3>1 DEF BeltAgrees
    <3>2. CASE master.cycle[s] # None
      <4>1. master.cycle[s].phase \in Phases BY <1>1, <3>2, CycleTyped
      <4>2. master.cycle[s].phase \notin Asking BY <2>1, <2>2, <3>2 DEF BeltAgrees
      <4>3. master.cycle[s].phase # "WAITING_POSITION" BY <1>1, <3>2 DEF LetGo
      <4>4. master.cycle[s].phase = "RESUME_PENDING" BY <4>1, <4>2, <4>3 DEF Phases, Asking
      <4> QED BY <1>2, <2>1, <2>2, <3>2, <4>2, <4>4 DEF BeltAgrees
    <3> QED BY <3>1, <3>2
  <2>3. CASE u # s
    <3>1. C[u] = belt[u] BY <1>2, <2>3
    <3> QED BY <2>1, <3>1 DEF BeltAgrees
  <2> QED BY <2>2, <2>3
<1> QED BY <1>1, <1>3 DEF Steady, C

\* _request_station_capture
LEMMA AskedSteady ==
  ASSUME Calm, NEW s \in Stations, belt[s] = "positioning",
         master.cycle[s] # None, master.cycle[s].phase = "WAITING_POSITION",
         ~ (s = "B" /\ master.skip[master.cycle[s].product]),
         NEW x \in Goals, x.product = master.cycle[s].product, x.station = s,
         x.capture = master.cycle[s].capture, x.stage = "sent"
  PROVE  /\ Steady(Asked(master, s), pos, [belt EXCEPT ![s] = "hold"], goals \union {x}, arm,
                   frames)
         /\ LetGo(Asked(master, s))
<1> DEFINE n == Asked(master, s)
           p == master.cycle[s].product
           C == [belt EXCEPT ![s] = "hold"]
           t == Requested(master.station[p][s])
           G == goals \union {x}
<1>1. /\ Typed /\ master \in Masters /\ belt \in Belts /\ LetGo(master) /\ Cycled(master)
      /\ goals \in SUBSET Goals /\ frames \in SUBSET Frames /\ Awaited(master, goals)
      /\ Steady(master, pos, belt, goals, arm, frames)
  BY CalmFacts
<1>2. /\ n \in Masters /\ SameBut(master, n, {"station", "cycle"})
      /\ n.station = Put(master.station, p, s, t)
      /\ n.cycle[s] \in Cycles
      /\ n.cycle[s].product = p /\ n.cycle[s].capture = master.cycle[s].capture
      /\ n.cycle[s].phase = "CAPTURE_GOAL"
      /\ \A u \in Stations \ {s} : n.cycle[u] = master.cycle[u]
  BY <1>1, AskedEffect
<1>3. p \in Products BY <1>1, CycleTyped
<1>4. master.station[p][s] \in StationType BY <1>1, <1>3 DEF Masters, Records
<1>5. /\ t \in StationType /\ t.failed = master.station[p][s].failed
      /\ t.process = "CAPTURE_REQUESTED"
  BY <1>4 DEF Requested, StationType
<1>6. C[s] = "hold" /\ \A u \in Stations \ {s} : C[u] = belt[u] BY <1>1 DEF Belts
<1>7. n.cycle[s] # None BY <1>2, LineAssumption DEF Cycles, None, Products
<1> HIDE DEF n, C, t
<1>8. /\ n.system = master.system /\ n.state = master.state /\ n.skip = master.skip
      /\ n.locked = master.locked /\ n.actuation = master.actuation /\ n.orders = master.orders
  BY <1>2 DEF SameBut, Fields
<1>9. /\ n.station[p][s] = t
      /\ \A u \in Stations \ {s} : n.station[p][u] = master.station[p][u]
      /\ \A q \in Products \ {p} : n.station[q] = master.station[q]
  <2> DEFINE r == Put(master.station, p, s, t)
  <2>1. master.station \in Records /\ n.station = r BY <1>1, <1>2 DEF Masters
  <2>2. /\ r[p][s] = t /\ \A u \in Stations \ {s} : r[p][u] = master.station[p][u]
        /\ \A q \in Products \ {p} : r[q] = master.station[q]
    <3> HIDE DEF p
    <3> QED BY <1>3, <1>5, <2>1, PutEffect
  <2> HIDE DEF r
  <2> QED BY <2>1, <2>2
<1>10. ASSUME NEW q \in Products, NEW u \in Stations
       PROVE  /\ n.station[q][u].failed = master.station[q][u].failed
              /\ \/ n.station[q][u].process = master.station[q][u].process
                 \/ n.station[q][u].process = "CAPTURE_REQUESTED"
  <2>1. CASE q = p /\ u = s BY <1>5, <1>9, <2>1
  <2>2. CASE q = p /\ u # s
    <3>1. n.station[q][u] = master.station[q][u] BY <1>9, <2>2
    <3> QED BY <3>1
  <2>3. CASE q # p
    <3>1. n.station[q] = master.station[q] BY <1>9, <2>3
    <3> QED BY <3>1
  <2> QED BY <2>1, <2>2, <2>3
<1>11. master.state[p] \in {Waiting[s], Captured[s]} BY <1>1 DEF Cycled
<1>12. \A u \in Stations : n.cycle[u].product = master.cycle[u].product
                           /\ n.cycle[u].capture = master.cycle[u].capture
  BY <1>2
<1>13. Belted(n, pos, C)
  <2> SUFFICES ASSUME NEW u \in Stations PROVE BeltAgrees(n, pos, C, u) BY DEF Belted
  <2>1. BeltAgrees(master, pos, belt, u) BY <1>1 DEF Steady, Belted
  <2>2. CASE u = s
    <3>1. pos[p] = s /\ ~ UnderWay(master, s) BY <2>1, <2>2 DEF BeltAgrees
    <3>2. ~ UnderWay(n, s) BY <1>8, <3>1 DEF UnderWay
    <3> QED BY <1>2, <1>6, <1>7, <2>2, <3>1, <3>2 DEF BeltAgrees
  <2>3. CASE u # s
    <3>1. C[u] = belt[u] /\ n.cycle[u] = master.cycle[u] BY <1>2, <1>6, <2>3
    <3> QED BY <1>8, <2>1, <3>1 DEF BeltAgrees, UnderWay
  <2> QED BY <2>2, <2>3
<1>14. Placed(n, pos)
  <2> SUFFICES ASSUME NEW q \in Products PROVE InPlace(n, pos, q) BY DEF Placed
  <2>1. InPlace(master, pos, q) BY <1>1 DEF Steady, Placed
  <2>2. ASSUME NEW u \in Stations, n.state[q] < Waiting[u]
        PROVE  n.station[q][u].process = "PENDING"
    <3>1. master.station[q][u].process = "PENDING" BY <1>8, <2>1, <2>2 DEF InPlace
    <3>2. q # p \/ u # s BY <1>8, <1>11, <2>2, StateValues
    <3> QED BY <1>9, <3>1, <3>2
  <2>3. n.station[q]["B"].process = "SKIPPED" => n.skip[q]
    <3>1. "B" \in Stations BY StateValues
    <3>2. n.station[q]["B"].process = "SKIPPED" => master.station[q]["B"].process = "SKIPPED"
      BY <1>10, <3>1
    <3> QED BY <1>8, <2>1, <3>2 DEF InPlace
  <2> QED BY <1>8, <1>12, <2>1, <2>2, <2>3 DEF InPlace
<1>15. ASSUME NEW g \in goals PROVE ~ (g.station = s /\ OfCycle(master, g))
  BY <1>1 DEF Awaited, OfCycle
<1>16. ASSUME NEW g \in goals PROVE ~ SameCapture(g, x) /\ ~ SameCapture(x, g)
  BY <1>15 DEF SameCapture, OfCycle
<1>17. ASSUME NEW g \in goals PROVE Pursued(n, g)
  <2>1. Pursued(master, g) /\ g.product \in Products /\ g.station \in Stations
    BY <1>1 DEF Steady, Pursuing, Goals
  <2>2. Spoiled(n, g.product, g.station) <=> Spoiled(master, g.product, g.station)
    BY <1>8, <1>10, <2>1 DEF Spoiled
  <2>3. OfCycle(n, g) <=> OfCycle(master, g) BY <1>12, <2>1 DEF OfCycle
  <2>4. OfCycle(n, g) => n.cycle[g.station] = master.cycle[g.station] BY <1>2, <1>15, <2>1, <2>3
  <2> QED BY <1>8, <2>1, <2>2, <2>3, <2>4 DEF Pursued
<1>18. Pursued(n, x)
  <2>1. OfCycle(n, x) BY <1>2 DEF OfCycle
  <2> QED BY <1>2, <2>1 DEF Pursued, Asking
<1>19. Pursuing(n, G)
  <2>1. \A g, h \in G : SameCapture(g, h) => g = h BY <1>1, <1>16 DEF Steady, Pursuing
  <2> QED BY <1>17, <1>18, <2>1 DEF Pursuing
<1>20. Serving(n, arm) BY <1>1, <1>8 DEF Steady, Serving, Served
<1>21. Rested(n, G, frames)
  <2>1. \A f \in frames : Spoiled(master, f.product, f.station) => Spoiled(n, f.product, f.station)
    BY <1>1, <1>8, <1>10 DEF Spoiled, Frames
  <2>2. master.locked[p] # "PASS"
    <3>1. InPlace(master, pos, p) BY <1>1, <1>3 DEF Steady, Placed
    <3>2. ~ (master.state[p] >= AtSensor3) BY <1>11, StateValues
    <3> QED BY <3>1, <3>2 DEF InPlace
  <2>3. ASSUME NEW q \in Products, n.locked[q] = "PASS", NEW g \in G, g.product = q
        PROVE  g.stage \notin {"sent", "accepted"}
    <3>1. master.locked[q] = "PASS" /\ g # x BY <1>8, <2>2, <2>3
    <3> QED BY <1>1, <2>3, <3>1 DEF Steady, Rested
  <2> QED BY <1>1, <1>8, <2>1, <2>3 DEF Steady, Rested
<1>22. LetGo(n)
  <2>1. CASE s = "B" BY <1>2, <1>8, <2>1 DEF LetGo
  <2>2. CASE s # "B"
    <3>1. n.cycle["B"] = master.cycle["B"] BY <1>2, <2>2, StateValues
    <3> QED BY <1>1, <1>8, <3>1 DEF LetGo
  <2> QED BY <2>1, <2>2
<1>23. Steady(n, pos, C, G, arm, frames)
  BY <1>1, <1>8, <1>13, <1>14, <1>19, <1>20, <1>21 DEF Steady
<1> QED BY <1>22, <1>23 DEF n, C

\* _handle_position_settled
LEMMA SettledSteady ==
  ASSUME Calm, NEW s \in Stations, Settled(s, TRUE)
  PROVE  Steady(master', pos', belt', goals', arm', frames') /\ LetGo(master')
<1> DEFINE c == master.cycle[s]
           p == c.product
           x == [product |-> p, station |-> s, capture |-> c.capture,
                 stage |-> "sent", awaited |-> TRUE]
           expected == /\ c # None /\ c.phase = "WAITING_POSITION"
                       /\ ~ (s = "B" /\ master.skip[p])
<1>1. Typed /\ master \in Masters /\ LetGo(master) BY CalmFacts
<1>2. /\ belt[s] = "positioning" /\ belt' = [belt EXCEPT ![s] = "hold"]
      /\ pos' = pos /\ frames' = frames /\ arm' = arm
  BY DEF Settled
<1>3. \/ ~ expected /\ master' = master /\ goals' = goals
      \/ expected /\ master' = Asked(master, s) /\ goals' = goals \union {x}
  BY DEF Settled, Asked
<1>4. CASE ~ expected /\ master' = master /\ goals' = goals
  <2>1. Steady(master, pos, [belt EXCEPT ![s] = "hold"], goals, arm, frames)
    BY <1>2, <1>4, HoldingSteady
  <2> QED BY <1>1, <1>2, <1>4, <2>1
<1>5. CASE expected /\ master' = Asked(master, s) /\ goals' = goals \union {x}
  <2>1. x \in Goals /\ x.product = p /\ x.station = s /\ x.capture = c.capture /\ x.stage = "sent"
    BY <1>1, <1>5, CycleTyped DEF Goals
  <2>2. c # None /\ c.phase = "WAITING_POSITION" /\ ~ (s = "B" /\ master.skip[p]) BY <1>5
  <2> HIDE DEF x
  <2>3. /\ Steady(Asked(master, s), pos, [belt EXCEPT ![s] = "hold"], goals \union {x}, arm,
                  frames)
        /\ LetGo(Asked(master, s))
    BY <1>2, <2>1, <2>2, AskedSteady
  <2> QED BY <1>2, <1>5, <2>3
<1> QED BY <1>3, <1>4, <1>5

\* confirm_conveyor_resumed of a product whose belt has been let go
LEMMA ResumedNow ==
  ASSUME NEW m \in Masters, NEW s \in Stations, m.system = "RUN", m.cycle[s] # None,
         m.cycle[s].phase = "RESUME_PENDING", m.state[m.cycle[s].product] = Captured[s]
  PROVE  LET n == Resumed(m, s)
             p == m.cycle[s].product
         IN  /\ SameBut(m, n, {"state", "cycle", "lateResume"})
             /\ n.state = [m.state EXCEPT ![p] = Onward[s]]
             /\ n.cycle = [m.cycle EXCEPT ![s] = None]
<1> DEFINE p == m.cycle[s].product
           n == Resumed(m, s)
           f == [m.state EXCEPT ![p] = Onward[s]]
           k == [m.cycle EXCEPT ![s] = None]
           l == m.lateResume \ {<<p, s>>}
<1>1. n = [m EXCEPT !.state = f, !.cycle = k, !.lateResume = l] BY DEF Resumed
<1> HIDE DEF n, f, k, l
<1>2. SameBut(m, n, {"state", "cycle", "lateResume"}) /\ n.state = f /\ n.cycle = k
  BY <1>1 DEF Masters, SameBut, Fields
<1> QED BY <1>2 DEF n, f, k

\* The first command is carried out.
LEMMA OneConfirmed ==
  ASSUME NEW m \in Masters, NEW s \in Stations
  PROVE  Confirmed(m, {}) = m /\ Confirmed(m, {s}) = Resumed(m, s)
<1>1. Confirmed(m, {}) = m
  <2> DEFINE Good == {<<{}, m>>}
             R == {}
  <2>1. R \in SUBSET Stations /\ <<{}, m>> \in Good OBVIOUS
  <2>2. \A q \in SUBSET R, x \in R, k \in Masters :
               /\ Resumed(k, x) \in Masters
               /\ x \notin q /\ <<q, k>> \in Good => <<q \cup {x}, Resumed(k, x)>> \in Good
    OBVIOUS
  <2> HIDE DEF Good, R
  <2>3. <<R, Confirmed(m, R)>> \in Good BY <2>1, <2>2, ConfirmedInduction
  <2> QED BY <2>3 DEF Good, R
<1>2. Confirmed(m, {s}) = Resumed(m, s)
  <2> DEFINE Good == {<<{}, m>>, <<{s}, Resumed(m, s)>>}
             R == {s}
  <2>1. R \in SUBSET Stations /\ <<{}, m>> \in Good OBVIOUS
  <2>2. ASSUME NEW q \in SUBSET R, NEW x \in R, NEW k \in Masters
        PROVE  /\ Resumed(k, x) \in Masters
               /\ x \notin q /\ <<q, k>> \in Good => <<q \cup {x}, Resumed(k, x)>> \in Good
    <3>1. x = s /\ Resumed(k, x) \in Masters BY ResumedTyped
    <3>2. ASSUME x \notin q, <<q, k>> \in Good PROVE <<q \cup {x}, Resumed(k, x)>> \in Good
      <4>1. q = {} BY <3>1, <3>2
      <4>2. {} # {s} OBVIOUS
      <4>3. k = m BY <3>2, <4>1, <4>2
      <4> QED BY <3>1, <4>1, <4>3
    <3> QED BY <3>1, <3>2
  <2> HIDE DEF Good, R
  <2>3. <<R, Confirmed(m, R)>> \in Good BY <2>1, <2>2, ConfirmedInduction
  <2>4. {} # {s} OBVIOUS
  <2> QED BY <2>3, <2>4 DEF Good, R
<1> QED BY <1>1, <1>2

\* A belt that runs again takes its product on.
LEMMA RunAgainSteady ==
  ASSUME NEW m \in Masters, NEW n, NEW s \in Stations, m.cycle[s] # None,
         m.cycle[s].phase = "RESUME_PENDING", m.state[m.cycle[s].product] = Captured[s],
         SameBut(m, n, {"state", "cycle", "lateResume", "orders"}),
         n.state = [m.state EXCEPT ![m.cycle[s].product] = Onward[s]],
         n.cycle = [m.cycle EXCEPT ![s] = None],
         \A u \in Stations : UnderWay(n, u) => UnderWay(m, u),
         NEW P, NEW B \in Belts, NEW G \in SUBSET Goals, NEW R, NEW F,
         Steady(m, P, B, G, R, F), LetGo(m)
  PROVE  Steady(n, P, [B EXCEPT ![s] = "running"], G, R, F) /\ LetGo(n)
<1> DEFINE p == m.cycle[s].product
           C == [B EXCEPT ![s] = "running"]
<1>1. p \in Products /\ P[p] = s BY CycleTyped DEF Steady, Belted, BeltAgrees
<1>2. C[s] = "running" /\ \A u \in Stations \ {s} : C[u] = B[u] BY DEF Belts
<1>3. /\ n.system = m.system /\ n.station = m.station /\ n.skip = m.skip
      /\ n.locked = m.locked /\ n.actuation = m.actuation
  BY DEF SameBut, Fields
<1>4. n.state[p] = Onward[s] /\ \A q \in Products \ {p} : n.state[q] = m.state[q]
  BY <1>1 DEF Masters, States
<1>5. n.cycle[s] = None /\ \A u \in Stations \ {s} : n.cycle[u] = m.cycle[u]
  BY DEF Masters, CycleMaps
<1>6. m.state[p] = Captured[s] OBVIOUS
<1>7. n.state[p] \in {3, 6} /\ m.state[p] \in {2, 5} /\ m.state[p] < n.state[p]
  BY <1>4, <1>6, StateValues
<1>8. ~ (m.cycle[s].phase \in Asking) BY DEF Asking
<1> HIDE DEF p, C
<1>9. Belted(n, P, C)
  <2> SUFFICES ASSUME NEW u \in Stations PROVE BeltAgrees(n, P, C, u) BY DEF Belted
  <2>1. BeltAgrees(m, P, B, u) BY DEF Steady, Belted
  <2>2. CASE u = s BY <1>2, <1>5, <2>2 DEF BeltAgrees
  <2>3. CASE u # s
    <3>1. C[u] = B[u] /\ n.cycle[u] = m.cycle[u] BY <1>2, <1>5, <2>3
    <3>2. m.cycle[u] # None => m.cycle[u].product \in Products \ {p}
      BY <1>1, <2>1, <2>3, CycleTyped DEF BeltAgrees
    <3>3. m.cycle[u] # None => n.state[m.cycle[u].product] = m.state[m.cycle[u].product]
      BY <1>4, <3>2
    <3> QED BY <2>1, <3>1, <3>3 DEF BeltAgrees
  <2> QED BY <2>2, <2>3
<1>10. Placed(n, P)
  <2> SUFFICES ASSUME NEW q \in Products PROVE InPlace(n, P, q) BY DEF Placed
  <2>1. InPlace(m, P, q) BY DEF Steady, Placed
  <2>2. CASE q = p
    <3>1. \A u \in Stations : P[q] = u => n.state[q] = Onward[u] BY <1>1, <1>4, <2>2
    <3>2. P[q] # "toB" /\ P[q] # "toC" BY <1>1, <2>2, StateValues
    <3>3. \A u \in Stations : n.state[q] < Waiting[u] => m.state[q] < Waiting[u]
      BY <1>7, <2>2, StateValues
    <3>4. ~ (m.state[q] >= AtSensor3) BY <1>7, <2>2, StateValues
    <3> QED BY <1>3, <2>1, <3>1, <3>2, <3>3, <3>4 DEF InPlace
  <2>3. CASE q # p
    <3>1. n.state[q] = m.state[q] BY <1>4, <2>3
    <3>2. \A u \in Stations : m.cycle[u].product = q => n.cycle[u].product = q
      BY <1>5, <2>3 DEF p
    <3> QED BY <1>3, <2>1, <3>1, <3>2 DEF InPlace
  <2> QED BY <2>2, <2>3
<1>11. Pursuing(n, G)
  <2> SUFFICES ASSUME NEW g \in G PROVE Pursued(n, g) BY DEF Steady, Pursuing
  <2>1. Pursued(m, g) /\ g.product \in Products /\ g.station \in Stations
    BY DEF Steady, Pursuing, Goals
  <2>2. Spoiled(n, g.product, g.station) <=> Spoiled(m, g.product, g.station)
    BY <1>3 DEF Spoiled
  <2>3. CASE g.station = s
    <3>1. ~ OfCycle(n, g)
      <4>1. n.cycle[s].product = 0 BY <1>5 DEF None
      <4>2. g.product # 0 BY <2>1, LineAssumption DEF Products
      <4> QED BY <2>3, <4>1, <4>2 DEF OfCycle
    <3>2. g.stage \in {"sent", "accepted"} => Spoiled(m, g.product, g.station)
      BY <1>8, <2>1, <2>3 DEF Pursued
    <3> QED BY <2>1, <2>2, <3>1, <3>2 DEF Pursued
  <2>4. CASE g.station # s
    <3>1. n.cycle[g.station] = m.cycle[g.station] BY <1>5, <2>1, <2>4
    <3> QED BY <1>3, <2>1, <2>2, <3>1 DEF Pursued, OfCycle
  <2> QED BY <2>3, <2>4
<1>12. Serving(n, R)
  <2> SUFFICES ASSUME NEW q \in Products PROVE Served(n, R, q) BY DEF Serving
  <2>1. Served(m, R, q) BY DEF Steady, Serving
  <2>2. CASE q = p
    <3>1. m.state[q] < 7 /\ n.state[q] < 7 /\ m.state[q] \in {2, 5} BY <1>7, <2>2
    <3> QED BY <1>3, <2>1, <3>1, StateValues DEF Served
  <2>3. CASE q # p
    <3>1. n.state[q] = m.state[q] BY <1>4, <2>3
    <3> QED BY <1>3, <2>1, <3>1 DEF Served
  <2> QED BY <2>2, <2>3
<1>13. Rested(n, G, F) BY <1>3 DEF Steady, Rested, Spoiled
<1>14. LetGo(n)
  <2>1. CASE s = "B" BY <1>5, <2>1 DEF LetGo
  <2>2. CASE s # "B"
    <3>1. n.cycle["B"] = m.cycle["B"] BY <1>5, <2>2, StateValues
    <3> QED BY <1>3, <3>1 DEF LetGo
  <2> QED BY <2>1, <2>2
<1>15. Steady(n, P, C, G, R, F) BY <1>3, <1>9, <1>10, <1>11, <1>12, <1>13 DEF Steady
<1> QED BY <1>14, <1>15 DEF C

\* The first command is no longer under way.
LEMMA TailUnderWay ==
  ASSUME NEW m \in Masters, NEW n, m.orders # <<>>, n.orders = Tail(m.orders),
         NEW u, UnderWay(n, u)
  PROVE  UnderWay(m, u)
<1> DEFINE S == {"PAUSE", "RESUME"} \union Stations
<1>1. m.orders \in Seq(S) BY DEF Masters, OrderLists
<1>2. PICK i \in DOMAIN n.orders : n.orders[i] = u BY DEF UnderWay
<1> HIDE DEF S
<1>3. i + 1 \in DOMAIN m.orders /\ m.orders[i + 1] = u BY <1>1, <1>2
<1> QED BY <1>3 DEF UnderWay

\* _handle_equipment_state
LEMMA ControlSteady ==
  ASSUME Calm, Control(TRUE)
  PROVE  Steady(master', pos', belt', goals', arm', frames') /\ LetGo(master')
<1> DEFINE s == Head(master.orders)
           m == Passed(master)
           new == {u \in {s} : belt[u] # "running"}
           C == [u \in Stations |-> IF u \in {s} THEN "running" ELSE belt[u]]
<1>1. /\ Typed /\ master \in Masters /\ master.system = "RUN" /\ goals \in SUBSET Goals
      /\ frames \in SUBSET Frames /\ belt \in Belts /\ LetGo(master)
      /\ master.orders \in Seq(Stations) /\ master.pendingRun = FALSE
      /\ Steady(master, pos, belt, goals, arm, frames)
  BY CalmFacts
<1>2. master.orders # <<>> /\ UNCHANGED <<pos, goals, frames, arm>> BY DEF Control
<1>3. s \in Stations /\ s # "PAUSE" /\ s # "RESUME"
  <2>1. s \in Stations BY <1>1, <1>2
  <2> QED BY <2>1, StateValues
<1>4. /\ belt' = C
      /\ master' = Running(m, new, \A u \in Stations : belt'[u] = "running", TRUE)
  BY <1>3 DEF Control, Passed
<1>5. UnderWay(master, s) BY <1>1, <1>2 DEF UnderWay
<1>6. /\ m \in Masters /\ SameBut(master, m, {"orders"}) /\ m.orders = Tail(master.orders)
  BY <1>1, <1>2, RunEffect
<1> HIDE DEF m
<1>7. /\ m.system = "RUN" /\ m.pendingRun = FALSE /\ m.cycle = master.cycle
      /\ m.state = master.state
  BY <1>1, <1>6 DEF SameBut, Fields
<1>8. new \in SUBSET Stations BY <1>3
<1>9. master' = Confirmed(m, new)
  <2>1. Confirmed(m, new).pendingRun = FALSE
    <3> HIDE DEF new
    <3> QED BY <1>6, <1>7, <1>8, ConfirmedEnds
  <2> HIDE DEF new
  <2> QED BY <1>4, <2>1 DEF Running
<1>10. \A u \in Stations : UnderWay(m, u) => UnderWay(master, u)
  BY <1>1, <1>2, <1>6, TailUnderWay
<1>11. BeltAgrees(master, pos, belt, s) BY <1>1, <1>3 DEF Steady, Belted
<1>12. CASE belt[s] = "running"
  <2>1. new = {} /\ C = belt
    <3>1. new = {} BY <1>12
    <3>2. C = belt BY <1>1, <1>12 DEF Belts
    <3> QED BY <3>1, <3>2
  <2> HIDE DEF new, C
  <2>2. master' = m BY <1>6, <1>9, <2>1, <1>3, OneConfirmed
  <2>3. /\ m.station = master.station /\ m.skip = master.skip
        /\ m.locked = master.locked /\ m.actuation = master.actuation
    BY <1>6 DEF SameBut, Fields
  <2>4. Belted(m, pos, belt)
    <3> SUFFICES ASSUME NEW u \in Stations PROVE BeltAgrees(m, pos, belt, u) BY DEF Belted
    <3>1. BeltAgrees(master, pos, belt, u) BY <1>1 DEF Steady, Belted
    <3>2. UnderWay(m, u) => UnderWay(master, u) BY <1>10
    <3> QED BY <1>7, <3>1, <3>2 DEF BeltAgrees
  <2>5. Placed(m, pos) BY <1>1, <1>7, <2>3 DEF Steady, Placed, InPlace
  <2>6. Pursuing(m, goals) BY <1>1, <1>7, <2>3 DEF Steady, Pursuing, Pursued, OfCycle, Spoiled
  <2>7. Serving(m, arm) BY <1>1, <1>7, <2>3 DEF Steady, Serving, Served
  <2>8. Rested(m, goals, frames) BY <1>1, <2>3 DEF Steady, Rested, Spoiled
  <2>9. LetGo(m) BY <1>1, <1>7, <2>3 DEF LetGo
  <2>10. Steady(m, pos, belt, goals, arm, frames)
    BY <1>7, <2>4, <2>5, <2>6, <2>7, <2>8 DEF Steady
  <2> QED BY <1>2, <1>4, <2>1, <2>2, <2>9, <2>10
<1>13. CASE belt[s] # "running"
  <2>1. new = {s} /\ C = [belt EXCEPT ![s] = "running"]
    <3>1. new = {s} BY <1>13
    <3>2. C = [belt EXCEPT ![s] = "running"] BY <1>1, <1>3 DEF Belts
    <3> QED BY <3>1, <3>2
  <2> HIDE DEF new, C
  <2>2. /\ master.cycle[s] # None /\ master.cycle[s].phase = "RESUME_PENDING"
        /\ master.state[master.cycle[s].product] = Captured[s]
    BY <1>5, <1>11, <1>13 DEF BeltAgrees
  <2>3. master' = Resumed(m, s) BY <1>3, <1>6, <1>9, <2>1, OneConfirmed
  <2> DEFINE n == Resumed(m, s)
             p == master.cycle[s].product
  <2>4. /\ SameBut(m, n, {"state", "cycle", "lateResume"})
        /\ n.state = [m.state EXCEPT ![m.cycle[s].product] = Onward[s]]
        /\ n.cycle = [m.cycle EXCEPT ![s] = None]
    <3>1. /\ m.cycle[s] # None /\ m.cycle[s].phase = "RESUME_PENDING"
          /\ m.state[m.cycle[s].product] = Captured[s]
      BY <1>7, <2>2
    <3> QED BY <1>3, <1>6, <1>7, <3>1, ResumedNow
  <2> HIDE DEF n, s
  <2>5. /\ SameBut(master, n, {"state", "cycle", "lateResume", "orders"})
        /\ n.orders = m.orders
    BY <1>6, <2>4 DEF SameBut, Fields
  <2>6. /\ n.state = [master.state EXCEPT ![master.cycle[s].product] = Onward[s]]
        /\ n.cycle = [master.cycle EXCEPT ![s] = None]
    BY <1>7, <2>4
  <2>7. \A u \in Stations : UnderWay(n, u) => UnderWay(master, u) BY <1>10, <2>5 DEF UnderWay
  <2>8. SameBut(master, n, {"state", "cycle", "lateResume", "orders"}) BY <2>5
  <2>9. Steady(n, pos, [belt EXCEPT ![s] = "running"], goals, arm, frames) /\ LetGo(n)
    BY <1>1, <1>3, <2>2, <2>6, <2>7, <2>8, RunAgainSteady
  <2> QED BY <1>2, <1>4, <2>1, <2>3, <2>9 DEF n
<1> QED BY <1>12, <1>13

\* remove_completed_prefix forgets products that are done.
LEMMA CompletedNow ==
  ASSUME NEW m \in Masters
  PROVE  LET n == WithoutCompleted(m)
         IN  \A p \in Products :
                \/ n.actuation[p] = m.actuation[p]
                \/ /\ n.actuation[p].phase = "none" /\ m.state[p] = Done
                   /\ n.actuation[p].sent = m.actuation[p].sent
<1> DEFINE kept == {i \in DOMAIN m.fifo : m.state[m.fifo[i]] # Done}
           first == IF kept = {} THEN Len(m.fifo) + 1
                    ELSE CHOOSE i \in kept : \A j \in kept : i <= j
           removed == {m.fifo[i] : i \in 1 .. first - 1}
           Freed(p) == IF p \in removed
                       THEN [m.actuation[p] EXCEPT !.phase = "none", !.timed = FALSE]
                       ELSE m.actuation[p]
           a == [p \in Products |-> Freed(p)]
           f == SubSeq(m.fifo, first, Len(m.fifo))
           n == WithoutCompleted(m)
<1>1. m.fifo \in Seq(Products) BY DEF Masters, Fifos
<1>2. /\ first \in 1 .. Len(m.fifo) + 1
      /\ \A i \in DOMAIN m.fifo : m.state[m.fifo[i]] # Done => first <= i
  <2>1. CASE kept = {} BY <1>1, <2>1
  <2>2. CASE kept # {}
    <3>1. kept \subseteq 1 .. Len(m.fifo) BY <1>1
    <3>2. first \in kept /\ \A j \in kept : first <= j
      <4>1. kept \subseteq Nat BY <3>1
      <4> HIDE DEF kept
      <4> QED BY <2>2, <4>1, FirstIsLeast
    <3> HIDE DEF first
    <3>3. \A i \in DOMAIN m.fifo : m.state[m.fifo[i]] # Done => first <= i BY <3>2
    <3> HIDE DEF kept
    <3> QED BY <1>1, <3>1, <3>2, <3>3
  <2> QED BY <2>1, <2>2
<1>3. n = [m EXCEPT !.fifo = f, !.actuation = a] BY DEF WithoutCompleted
<1> HIDE DEF f, n, first, kept
<1>4. ASSUME NEW i \in 1 .. first - 1 PROVE m.state[m.fifo[i]] = Done
  <2>1. i \in DOMAIN m.fifo /\ ~ (first <= i) BY <1>1, <1>2
  <2> QED BY <1>2, <2>1
<1>5. \A p \in Products : p \notin removed => a[p] = m.actuation[p] OBVIOUS
<1>6. ASSUME NEW p \in Products, p \in removed
      PROVE  a[p].phase = "none" /\ a[p].sent = m.actuation[p].sent /\ m.state[p] = Done
  <2>1. m.state[p] = Done BY <1>4, <1>6
  <2>2. m.actuation[p] \in Actuations BY DEF Masters, ActuationMaps
  <2>3. a[p] = [m.actuation[p] EXCEPT !.phase = "none", !.timed = FALSE] BY <1>6
  <2> QED BY <2>1, <2>2, <2>3 DEF Actuations
<1> HIDE DEF a, removed
<1>7. n.actuation = a BY <1>3 DEF Masters
<1>8. \A p \in Products :
          \/ n.actuation[p] = m.actuation[p]
          \/ /\ n.actuation[p].phase = "none" /\ m.state[p] = Done
             /\ n.actuation[p].sent = m.actuation[p].sent
  BY <1>5, <1>6, <1>7
<1> QED BY <1>8 DEF n

\* The arm goes on with a product that has passed Sensor 3.
LEMMA ActedSteady ==
  ASSUME NEW m \in Masters, NEW n, NEW p \in Products, NEW b \in {8, 9},
         SameBut(m, n, {"fifo", "state", "actuation"}), n.state = [m.state EXCEPT ![p] = b],
         m.state[p] >= 7, Cycled(m),
         NEW P, P[p] = "past", NEW B, NEW G, NEW R, NEW F, NEW S,
         Steady(m, P, B, G, R, F), LetGo(m), Serving(n, S)
  PROVE  Steady(n, P, B, G, S, F) /\ LetGo(n)
<1>1. /\ n.system = m.system /\ n.station = m.station /\ n.skip = m.skip
      /\ n.locked = m.locked /\ n.cycle = m.cycle /\ n.orders = m.orders
  BY DEF SameBut, Fields
<1>2. n.state[p] = b /\ \A q \in Products \ {p} : n.state[q] = m.state[q] BY DEF Masters, States
<1>3. Belted(n, P, B)
  <2> SUFFICES ASSUME NEW u \in Stations PROVE BeltAgrees(n, P, B, u) BY DEF Belted
  <2>1. BeltAgrees(m, P, B, u) BY DEF Steady, Belted
  <2>2. m.cycle[u] # None => n.state[m.cycle[u].product] = m.state[m.cycle[u].product]
    <3>1. SUFFICES ASSUME m.cycle[u] # None
                   PROVE  n.state[m.cycle[u].product] = m.state[m.cycle[u].product]
      OBVIOUS
    <3>2. m.cycle[u].product \in Products BY <3>1, CycleTyped
    <3>3. P[m.cycle[u].product] # "past" BY <2>1, <3>1, StateValues DEF BeltAgrees
    <3> QED BY <1>2, <3>2, <3>3
  <2> QED BY <1>1, <2>1, <2>2 DEF BeltAgrees, UnderWay
<1>4. Placed(n, P)
  <2> SUFFICES ASSUME NEW q \in Products PROVE InPlace(n, P, q) BY DEF Placed
  <2>1. InPlace(m, P, q) BY DEF Steady, Placed
  <2>2. CASE q = p
    <3>1. P[q] \notin Stations /\ P[q] # "toB" /\ P[q] # "toC" BY <2>2, StateValues
    <3>2. \A u \in Stations : ~ (n.state[q] < Waiting[u]) BY <1>2, <2>2, StateValues
    <3>3. n.state[q] >= AtSensor3 BY <1>2, <2>2, StateValues
    <3> QED BY <1>1, <2>1, <3>1, <3>2, <3>3 DEF InPlace
  <2>3. CASE q # p
    <3>1. n.state[q] = m.state[q] BY <1>2, <2>3
    <3> QED BY <1>1, <2>1, <3>1 DEF InPlace
  <2> QED BY <2>2, <2>3
<1>5. Pursuing(n, G) BY <1>1 DEF Steady, Pursuing, Pursued, OfCycle, Spoiled
<1>6. Rested(n, G, F) BY <1>1 DEF Steady, Rested, Spoiled
<1>7. LetGo(n) BY <1>1 DEF LetGo
<1> QED BY <1>1, <1>3, <1>4, <1>5, <1>6, <1>7 DEF Steady

\* The answers of the arm.
LEMMA ArmSteady ==
  ASSUME Calm, NEW p \in Products, ActuationAccepted(p) \/ ActuationResult(p, TRUE)
  PROVE  Steady(master', pos', belt', goals', arm', frames') /\ LetGo(master')
<1>1. /\ Typed /\ master \in Masters /\ master.system = "RUN" /\ LetGo(master)
      /\ Steady(master, pos, belt, goals, arm, frames) /\ arm \in Arms
      /\ Cycled(master) /\ Follows(master, pos)
  BY CalmFacts
<1>2. UNCHANGED <<pos, belt, goals, frames>> BY DEF ActuationAccepted, ActuationResult
<1>3. Served(master, arm, p) BY <1>1 DEF Steady, Serving
<1>4. master.actuation[p] \in Actuations BY <1>1 DEF Masters, ActuationMaps
<1>5. CASE ActuationAccepted(p)
  <2> DEFINE t == [master.actuation[p] EXCEPT !.phase = "waiting"]
             n == [master EXCEPT !.state = [master.state EXCEPT ![p] = Actuating],
                                 !.actuation = [master.actuation EXCEPT ![p] = t]]
  <2>1. arm[p].answered < master.actuation[p].sent BY <1>5 DEF ActuationAccepted
  <2>2. /\ master.actuation[p].sent = 1 /\ master.actuation[p].phase = "pending"
        /\ master.state[p] = AtSensor3 /\ arm[p].answered = 0 /\ arm[p].working = 0
    BY <1>3, <2>1 DEF Served
  <2>3. /\ arm'[p].answered = 1 /\ arm'[p].working = 1
        /\ \A q \in Products \ {p} : arm'[q] = arm[q]
    BY <1>1, <1>5, <2>2 DEF ActuationAccepted, Arms
  <2>4. master' = n BY <1>5, <2>2 DEF ActuationAccepted
  <2>5. t.phase = "waiting" /\ t.sent = 1 BY <1>4, <2>2 DEF Actuations
  <2> HIDE DEF t
  <2>6. /\ SameBut(master, n, {"fifo", "state", "actuation"})
        /\ n.state = [master.state EXCEPT ![p] = Actuating]
        /\ n.actuation = [master.actuation EXCEPT ![p] = t]
    BY <1>1 DEF Masters, SameBut, Fields
  <2> HIDE DEF n
  <2>7. /\ n.actuation[p] = t /\ \A q \in Products \ {p} : n.actuation[q] = master.actuation[q]
        /\ n.state[p] = Actuating /\ \A q \in Products \ {p} : n.state[q] = master.state[q]
    BY <1>1, <2>6 DEF Masters, ActuationMaps, States
  <2>8. Serving(n, arm')
    <3> SUFFICES ASSUME NEW q \in Products PROVE Served(n, arm', q) BY DEF Serving
    <3>1. Served(master, arm, q) BY <1>1 DEF Steady, Serving
    <3>2. CASE q = p BY <2>3, <2>5, <2>7, <3>2 DEF Served
    <3>3. CASE q # p
      <4>1. n.state[q] = master.state[q] /\ n.actuation[q] = master.actuation[q]
            /\ arm'[q] = arm[q]
        BY <2>3, <2>7, <3>3
      <4> QED BY <3>1, <4>1 DEF Served
    <3> QED BY <3>2, <3>3
  <2>9. /\ master.state[p] >= 7 /\ pos[p] = "past" /\ Actuating \in {8, 9}
    BY <1>1, <2>2, StateValues DEF Follows
  <2>10. Steady(n, pos, belt, goals, arm', frames) /\ LetGo(n)
    BY <1>1, <2>6, <2>8, <2>9, ActedSteady
  <2> QED BY <1>2, <2>4, <2>10
<1>6. CASE ActuationResult(p, TRUE)
  <2> DEFINE t == [master.actuation[p] EXCEPT !.phase = "completed", !.timed = FALSE]
             k == [master EXCEPT !.state = [master.state EXCEPT ![p] = Done],
                                 !.actuation = [master.actuation EXCEPT ![p] = t]]
             n == WithoutCompleted(k)
  <2>1. arm[p].working > 0 BY <1>6 DEF ActuationResult
  <2>2. /\ master.actuation[p].sent = 1 /\ master.actuation[p].phase = "waiting"
        /\ master.state[p] = Actuating /\ arm[p].answered = 1 /\ arm[p].working = 1
    BY <1>3, <2>1 DEF Served
  <2>3. /\ arm'[p].answered = 1 /\ arm'[p].working = 0
        /\ \A q \in Products \ {p} : arm'[q] = arm[q]
    BY <1>1, <1>6, <2>2 DEF ActuationResult, Arms
  <2>4. master' = n
    <3>1. master.state[p] \in {AtSensor3, Actuating} /\ master.actuation[p].phase # "none"
      BY <2>2
    <3> QED BY <1>6, <3>1 DEF ActuationResult
  <2>5. t.phase = "completed" /\ t.sent = 1 /\ t \in Actuations BY <1>4, <2>2 DEF Actuations
  <2> HIDE DEF t
  <2>6. /\ SameBut(master, k, {"state", "actuation"})
        /\ k.state = [master.state EXCEPT ![p] = Done]
        /\ k.actuation = [master.actuation EXCEPT ![p] = t]
    BY <1>1 DEF Masters, SameBut, Fields
  <2>7. k \in Masters
    <3>1. [master.state EXCEPT ![p] = Done] \in States BY <1>1, StateValues DEF Masters, States
    <3>2. [master.actuation EXCEPT ![p] = t] \in ActuationMaps
      BY <1>1, <2>5 DEF Masters, ActuationMaps
    <3> QED BY <1>1, <3>1, <3>2 DEF Masters
  <2> HIDE DEF k
  <2>8. /\ SameBut(k, n, {"fifo", "actuation"})
        /\ \A q \in Products :
              \/ n.actuation[q] = k.actuation[q]
              \/ /\ n.actuation[q].phase = "none" /\ k.state[q] = Done
                 /\ n.actuation[q].sent = k.actuation[q].sent
    BY <2>7, WithoutCompletedEffect, CompletedNow
  <2> HIDE DEF n
  <2>9. SameBut(master, n, {"fifo", "state", "actuation"}) /\ n.state = k.state
    BY <2>6, <2>8 DEF SameBut, Fields
  <2>10. /\ k.actuation[p] = t /\ \A q \in Products \ {p} : k.actuation[q] = master.actuation[q]
         /\ k.state[p] = Done /\ \A q \in Products \ {p} : k.state[q] = master.state[q]
    BY <1>1, <2>6 DEF Masters, ActuationMaps, States
  <2>11. Serving(k, arm')
    <3> SUFFICES ASSUME NEW q \in Products PROVE Served(k, arm', q) BY DEF Serving
    <3>1. Served(master, arm, q) BY <1>1 DEF Steady, Serving
    <3>2. CASE q = p BY <2>3, <2>5, <2>10, <3>2 DEF Served
    <3>3. CASE q # p
      <4>1. k.state[q] = master.state[q] /\ k.actuation[q] = master.actuation[q]
            /\ arm'[q] = arm[q]
        BY <2>3, <2>10, <3>3
      <4> QED BY <3>1, <4>1 DEF Served
    <3> QED BY <3>2, <3>3
  <2>12. Serving(n, arm')
    <3> SUFFICES ASSUME NEW q \in Products PROVE Served(n, arm', q) BY DEF Serving
    <3>1. Served(k, arm', q) BY <2>11 DEF Serving
    <3>2. CASE n.actuation[q] = k.actuation[q] BY <2>9, <3>1, <3>2 DEF Served
    <3>3. CASE /\ n.actuation[q].phase = "none" /\ k.state[q] = Done
               /\ n.actuation[q].sent = k.actuation[q].sent
      <4>1. k.actuation[q].sent = 1 /\ arm'[q].answered = 1 /\ arm'[q].working = 0
        BY <3>1, <3>3, StateValues DEF Served
      <4> QED BY <2>9, <3>3, <4>1 DEF Served
    <3> QED BY <2>8, <3>2, <3>3
  <2>13. /\ master.state[p] >= 7 /\ pos[p] = "past" /\ Done \in {8, 9}
    BY <1>1, <2>2, StateValues DEF Follows
  <2>14. n.state = [master.state EXCEPT ![p] = Done] BY <2>6, <2>9
  <2>15. SameBut(master, n, {"fifo", "state", "actuation"}) BY <2>9
  <2>16. Steady(n, pos, belt, goals, arm', frames) /\ LetGo(n)
    BY <1>1, <2>12, <2>13, <2>14, <2>15, ActedSteady
  <2> QED BY <1>2, <2>4, <2>16
<1> QED BY <1>5, <1>6

\* Trouble is not forgotten.
LEMMA DisturbancesGrow ==
  ASSUME Next
  PROVE  disturbances \subseteq disturbances'
<1>1. /\ \A kind : Disturb(kind) => disturbances \subseteq disturbances'
      /\ Undisturbed => disturbances \subseteq disturbances'
      /\ \A available \in BOOLEAN : Server(available) => disturbances \subseteq disturbances'
  BY DEF Disturb, Undisturbed, Server
<1>2. TRUE \in BOOLEAN /\ FALSE \in BOOLEAN OBVIOUS
<1>3. CASE Progress
  <2>1. Sensor1 => disturbances \subseteq disturbances' BY <1>1 DEF Sensor1
  <2>2. Sensor2 \/ Sensor3(TRUE) \/ Control(TRUE) => disturbances \subseteq disturbances'
    BY <1>1, <1>2 DEF Sensor2, Sensor3, Control
  <2>3. \A s \in Stations : Leave(s) \/ Settled(s, TRUE) => disturbances \subseteq disturbances'
    BY <1>1, <1>2 DEF Leave, Settled
  <2>4. ASSUME NEW g \in goals, Capture(g) PROVE disturbances \subseteq disturbances'
    <3>1. Undisturbed \/ Disturb("failure") \/ Disturb("vision") BY <2>4 DEF Capture
    <3> QED BY <1>1, <3>1
  <2>5. \A g \in goals : GoalAccepted(g) \/ CaptureResult(g)
                            => disturbances \subseteq disturbances'
    BY <1>1 DEF GoalAccepted, CaptureResult
  <2>6. \A p \in Products : ActuationAccepted(p) \/ ActuationResult(p, TRUE)
                               => disturbances \subseteq disturbances'
    BY <1>1 DEF ActuationAccepted, ActuationResult
  <2> QED BY <1>3, <2>1, <2>2, <2>3, <2>4, <2>5, <2>6 DEF Progress
<1>4. CASE Trouble
  <2>1. Sensor3(FALSE) \/ Control(FALSE) => disturbances \subseteq disturbances'
    BY <1>1, <1>2 DEF Sensor3, Control
  <2>2. ASSUME NEW s \in Stations,
               Settled(s, FALSE) \/ CaptureTimeout(s) \/ PositionTimeout(s) \/ ResumeTimeout(s)
        PROVE  disturbances \subseteq disturbances'
    <3>1. Settled(s, FALSE) => Server(FALSE) BY DEF Settled
    <3>2. CaptureTimeout(s) => \E kind : Disturb(kind) BY DEF CaptureTimeout
    <3>3. PositionTimeout(s) => Undisturbed BY DEF PositionTimeout
    <3>4. ResumeTimeout(s) => Disturb("timeout") BY DEF ResumeTimeout
    <3> QED BY <1>1, <1>2, <2>2, <3>1, <3>2, <3>3, <3>4
  <2>3. \A g \in goals : GoalRefused(g) \/ CaptureResultLost(g)
                            => disturbances \subseteq disturbances'
    BY <1>1 DEF GoalRefused, CaptureResultLost
  <2>4. ASSUME NEW p \in Products,
               ActuationRefused(p) \/ ActuationResult(p, FALSE) \/ ActuationTimeout(p)
        PROVE  disturbances \subseteq disturbances'
    BY <1>1, <2>4 DEF ActuationRefused, ActuationResult, ActuationTimeout
  <2> QED BY <1>4, <2>1, <2>2, <2>3, <2>4 DEF Trouble
<1>5. ASSUME NEW f \in frames, NEW outcome \in {"PASS", "NG", "FAILED"},
             NEW outOfMemory \in BOOLEAN, StationTerminal(f, outcome, outOfMemory)
      PROVE  disturbances \subseteq disturbances'
  <2>1. Undisturbed \/ Disturb("failure") \/ Disturb("vision") BY <1>5 DEF StationTerminal
  <2> QED BY <1>1, <2>1
<1>6. OperatorPause \/ OperatorResume => disturbances \subseteq disturbances'
  BY <1>1 DEF OperatorPause, OperatorResume
<1> QED BY <1>3, <1>4, <1>5, <1>6 DEF Next

\* Nothing has gone wrong yet.
LEMMA InitSmooth == Init => Smooth
<1> SUFFICES ASSUME Init PROVE Steady(master, pos, belt, goals, arm, frames) /\ LetGo(master)
  BY DEF Smooth
<1>1. PICK settings \in Settings : master = InitialMaster(settings) BY DEF Init
<1>2. /\ master.system = "RUN" /\ master.orders = <<>>
      /\ \A p \in Products : /\ master.state[p] = 0 /\ master.locked[p] = "none"
                             /\ master.actuation[p].phase = "none" /\ master.actuation[p].sent = 0
                             /\ \A s \in Stations : master.station[p][s] = NewStation
      /\ \A s \in Stations : master.cycle[s] = None
  BY <1>1, StateValues DEF InitialMaster
<1>3. /\ \A p \in Products : /\ pos[p] = "before"
                             /\ arm[p].answered = 0 /\ arm[p].working = 0
      /\ goals = {} /\ frames = {} /\ \A s \in Stations : belt[s] = "running"
  BY DEF Init
<1>4. Belted(master, pos, belt) BY <1>2, <1>3 DEF Belted, BeltAgrees
<1>5. Placed(master, pos)
  <2>1. NewStation.process = "PENDING" BY DEF NewStation
  <2>2. "before" \notin Stations /\ "B" \in Stations BY StateValues
  <2> QED BY <1>2, <1>3, <2>1, <2>2 DEF Placed, InPlace
<1>6. Pursuing(master, goals) BY <1>3 DEF Pursuing
<1>7. Serving(master, arm) BY <1>2, <1>3, StateValues DEF Serving, Served
<1>8. Rested(master, goals, frames) BY <1>3 DEF Rested
<1>9. LetGo(master)
  <2>1. master.cycle["B"] = None BY <1>2, StateValues
  <2> QED BY <2>1 DEF LetGo
<1> QED BY <1>2, <1>4, <1>5, <1>6, <1>7, <1>8, <1>9 DEF Steady

\* Every step.
LEMMA NextSmooth ==
  ASSUME Typed, Evidence(master, frames), Positions(pos), Tracked(master, pos, belt),
         Awaited(master, goals), Smooth, [Next]_vars
  PROVE  Smooth'
<1>1. CASE UNCHANGED vars BY <1>1 DEF vars, Smooth, Quiet
<1>2. CASE Next
  <2> DEFINE Onwards == Steady(master', pos', belt', goals', arm', frames') /\ LetGo(master')
  <2> SUFFICES ASSUME Quiet'
               PROVE  Onwards
    BY DEF Smooth
  <2>1. Quiet BY <1>2, DisturbancesGrow DEF Quiet
  <2>2. Calm BY <2>1 DEF Calm, Smooth
  <2>3. ~ Disturb("goal") /\ ~ Disturb("timeout") /\ ~ Disturb("arm") /\ ~ Disturb("operator")
        /\ ~ Disturb("server")
    BY QuietKind
  <2>4. CASE Progress
    <3>1. ASSUME NEW s \in Stations, Leave(s) \/ Settled(s, TRUE)
          PROVE  Onwards
      BY <2>2, <3>1, LeaveSteady, SettledSteady
    <3>2. ASSUME NEW g \in goals, GoalAccepted(g) \/ Capture(g) \/ CaptureResult(g)
          PROVE  Onwards
      BY <2>2, <3>2, GoalAcceptedSteady, CaptureSteady, CaptureResultSteady
    <3>3. ASSUME NEW p \in Products, ActuationAccepted(p) \/ ActuationResult(p, TRUE)
          PROVE  Onwards
      BY <2>2, <3>3, ArmSteady
    <3>4. ASSUME Sensor1 \/ Sensor2 \/ Sensor3(TRUE) \/ Control(TRUE)
          PROVE  Onwards
      BY <2>2, <3>4, Sensor1Steady, Sensor2Steady, Sensor3Steady, ControlSteady
    <3> QED BY <2>4, <3>1, <3>2, <3>3, <3>4 DEF Progress
  <2>5. CASE Trouble
    <3>1. ~ Sensor3(FALSE) /\ ~ Control(FALSE) BY <2>3 DEF Sensor3, Control, Server
    <3>2. ASSUME NEW s \in Stations
          PROVE  ~ Settled(s, FALSE) /\ ~ ResumeTimeout(s) /\ ~ PositionTimeout(s)
      <4>1. ~ Settled(s, FALSE) /\ ~ ResumeTimeout(s) BY <2>3 DEF Settled, ResumeTimeout, Server
      <4>2. BeltAgrees(master, pos, belt, s) BY <2>2 DEF Calm, Steady, Belted
      <4>3. ~ PositionTimeout(s) BY <4>2 DEF PositionTimeout, BeltAgrees
      <4> QED BY <4>1, <4>3
    <3>3. \A g \in goals : ~ GoalRefused(g) /\ ~ CaptureResultLost(g)
      BY <2>3 DEF GoalRefused, CaptureResultLost
    <3>4. \A p \in Products : /\ ~ ActuationRefused(p) /\ ~ ActuationTimeout(p)
                              /\ ~ ActuationResult(p, FALSE)
      BY <2>3 DEF ActuationRefused, ActuationTimeout, ActuationResult
    <3>5. \E s \in Stations : CaptureTimeout(s) BY <2>5, <3>1, <3>2, <3>3, <3>4 DEF Trouble
    <3> QED BY <2>2, <3>5, CaptureTimeoutSteady
  <2>6. ASSUME NEW f \in frames, NEW outcome \in {"PASS", "NG", "FAILED"},
               NEW outOfMemory \in BOOLEAN, StationTerminal(f, outcome, outOfMemory)
        PROVE  Onwards
    BY <2>2, <2>6, StationTerminalSteady
  <2>7. ~ OperatorPause BY <2>3 DEF OperatorPause
  <2>8. ~ OperatorResume
    <3>1. master.system = "RUN" BY <2>2, CalmFacts
    <3> QED BY <3>1 DEF OperatorResume
  <2> QED BY <1>2, <2>4, <2>5, <2>6, <2>7, <2>8 DEF Next
<1> QED BY <1>1, <1>2

\* Captures and inspections that fail, in any number and at any moment, neither make the
\* Master take the line for lost nor let a product pass that moved before a camera
\* (_handle_sensor1_entry to _handle_actuation_result), for any number of products and any
\* settings: each command answers one wish, each goal one cycle and each actuation one
\* lock, so every guard that leads to FAULT_STOP or to a recovery stays unused.
THEOREM QuietLineSound == Spec => []QuietLineIsSound
<1> DEFINE Inv == /\ Typed /\ Evidence(master, frames) /\ Positions(pos)
                  /\ Tracked(master, pos, belt)
                  /\ Awaited(master, goals) /\ Smooth
<1>1. Init => Inv BY InitTyped, InitEvidence, InitTracked, InitAwaited, InitSmooth
<1>2. Inv /\ [Next]_vars => Inv'
  <2> SUFFICES ASSUME Inv, [Next]_vars PROVE Inv' OBVIOUS
  <2>1. Typed' BY NextTyped
  <2>2. Evidence(master', frames') BY NextEvidence
  <2>3. Positions(pos') /\ Tracked(master', pos', belt') BY NextTracked
  <2>4. Awaited(master', goals') /\ Smooth' BY NextAwaited, NextSmooth
  <2> QED BY <2>1, <2>2, <2>3, <2>4 DEF Evidence, Positions, Tracked, Awaited
<1>3. Inv => QuietLineIsSound BY DEF Smooth, Steady, Rested, QuietLineIsSound, Alive
<1> QED BY <1>1, <1>2, <1>3, PTL DEF Spec
============

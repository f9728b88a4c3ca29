---------------------------- MODULE InferenceDeque ----------------------------
(***************************************************************************)
(* InferenceQueue as the code stores it: a deque of jobs, an insertion     *)
(* that walks it for the first job of a later order, and filters that      *)
(* rebuild it (inference_queue.py).  It implements InferenceQueuePromise.  *)
(***************************************************************************)
EXTENDS Integers, Sequences, FiniteSets, SequencesExt

CONSTANTS Jobs, Products, ProductOf, StationOf, FifoOf, Capacity, None

ASSUME DequeAssumption ==
    /\ FifoOf \in [Jobs -> Nat] /\ StationOf \in [Jobs -> {1, 2}]
    /\ ProductOf \in [Jobs -> Products] /\ Capacity \in Nat \ {0}

VARIABLES
    items,      \* _items
    enqueuedAt, clock, scopes, closed, taken, expired

dequeVars == <<items, enqueuedAt, clock, scopes, closed, taken, expired>>

Abstract == INSTANCE InferenceQueuePromise WITH queued <- ToSet(items)

Init ==
    /\ items = <<>>
    /\ enqueuedAt = [j \in Jobs |-> 0]
    /\ clock = 0
    /\ scopes = {} /\ closed = FALSE /\ taken = None /\ expired = {}

JobCanceled(j) == \E scope \in scopes : Abstract!InScope(j, scope)

\* (fifo_sequence, enqueued_monotonic_ns, station_id), as Python compares tuples.
OrderBefore(a, b) ==
    \/ a[1] < b[1]
    \/ a[1] = b[1] /\ a[2] < b[2]
    \/ a[1] = b[1] /\ a[2] = b[2] /\ a[3] < b[3]

OrderOf(j, at) == <<FifoOf[j], at, StationOf[j]>>

\* Slip: only the fifo_sequence is compared, and an equal one is passed over to the left.
InsertPositionByFifo(j, at) == SelectInSeq(items, LAMBDA q : FifoOf[j] <= FifoOf[q])

\* insert_at: the first queued job of a later order, or the end.
InsertPosition(j, at) ==
    SelectInSeq(items, LAMBDA q : OrderBefore(OrderOf(j, at), OrderOf(q, enqueuedAt[q])))

InsertOrdered(j, at) ==
    LET i == InsertPosition(j, at)
    IN  IF i = 0 THEN Append(items, j) ELSE InsertAt(items, i, j)

TryEnqueue(j) ==
    /\ enqueuedAt[j] = 0
    /\ ~closed /\ ~JobCanceled(j) /\ Len(items) < Capacity
    /\ clock' = clock + 1
    /\ enqueuedAt' = [enqueuedAt EXCEPT ![j] = clock']
    /\ items' = InsertOrdered(j, clock')
    /\ UNCHANGED <<scopes, closed, taken, expired>>

Get ==
    /\ items # <<>> /\ ~closed
    /\ taken' = Head(items)
    /\ items' = Tail(items)
    /\ UNCHANGED <<enqueuedAt, clock, scopes, closed, expired>>

Expire(j) ==
    /\ enqueuedAt[j] > 0
    /\ expired' = expired \cup {j}
    /\ UNCHANGED <<items, enqueuedAt, clock, scopes, closed, taken>>

\* deque(job for job in items if ...): those jobs, in the order they have.
Filtered(s, jobs) ==
    LET kept == {i \in DOMAIN s : s[i] \in jobs}
        Rank(i) == Cardinality({h \in kept : h <= i})
    IN  [k \in 1 .. Cardinality(kept) |-> s[CHOOSE i \in kept : Rank(i) = k]]

Keep(jobs) ==
    /\ items' = Filtered(items, jobs)
    /\ UNCHANGED <<enqueuedAt, clock, closed, taken, expired>>

DiscardExpired == Keep(Jobs \ expired) /\ UNCHANGED scopes

\* Slip: the scope of every station matches no job.
CancelScopeExact(scope) ==
    /\ scopes' = scopes \cup {scope}
    /\ Keep({j \in Jobs : <<ProductOf[j], StationOf[j]>> # scope})

\* cancel_scope, and lock_product with station 0
CancelScope(scope) ==
    /\ scopes' = scopes \cup {scope}
    /\ Keep({j \in Jobs : ~Abstract!InScope(j, scope)})

CancelAllWaiting == Keep({}) /\ UNCHANGED scopes

CloseDeque ==
    /\ closed' = TRUE
    /\ UNCHANGED <<items, enqueuedAt, clock, scopes, taken, expired>>

Next ==
    \/ \E j \in Jobs : TryEnqueue(j) \/ Expire(j)
    \/ \E scope \in Abstract!Scopes : CancelScope(scope)
    \/ Get \/ DiscardExpired \/ CancelAllWaiting \/ CloseDeque

Spec == Init /\ [][Next]_dequeVars

-----------------------------------------------------------------------------

\* The deque is an implementation of the promise: get() takes the first job of
\* the order, whatever the arrivals and the removals before it.
RefinesPromise == Abstract!Promise
=============================================================================

--------------------------- MODULE InferenceQueue ---------------------------
(***************************************************************************)
(* The bounded inference FIFO of the Vision node (inference_queue.py).     *)
(*                                                                         *)
(* This module holds the data of the queue and the effect of each method   *)
(* on it.  The deque is kept sorted by (fifo_sequence, enqueue instant,    *)
(* station_id), so here it is the set `queued' of the jobs in it, and      *)
(* Front is the job the deque would pop.  InferenceDeque checks that the   *)
(* sorted insertion and the filters of the code implement exactly this.    *)
(* The threads that call the methods, and the condition variable they      *)
(* wait on, are in WorkerPool.                                             *)
(***************************************************************************)
EXTENDS Integers, FiniteSets

CONSTANTS
    Jobs,       \* one InferenceJob per capture that reaches the queue
    Products,
    ProductOf,  \* [Jobs -> Products]
    StationOf,  \* [Jobs -> {1, 2}]
    FifoOf,     \* [Jobs -> Nat], the product's fifo_sequence
    Capacity    \* vision.queue.capacity

\* Station 0 in a scope stands for the code's None: every station.
Stations == {1, 2}
Scopes == Products \X (Stations \cup {0})

ASSUME JobAssumption ==
    /\ ProductOf \in [Jobs -> Products]
    /\ StationOf \in [Jobs -> Stations]
    /\ FifoOf \in [Jobs -> Nat]
    /\ Capacity \in Nat \ {0}
    /\ IsFiniteSet(Jobs)

VARIABLES
    queued,    \* _items, as the set of its jobs
    enqueuedAt,\* [Jobs -> Nat]: enqueued_monotonic_ns, 0 before the enqueue
    clock,     \* the instants used so far; strictly increasing under the lock
    scopes,    \* _canceled_scopes together with _locked_products (as station 0)
    closed     \* _closed

queueVars == <<queued, enqueuedAt, clock, scopes, closed>>

InScope(j, scope) == ProductOf[j] = scope[1] /\ scope[2] \in {0, StationOf[j]}

\* _job_canceled_unlocked
Canceled(j) == \E scope \in scopes : InScope(j, scope)

\* The order of the deque.  Two jobs of one product share a fifo_sequence.
Before(i, j) ==
    \/ FifoOf[i] < FifoOf[j]
    \/ FifoOf[i] = FifoOf[j] /\ enqueuedAt[i] < enqueuedAt[j]
    \/ FifoOf[i] = FifoOf[j] /\ enqueuedAt[i] = enqueuedAt[j] /\ StationOf[i] < StationOf[j]

\* The job popleft returns.
IsFront(j) == j \in queued /\ \A i \in queued \ {j} : Before(j, i)

\* Slip: one job too many.
FullOffByOne == Cardinality(queued) > Capacity

Full == Cardinality(queued) >= Capacity

\* Slip: the canceled scopes are not looked at.
MayEnqueueUnchecked(j) == ~closed /\ ~Full

\* try_enqueue returns False exactly when this does not hold.
MayEnqueue(j) == ~closed /\ ~Canceled(j) /\ ~Full

QueueInit ==
    /\ queued = {}
    /\ enqueuedAt = [j \in Jobs |-> 0]
    /\ clock = 0
    /\ scopes = {}
    /\ closed = FALSE

Insert(j) ==
    /\ queued' = queued \cup {j}
    /\ clock' = clock + 1
    /\ enqueuedAt' = [enqueuedAt EXCEPT ![j] = clock + 1]
    /\ UNCHANGED <<scopes, closed>>

Remove(gone) ==
    /\ queued' = queued \ gone
    /\ UNCHANGED <<enqueuedAt, clock, scopes, closed>>

\* cancel_scope and, with station 0, lock_product.
InstallScope(scope) ==
    /\ scopes' = scopes \cup {scope}
    /\ queued' = {j \in queued : ~InScope(j, scope)}
    /\ UNCHANGED <<enqueuedAt, clock, closed>>

Close ==
    /\ closed' = TRUE
    /\ UNCHANGED <<queued, enqueuedAt, clock, scopes>>

QueueTypeOK ==
    /\ queued \subseteq Jobs
    /\ enqueuedAt \in [Jobs -> Nat]
    /\ clock \in Nat
    /\ scopes \subseteq Scopes
    /\ closed \in BOOLEAN
=============================================================================

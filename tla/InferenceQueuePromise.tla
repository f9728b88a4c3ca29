------------------------ MODULE InferenceQueuePromise ------------------------
(***************************************************************************)
(* What InferenceQueue promises its callers: a bounded set of jobs from    *)
(* which get() always takes the first one in the order of InferenceQueue,  *)
(* and from which cancellation and expiry take exactly the jobs they name. *)
(***************************************************************************)
EXTENDS InferenceQueue

CONSTANT None   \* nothing taken yet

VARIABLES
    taken,      \* the job get() returned last
    expired     \* the jobs whose total deadline has passed

promiseVars == <<queueVars, taken, expired>>

PromiseInit == QueueInit /\ taken = None /\ expired = {}

PutJob(j) ==
    /\ enqueuedAt[j] = 0 /\ MayEnqueue(j)
    /\ Insert(j)
    /\ UNCHANGED <<taken, expired>>

TakeJob ==
    /\ ~closed
    /\ \E j \in queued : IsFront(j) /\ Remove({j}) /\ taken' = j
    /\ UNCHANGED expired

ExpireJob(j) ==
    /\ enqueuedAt[j] > 0
    /\ expired' = expired \cup {j}
    /\ UNCHANGED <<queueVars, taken>>

DropExpired == Remove(queued \cap expired) /\ UNCHANGED <<taken, expired>>

DropScope(scope) == InstallScope(scope) /\ UNCHANGED <<taken, expired>>

DropAll == Remove(queued) /\ UNCHANGED <<taken, expired>>

CloseQueue == Close /\ UNCHANGED <<taken, expired>>

PromiseNext ==
    \/ \E j \in Jobs : PutJob(j) \/ ExpireJob(j)
    \/ \E scope \in Scopes : DropScope(scope)
    \/ TakeJob \/ DropExpired \/ DropAll \/ CloseQueue

Promise == PromiseInit /\ [][PromiseNext]_promiseVars
=============================================================================

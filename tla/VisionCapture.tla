---------------------------- MODULE VisionCapture ----------------------------
(* The capture action of Vision (vision_node.py, _execute_capture) around the
   inference queue: acceptance, the idempotent replies, the station lock
   (ExecutorLock), the attempts at the cameras, the enqueue loop, and what runs
   beside it on other executor threads: cancellations, a re-initialization that
   replaces the queue, a new session, shutdown.

   A step lies between two awaits or two shared reads of an action.  The camera
   locks are left out: a station's cameras are its own (validate_hardware_profile),
   so its station lock keeps them from being contended.  WorkerPool has the threads
   of the queue; here a queue is its jobs, and a job is the goal it was made for. *)
EXTENDS IdempotencyStore, FiniteSets

CONSTANTS Goals,        \* CaptureProduct goals
          ProductOf, StationOf, CaptureOf, CommandOf,  \* what a goal asks for
          None,
          MaxAttempts,  \* vision.capture.max_attempts
          Capacity,     \* vision.queue.capacity
          Scopes,       \* the scopes that are canceled: <<product, station>>, station 0
                        \* for the whole product (ProductResultLocked)
          Troubles, MaxTroubles

Stations == {1, 2}
Captures == {CaptureOf[g] : g \in Goals}
Identity(g) == <<ProductOf[g], StationOf[g]>>
\* What is asked for: the capture_key, and all that a payload digest tells apart.
Digest(g) == <<Identity(g), CaptureOf[g]>>
Digests == {Digest(g) : g \in Goals}

ASSUME CaptureAssumption ==
    /\ StationOf \in [Goals -> Stations] /\ None \notin Goals
    /\ DOMAIN ProductOf = Goals /\ DOMAIN CaptureOf = Goals /\ DOMAIN CommandOf = Goals
    /\ MaxAttempts \in Nat \ {0} /\ Capacity \in Nat \ {0}
    /\ \A scope \in Scopes : scope[2] \in Stations \cup {0}
    /\ Troubles \subseteq {"camera", "disk", "oom", "initialize", "master",
                         "cancel", "shutdown"}
    /\ MaxTroubles \in Nat

VARIABLES pc,         \* where the action of a goal is
          outcome,    \* how it ended
          answer,     \* the job a success reports
          sent,       \* the session in the header of a goal, 0 before it is sent
          attempt,
          canceled,   \* goals whose cancellation was requested
          locked, waiters,       \* _locked and _waiters of each ExecutorLock
          queue,      \* the InferenceQueue object: number, closed, jobs, scopes
          made,       \* the jobs ever accepted by a queue, each with its session
          identities, completed, \* _capture_identities (of a capture), _completed_captures
                                 \* (of a product, station and capture)
          store,      \* _capture_results
          nodeScopes, \* _canceled_station_scopes
          handling,   \* the handler of each cancellation, and when it got to the queue
          session,    \* the session of the node
          master,     \* the session of the Master
          ready,      \* health is READY
          phase,      \* of an initialization
          shutdown, trouble

goalVars == <<pc, outcome, answer, sent, attempt>>
lockVars == <<locked, waiters>>
memoVars == <<identities, completed, store>>
cancelVars == <<canceled, nodeScopes, handling>>
nodeVars == <<session, master, ready, phase, shutdown>>
vars == <<goalVars, lockVars, queue, made, memoVars, cancelVars, nodeVars, trouble>>

NewQueue(n) == [number |-> n, closed |-> FALSE, jobs |-> {}, scopes |-> {}]
Unhandled == [phase |-> "unsent", queue |-> 0, late |-> {}]

Init ==
    /\ pc = [g \in Goals |-> "unsent"]
    /\ outcome = [g \in Goals |-> "none"] /\ answer = [g \in Goals |-> None]
    /\ sent = [g \in Goals |-> 0] /\ attempt = [g \in Goals |-> 0]
    /\ locked = [s \in Stations |-> FALSE] /\ waiters = [s \in Stations |-> <<>>]
    /\ queue = NewQueue(1) /\ made = {}
    /\ identities = [c \in Captures |-> None] /\ completed = [d \in Digests |-> None]
    /\ store = <<>>
    /\ canceled = {} /\ nodeScopes = {} /\ handling = [scope \in Scopes |-> Unhandled]
    /\ session = 1 /\ master = 1 /\ ready = TRUE /\ phase = "idle"
    /\ shutdown = FALSE /\ trouble = {}

Trouble(kind) ==
    /\ kind \in Troubles \ trouble /\ Cardinality(trouble) < MaxTroubles
    /\ trouble' = trouble \cup {kind}

Covers(scope, g) == scope[1] = ProductOf[g] /\ scope[2] \in {0, StationOf[g]}
ScopeCanceled(g) == \E scope \in nodeScopes : Covers(scope, g)

\* Slip: the lock is opened before it is handed over.
ReleasedOpen(g, p) ==
    LET s == StationOf[g]
    IN  /\ locked' = [locked EXCEPT ![s] = FALSE]
        /\ waiters' = [waiters EXCEPT ![s] = IF @ = <<>> THEN @ ELSE Tail(@)]
        /\ pc' = IF waiters[s] = <<>> THEN p
                 ELSE [p EXCEPT ![Head(waiters[s])] = "entered"]

\* ExecutorLock.release: to the first waiter, without unlocking.
Released(g, p) ==
    LET s == StationOf[g]
    IN  IF waiters[s] = <<>>
        THEN /\ locked' = [locked EXCEPT ![s] = FALSE]
             /\ pc' = p
             /\ UNCHANGED waiters
        ELSE /\ waiters' = [waiters EXCEPT ![s] = Tail(@)]
             /\ pc' = [p EXCEPT ![Head(waiters[s])] = "entered"]
             /\ UNCHANGED locked

Done(g) == [pc EXCEPT ![g] = "done"]
Goto(g, where) == pc' = [pc EXCEPT ![g] = where]

\* _terminal_capture, outside and inside the lock.
Refused(g, what) ==
    /\ outcome' = [outcome EXCEPT ![g] = what] /\ pc' = Done(g)
    /\ UNCHANGED <<answer, lockVars>>
Terminal(g, what) ==
    /\ outcome' = [outcome EXCEPT ![g] = what] /\ Released(g, Done(g))
    /\ UNCHANGED answer

-----------------------------------------------------------------------------
(* The action, from goal to terminal state. *)

\* A product is of one session: a new Master numbers its products anew.
ProductIn(p, s) == \A g \in Goals : ProductOf[g] = p => sent[g] \in {0, s}

\* _accept_capture_goal.
Accept(g) ==
    /\ pc[g] = "unsent" /\ ProductIn(ProductOf[g], master)
    /\ sent' = [sent EXCEPT ![g] = master]
    /\ IF shutdown \/ ScopeCanceled(g)
       THEN Refused(g, "rejected")
       ELSE Goto(g, "accepted") /\ UNCHANGED <<outcome, answer, lockVars>>
    /\ UNCHANGED <<attempt, queue, made, memoVars, cancelVars, nodeVars, trouble>>

\* _execute_capture up to the lock: header, a reply to a known command, the disk.
Validate(g) ==
    LET kind == Inspect(store, CommandOf[g], Digest(g))
        valid == ready /\ sent[g] = session
    IN  /\ pc[g] = "accepted"
        /\ store' = IF valid THEN Inspected(store, CommandOf[g]) ELSE store
        /\ \/ ~valid /\ Refused(g, "failed") /\ UNCHANGED <<ready, trouble>>
           \/ /\ valid /\ kind = "CONFLICT"
              /\ Refused(g, "failed") /\ UNCHANGED <<ready, trouble>>
           \/ /\ valid /\ kind = "REPLAY" /\ pc' = Done(g)
              /\ outcome' = [outcome EXCEPT ![g] = "success"]
              /\ answer' = [answer EXCEPT ![g] = EntryOf(store, CommandOf[g]).result]
              /\ UNCHANGED <<lockVars, ready, trouble>>
           \/ /\ valid /\ kind = "NEW" /\ Goto(g, "checked")
              /\ UNCHANGED <<outcome, answer, lockVars, ready, trouble>>
           \/ /\ valid /\ kind = "NEW" /\ Trouble("disk")
              /\ Refused(g, "failed") /\ ready' = FALSE
        /\ UNCHANGED <<sent, attempt, queue, made, identities, completed, cancelVars,
                       session, master, phase, shutdown>>

\* ExecutorLock.__aenter__.
EnterStation(g) ==
    LET s == StationOf[g]
    IN  /\ pc[g] = "checked"
        /\ IF locked[s]
           THEN /\ waiters' = [waiters EXCEPT ![s] = Append(@, g)]
                /\ Goto(g, "waiting") /\ UNCHANGED locked
           ELSE /\ locked' = [locked EXCEPT ![s] = TRUE]
                /\ Goto(g, "entered") /\ UNCHANGED waiters
        /\ UNCHANGED <<outcome, answer, sent, attempt, queue, made, memoVars, cancelVars,
                       nodeVars, trouble>>

\* remember, and the reply; a command remembered for something else raises out of the
\* action, through the lock.
Reply(g, job) ==
    IF Inspect(store, CommandOf[g], Digest(g)) = "CONFLICT"
    THEN Terminal(g, "raised") /\ UNCHANGED store
    ELSE /\ store' = Remembered(store, CommandOf[g], Digest(g), job)
         /\ answer' = [answer EXCEPT ![g] = job]
         /\ outcome' = [outcome EXCEPT ![g] = "success"]
         /\ Released(g, Done(g))

\* Inside the lock: the scope, the identity of the capture, the reply to one that is
\* complete.
Reserve(g) ==
    LET c == CaptureOf[g]
    IN  /\ pc[g] = "entered"
        /\ \/ /\ ScopeCanceled(g) /\ Terminal(g, "canceled")
              /\ UNCHANGED <<identities, store>>
           \/ /\ ~ScopeCanceled(g) /\ identities[c] \notin {None, Identity(g)}
              /\ Terminal(g, "failed") /\ UNCHANGED <<identities, store>>
           \/ /\ ~ScopeCanceled(g) /\ identities[c] \in {None, Identity(g)}
              /\ identities' = [identities EXCEPT ![c] = Identity(g)]
              /\ IF completed[Digest(g)] = None
                 THEN Goto(g, "shooting") /\ UNCHANGED <<outcome, answer, lockVars, store>>
                 ELSE Reply(g, completed[Digest(g)])
        /\ UNCHANGED <<sent, attempt, completed, queue, made, cancelVars, nodeVars, trouble>>

\* One attempt of _capture_required_batch.  What fails leaves no batch, or one reported
\* for deletion; the last failure is the goal's, a lost camera also degrades the node.
Attempt(g) ==
    /\ pc[g] = "shooting"
    /\ \/ g \in canceled /\ Terminal(g, "canceled") /\ UNCHANGED <<attempt, ready, trouble>>
       \/ /\ g \notin canceled /\ Goto(g, "saved")
          /\ UNCHANGED <<outcome, answer, attempt, lockVars, ready, trouble>>
       \/ /\ g \notin canceled
          /\ \/ attempt[g] = 0 /\ Trouble("camera")
             \/ attempt[g] > 0 /\ UNCHANGED trouble
          /\ attempt' = [attempt EXCEPT ![g] = @ + 1]
          /\ IF attempt[g] + 1 < MaxAttempts
             THEN UNCHANGED <<pc, outcome, answer, lockVars, ready>>
             ELSE /\ Terminal(g, IF g \in canceled THEN "canceled" ELSE "failed")
                  /\ ready' \in {FALSE, ready}
    /\ UNCHANGED <<sent, queue, made, memoVars, cancelVars, session, master, phase, shutdown,
                   handling>>

\* Slip: only the goal's own cancellation is looked at.
CheckSavedGoalOnly(g) ==
    /\ pc[g] = "saved"
    /\ IF g \in canceled
       THEN Terminal(g, "canceled")
       ELSE Goto(g, "enqueue") /\ UNCHANGED <<outcome, answer, lockVars>>
    /\ UNCHANGED <<sent, attempt, queue, made, memoVars, cancelVars, nodeVars, trouble>>

\* The batch is saved: last look at the node's scopes.
CheckSaved(g) ==
    /\ pc[g] = "saved"
    /\ IF g \in canceled \/ ScopeCanceled(g)
       THEN Terminal(g, "canceled")
       ELSE Goto(g, "enqueue") /\ UNCHANGED <<outcome, answer, lockVars>>
    /\ UNCHANGED <<sent, attempt, queue, made, memoVars, cancelVars, nodeVars, trouble>>

QueueRefuses(g) ==
    \/ queue.closed \/ Cardinality(queue.jobs) >= Capacity
    \/ \E scope \in queue.scopes : Covers(scope, g)

\* InferenceQueue.try_enqueue.
TryEnqueue(g) ==
    /\ pc[g] = "enqueue"
    /\ IF QueueRefuses(g)
       THEN Goto(g, "refused") /\ UNCHANGED <<queue, made>>
       ELSE /\ Goto(g, "enqueued")
            /\ queue' = [queue EXCEPT !.jobs = @ \cup {g}]
            /\ made' = made \cup {<<g, session>>}
    /\ UNCHANGED <<outcome, answer, sent, attempt, lockVars, memoVars, cancelVars, nodeVars,
                   trouble>>

\* Slip: a closed queue is waited for like a full one.
CheckRefusalUnclosed(g) ==
    LET productLocked == \E scope \in queue.scopes : scope = <<ProductOf[g], 0>>
    IN  /\ pc[g] = "refused"
        /\ IF productLocked \/ ScopeCanceled(g) \/ g \in canceled
           THEN Terminal(g, "canceled")
           ELSE Goto(g, "blocked") /\ UNCHANGED <<outcome, answer, lockVars>>
        /\ UNCHANGED <<sent, attempt, queue, made, memoVars, cancelVars, nodeVars, trouble>>

\* Why?  In the order of the code; else wait_for_space, at most 0.1 s.
CheckRefusal(g) ==
    LET productLocked == \E scope \in queue.scopes : scope = <<ProductOf[g], 0>>
    IN  /\ pc[g] = "refused"
        /\ \/ queue.closed /\ Terminal(g, "failed")
           \/ /\ ~queue.closed /\ (productLocked \/ ScopeCanceled(g) \/ g \in canceled)
              /\ Terminal(g, "canceled")
           \/ /\ ~queue.closed /\ ~productLocked /\ ~ScopeCanceled(g) /\ g \notin canceled
              /\ Goto(g, "blocked") /\ UNCHANGED <<outcome, answer, lockVars>>
        /\ UNCHANGED <<sent, attempt, queue, made, memoVars, cancelVars, nodeVars, trouble>>

WaitEnds(g) ==
    /\ pc[g] = "blocked" /\ Goto(g, "enqueue")
    /\ UNCHANGED <<outcome, answer, sent, attempt, lockVars, queue, made, memoVars, cancelVars,
                   nodeVars, trouble>>

\* Slip: the success is kept for the command only.
CompleteForCommand(g) ==
    /\ pc[g] = "enqueued"
    /\ Reply(g, g)
    /\ UNCHANGED <<sent, attempt, identities, completed, queue, made, cancelVars, nodeVars,
                   trouble>>

\* Enqueued: the capture is complete, and the goal succeeds.
Complete(g) ==
    /\ pc[g] = "enqueued"
    /\ completed' = [completed EXCEPT ![Digest(g)] = g]
    /\ Reply(g, g)
    /\ UNCHANGED <<sent, attempt, identities, queue, made, cancelVars, nodeVars, trouble>>

Execute(g) ==
    \/ Validate(g) \/ EnterStation(g) \/ Reserve(g) \/ Attempt(g) \/ CheckSaved(g)
    \/ TryEnqueue(g) \/ CheckRefusal(g) \/ WaitEnds(g) \/ Complete(g)

-----------------------------------------------------------------------------
(* Beside it. *)

\* The Master cancels a goal (_cancel_capture_goal accepts).
CancelGoal(g) ==
    /\ pc[g] \notin {"unsent", "done"} /\ g \notin canceled
    /\ Trouble("cancel")
    /\ canceled' = canceled \cup {g}
    /\ UNCHANGED <<goalVars, lockVars, queue, made, memoVars, nodeScopes, handling, nodeVars>>

\* The goals that are past their last look at the node's scopes.
Committed == {g \in Goals : pc[g] \in {"enqueue", "refused", "blocked"}}

\* _handle_inference_cancellation and _handle_product_locked: the node's scope,
InstallScope(scope) ==
    /\ handling[scope].phase = "unsent" /\ master = session
    /\ ProductIn(scope[1], session)
    /\ nodeScopes' = nodeScopes \cup {scope}
    /\ handling' = [handling EXCEPT ![scope] =
                       [phase |-> "queue", queue |-> 0, late |-> Committed]]
    /\ UNCHANGED <<goalVars, lockVars, queue, made, memoVars, canceled, nodeVars, trouble>>

\* ... then the queue's, and the acknowledgement.
CancelInQueue(scope) ==
    /\ handling[scope].phase = "queue"
    /\ queue' = [queue EXCEPT !.jobs = {g \in @ : ~Covers(scope, g)},
                              !.scopes = @ \cup {scope}]
    /\ handling' = [handling EXCEPT ![scope].phase = "done", ![scope].queue = queue.number]
    /\ UNCHANGED <<goalVars, lockVars, made, memoVars, canceled, nodeScopes, nodeVars, trouble>>

\* A worker takes a job, and may run out of memory on it: _on_inference_failure empties
\* and closes the queue, and the node is DEGRADED.
TakeJob ==
    /\ ~queue.closed
    /\ \E g \in queue.jobs :
        \/ /\ queue' = [queue EXCEPT !.jobs = @ \ {g}]
           /\ UNCHANGED <<ready, trouble>>
        \/ /\ Trouble("oom") /\ ready' = FALSE
           /\ queue' = [queue EXCEPT !.jobs = {}, !.closed = TRUE]
    /\ UNCHANGED <<goalVars, lockVars, made, memoVars, cancelVars, session, master, phase,
                   shutdown>>

\* A new Master, and one that finds Vision not READY, or lost it for a moment, sends
\* InitializeNode.
MasterRestarts ==
    /\ phase = "idle" /\ Trouble("master")
    /\ master' = master + 1
    /\ UNCHANGED <<goalVars, lockVars, queue, made, memoVars, cancelVars, session, ready, phase,
                   shutdown>>

\* _initialize_worker_runtime: the pool is stopped, its queue closed,
BeginInitialize ==
    /\ phase = "idle" /\ ~shutdown
    /\ \/ (master # session \/ ~ready) /\ UNCHANGED trouble
       \/ master = session /\ ready /\ Trouble("initialize")
    /\ phase' = "loading"
    /\ queue' = [queue EXCEPT !.jobs = {}, !.closed = TRUE]
    /\ UNCHANGED <<goalVars, lockVars, made, memoVars, cancelVars, session, master, ready,
                   shutdown>>

\* ... the model is loaded, and another queue takes its place; or not.
ReplaceQueue ==
    /\ phase = "loading"
    /\ \/ /\ phase' = "replaced" /\ queue' = NewQueue(queue.number + 1)
          /\ UNCHANGED ready
       \/ phase' = "idle" /\ ready' = FALSE /\ UNCHANGED queue
    /\ UNCHANGED <<goalVars, lockVars, made, memoVars, cancelVars, session, master, shutdown,
                   trouble>>

\* _execute_initialize: the session, and on_initialization_succeeded.
FinishInitialize ==
    /\ phase = "replaced"
    /\ phase' = "idle" /\ ready' = TRUE /\ session' = master
    /\ IF session = master
       THEN UNCHANGED <<memoVars, nodeScopes>>
       ELSE /\ identities' = [c \in Captures |-> None]
            /\ completed' = [d \in Digests |-> None]
            /\ store' = <<>> /\ nodeScopes' = {}
    /\ UNCHANGED <<goalVars, lockVars, queue, made, canceled, handling, master, shutdown,
                   trouble>>

\* request_shutdown.
Shutdown ==
    /\ phase = "idle" /\ Trouble("shutdown")
    /\ shutdown' = TRUE
    /\ queue' = [queue EXCEPT !.jobs = {}, !.closed = TRUE]
    /\ UNCHANGED <<goalVars, lockVars, made, memoVars, cancelVars, session, master, ready,
                   phase>>

-----------------------------------------------------------------------------
Next ==
    \/ \E g \in Goals : Accept(g) \/ Execute(g) \/ CancelGoal(g)
    \/ \E scope \in Scopes : InstallScope(scope) \/ CancelInQueue(scope)
    \/ TakeJob \/ MasterRestarts \/ BeginInitialize \/ ReplaceQueue \/ FinishInitialize
    \/ Shutdown

Spec == Init /\ [][Next]_vars

\* Executor threads and cameras go on, workers take jobs.
Fairness == WF_vars(TakeJob) /\ \A g \in Goals : WF_vars(Execute(g))

FairSpec == Spec /\ Fairness

-----------------------------------------------------------------------------
(* Properties. *)

Places == {"unsent", "accepted", "checked", "waiting", "entered", "shooting", "saved",
           "enqueue", "refused", "blocked", "enqueued", "done"}
Outcomes == {"none", "rejected", "failed", "canceled", "raised", "success"}
Inside == {"entered", "shooting", "saved", "enqueue", "refused", "blocked", "enqueued"}

\* Types, and the station lock: locked exactly while one action is inside or has been
\* handed it, with nobody waiting for a free lock (ExecutorLock).
TypeOK ==
    /\ pc \in [Goals -> Places] /\ outcome \in [Goals -> Outcomes]
    /\ answer \in [Goals -> Goals \cup {None}] /\ sent \in [Goals -> Nat]
    /\ attempt \in [Goals -> 0 .. MaxAttempts]
    /\ locked \in [Stations -> BOOLEAN]
    /\ \A s \in Stations :
        /\ \A i \in DOMAIN waiters[s] : pc[waiters[s][i]] = "waiting"
        /\ {g \in Goals : pc[g] = "waiting" /\ StationOf[g] = s}
             = {waiters[s][i] : i \in DOMAIN waiters[s]}
        /\ Cardinality({g \in Goals : StationOf[g] = s /\ pc[g] \in Inside})
             = (IF locked[s] THEN 1 ELSE 0)
        /\ waiters[s] # <<>> => locked[s]
    /\ Cardinality(queue.jobs) <= Capacity /\ queue.jobs \subseteq Goals
    /\ queue.scopes \subseteq Scopes /\ nodeScopes \subseteq Scopes
    /\ made \subseteq Goals \X Nat
    /\ Len(store) <= StoreCapacity
    /\ canceled \subseteq Goals
    /\ session \in Nat /\ master \in Nat /\ session <= master
    /\ ready \in BOOLEAN /\ shutdown \in BOOLEAN
    /\ phase \in {"idle", "loading", "replaced"}

\* In one session a capture makes one job, however often and by whatever command it is
\* asked for, and every success reports a job of the capture it was asked for
\* (_capture_results, _completed_captures, station lock).
OneJobPerCapture ==
    /\ \A j, k \in made : Digest(j[1]) = Digest(k[1]) /\ j[2] = k[2] => j = k
    /\ \A g \in Goals : answer[g] # None =>
        \E j \in made : j[1] = answer[g] /\ Digest(j[1]) = Digest(g)

\* Once a cancellation is acknowledged no capture of its scope is enqueued, but for one
\* that was past its last look and meets a queue that knows of nothing (cancel_scope,
\* _initialize_worker_runtime).
CanceledScopeShutsOut ==
    [][\A scope \in Scopes, g \in Goals :
        /\ scope \in nodeScopes /\ handling[scope].phase = "done" /\ Covers(scope, g)
        /\ pc[g] = "enqueue" /\ pc'[g] = "enqueued"
        => g \in handling[scope].late /\ queue.number > handling[scope].queue]_vars

\* Every goal gets its answer, also behind a full, closed or replaced queue and behind
\* others at its station.
EveryGoalEnds == \A g \in Goals : pc[g] # "unsent" ~> pc[g] = "done"

===============================================================================

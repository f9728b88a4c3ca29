----------------------------- MODULE LogPipeline -----------------------------
(* How an event reaches the Log's database and stays there: the durable spool of
   the Master and of Vision (log_spool.py), publication and republication, the
   commit and its acknowledgement (log_node.py, service.py, storage.py), the
   replay of station terminals to the Master, and the images the Log deletes.
   Processes crash and restart between any two durable steps.

   An event is a model value of the Master (Notices) or a number of Vision
   (Terminals: results and failures of the stations, in the order of fifo_sequence
   and station).  Each terminal has one image.  A LogEvent is only its event and the
   session of its header: republished, it is the same message.  InitializeNode,
   heartbeats and readiness are WorkerSupervision's: here a node is initialized in
   one step, once the Master has heard its process.                            *)
EXTENDS Naturals, FiniteSets

CONSTANTS Notices,     \* events of the Master
          Terminals,   \* station terminals of Vision, in their order
          FlushLimit,  \* records a flush publishes (100)
          PageSize,    \* terminals of one replay page (1000)
          KeepLatest,  \* images the Log keeps (10000)
          MaxEvents,   \* bound on the events of a behaviour
          Troubles,    \* what may go wrong, each kind once
          MaxTroubles  \* and how many kinds

ASSUME PipelineAssumption ==
    /\ IsFiniteSet(Notices) /\ IsFiniteSet(Terminals) /\ Terminals \subseteq Nat
    /\ Notices \cap Terminals = {}
    /\ FlushLimit \in Nat \ {0} /\ PageSize \in Nat \ {0} /\ KeepLatest \in Nat \ {0}
    /\ MaxEvents \in Nat
    /\ Troubles \subseteq {"master", "vision", "log", "loss", "commit", "spool"}
    /\ MaxTroubles \in Nat

VARIABLES session,  \* the Master's session
          node,     \* the worker processes: up, instance, session they are initialized in
          mirror,   \* the instance of each worker the Master has heard last, or 0
          origin,   \* the session an event belongs to (its envelope), 0 before it exists
          created,  \* order in which the spools accepted the events, 0 if they did not
          spool,    \* the records each producer keeps
          writing,  \* the terminal Vision has spooled and not yet published
          net,      \* LogEvents on their way
          acks,     \* LogPersistedAcks on their way
          heard,    \* the terminals the Master has taken in this session
          replay,   \* the Master's replay: generation, completed, offset, inflight
          pages,    \* answers of ReplayStationResults on their way
          stored,   \* committed events (log_events and their projections)
          recorded, \* artifact_order of each image, 0 without a record
          files,    \* the images on disk
          step,     \* what the Log's callback does next
          trouble

vars == <<session, node, mirror, origin, created, spool, writing, net, acks, heard,
          replay, pages, stored, recorded, files, step, trouble>>
netVars == <<net, acks, pages>>
dbVars == <<stored, recorded, files, step>>
masterVars == <<session, mirror, heard, replay>>

Workers == {"vision", "log"}
Producers == {"master", "vision"}
Events == Notices \cup Terminals
Producer(e) == IF e \in Terminals THEN "vision" ELSE "master"
None == [kind |-> "idle"]

FirstReplay == [generation |-> 0, pending |-> TRUE, offset |-> 0, inflight |-> FALSE]
Down(w) == [up |-> FALSE, instance |-> node[w].instance, session |-> 0]

Init ==
    /\ session = 1
    /\ node = [w \in Workers |-> [up |-> TRUE, instance |-> 1, session |-> 0]]
    /\ mirror = [w \in Workers |-> 0]
    /\ origin = [e \in Events |-> 0] /\ created = [e \in Events |-> 0]
    /\ spool = [p \in Producers |-> {}] /\ writing = {}
    /\ net = {} /\ acks = {} /\ pages = {}
    /\ heard = {} /\ replay = FirstReplay
    /\ stored = {} /\ recorded = [t \in Terminals |-> 0] /\ files = {} /\ step = None
    /\ trouble = {}

Trouble(kind) ==
    /\ kind \in Troubles \ trouble /\ Cardinality(trouble) < MaxTroubles
    /\ trouble' = trouble \cup {kind}

\* The session a producer writes into its headers: Vision's spool is open only in a
\* process that was initialized.
SessionOf(p) == IF p = "master" THEN session ELSE node.vision.session
SpoolOpen(p) == SessionOf(p) # 0
Happens(e) == origin[e] = 0 /\ Cardinality({f \in Events : origin[f] > 0}) < MaxEvents
Accepted == {e \in Events : created[e] > 0}

-----------------------------------------------------------------------------
(* Producers: spool first, then publish. *)

Header(e, s) == [event |-> e, session |-> s]

\* DurableLogSpool.enqueue.
Enqueued(e) ==
    /\ created' = [created EXCEPT ![e] = Cardinality(Accepted) + 1]
    /\ spool' = [spool EXCEPT ![Producer(e)] = @ \cup {e}]

\* _emit_log_event of the Master.  Without its spool it publishes all the same.
EmitNotice ==
    \E e \in Notices :
        /\ Happens(e)
        /\ origin' = [origin EXCEPT ![e] = session]
        /\ net' = net \cup {Header(e, session)}
        /\ \/ Enqueued(e) /\ UNCHANGED trouble
           \/ Trouble("spool") /\ UNCHANGED <<created, spool>>
        /\ UNCHANGED <<node, writing, acks, pages, masterVars, dbVars>>

\* Slip: the result is published although the spool refused it.
FinishInferenceUnspooled ==
    \E t \in Terminals :
        /\ writing = {} /\ Happens(t) /\ SpoolOpen("vision")
        /\ origin' = [origin EXCEPT ![t] = node.vision.session]
        /\ files' = files \cup {t}
        /\ writing' = {t}
        /\ \/ Enqueued(t) /\ UNCHANGED trouble
           \/ Trouble("spool") /\ UNCHANGED <<created, spool>>
        /\ UNCHANGED <<node, netVars, masterVars, stored, recorded, step>>

\* _on_inference_success or _on_inference_failure, up to the commit of the spool; a
\* terminal that cannot be spooled is suppressed.  Its image has been on disk since
\* the capture.
FinishInference ==
    \E t \in Terminals :
        /\ writing = {} /\ Happens(t) /\ SpoolOpen("vision")
        /\ origin' = [origin EXCEPT ![t] = node.vision.session]
        /\ files' = files \cup {t}
        /\ \/ Enqueued(t) /\ writing' = {t} /\ UNCHANGED trouble
           \/ Trouble("spool") /\ UNCHANGED <<created, spool, writing>>
        /\ UNCHANGED <<node, netVars, masterVars, stored, recorded, step>>

\* ... and then the LogEvent and the StationResult are published.  The Master takes the
\* result if it is of its session (_handle_station_result, _handle_station_failure), or
\* misses it: the replay is there for that.
PublishTerminal ==
    \E t \in writing :
        /\ writing' = {}
        /\ net' = net \cup {Header(t, node.vision.session)}
        /\ \/ UNCHANGED heard
           \/ node.vision.session = session /\ heard' = heard \cup {t}
        /\ UNCHANGED <<session, node, mirror, origin, created, spool, acks, replay, pages,
                       dbVars, trouble>>

\* DurableLogSpool.pending: the first records by created_at.
Pending(p) ==
    {e \in spool[p] :
        Cardinality({f \in spool[p] : created[f] < created[e]}) < FlushLimit}

\* The flushes are a second apart: what the last one sent, and what came back, has
\* arrived or is lost.
Drained(p) == \A m \in net \cup acks : Producer(m.event) # p

\* Slip: a record is published again under the session it was written in.
FlushAsWritten(p) ==
    /\ SpoolOpen(p) /\ Drained(p)
    /\ net' = net \cup {Header(e, origin[e]) : e \in Pending(p)}
    /\ UNCHANGED <<node, origin, created, spool, writing, acks, pages, masterVars,
                   dbVars, trouble>>

\* _flush_log_spool and _flush_result_spool, the timers.
Flush(p) ==
    /\ SpoolOpen(p) /\ Drained(p)
    /\ net' = net \cup {Header(e, SessionOf(p)) : e \in Pending(p)}
    /\ UNCHANGED <<node, origin, created, spool, writing, acks, pages, masterVars,
                   dbVars, trouble>>

\* _handle_log_persisted_ack.
HandleAck ==
    \E a \in acks :
        LET p == Producer(a.event)
        IN  /\ acks' = acks \ {a}
            /\ spool' = IF SpoolOpen(p) /\ a.session = SessionOf(p)
                        THEN [spool EXCEPT ![p] = @ \ {a.event}] ELSE spool
            /\ UNCHANGED <<node, origin, created, writing, net, pages, masterVars,
                           dbVars, trouble>>

-----------------------------------------------------------------------------
(* The Log. *)

Ready == node.log.session # 0

\* _project_event: a terminal's image is put on record, in the order of the terminals.
Projected(e) ==
    recorded' = IF e \in Terminals
                THEN [recorded EXCEPT ![e] = Cardinality(stored \cap Terminals) + 1]
                ELSE recorded

\* Slip: a repetition is projected again.
StoredAgain(e) ==
    stored' = stored \cup {e} /\ Projected(e)

\* append_event, with its projections, in one transaction: nothing on a repetition.
Stored(e) ==
    /\ stored' = stored \cup {e}
    /\ IF e \in stored THEN UNCHANGED recorded ELSE Projected(e)

\* Slip: an event that could not be committed is acknowledged.
HandleEventAlwaysAcks ==
    \E m \in net :
        /\ node.log.up /\ step = None
        /\ net' = net \ {m}
        /\ IF Ready /\ m.session = node.log.session
           THEN /\ step' = [kind |-> "ack", event |-> m.event]
                /\ \/ Stored(m.event) /\ UNCHANGED trouble
                   \/ Trouble("commit") /\ UNCHANGED <<stored, recorded>>
           ELSE UNCHANGED <<stored, recorded, step, trouble>>
        /\ UNCHANGED <<node, origin, created, spool, writing, acks, pages, masterVars,
                       files>>

\* _handle_log_event up to the commit.
HandleEvent ==
    \E m \in net :
        /\ node.log.up /\ step = None
        /\ net' = net \ {m}
        /\ IF Ready /\ m.session = node.log.session
           THEN \/ /\ Stored(m.event)
                   /\ step' = [kind |-> "ack", event |-> m.event]
                   /\ UNCHANGED trouble
                \/ Trouble("commit") /\ UNCHANGED <<stored, recorded, step>>
           ELSE UNCHANGED <<stored, recorded, step, trouble>>
        /\ UNCHANGED <<node, origin, created, spool, writing, acks, pages, masterVars,
                       files>>

\* retention_candidates: all but the latest images on record.
Candidates ==
    {t \in Terminals :
        /\ recorded[t] > 0
        /\ Cardinality({u \in Terminals : recorded[u] > recorded[t]}) >= KeepLatest}

\* ... the acknowledgement, and _enforce_image_retention: first the files,
AckAndUnlink ==
    /\ step.kind = "ack"
    /\ acks' = acks \cup {Header(step.event, node.log.session)}
    /\ files' = files \ Candidates
    /\ step' = IF Candidates = {} THEN None ELSE [kind |-> "purge", images |-> Candidates]
    /\ UNCHANGED <<node, origin, created, spool, writing, net, pages, masterVars,
                   stored, recorded, trouble>>

\* ... then their records.
Purge ==
    /\ step.kind = "purge"
    /\ recorded' = [t \in Terminals |-> IF t \in step.images THEN 0 ELSE recorded[t]]
    /\ step' = None
    /\ UNCHANGED <<node, origin, created, spool, writing, netVars, masterVars, stored, files,
                   trouble>>

\* replay_station_terminals: the terminals of a session, ordered, from an offset on.
Rows(s) == {t \in stored \cap Terminals : origin[t] = s}
Rank(t, rows) == Cardinality({u \in rows : u < t})
Page(rows, offset) ==
    {t \in rows : offset <= Rank(t, rows) /\ Rank(t, rows) < offset + PageSize}

\* _handle_replay_station_results.
ReplayAnswer(s, offset) ==
    LET rows == Rows(s)
    IN  IF Ready /\ s = node.log.session
        THEN [ok |-> TRUE, terminals |-> Page(rows, offset),
              more |-> Cardinality(rows) > offset + PageSize]
        ELSE [ok |-> FALSE, terminals |-> {}, more |-> FALSE]

-----------------------------------------------------------------------------
(* The Master's replay. *)

\* The Master counts the Log as READY until it hears of a new process.
BelievedReady ==
    /\ mirror.log # 0
    /\ node.log.up /\ mirror.log = node.log.instance => node.log.session = session

\* _request_station_result_replay, every two seconds once the Log is READY.  The Log
\* answers, or dies with the call.
RequestReplay ==
    /\ BelievedReady /\ step = None
    /\ replay.pending /\ ~replay.inflight
    /\ replay' = [replay EXCEPT !.inflight = TRUE]
    /\ pages' = IF ~node.log.up THEN pages
                ELSE pages \cup {[generation |-> replay.generation, offset |-> replay.offset,
                                  answer |-> ReplayAnswer(session, replay.offset)]}
    /\ UNCHANGED <<session, node, mirror, origin, created, spool, writing, net, acks, heard,
                   dbVars, trouble>>

\* _handle_station_result_replay.
HandleReplay ==
    \E p \in pages :
        /\ pages' = pages \ {p}
        /\ IF p.generation = replay.generation /\ p.answer.ok
           THEN /\ heard' = heard \cup p.answer.terminals
                /\ replay' = [replay EXCEPT !.inflight = FALSE,
                                 !.offset = p.offset + Cardinality(p.answer.terminals),
                                 !.pending = p.answer.more]
           ELSE replay' = [replay EXCEPT !.inflight = FALSE] /\ UNCHANGED heard
        /\ UNCHANGED <<session, node, mirror, origin, created, spool, writing, net, acks,
                       dbVars, trouble>>

\* Slip: a call to the dead Log is still awaited.
NextGenerationAwaiting(r) ==
    [generation |-> r.generation + 1, pending |-> TRUE, offset |-> 0, inflight |-> r.inflight]

NextGeneration(r) ==
    [generation |-> r.generation + 1, pending |-> TRUE, offset |-> 0, inflight |-> FALSE]

\* The first heartbeat of a process (_handle_worker_heartbeat): a restart asks for the
\* terminals again.
HearWorker ==
    \E w \in Workers :
        /\ node[w].up /\ mirror[w] # node[w].instance
        /\ mirror' = [mirror EXCEPT ![w] = node[w].instance]
        /\ replay' = IF mirror[w] = 0 THEN replay ELSE NextGeneration(replay)
        /\ UNCHANGED <<session, node, origin, created, spool, writing, netVars, heard, dbVars,
                       trouble>>

\* InitializeNode succeeds: Vision opens its spool, the Log its database.
Initialize ==
    \E w \in Workers :
        /\ node[w].up /\ mirror[w] = node[w].instance /\ node[w].session # session
        /\ w = "log" => step = None
        /\ w = "vision" => writing = {}
        /\ node' = [node EXCEPT ![w].session = session]
        /\ UNCHANGED <<origin, created, spool, writing, netVars, masterVars, dbVars, trouble>>

-----------------------------------------------------------------------------
(* Crashes, restarts, losses. *)

Crash ==
    \E w \in Workers :
        /\ node[w].up /\ Trouble(w)
        /\ node' = [node EXCEPT ![w] = Down(w)]
        /\ IF w = "vision"
           THEN writing' = {} /\ UNCHANGED step
           ELSE step' = None /\ UNCHANGED writing
        /\ UNCHANGED <<origin, created, spool, netVars, masterVars, stored,
                       recorded, files>>

Restart ==
    \E w \in Workers :
        /\ ~node[w].up
        /\ node' = [node EXCEPT ![w] = [up |-> TRUE, instance |-> @.instance + 1,
                                        session |-> 0]]
        /\ UNCHANGED <<origin, created, spool, writing, netVars, masterVars, dbVars, trouble>>

\* A new Master process: a new session, an empty ledger, the same spool.
MasterRestarts ==
    /\ Trouble("master")
    /\ session' = session + 1
    /\ mirror' = [w \in Workers |-> 0]
    /\ heard' = {} /\ replay' = FirstReplay
    /\ pages' = {}
    /\ UNCHANGED <<node, origin, created, spool, writing, net, acks, dbVars>>

\* A reliable topic loses what its reader is not there to take, or all its depth cannot
\* hold.
Lose ==
    /\ Trouble("loss")
    /\ \E m \in SUBSET net, a \in SUBSET acks : net' = net \ m /\ acks' = acks \ a
    /\ UNCHANGED <<node, origin, created, spool, writing, pages, masterVars, dbVars>>

-----------------------------------------------------------------------------
Next ==
    \/ EmitNotice \/ FinishInference \/ PublishTerminal
    \/ \E p \in Producers : Flush(p)
    \/ HandleAck
    \/ HandleEvent \/ AckAndUnlink \/ Purge
    \/ RequestReplay \/ HandleReplay \/ HearWorker \/ Initialize
    \/ Crash \/ Restart \/ MasterRestarts \/ Lose

Spec == Init /\ [][Next]_vars

\* Timers fire, callbacks run, messages that are not lost arrive, the supervision
\* initializes a worker that is there.  Nobody has to restart a process.
Fairness ==
    /\ WF_vars(PublishTerminal)
    /\ \A p \in Producers : WF_vars(Flush(p))
    /\ WF_vars(HandleAck)
    /\ WF_vars(HandleEvent) /\ WF_vars(AckAndUnlink) /\ WF_vars(Purge)
    /\ WF_vars(RequestReplay) /\ WF_vars(HandleReplay)
    /\ WF_vars(HearWorker) /\ WF_vars(Initialize)

FairSpec == Spec /\ Fairness

-----------------------------------------------------------------------------
(* Properties. *)

Message == [event : Events, session : Nat]

\* Types, and what the pieces say of each other: a record is an accepted event, what
\* Vision is about to publish and what the Master has heard is spooled or stored
\* (_emit_durable_event before publish), an image on record is a stored terminal's.
TypeOK ==
    /\ session \in Nat /\ mirror \in [Workers -> Nat]
    /\ node \in [Workers -> [up : BOOLEAN, instance : Nat, session : Nat]]
    /\ origin \in [Events -> Nat] /\ created \in [Events -> Nat]
    /\ spool \in [Producers -> SUBSET Accepted]
    /\ net \subseteq Message /\ acks \subseteq Message
    /\ replay \in [generation : Nat, pending : BOOLEAN, offset : Nat, inflight : BOOLEAN]
    /\ pages \subseteq [generation : Nat, offset : Nat,
                        answer : [ok : BOOLEAN, terminals : SUBSET Terminals,
                                  more : BOOLEAN]]
    /\ stored \subseteq Events /\ recorded \in [Terminals -> Nat]
    /\ files \subseteq Terminals
    /\ step \in {None} \cup [kind : {"ack"}, event : Events]
                     \cup [kind : {"purge"}, images : SUBSET Terminals]
    /\ writing \cup heard \subseteq Accepted
    /\ \A t \in Terminals : recorded[t] > 0 => t \in stored
    /\ trouble \subseteq Troubles

\* An event a spool accepted is in that spool until the Log has committed it,
\* whatever crashes, is lost, is repeated or comes late (enqueue, persist,
\* acknowledge).
NothingLost == \A e \in Accepted : e \in spool[Producer(e)] \/ e \in stored

\* The KeepLatest images that were stored last are on disk, also after a crash between
\* the deletion of files and of their records, and after a repetition
\* (_enforce_image_retention).
RetentionKeepsNewest ==
    \A t \in Terminals :
        /\ recorded[t] > 0
        /\ Cardinality({u \in Terminals : recorded[u] > recorded[t]}) < KeepLatest
        => t \in files

AllUp == \A w \in Workers : node[w].up

\* At least once: an accepted event is stored, if the processes stay up in the end.
AcceptedEventStored ==
    <>[]AllUp => \A e \in Events : e \in Accepted ~> e \in stored

\* The current generation has no answer yet, and none is on its way.
ReplayNotBegun ==
    /\ replay.pending /\ replay.offset = 0
    /\ \A p \in pages : p.generation # replay.generation

\* A terminal that is in the database when a replay begins gets to the Master, page by
\* page, while other terminals are stored and processes restart: unless the Master
\* itself has restarted (_station_replay_offset, _station_replay_inflight).
StoredTerminalReplayed ==
    <>[]AllUp => \A t \in Terminals :
        (t \in Rows(session) /\ ReplayNotBegun) ~> (t \in heard \/ origin[t] # session)
=============================================================================

-------------------------- MODULE LogPipelineProofs --------------------------
(* Theorems about LogPipeline, for any events, any limits and any number of crashes,
   losses and repetitions.                                                      *)
EXTENDS LogPipeline, FiniteSetTheorems, TLAPS

\* What makes NothingLost inductive: an acknowledgement, sent or about to be sent, speaks
\* of a committed event; and every terminal that left Vision had been spooled.
AcksAreCommitted ==
    /\ \A a \in acks : a.event \in stored
    /\ step.kind = "ack" => step.event \in stored

TerminalsAreSpooled ==
    /\ \A m \in net : m.event \in Terminals => m.event \in Accepted
    /\ stored \cap Terminals \subseteq Accepted
    /\ \A p \in pages : p.answer.terminals \subseteq Accepted

IInv == TypeOK /\ AcksAreCommitted /\ TerminalsAreSpooled /\ NothingLost

-----------------------------------------------------------------------------
\* The events are finitely many (PipelineAssumption), so their counts are numbers.
LEMMA CountsAreNumbers ==
    ASSUME NEW S, S \subseteq Events
    PROVE  Cardinality(S) \in Nat
<1>1. IsFiniteSet(Events) BY PipelineAssumption, FS_Union DEF Events
<1>2. IsFiniteSet(S) BY <1>1, FS_Subset
<1> QED BY <1>2, FS_CardinalityType

\* A spool that accepts an event (DurableLogSpool.enqueue) accepts no other and
\* forgets none.
LEMMA EnqueuedAccepts ==
    ASSUME TypeOK, NEW e \in Events, Enqueued(e)
    PROVE  /\ created' \in [Events -> Nat]
           /\ Accepted' = Accepted \cup {e}
           /\ \A p \in Producers : spool[p] \subseteq spool'[p] /\ spool'[p] \subseteq spool[p] \cup {e}
           /\ e \in spool'[Producer(e)]
           /\ spool' \in [Producers -> SUBSET Accepted']
<1>0. created \in [Events -> Nat] /\ spool \in [Producers -> SUBSET Accepted]
  BY DEF TypeOK
<1>1. Cardinality(Accepted) \in Nat BY CountsAreNumbers DEF Accepted
<1>2. created' = [created EXCEPT ![e] = Cardinality(Accepted) + 1]
  BY DEF Enqueued
<1>3. created' \in [Events -> Nat] /\ created'[e] > 0 BY <1>0, <1>1, <1>2
<1>4. \A f \in Events \ {e} : created'[f] = created[f] BY <1>0, <1>2
<1>5. Accepted' = Accepted \cup {e} BY <1>3, <1>4 DEF Accepted
<1>6. Producer(e) \in Producers BY DEF Producer, Producers
<1>7. spool' = [spool EXCEPT ![Producer(e)] = @ \cup {e}] BY DEF Enqueued
<1> QED BY <1>0, <1>3, <1>5, <1>6, <1>7

\* Init of the pipeline is empty.
LEMMA InitIInv == Init => IInv
<1> SUFFICES ASSUME Init PROVE IInv OBVIOUS
<1>1. Accepted = {} BY DEF Init, Accepted
<1>2. TypeOK
  BY <1>1 DEF Init, TypeOK, FirstReplay, None, Workers, Producers, Events, Message
<1> QED BY <1>1, <1>2 DEF Init, IInv, AcksAreCommitted, TerminalsAreSpooled, NothingLost, None

-----------------------------------------------------------------------------
(* The two actions by which an event comes to be. *)

\* A notice is spooled.
LEMMA EmitNoticeStep == ASSUME IInv, EmitNotice PROVE IInv'
<1> USE DEF IInv
<1>1. PICK e \in Notices :
        /\ origin' = [origin EXCEPT ![e] = session]
        /\ net' = net \cup {Header(e, session)}
        /\ \/ Enqueued(e) /\ UNCHANGED trouble
           \/ Trouble("spool") /\ UNCHANGED <<created, spool>>
        /\ UNCHANGED <<node, writing, acks, pages, masterVars, dbVars>>
  BY DEF EmitNotice
<1>2. e \in Events /\ e \notin Terminals BY PipelineAssumption DEF Events
<1>3. /\ Accepted \subseteq Accepted' /\ Accepted' \subseteq Accepted \cup {e}
      /\ created' \in [Events -> Nat] /\ spool' \in [Producers -> SUBSET Accepted']
      /\ \A p \in Producers : spool[p] \subseteq spool'[p]
      /\ e \in Accepted' => e \in spool'[Producer(e)] \/ e \in Accepted
  <2>1. CASE Enqueued(e) BY <1>2, <2>1, EnqueuedAccepts
  <2>2. CASE UNCHANGED <<created, spool>> BY <2>2 DEF TypeOK, Accepted
  <2> QED BY <1>1, <2>1, <2>2
<1>4. trouble' \subseteq Troubles BY <1>1 DEF TypeOK, Trouble
<1>5. net' \subseteq Message BY <1>1, <1>2 DEF TypeOK, Message, Header
<1>6. origin' \in [Events -> Nat] BY <1>1, <1>2 DEF TypeOK
<1>7. TypeOK'
  BY <1>1, <1>3, <1>4, <1>5, <1>6 DEF TypeOK, masterVars, dbVars
<1>8. AcksAreCommitted' BY <1>1 DEF AcksAreCommitted, dbVars
<1>9. TerminalsAreSpooled'
  BY <1>1, <1>2, <1>3 DEF TerminalsAreSpooled, dbVars, Header
<1>10. NothingLost'
  BY <1>1, <1>3 DEF NothingLost, dbVars, Producer, Producers
<1> QED BY <1>7, <1>8, <1>9, <1>10

\* A terminal is spooled before it is published.
LEMMA FinishInferenceStep == ASSUME IInv, FinishInference PROVE IInv'
<1> USE DEF IInv
<1>1. PICK t \in Terminals :
        /\ writing = {}
        /\ origin' = [origin EXCEPT ![t] = node.vision.session]
        /\ files' = files \cup {t}
        /\ \/ Enqueued(t) /\ writing' = {t} /\ UNCHANGED trouble
           \/ Trouble("spool") /\ UNCHANGED <<created, spool, writing>>
        /\ UNCHANGED <<node, netVars, masterVars, stored, recorded, step>>
  BY DEF FinishInference
<1>2. t \in Events BY DEF Events
<1>3. /\ Accepted \subseteq Accepted' /\ Accepted' \subseteq Accepted \cup {t}
      /\ created' \in [Events -> Nat] /\ spool' \in [Producers -> SUBSET Accepted']
      /\ \A p \in Producers : spool[p] \subseteq spool'[p]
      /\ t \in Accepted' => t \in spool'[Producer(t)] \/ t \in Accepted
      /\ writing' \subseteq Accepted'
  <2>1. CASE Enqueued(t) /\ writing' = {t} BY <1>2, <2>1, EnqueuedAccepts
  <2>2. CASE UNCHANGED <<created, spool, writing>> BY <2>2 DEF TypeOK, Accepted
  <2> QED BY <1>1, <2>1, <2>2
<1>4. trouble' \subseteq Troubles BY <1>1 DEF TypeOK, Trouble
<1>5. node.vision.session \in Nat BY DEF TypeOK, Workers
<1>6. origin' \in [Events -> Nat] /\ files' \subseteq Terminals
  BY <1>1, <1>2, <1>5 DEF TypeOK
<1>7. TypeOK'
  BY <1>1, <1>3, <1>4, <1>6 DEF TypeOK, masterVars, netVars
<1>8. AcksAreCommitted' BY <1>1 DEF AcksAreCommitted, netVars
<1>9. TerminalsAreSpooled' BY <1>1, <1>3 DEF TerminalsAreSpooled, netVars
<1>10. NothingLost' BY <1>1, <1>3 DEF NothingLost, Producer, Producers
<1> QED BY <1>7, <1>8, <1>9, <1>10

-----------------------------------------------------------------------------
(* What is published and what is acknowledged. *)

\* What Vision publishes it has spooled before.
LEMMA PublishTerminalStep == ASSUME IInv, PublishTerminal PROVE IInv'
<1> USE DEF IInv
<1>1. PICK t \in writing :
        /\ writing' = {}
        /\ net' = net \cup {Header(t, node.vision.session)}
        /\ heard' = heard \/ heard' = heard \cup {t}
        /\ UNCHANGED <<session, node, mirror, origin, created, spool, acks, replay, pages,
                       dbVars, trouble>>
  BY DEF PublishTerminal
<1>2. t \in Accepted /\ t \in Events /\ Accepted' = Accepted
  BY <1>1 DEF TypeOK, Accepted
<1>3. net' \subseteq Message
  BY <1>1, <1>2 DEF TypeOK, Message, Header, Workers
<1>4. TypeOK' BY <1>1, <1>2, <1>3 DEF TypeOK, dbVars
<1>5. AcksAreCommitted' BY <1>1 DEF AcksAreCommitted, dbVars
<1>6. TerminalsAreSpooled' BY <1>1, <1>2 DEF TerminalsAreSpooled, dbVars, Header
<1>7. NothingLost' BY <1>1, <1>2 DEF NothingLost, dbVars
<1> QED BY <1>4, <1>5, <1>6, <1>7

\* A flush sends what is in the spool, and removes nothing from it.
LEMMA FlushStep == ASSUME IInv, NEW p \in Producers, Flush(p) PROVE IInv'
<1> USE DEF IInv
<1>1. /\ net' = net \cup {Header(e, SessionOf(p)) : e \in Pending(p)}
      /\ UNCHANGED <<node, origin, created, spool, writing, acks, pages, masterVars,
                     dbVars, trouble>>
  BY DEF Flush
<1>2. Pending(p) \subseteq Accepted /\ Accepted' = Accepted /\ Accepted \subseteq Events
  BY <1>1 DEF Pending, TypeOK, Accepted
<1>3. SessionOf(p) \in Nat BY DEF SessionOf, TypeOK, Workers
<1>4. net' \subseteq Message BY <1>1, <1>2, <1>3 DEF TypeOK, Message, Header
<1>5. TypeOK' BY <1>1, <1>2, <1>4 DEF TypeOK, masterVars, dbVars
<1>6. AcksAreCommitted' BY <1>1 DEF AcksAreCommitted, dbVars
<1>7. TerminalsAreSpooled' BY <1>1, <1>2 DEF TerminalsAreSpooled, dbVars, Header
<1>8. NothingLost' BY <1>1, <1>2 DEF NothingLost, dbVars
<1> QED BY <1>5, <1>6, <1>7, <1>8

\* The one step that removes a record: what is acknowledged is committed.
LEMMA HandleAckStep == ASSUME IInv, HandleAck PROVE IInv'
<1> USE DEF IInv
<1>1. PICK a \in acks :
        /\ acks' = acks \ {a}
        /\ \/ spool' = spool
           \/ spool' = [spool EXCEPT ![Producer(a.event)] = @ \ {a.event}]
        /\ UNCHANGED <<node, origin, created, writing, net, pages, masterVars, dbVars,
                       trouble>>
  BY DEF HandleAck
<1>2. Accepted' = Accepted BY <1>1 DEF Accepted
<1>3. spool' \in [Producers -> SUBSET Accepted'] BY <1>1, <1>2 DEF TypeOK
<1>4. TypeOK' BY <1>1, <1>2, <1>3 DEF TypeOK, masterVars, dbVars
<1>5. AcksAreCommitted' BY <1>1 DEF AcksAreCommitted, dbVars
<1>6. TerminalsAreSpooled' BY <1>1, <1>2 DEF TerminalsAreSpooled, dbVars
<1>7. NothingLost'
  <2>1. a.event \in stored BY DEF AcksAreCommitted
  <2>2. \A e \in Accepted : Producer(e) \in Producers BY DEF Producer, Producers
  <2>3. spool \in [Producers -> SUBSET Accepted] BY DEF TypeOK
  <2>4. ASSUME NEW e \in Accepted, e \notin stored PROVE e \in spool'[Producer(e)]
    BY <1>1, <2>1, <2>2, <2>3, <2>4 DEF NothingLost
  <2> QED BY <1>1, <1>2, <2>4 DEF NothingLost, dbVars
<1> QED BY <1>4, <1>5, <1>6, <1>7

-----------------------------------------------------------------------------
(* The Log's callback. *)

\* The Log commits an event and has its acknowledgement in mind.
LEMMA HandleEventStep == ASSUME IInv, HandleEvent PROVE IInv'
<1> USE DEF IInv
<1>1. PICK m \in net :
        /\ net' = net \ {m}
        /\ \/ /\ Stored(m.event) /\ step' = [kind |-> "ack", event |-> m.event]
              /\ UNCHANGED trouble
           \/ UNCHANGED <<stored, recorded, step>> /\ trouble' \subseteq Troubles
        /\ UNCHANGED <<node, origin, created, spool, writing, acks, pages, masterVars, files>>
  BY DEF HandleEvent, Trouble, TypeOK
<1>2. m.event \in Events /\ Accepted' = Accepted BY <1>1 DEF TypeOK, Message, Accepted
<1>3. /\ stored \subseteq stored' /\ stored' \subseteq stored \cup {m.event}
      /\ recorded' \in [Terminals -> Nat]
      /\ \A t \in Terminals : recorded'[t] > 0 => t \in stored'
  <2>1. CASE Stored(m.event)
    <3>1. Cardinality(stored \cap Terminals) \in Nat
      BY CountsAreNumbers DEF Events
    <3>2. recorded \in [Terminals -> Nat] /\ \A t \in Terminals : recorded[t] > 0 => t \in stored
      BY DEF TypeOK
    <3>3. stored' = stored \cup {m.event} BY <2>1 DEF Stored
    <3>4. CASE m.event \in Terminals \ stored
      <4>1. recorded' = [recorded EXCEPT ![m.event] = Cardinality(stored \cap Terminals) + 1]
        BY <2>1, <3>4 DEF Stored, Projected
      <4> QED BY <3>1, <3>2, <3>3, <3>4, <4>1
    <3>5. CASE m.event \notin Terminals \ stored
      <4>1. recorded' = recorded BY <2>1, <3>5 DEF Stored, Projected
      <4> QED BY <3>2, <3>3, <4>1
    <3> QED BY <3>4, <3>5
  <2>2. CASE UNCHANGED <<stored, recorded>> BY <2>2 DEF TypeOK
  <2> QED BY <1>1, <2>1, <2>2
<1>4. trouble' \subseteq Troubles BY <1>1 DEF TypeOK
<1>5. step' = step \/ (step' = [kind |-> "ack", event |-> m.event] /\ m.event \in stored')
  BY <1>1 DEF Stored
<1>6. TypeOK' BY <1>1, <1>2, <1>3, <1>4, <1>5 DEF TypeOK, masterVars
<1>7. AcksAreCommitted' BY <1>1, <1>3, <1>5 DEF AcksAreCommitted
<1>8. TerminalsAreSpooled' BY <1>1, <1>2, <1>3 DEF TerminalsAreSpooled
<1>9. NothingLost' BY <1>1, <1>2, <1>3 DEF NothingLost
<1> QED BY <1>6, <1>7, <1>8, <1>9

\* The acknowledgement of a committed event leaves.
LEMMA AckAndUnlinkStep == ASSUME IInv, AckAndUnlink PROVE IInv'
<1> USE DEF IInv
<1>1. /\ step.kind = "ack"
      /\ acks' = acks \cup {Header(step.event, node.log.session)}
      /\ files' = files \ Candidates
      /\ step' = None \/ step' = [kind |-> "purge", images |-> Candidates]
      /\ UNCHANGED <<node, origin, created, spool, writing, net, pages, masterVars, stored,
                     recorded, trouble>>
  BY DEF AckAndUnlink
<1>2. step.event \in stored /\ step.event \in Events /\ Accepted' = Accepted
  BY <1>1 DEF AcksAreCommitted, TypeOK, Accepted
<1>3. Candidates \subseteq Terminals BY DEF Candidates
<1>4. acks' \subseteq Message BY <1>1, <1>2 DEF TypeOK, Message, Header, Workers
<1>5. TypeOK' BY <1>1, <1>2, <1>3, <1>4 DEF TypeOK, masterVars
<1>6. AcksAreCommitted' BY <1>1, <1>2 DEF AcksAreCommitted, Header, None
<1>7. TerminalsAreSpooled' BY <1>1, <1>2 DEF TerminalsAreSpooled
<1>8. NothingLost' BY <1>1, <1>2 DEF NothingLost
<1> QED BY <1>5, <1>6, <1>7, <1>8

\* Retention touches images only, not events.
LEMMA PurgeStep == ASSUME IInv, Purge PROVE IInv'
<1> USE DEF IInv
<1>1. /\ recorded' = [t \in Terminals |-> IF t \in step.images THEN 0 ELSE recorded[t]]
      /\ step' = None
      /\ UNCHANGED <<node, origin, created, spool, writing, netVars, masterVars, stored,
                     files, trouble>>
  BY DEF Purge
<1>2. Accepted' = Accepted BY <1>1 DEF Accepted
<1>3. TypeOK' BY <1>1, <1>2 DEF TypeOK, netVars, masterVars
<1>4. AcksAreCommitted' BY <1>1 DEF AcksAreCommitted, netVars, None
<1>5. TerminalsAreSpooled' BY <1>1, <1>2 DEF TerminalsAreSpooled, netVars
<1>6. NothingLost' BY <1>1, <1>2 DEF NothingLost
<1> QED BY <1>3, <1>4, <1>5, <1>6

-----------------------------------------------------------------------------
(* The replay: what it shows the Master comes from the database. *)

\* A request for a replay carries no terminal.
LEMMA RequestReplayStep == ASSUME IInv, RequestReplay PROVE IInv'
<1> USE DEF IInv
<1> DEFINE page == [generation |-> replay.generation, offset |-> replay.offset,
                    answer |-> ReplayAnswer(session, replay.offset)]
<1>1. /\ replay' = [replay EXCEPT !.inflight = TRUE]
      /\ pages' = pages \/ pages' = pages \cup {page}
      /\ UNCHANGED <<session, node, mirror, origin, created, spool, writing, net, acks,
                     heard, dbVars, trouble>>
  BY DEF RequestReplay
<1>2. Accepted' = Accepted BY <1>1 DEF Accepted
<1>3. /\ page.answer \in [ok : BOOLEAN, terminals : SUBSET Terminals, more : BOOLEAN]
      /\ page.answer.terminals \subseteq stored \cap Terminals
  BY DEF ReplayAnswer, Page, Rows
<1>4. page \in [generation : Nat, offset : Nat,
                answer : [ok : BOOLEAN, terminals : SUBSET Terminals, more : BOOLEAN]]
  <2> HIDE DEF page
  <2>1. replay.generation \in Nat /\ replay.offset \in Nat BY DEF TypeOK
  <2> QED BY <1>3, <2>1 DEF page
<1>5. replay' \in [generation : Nat, pending : BOOLEAN, offset : Nat, inflight : BOOLEAN]
  BY <1>1 DEF TypeOK
<1> HIDE DEF page
<1>6. TypeOK' BY <1>1, <1>2, <1>4, <1>5 DEF TypeOK, dbVars
<1>7. AcksAreCommitted' BY <1>1 DEF AcksAreCommitted, dbVars
<1>8. TerminalsAreSpooled' BY <1>1, <1>2, <1>3 DEF TerminalsAreSpooled, dbVars
<1>9. NothingLost' BY <1>1, <1>2 DEF NothingLost, dbVars
<1> QED BY <1>6, <1>7, <1>8, <1>9

\* The pages of a replay come from the database.
LEMMA HandleReplayStep == ASSUME IInv, HandleReplay PROVE IInv'
<1> USE DEF IInv
<1>1. PICK p \in pages :
        /\ pages' = pages \ {p}
        /\ \/ /\ heard' = heard \cup p.answer.terminals
              /\ replay' = [replay EXCEPT !.inflight = FALSE,
                               !.offset = p.offset + Cardinality(p.answer.terminals),
                               !.pending = p.answer.more]
           \/ replay' = [replay EXCEPT !.inflight = FALSE] /\ UNCHANGED heard
        /\ UNCHANGED <<session, node, mirror, origin, created, spool, writing, net, acks,
                       dbVars, trouble>>
  BY DEF HandleReplay
<1>2. Accepted' = Accepted BY <1>1 DEF Accepted
<1>3. p.answer.terminals \subseteq Accepted BY DEF TerminalsAreSpooled
<1>4. Cardinality(p.answer.terminals) \in Nat BY <1>3, CountsAreNumbers DEF Accepted
<1>5. replay' \in [generation : Nat, pending : BOOLEAN, offset : Nat, inflight : BOOLEAN]
  <2>1. p.offset \in Nat /\ p.answer.more \in BOOLEAN BY DEF TypeOK
  <2>2. p.offset + Cardinality(p.answer.terminals) \in Nat BY <1>4, <2>1
  <2>3. replay \in [generation : Nat, pending : BOOLEAN, offset : Nat, inflight : BOOLEAN]
    BY DEF TypeOK
  <2> QED BY <1>1, <2>1, <2>2, <2>3
<1>6. TypeOK' BY <1>1, <1>2, <1>3, <1>5 DEF TypeOK, dbVars
<1>7. AcksAreCommitted' BY <1>1 DEF AcksAreCommitted, dbVars
<1>8. TerminalsAreSpooled' BY <1>1, <1>2 DEF TerminalsAreSpooled, dbVars
<1>9. NothingLost' BY <1>1, <1>2 DEF NothingLost, dbVars
<1> QED BY <1>6, <1>7, <1>8, <1>9

-----------------------------------------------------------------------------
(* Processes come and go: the spools and the database are left alone. *)

\* A crash takes what a process had in mind; losses take messages.
LEMMA ProcessStep ==
    ASSUME IInv, HearWorker \/ Initialize \/ Crash \/ Restart \/ MasterRestarts \/ Lose
    PROVE  IInv'
<1> USE DEF IInv
<1>1. /\ UNCHANGED <<origin, created, spool, stored, recorded, files>>
      /\ net' \subseteq net /\ acks' \subseteq acks /\ pages' \subseteq pages
      /\ heard' \subseteq heard /\ writing' \subseteq writing
      /\ step' = step \/ step' = None
  BY DEF HearWorker, Initialize, Crash, Restart, MasterRestarts, Lose, netVars, dbVars,
         masterVars
<1>2. trouble' \subseteq Troubles
  BY DEF HearWorker, Initialize, Crash, Restart, MasterRestarts, Lose, Trouble, TypeOK
<1>3. node' \in [Workers -> [up : BOOLEAN, instance : Nat, session : Nat]]
  <2>1. CASE HearWorker \/ MasterRestarts \/ Lose
    BY <2>1 DEF HearWorker, MasterRestarts, Lose, TypeOK
  <2>2. CASE Initialize BY <2>2 DEF Initialize, TypeOK
  <2>3. CASE Crash BY <2>3 DEF Crash, Down, TypeOK
  <2>4. CASE Restart BY <2>4 DEF Restart, TypeOK
  <2> QED BY <2>1, <2>2, <2>3, <2>4
<1>4. /\ session' \in Nat /\ mirror' \in [Workers -> Nat]
      /\ replay' \in [generation : Nat, pending : BOOLEAN, offset : Nat, inflight : BOOLEAN]
  <2>1. CASE HearWorker
    BY <2>1 DEF HearWorker, NextGeneration, TypeOK
  <2>2. CASE MasterRestarts BY <2>2 DEF MasterRestarts, FirstReplay, TypeOK
  <2>3. CASE Initialize \/ Crash \/ Restart \/ Lose
    BY <2>3 DEF Initialize, Crash, Restart, Lose, masterVars, TypeOK
  <2> QED BY <2>1, <2>2, <2>3
<1>5. Accepted' = Accepted BY <1>1 DEF Accepted
<1>6. TypeOK' BY <1>1, <1>2, <1>3, <1>4, <1>5 DEF TypeOK
<1>7. AcksAreCommitted' BY <1>1 DEF AcksAreCommitted, None
<1>8. TerminalsAreSpooled' BY <1>1, <1>5 DEF TerminalsAreSpooled
<1>9. NothingLost' BY <1>1, <1>5 DEF NothingLost
<1> QED BY <1>6, <1>7, <1>8, <1>9

-----------------------------------------------------------------------------
\* Every step keeps the invariant: one lemma per action.
LEMMA NextIInv == IInv /\ [Next]_vars => IInv'
<1> SUFFICES ASSUME IInv, [Next]_vars PROVE IInv' OBVIOUS
<1>1. CASE Next
  BY <1>1, EmitNoticeStep, FinishInferenceStep, PublishTerminalStep, FlushStep,
     HandleAckStep, HandleEventStep, AckAndUnlinkStep, PurgeStep, RequestReplayStep,
     HandleReplayStep, ProcessStep DEF Next
<1>2. CASE UNCHANGED vars
  BY <1>2 DEF vars, IInv, TypeOK, AcksAreCommitted, TerminalsAreSpooled, NothingLost,
              Accepted
<1> QED BY <1>1, <1>2

\* Whatever crashes, is lost or repeated, an event that a spool accepted is in the spool
\* or in the database (log_spool.py, _handle_log_event, _handle_log_persisted_ack), and
\* what the Master hears of Vision was spooled first.
THEOREM PipelineIsSafe == Spec => []IInv
<1>1. Init => IInv BY InitIInv
<1>2. IInv /\ [Next]_vars => IInv' BY NextIInv
<1> QED BY <1>1, <1>2, PTL DEF Spec

\* Every variable keeps its type; what Vision publishes and the Master hears has been
\* spooled (_emit_durable_event).
THEOREM PipelineTypes == Spec => []TypeOK
<1>1. IInv => TypeOK BY DEF IInv
<1> QED BY <1>1, PipelineIsSafe, PTL

\* No accepted event is lost: an acknowledgement, however late, repeated or lost, speaks of
\* a committed event, and only an acknowledgement removes a record.
THEOREM AcceptedEventsAreKept == Spec => []NothingLost
<1>1. IInv => NothingLost BY DEF IInv
<1> QED BY <1>1, PipelineIsSafe, PTL

-----------------------------------------------------------------------------
(* The images.  One that is on record but not on disk is older than the latest
   KeepLatest, and a purge under way has it on its list: a crash between the two parts
   of a deletion leaves nothing else behind.  An accepted terminal that is not stored
   yet has its image on disk.                                                    *)

Missing == {t \in Terminals : recorded[t] > 0 /\ t \notin files}

ImagesOnDisk ==
    /\ \A t \in Terminals \cap Accepted : t \in stored \/ t \in files
    /\ Missing \subseteq Candidates
    /\ step.kind = "purge" => Missing \subseteq step.images

\* An image that has become a candidate stays one while newer ones come.
LEMMA CandidatesStay ==
    ASSUME IInv, recorded' \in [Terminals -> Nat],
           NEW e \in Terminals, recorded[e] = 0,
           \A t \in Terminals \ {e} : recorded'[t] = recorded[t]
    PROVE  Candidates \subseteq Candidates'
<1> SUFFICES ASSUME NEW t \in Candidates PROVE t \in Candidates' OBVIOUS
<1> DEFINE newer == {u \in Terminals : recorded[u] > recorded[t]}
           newer2 == {u \in Terminals : recorded'[u] > recorded'[t]}
<1>1. /\ t \in Terminals /\ recorded[t] > 0 /\ Cardinality(newer) >= KeepLatest
      /\ recorded \in [Terminals -> Nat]
  BY DEF Candidates, IInv, TypeOK
<1>2. t # e /\ recorded'[t] = recorded[t] BY <1>1
<1>3. newer \subseteq newer2
  <2> SUFFICES ASSUME NEW u \in newer PROVE u \in newer2 OBVIOUS
  <2>1. u \in Terminals /\ recorded[u] > recorded[t] OBVIOUS
  <2>2. u # e BY <1>1, <2>1
  <2> QED BY <1>2, <2>1, <2>2
<1>4. newer \subseteq Events /\ newer2 \subseteq Events BY DEF Events
<1> HIDE DEF newer, newer2
<1>5. Cardinality(newer) \in Nat /\ Cardinality(newer2) \in Nat
  BY <1>4, CountsAreNumbers
<1>6. Cardinality(newer) <= Cardinality(newer2)
  <2>1. IsFiniteSet(Events) BY PipelineAssumption, FS_Union DEF Events
  <2>2. IsFiniteSet(newer2) BY <1>4, <2>1, FS_Subset
  <2> QED BY <1>3, <2>2, FS_Subset
<1>7. Cardinality(newer2) >= KeepLatest BY <1>1, <1>5, <1>6, PipelineAssumption
<1> QED BY <1>1, <1>2, <1>7 DEF Candidates, newer2

\* What touches neither the database nor the disk, and spools no terminal.
LEMMA ImagesFrame ==
    ASSUME ImagesOnDisk, UNCHANGED <<stored, recorded, files>>,
           Accepted' \cap Terminals \subseteq Accepted, step' \in {step, None}
    PROVE  ImagesOnDisk'
BY DEF ImagesOnDisk, Missing, Candidates, None

\* The image has been on disk since the capture.
LEMMA FinishInferenceImages ==
    ASSUME IInv, ImagesOnDisk, FinishInference PROVE ImagesOnDisk'
<1>1. PICK t \in Terminals :
        /\ files' = files \cup {t}
        /\ Enqueued(t) \/ UNCHANGED created
        /\ UNCHANGED <<stored, recorded, step>>
  BY DEF FinishInference
<1>2. Accepted' \subseteq Accepted \cup {t}
  <2>1. CASE Enqueued(t) BY <2>1, EnqueuedAccepts DEF IInv, Events
  <2>2. CASE UNCHANGED created BY <2>2 DEF Accepted
  <2> QED BY <1>1, <2>1, <2>2
<1>3. Missing' \subseteq Missing BY <1>1 DEF Missing
<1>4. Candidates' = Candidates BY <1>1 DEF Candidates
<1> QED BY <1>1, <1>2, <1>3, <1>4 DEF ImagesOnDisk

\* append_event puts an image on record that is on disk, whatever its number.
LEMMA HandleEventImages ==
    ASSUME IInv, ImagesOnDisk, HandleEvent PROVE ImagesOnDisk'
<1>1. PICK m \in net :
        /\ step = None
        /\ \/ Stored(m.event) /\ step' = [kind |-> "ack", event |-> m.event]
           \/ UNCHANGED <<stored, recorded, step>>
        /\ UNCHANGED <<created, files>>
  BY DEF HandleEvent
<1>2. /\ m.event \in Events /\ Accepted' = Accepted
      /\ m.event \in Terminals => m.event \in Accepted
  <2>1. m.event \in Events BY DEF IInv, TypeOK, Message
  <2>2. m.event \in Terminals => m.event \in Accepted BY DEF IInv, TerminalsAreSpooled
  <2>3. Accepted' = Accepted BY <1>1 DEF Accepted
  <2> QED BY <2>1, <2>2, <2>3
<1>3. CASE UNCHANGED <<stored, recorded, step>>
  BY <1>1, <1>2, <1>3, ImagesFrame
<1>4. CASE Stored(m.event) /\ step' = [kind |-> "ack", event |-> m.event]
  <2>1. stored' = stored \cup {m.event} /\ step'.kind # "purge"
    BY <1>4 DEF Stored
  <2>2. CASE m.event \in Terminals \ stored
    <3> DEFINE e == m.event
               n == Cardinality(stored \cap Terminals) + 1
    <3>1. recorded' = [recorded EXCEPT ![e] = n]
      BY <1>4, <2>2 DEF Stored, Projected
    <3>2. n \in Nat BY CountsAreNumbers DEF Events
    <3>3. /\ recorded \in [Terminals -> Nat] /\ recorded[e] = 0
          /\ e \in Terminals /\ e \in files
      BY <1>2, <2>2 DEF IInv, TypeOK, ImagesOnDisk
    <3> HIDE DEF n, e
    <3>4. /\ recorded' \in [Terminals -> Nat]
          /\ \A t \in Terminals \ {e} : recorded'[t] = recorded[t]
      BY <3>1, <3>2, <3>3
    <3>5. Candidates \subseteq Candidates' BY <3>3, <3>4, CandidatesStay
    <3>6. Missing' \subseteq Missing BY <1>1, <3>3, <3>4 DEF Missing
    <3> QED BY <1>1, <1>2, <2>1, <3>5, <3>6 DEF ImagesOnDisk
  <2>3. CASE m.event \notin Terminals \ stored
    <3>1. recorded' = recorded BY <1>4, <2>3 DEF Stored, Projected
    <3>2. Missing' = Missing /\ Candidates' = Candidates
      BY <1>1, <3>1 DEF Missing, Candidates
    <3> QED BY <1>1, <1>2, <2>1, <3>2 DEF ImagesOnDisk
  <2> QED BY <2>2, <2>3
<1> QED BY <1>1, <1>3, <1>4

\* First the files of the candidates, ...
LEMMA AckAndUnlinkImages ==
    ASSUME IInv, ImagesOnDisk, AckAndUnlink PROVE ImagesOnDisk'
<1>1. /\ files' = files \ Candidates
      /\ step' = None \/ step' = [kind |-> "purge", images |-> Candidates]
      /\ UNCHANGED <<created, stored, recorded>>
  BY DEF AckAndUnlink
<1>2. Accepted' = Accepted /\ Candidates' = Candidates
  BY <1>1 DEF Accepted, Candidates
<1>3. Missing' \subseteq Candidates BY <1>1 DEF ImagesOnDisk, Missing
<1>4. \A t \in Candidates : t \in stored BY DEF Candidates, IInv, TypeOK
<1>5. step'.kind = "purge" => step'.images = Candidates BY <1>1 DEF None
<1> QED BY <1>1, <1>2, <1>3, <1>4, <1>5 DEF ImagesOnDisk

\* ... then their records: none is left without its file.
LEMMA PurgeImages ==
    ASSUME IInv, ImagesOnDisk, Purge PROVE ImagesOnDisk'
<1>1. /\ step.kind = "purge" /\ step' = None
      /\ recorded' = [t \in Terminals |-> IF t \in step.images THEN 0 ELSE recorded[t]]
      /\ UNCHANGED <<created, stored, files>>
  BY DEF Purge
<1>2. Accepted' = Accepted BY <1>1 DEF Accepted
<1>3. Missing \subseteq step.images BY <1>1 DEF ImagesOnDisk
<1>4. Missing' = {} BY <1>1, <1>3 DEF Missing
<1>5. step'.kind # "purge" BY <1>1 DEF None
<1> QED BY <1>1, <1>2, <1>4, <1>5 DEF ImagesOnDisk

\* The other steps leave the images alone.
LEMMA OtherImages ==
    ASSUME IInv, ImagesOnDisk,
           \/ EmitNotice \/ PublishTerminal \/ HandleAck \/ RequestReplay \/ HandleReplay
           \/ HearWorker \/ Initialize \/ Crash \/ Restart \/ MasterRestarts \/ Lose
           \/ \E p \in Producers : Flush(p)
           \/ UNCHANGED vars
    PROVE  ImagesOnDisk'
<1>1. UNCHANGED <<stored, recorded, files>> /\ step' \in {step, None}
  BY DEF EmitNotice, PublishTerminal, HandleAck, RequestReplay, HandleReplay, HearWorker,
         Initialize, Crash, Restart, MasterRestarts, Lose, Flush, vars, dbVars
<1>2. Accepted' \cap Terminals \subseteq Accepted
  <2>1. CASE EmitNotice
    <3>1. PICK e \in Notices : Enqueued(e) \/ UNCHANGED created
      BY <2>1 DEF EmitNotice
    <3>2. e \in Events /\ e \notin Terminals BY PipelineAssumption DEF Events
    <3>3. Accepted' \subseteq Accepted \cup {e}
      <4>1. CASE Enqueued(e) BY <3>2, <4>1, EnqueuedAccepts DEF IInv
      <4>2. CASE UNCHANGED created BY <4>2 DEF Accepted
      <4> QED BY <3>1, <4>1, <4>2
    <3> QED BY <3>2, <3>3
  <2>2. CASE ~EmitNotice
    <3>1. UNCHANGED created
      BY <2>2 DEF PublishTerminal, HandleAck, RequestReplay, HandleReplay, HearWorker,
                  Initialize, Crash, Restart, MasterRestarts, Lose, Flush, vars
    <3> QED BY <3>1 DEF Accepted
  <2> QED BY <2>1, <2>2
<1> QED BY <1>1, <1>2, ImagesFrame

\* The latest KeepLatest images on record are on disk, whatever crashes between the
\* deletion of the files and of their records, and whatever is repeated
\* (_enforce_image_retention, append_event).
THEOREM LatestImagesAreKept == Spec => []RetentionKeepsNewest
<1>1. Init => IInv /\ ImagesOnDisk
  <2> SUFFICES ASSUME Init PROVE ImagesOnDisk BY InitIInv
  <2>1. Accepted = {} /\ Missing = {} /\ step.kind # "purge"
    BY DEF Init, Accepted, Missing, None
  <2> QED BY <2>1 DEF ImagesOnDisk
<1>2. (IInv /\ ImagesOnDisk) /\ [Next]_vars => (IInv /\ ImagesOnDisk)'
  <2> SUFFICES ASSUME IInv, ImagesOnDisk, [Next]_vars PROVE ImagesOnDisk'
    BY NextIInv
  <2> QED
    BY FinishInferenceImages, HandleEventImages, AckAndUnlinkImages, PurgeImages,
       OtherImages DEF Next
<1>3. IInv /\ ImagesOnDisk => RetentionKeepsNewest
  <2> SUFFICES ASSUME IInv, ImagesOnDisk, NEW t \in Terminals, recorded[t] > 0,
                      Cardinality({u \in Terminals : recorded[u] > recorded[t]}) < KeepLatest
               PROVE  t \in files
    BY DEF RetentionKeepsNewest
  <2> DEFINE n == Cardinality({u \in Terminals : recorded[u] > recorded[t]})
  <2>1. n \in Nat BY CountsAreNumbers DEF Events
  <2>2. ~(n >= KeepLatest)
    <3>1. n < KeepLatest OBVIOUS
    <3> HIDE DEF n
    <3> QED BY <2>1, <3>1, PipelineAssumption
  <2>3. t \notin Candidates BY <2>2 DEF Candidates
  <2> QED BY <2>3 DEF ImagesOnDisk, Missing
<1> QED BY <1>1, <1>2, <1>3, PTL DEF Spec
=============================================================================

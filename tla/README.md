# A specification of the AI vision inspection line

TLA+ models of the ROS 2 program under `src/`: four nodes (Master, Control,
Vision, Log) and the firmware of an Arduino Mega that move products past two
camera stations, infer a verdict for each and sort the rejects.  Module names
below are files of this directory; `master_node.py` and the like are files of
`src/ros2_ws/src/nodes/*/inspection_*/`.

## 1. The system

| Component | State it keeps | Operations | Talks to |
|---|---|---|---|
| Master: state machine (`system_fsm.py`, `master_node.py`) | system state, pause reason, recovery policy, pending run, deadlines, mirror of the last EquipmentState | START, PAUSE, RESUME, RESET, LINE_CLEAR, Ctrl+C; confirmations; 0.1 s timer | commands to Control; EquipmentState, VisionQueueState from below |
| Master: worker supervision (`worker_supervision.py`) | per worker: session, epoch, attempt, readiness | InitializeNode, GetStatus, heartbeats, retries | all workers |
| Master: product tracking (`product_flow.py`, `operation_runtime.py`) | ledger of ProductContexts, FIFO, station and actuation cycles, deferred work | sensors, position, capture, results, lock at Sensor3, actuation | Control, Vision, Log |
| Vision: capture action (`vision_node.py`) | per-station executor lock, replies remembered, canceled scopes | CaptureProduct, cancellation, product lock | Master, camera, queue |
| Vision: inference queue and workers (`inference_queue.py`) | bounded deque, canceled scopes, active jobs | enqueue, get, cancel, expire, stop | capture action, cancellation handlers |
| Control (`control_node.py`) and Mega (`arduino_mega.ino`) | session, serial events; conveyor states, sensors, actuator | commands, EquipmentState, sensor events, actuation | Master; serial line |
| Log (`log_node.py`, `storage.py`) and spool (`log_spool.py`) | SQLite tables, spool of each sender | persist, acknowledge, close session | every node |

What makes it hard: the Vision node mixes ROS callbacks, worker threads, a
sweeper thread and a shutdown around one condition variable; the Master is
sequential (one mutually exclusive callback group) but acts on reports that lag
behind the line, over topics that have no common order; a timeout races with the
late answer it gave up on; a run that was asked for may be confirmed after a fault
or not at all; a restarted worker loses its session; the serial line to the Mega
loses frames and, whenever it is opened, resets the board; and events, results and
commands are sent again after a crash or a lost answer.

What correctness means, per component:

* queue and workers: order, capacity, one owner and at most one report per
  accepted job, no lost wakeup, cancellation honoured, everything ends;
* state machine: what the Master believes about the conveyors agrees with what it
  ordered and with what they do; the line starts only for a request; pauses and
  shutdowns end; a line that needs clearing is not restarted;
* product tracking: products keep their FIFO order, each station is captured once
  per product, a verdict is locked once, and a rejected product is the one pushed;
* supervision: a worker that counts as ready takes commands, one that does not becomes
  ready again, and the line does not run without Control or Vision;
* capture action: a capture makes one job per session, a cancellation keeps its scope
  out of the queue, every goal is answered;
* Control and Mega: the arm moves as often as is answered, the mirror of the board is
  true, a belt that runs knows where its camera is;
* logs: an event is not lost by a crash, it is stored in the end, what is stored is
  replayed, and retention removes only the oldest images.

## 2. Modules

| Module | Models |
|---|---|
| `InferenceQueue` | the data of the queue: the set of queued jobs, the order, the effect of each method |
| `InferenceQueuePromise` | what the queue promises its callers, as a specification over `InferenceQueue` |
| `InferenceDeque` | the deque of the code, with the insertion that walks it and the filters; implements the promise (`RefinesPromise`) |
| `InferenceDequeProofs` | that it does, for every capacity |
| `WorkerPool` | the threads around the queue: capture actions, workers, sweeper, cancellation, `stop()` |
| `WorkerPoolProofs` | theorems about `WorkerPool` |
| `MasterSystem` | the Master's state machine with the conveyors, Control and the queue pause around it |
| `MasterSystemProofs` | theorems about `MasterSystem` |
| `MasterLine` | the Master's tracking of products, with the belts as the Mega drives them, the captures and the actuation around it |
| `MasterLineInvariants` | the inductive invariants of `MasterLine` in named parts, and the kinds of its steps |
| `MasterLineProofs` | theorems about `MasterLine` |
| `WorkerSupervision` | how the Master brings a worker to READY and keeps it there, with the worker's half (`node_base.py`) |
| `WorkerSupervisionProofs` | theorems about `WorkerSupervision` |
| `LogPipeline` | spool, publication, commit, acknowledgement, retention and replay, from the producers to the database and back |
| `LogPipelineProofs` | theorems about `LogPipeline` |
| `IdempotencyStore` | the bounded store of results by command, as operators; used by the next two |
| `VisionCapture` | the capture action of Vision from goal to answer, over a queue that may be replaced |
| `VisionCaptureProofs` | theorems about `VisionCapture` and the store |
| `MegaFirmware` | the board as a record and its handlers as functions of it |
| `MegaLink` | Control and the Mega over the serial line, from the handshake to the actuation |
| `MegaLinkProofs` | theorems about `MegaLink` and the board |
| `MC*` | instances for TLC |

### WorkerPool

A step is one critical section of the condition's lock or one callback between
two of them.  `producer[j]` is the phase of the capture action of job `j`
(`_execute_capture`): saved, enqueueing, refused, blocked, asleep in
`wait_for_space`.  `worker[w]` is the phase of an inference thread: `get`, asleep,
popped, registered, the three checks of `_execute_job`, the report, and the two
steps after an out-of-memory.  `notify` wakes any one sleeper, producer or
worker, since both wait on the same condition.  Deadlines are a set of jobs that
have expired; any job of `TimedJobs` may join it.  The total deadline is not
configured by default, so jobs outside `TimedJobs` never expire.  The callbacks of
the node are taken not to raise.

`outcome[j]` records the report of a job.  "removed" is a removal by a
cancellation (reported in the acknowledgement), "dropped" the removal after an
out-of-memory, which nobody reports; "suppressed" a result the durable spool refused.

### MasterSystem

Each action is one whole callback of the Master.  `orders` is the sequence of
commands on their way to Control, `conveyor` what each conveyor does
("hold" is positioning or waiting for a camera), `report` the last EquipmentState
(keep-last 1) and `mirror` the Master's copy of it.  `_handle_equipment_state`
first refreshes the mirror and then confirms at most one thing; its cases are
`ConfirmRunning`, `ProductsMisaligned`, `ShutdownFinalized`, `PausedNow`,
`ResetCompleted` and `NothingConfirmed`.  What the product tracking asks of the
state machine (`LineFault`, `LinePause`, `LineResume`, captures) is chosen
freely under the guards of the code.  Two histories are kept for the properties:
the last command published for each conveyor, who asked for the run that is
awaited, and whether a LINE_CLEAR fault has not been cleared yet.

`RequestReset` asks for no command under way: an operator presses RESET seconds
after a fault, and delivery takes milliseconds.

### MasterLine

All that the Master keeps is one record, `master`, and each callback is an operator
from that record to the next, so that callbacks compose as their methods call one
another: `CaptureFailed` calls `CanceledB`, which calls `Bypassed`.  The fields are
the ledger (`fifo`, `state`, `station`, `skip`, `locked`), `cycle`
(`_station_cycles`), `lateStart` and `lateResume` (`_deferred_station_starts`,
`_deferred_capture_resumes`), `actuation`, `reorder`, and of the state machine only
what the tracking reads.  `captures` counts capture ids, so that a late answer for
an earlier capture of the same product can be told apart.

Around it: `pos`, where each product is; `belt`, the firmware's conveyor states
(running, positioning, hold for the camera, stopped); the capture `goals` at Vision
and the `frames` it saved; `arm`, the actuation goals at Control.  The firmware is
modelled where the tracking depends on it: Sensors 1 and 2 detect only on a running
belt and stop the product at the camera by themselves, Sensor 3 only reports, RUN
abandons a positioning or a hold, and a product taken out of the camera is not
positioned again.

Whatever goes wrong is one of the kinds of `Disturbances`, at most `MaxDisturbances`
kinds in a behaviour and each kind once.  Three properties speak of behaviours in
which nothing goes wrong but captures and inspections (`Quiet`); the others of all.

What is assumed of the world: products keep their order and a distance of more than
one station; a report (EquipmentState, sensor, position) reaches the Master before the belt
takes a product further, and a RESUME the Mega before a product reaches a sensor
(milliseconds against seconds); the arm is idle when a product comes to Sensor 3.
FAULT_STOP is final, since only a LINE_CLEAR, which empties the ledger, ends it.
Left out: the pause for a full inference queue (in `MasterSystem`), messages of an
unknown identity or an incomplete contract, and a RESET in place.

### WorkerSupervision

`sup` is one `WorkerRuntimeState`, and the operators from `BeginAttempt` to `MarkReady`
are its methods; `CanMarkReady` is `can_mark_ready`, the three pieces of evidence of a
ready worker.  `rpc` holds the InitializeNode goals and results, `proc` the process:
instance, session, epoch, health, whether it hears the Master.  The two other workers
are there as far as they touch this one: they are ready or not, and a restart of one
advances the command epoch for all.  Time is what it decides (a deadline that is set,
a heartbeat that is fresh), and a deadline that fires although the answer could still
come is the trouble "late".

Simplified: a heartbeat is handled as it is published (that a status answer is newer
than the last heartbeat is `ahead`); a goal's acceptance and its response are one step;
goals arrive in the order sent; a START and its confirmation are one step, since
`MasterSystem` has what lies between; a RESET arrives within the retry interval; a
restarted Master is a session greater by one.  Left out: another interface version or
node name, the cancellation of a goal that timed out, the total deadline of INITIALIZING.

### LogPipeline

`spool` is what each producer keeps, `net` and `acks` the messages both ways (sets: they
may be lost, repeated and reordered), `stored`, `recorded` and `files` the database and
the disk of the Log.  The steps are the durable ones: Vision spools a terminal and then
publishes it (`writing` lies between), the Log commits and then acknowledges, image
files are deleted and then their records.  A crash takes what a process had in mind.
`replay` is the Master's side of ReplayStationResults with its generation and offset,
`pages` the answers on their way.

### VisionCapture

`pc[g]` is where `_execute_capture` of goal `g` is; a step lies between two awaits or two
reads of something shared.  `locked` and `waiters` are the ExecutorLock of each station,
`identities`, `completed` (by capture key) and `store` what is remembered of captures and
commands, `nodeScopes` the scopes canceled in the node and `queue.scopes` those canceled in the
queue object, which an initialization replaces (`queue.number`).  A cancellation is two
steps, the node's set and then the queue's (`handling`).

Assumed: the cameras of the stations are disjoint, so the camera locks inside a station
lock are never contended (`validate_hardware_profile`); a product belongs to one session
(`ProductIn`), since a new Master makes new ids.

### MegaFirmware and MegaLink

`MegaFirmware` has the handlers of the sketch as functions from a board to a board, each
followed by the report of the state on a change, as in `loop()`.  `MegaLink` runs that
board against Control: `toMega` and `mega.tx` are the frames under way, `port` the serial
port and its reader thread, `init` the handshake (HELLO, then an offset for each belt),
`events` the answers that somebody waits for, `mirror` the EquipmentState the Master
has taken.  `begun` and `finished` count the arm's cycles for each command.

Assumed: opening the port resets the board (DTR); the waits of 2 s and 10 s are longer than
an answer takes, so a wait times out when its answer can no longer come; the Master commands
a Control it takes for READY and initializes one it does not, and sends an actuation again
only to the Control that has answered it.  Left out: the pool of two threads in which the
waits run, the CRC (a damaged frame is a lost one), the maintenance command POSITION.

## 3. Runs

| Run | Bounds | Shows |
|---|---|---|
| WorkerPool | 3 jobs of 2 products, 2 workers, capacity 1, one timed job, one cancellation, out-of-memory | all safety properties of the pool |
| WorkerPoolLiveness | 2 jobs, 2 workers, capacity 1 | accepted jobs are reported and `stop()` ends |
| InferenceDeque | 4 jobs of 2 products, capacity 3 | the deque implements the promise |
| MasterSystem | 2 conveyors, 1 station, Vision may fail, 2 commands under way | belief, orders and motion agree |
| MasterFailures | 1 conveyor, Control restarts, Mega loses commands, Ctrl+C | pauses and shutdowns end, a tainted line stays stopped |
| MasterExit | 1 conveyor, Ctrl+C | a violation: the exit of section 5 |
| MasterLine | 2 products, 8 kinds of trouble, one per behaviour; FIFO limits 1/1, 2/3 and 3/3, station B skipped after an NG or not | the ledger follows the line, stations and belts are let go, verdicts have evidence |
| MasterLineFlow | 2 products, failed captures and inspections | every product is sorted |
| WorkerSupervision | a worker of each role, 7 kinds of trouble, two per behaviour; one RESET | who is ready obeys, who is not becomes ready, the line stops without Control or Vision |
| LogPipeline | 1 notice and 2 terminals, at most 2 events, 6 kinds of trouble, one per behaviour; batches, pages and images of one | accepted events survive and are stored, stored ones are replayed, new images stay |
| VisionCapture | 3 goals (two for one capture, one with a known command and another payload), capacity 1, one lock of a product, 7 kinds of trouble, one per behaviour | one job per capture, cancellations hold, every goal ends |
| MegaLink | 1 belt, 1 sensor, 3 goals (one sent again, as it was or with another request), 5 sequence numbers, 1 unread frame, 4 kinds of trouble, one per behaviour | the arm moves as answered, the mirror is true, no belt runs without its offset |

Why the bounds are enough: the hazards of the pool need a full queue, a sleeper of
each kind and a third job, all of which three jobs and a queue of one give, and the
theorems hold for every bound.  In MasterSystem two conveyors are the real number;
two commands under way let a RESUME and a stop cross; one station is enough for
the queue pause.  `MaxOrders` delays a callback
that would publish a third command; the real topic does not.

In MasterLine two products are enough to have one in front of a sensor while the other
is in a station, at the other station or in the arm; the limit 1/1 makes the second
product exceed the hard capacity and 2/3 makes it reach the soft limit.  One kind of
trouble per behaviour keeps the run short; what follows from it (the pause, the
operator's RESUME, positioning that times out up to `MaxCaptures`, late answers)
is not counted.

In WorkerSupervision two troubles let a restart fall into the answer to another, and a
peer's restart into an attempt; the epoch moves by itself with every restart.  In
LogPipeline two events and batches of one are what it takes to have a page, a flush and a
purge that are not the last.  In VisionCapture one goal holds the station, one waits for
it and the third keeps the queue full.  In MegaLink five sequence numbers are a handshake
(two) and three commands, or two handshakes and one; a reconnection starts the handshake again on the same count.
`MaxFrames` lets the Mega go on only while fewer frames are unread, which slows it down
and hides nothing that Control could see, since frames are read in order.

Fairness: threads are operating-system threads (weak fairness of each), the 0.1 s
timeout of the wait is never relied on (`WaitTimesOut` is unfair), cancellation,
deadlines and `stop()` need not happen.  In MasterFailures the timer runs and
messages are delivered; the timer's fairness is strong only because `MaxOrders`
may disable it for a moment.  In MasterLineFlow some step of the normal course is
taken while there is one (`Progress`): belts turn, messages arrive, Vision and
Control answer.  The inspection results are not part of it, so products are sorted even if
Vision never says a word.  In WorkerSupervision the executors of both processes, the network
and the clock go on (weak fairness of each handler); a crashed process need not come back,
the operator need not ask for anything.  In LogPipeline the nodes flush, publish and handle
what arrives, and its two liveness properties suppose that the processes stay up from some
time on (`<>[]AllUp`).  In VisionCapture the executor threads of the action go on and
workers take jobs; `EveryGoalEnds` needs nothing of an initialization, which may hang.

Deadlock is checked in MasterSystem.  The other systems may stop: the pool after
`stop()`, the Master after its exit, the deque once closed, the line once it is empty, a
worker that stays down, the pipeline when all is stored, the captures when all are
answered, the link when its sequence numbers are used up.

## 4. Proofs

`WorkerPoolProofs` proves all seven safety properties of the run WorkerPool
for any set of jobs and workers and any capacity, from `JobAssumption` and
`WorkerAssumption` (finite sets, a positive capacity, scopes among the jobs').

* `TypeCorrect`: inductive as it stands; the capacity needs the cardinality lemmas.
* `SleepersOnlyWhenFull`: whatever removes a job or closes the queue wakes every
  producer, and an enqueue needs room, which a sleeping producer rules out.
* `NoWakeupIsLost` rests on it: the one notify of an enqueue goes to a worker, so
  the workers on their way to `get()` grow with the queue.
* `EveryJobHasOneOwner` is not inductive; `Accounted` adds that `stop()` holds jobs
  only while it reports them and that only accepted jobs are reported.  The moves
  of a job (enqueue, pop, removal, report) are a lemma each.
* `AtMostOneReport` and `OneCancelWindow` are action properties from these.
* `QueueHonoursCancellation` is inductive alone.

`LogPipelineProofs` proves that no accepted event is lost, for any events, limits and
number of crashes, from `PipelineAssumption` (finitely many events).  `NothingLost` is not
inductive: the record that `HandleAck` removes must be in the database, so
`AcksAreCommitted` says that an acknowledgement, sent or about to be sent, speaks of a
committed event.  `TypeOK`, which says that what Vision publishes and the Master hears was
spooled, needs `TerminalsAreSpooled` for the messages, the database and the pages between
them.  `PipelineIsSafe` is the invariance of all four, one lemma per action.

`LatestImagesAreKept` (`RetentionKeepsNewest`) adds `ImagesOnDisk` to it: an accepted terminal
that is not stored has its file, a record without one is among the `Candidates` of retention,
and while the deletion is under way among the images it has chosen.  The lemma
`CandidatesStay` is the point: a candidate stays one while newer images come.

`InferenceDequeProofs` proves the refinement, `DequeKeepsPromise`, from `DequeAssumption` (each
job has a FIFO sequence, a station and a product).  The deque is strictly sorted by the order
of the code, with the instant of the enqueue as the last word (`IInv`): an insertion before the
first later job and a filter keep it so.  A sorted deque holds each job once, so its length is
the size of the promise's set, and its head is that set's front.  A filter is defined by the
rank of the positions it keeps, which makes "what stays, in its order" a lemma
(`FilteredTakesKept`).

`MasterSystemProofs` proves the three invariants and the two action properties of the Master's
state machine for any conveyors, whoever fails, and any number of commands under way, from
`SystemAssumption` (there is a conveyor).  `BeliefMatchesOrders` needs `RunAwaited`: a run is
awaited only in READY or PAUSED, with every conveyor ordered to run, and by the operator or
after an automatic pause; `RunIsRequested` is then a consequence.  `TaintIsKept` ties the
history of a LINE_CLEAR fault to the recovery policy.  `PausedMeansStopped` is about a report
that may be old, so `ReportsAreBehind` says how old: in RUN_SYS no belt stands, neither on the
line nor in the last report; in PAUSING the stop is the last command under way and nothing has
stopped (`StopUnderWay`), or no command is under way and a belt reported as standing stands
(`StopDone`).  It holds until Ctrl+C, after which the Master pauses no more.

`WorkerSupervisionProofs` proves `ReadyWorkerObeys` and the shape of the mirror, from
`SupervisionAssumption`, for any number of crashes and epochs.  A worker gets ready by answers
that are looked at later than they were given, so `Evidence` says what an answer is still
worth: if the process it names still runs, the session is the Master's, and its epoch is not
beyond the Master's or not beyond the one it reported.  `Founded` gathers it for the answer
under way, the one recorded and the readiness itself; `GoalsInOrder` and `ResetNotAhead` bound
what can still change the worker.  The methods of the mirror are a lemma each (`Derived`).

`VisionCaptureProofs` proves the three invariants of the capture action, from
`CaptureAssumption` and `StoreAssumption`, for any goals, captures and sessions.  `Locks` is the
ExecutorLock: one goal inside a locked station, its waiters each once and waiting.  With it a
capture under way has no job yet in this session (`Fresh`), for whoever made one has marked the
capture complete before it let the lock go; hence one job per capture.  `Answers` says that
what the store or the memory of captures gives out was made for that request.
`CanceledScopeShutsOut` rests on `ScopesHold`: an acknowledged scope is in the queue it was
canceled in, and who is past the node's last look was there before the scope.

`MegaLinkProofs` proves the four invariants of the link, for any belts and sensors of the line,
any goals and any number of losses, reconnections, resets and restarts, from `LinkAssumption`,
`FirmwareAssumption` (no report is the null one) and `StoreSuffices`.  The last says that the
idempotency store has room for the commands there are; without it a command whose answer was
pushed out and that comes again does move the arm again, which 4096 entries rule out in
practice, and only there.  `ActuationExact` rests on the `Books` of every goal: its order is on
its way and nothing has been counted, or the arm has begun and not finished, or it is answered
and both counts are what was asked; and a command that has begun has a goal that waits or has
an outcome (`Engaged`), which the store remembers until a restart.  All of it needs sequence
numbers that mean one thing (`Numbered`, `Wire`).  `OffsetBeforeRun` needs to know what the
handshake has achieved (`OffsetsKnown`): the offsets of the belts before the one under way, and
of that one when its acknowledgement is there.  `MirrorAgrees` follows `Told`: the last state
frame unread, or what Control heard last, is what the board reported last.

`MasterLineProofs` proves the types of the Master's record, `VerdictHasEvidence`,
`LedgerFollowsLine`, `HeldBeltIsReleased` and `QuietLineIsSound` for any number of products, any
limits of the FIFO and any number of disturbances, from `LineAssumption`.  Each operator has a lemma that says what it changes and of which type
(`...Effect`, `...Typed`), and the longer ones a lemma that takes them apart (`...Cases`), so
that a property is proved by following the calls.  The invariants themselves are in
`MasterLineInvariants`, and `StepKinds` sorts the steps into those of the belts, of Vision and the
others.  The deferred work of a run is folded over
sets; `FoldExists` shows that such a fold has a value, and `FoldInduction` that it keeps what
each of its steps keeps.  `Evidence` is the invariant behind the verdict: what the Master keeps
of a product at a station was said by Vision of the capture that counts (a station that waits
has kept nothing, so a cycle that is started again starts with nothing), a locked verdict is
that of the stations, and station B is skipped only after a refusal at A.

`Tracked` is the invariant behind the ledger.  That Sensor 2 and Sensor 3 see the product the
Master takes them to see needs both orders: products do not overtake one another on the belts
(`Positions`), and the FIFO has every product between Sensor 1 and its sorting, older ones first
(`Queued`), so that `oldest_in_state` finds the one that is there (`OldestIsThere`) or refuses.
A cycle belongs to a product of its station (`Cycled`), or the end of a cycle would move a
product that is elsewhere; an actuation belongs to a product behind Sensor 3 that is not
forgotten (`Acting`).  And the Master must not miss a sensor: a belt turns only while it listens,
because a pause is the last command until it is confirmed and the belts stand from then until
the RESUME (`Commands`).

`Held` is the invariant behind the belts: a belt on its way to the camera has a cycle that waits
for the position, and one that holds has a cycle past that, both with a deadline.  What could
break it is an answer that takes a cycle back to its positioning or ends it under a belt that
holds.  Most callbacks only go on with the cycles there are (`Continues`, `GoesOn`): the phase
never returns to WAITING_POSITION, and a cycle ends only with its belt running or the line
stopped.  A late answer of Vision could still be taken for one of a new cycle; `Awaited` excludes
it, because captures are counted and no goal has the number of a cycle that still waits for its
position.  A station start while the line runs finds the station free or faults (`StartedCycle`),
and a product that skips station B cannot be there unless stations are skipped (`Evidence`).

`Smooth` is the invariant behind the quiet line: while nothing but captures and inspections
fails, the Master, the belts, Vision and the arm are in step (`Steady`).  What a cycle waits for
is what its belt is about to do (`Belted`), a product at a station is done there or has the cycle
(`Placed`), a goal that Vision still has to carry out is the one a cycle waits for, or its product
can no longer pass (`Pursuing`), the arm works once on what was asked of it (`Serving`), and the
images of a product that passes were taken at rest, with nothing left at Vision that could take
another (`Rested`).  None of these is inductive alone: that a frame is taken at rest
(`Rested`) needs `Pursuing`, which needs the cycle to be there still (`Placed`), whose end depends
on the belt (`Belted`).  Each way into FAULT_STOP is then a refusal that a steady line
cannot give.  A step that leaves the line quiet started on a quiet one and disturbed nothing, so
the proof has one lemma for each undisturbed action, and one for every answer that may arrive
behind a failed capture.  It rests on the ledger (`Tracked`), on `Evidence` and on `Awaited`.
TLC found `Smooth` invariant for three products before it was proved.

Every assumption on a constant is evaluated by TLC in the runs.

Only model-checked: liveness and fairness in all modules, which the prover does not reach, and
`CycleOwnsStation` of `MasterLine`.  Of that one the theorems give the half that a cycle belongs
to a product which waits or was captured at its station (`Cycled`); that every such product
has the cycle needs an invariant of the deferred starts (a product waits without a cycle only
while its start is kept in `lateStart`, and the older product is started first).

## 5. Where the code and its documents disagree

One run expects a violation, `MasterExit`: Ctrl+C during a pending START exits with the
RESUME under way (PROJECT.json quotes the lines).

Seen while modelling, without a run of their own; each can be reached in the module named.

Queue and captures (`WorkerPool`, `VisionCapture`):

* `stop()` removes the waiting jobs and closes the queue in two critical sections
  (`inference_queue.py:289`); a job accepted between them is never reported, although the
  docstring and the design document say that waiting jobs are canceled.
* A capture that is past its last look at the node's scopes may be enqueued into the
  queue that replaced the one its cancellation was installed in, or in the next session.
* The exits of the enqueue loop (closed, locked, canceled) leave a saved batch on disk that
  no event mentions.
* `remember` raises when the command is known with another payload; the action then ends
  with an exception instead of an answer (outcome "raised").

Master (`MasterSystem`, `MasterLine`):

* `report_run_failed` sends no stop, although its docstring says that the safe stopped state
  is kept (`master_node.py:734`): a run given up at its deadline may have been obeyed, and then
  START and RESUME are refused because the conveyors run, PAUSE because the state is not RUN_SYS.
* An ENQUEUE_BLOCKED of a capture's feedback handled after the ACCEPTING it precedes leaves
  a queue pause that nothing ends, although `src/README.md:39` says the line resumes.
* The ACCEPTING of one station's capture resumes the line while the other station's
  FrameBatch still waits (`_resume_after_queue_recovery` speaks of the same FrameBatch).
* A capture that could not be asked for is not retried after the pause as the README of
  `inspection_master` says: the belt takes the product out of the camera and the line faults.
* A product that skips station B before it reaches Sensor 2 is stopped there by the
  Mega, and nobody lets the belt go, although `bypass_station_b` says the lower conveyor
  keeps running.  `HeldBeltIsReleased` is therefore stated for the default setting.
* With that setting, a product whose cycle was lost to a fault of communication is
  overtaken in the ledger by one that skips B; Sensor 3 finds out (`CycleOwnsStation`
  is stated for quiet runs of that setting).
* A capture goal accepted after its deadline takes back the phase RESUME_PENDING, so
  the resume is never confirmed and the next product faults the station.
* A pause while a product is being positioned lasts longer than the deadline of the
  positioning and becomes a FAULT_STOP.

Supervision (`WorkerSupervision`):

* `invalidate_epoch_evidence` clears the deadline and leaves a worker whose attempt is under
  way, or whose status is polled, without one.  If it then is not READY (its initialization
  failed, it lost the Master's heartbeat), it is polled for ever or waited for in vain, and not
  initialized again, although the comment in `_handle_worker_unavailable` says so
  (`master_node.py:1637`).  `WorkerSettles` names the state `Forsaken`.
* A restarted Master counts epochs from zero; a worker that has a greater one drops all its
  heartbeats, also after a successful initialization (`Deaf`).
* A worker that got ready between a restart's outage and the next heartbeat is asked for its
  status once more by that heartbeat, and stays ready in the phase WAITING_STATUS, where
  nothing waits for anything.

Logs (`LogPipeline`):

* Vision crashes between the commit of its spool and the publication of a result: the replay
  that its restart asks for may be over before the restarted Vision has flushed the record, and
  the Master does not hear the result in this session.  `StoredTerminalReplayed` therefore speaks
  of what is in the database when the replay begins.
* A late page of a former generation clears the mark of the request in flight before its
  generation is looked at; a second request then runs beside the first, which does no harm.

Control and Mega (`MegaLink`, `MegaFirmware`):

* The README of `inspection_control` says a command id does not move the arm twice.  This
  holds for a command sent again after its answer; sent again before (the Master does not), it
  would find nothing remembered and move the arm again.
* A port that goes between the check and the use of `_mega` raises what `_execute_actuation`
  does not catch (outcome "raised"); a port that goes during an initialization is DEGRADED
  first and READY at the end of it, over a dead link.
* A brown-out of the Mega takes the offsets with it and nobody notices; and the Mega has no
  watchdog, so its belts run on when the link is gone.
* A ping without an echo re-arms its sensor and reports it as not clear: a product may be
  detected twice, against the comment that it must move away first.
* BUSY is not told apart from no answer: Control waits for the whole timeout.
* PROTOCOL.md of the firmware says that a conveyor without an offset stays in place when its
  sensor fires; the code lets it run on.

## 6. Not modelled

Camera driver, model backend, GPU monitor, reports, launch files, message types and
offline tools have no protocol of their own.  The sim profile of the Master, where
confirmations are immediate, is left out, and so is `report_estop_asserted`, which
nothing in the hardware profile calls.

Bounds of faithfulness that matter to a reader: no module has the real time of the
line, so timeouts race with answers freely where both are possible; the sequence number of
the Mega's events and the CRC are left out; the products of `MasterLine` and the board of
`MegaLink` are not composed, since the tracking depends on the firmware only through
positions and the three sensors, which `MasterLine` has.

## 7. Plan

1. A proof that a cycle owns its station (`CycleOwnsStation`), which needs an invariant of the
   station starts deferred to a later run.
2. An abstract specification of a product's life (entered, photographed, judged, sorted) that
   `MasterLine` refines.
3. The end of a session: CloseLogSession and the last flush of the spools.

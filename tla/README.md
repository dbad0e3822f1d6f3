# Serial Studio in TLA+

Serial Studio reads telemetry from devices (serial ports, sockets, buses), cuts the byte
stream into frames, parses the frames into datasets and shows, records and forwards them. It can
also talk back: send files, run connection sequences, publish to brokers. This directory models
the parts of its core where the order of events matters, checks them with TLC on small instances
and proves the most important facts for every size with TLAPS. Paths below are relative to
`src/core/` unless they start with `src/`.

Contents: [1 the system](#1-the-system), [2 modules and code](#2-modules-and-the-code-they-model),
[3 runs](#3-runs-bounds-and-what-they-show), [4 fairness](#4-fairness),
[5 proofs](#5-proofs), [6 findings](#6-where-the-code-and-its-documentation-disagree),
[7 limits](#7-what-is-not-modelled), [8 plan](#8-plan).

## 1 The system

### Threads and the path of a byte

Two threads matter. The *processing thread* takes chunks from the drivers, extracts frames and
parses them; the *GUI thread* owns the drivers' configuration, the dashboard, the dialogs and
every protocol object. Recorders and publishers have workers of their own behind queues.

```
driver -> FrameReader (ring, scan, queue) -> FrameBuilder -> BlockStager (open block per source)
                                                                |  flush
                                                         BlockPublisher
                                     +--------------------------+------------------+
                                block ring, structure ring                 recording sinks
                                     |  (GUI thread, display tick)         (CSV, MDF4, SQLite,
                                 Dashboard -> widgets                       MQTT, InfluxDB, API)
```

### Inventory

| Component | State | Operations | Interacts with | Hard behaviour | What makes it correct |
|---|---|---|---|---|---|
| Frame extraction, `Pipeline/IO/FrameReader.cpp` | byte ring, records of the chunks in it, frame queue, counters | `processData`, four scan loops, checksum, time stamping | driver feed; `PipelineHost::routeFrames` drains the queue | chunk cuts, overflow, turn limit, stamps | frames independent of cuts, bytes accounted for, no frame dropped, stamps of the last byte |
| Ring, `Core/CircularBuffer.h` | storage, head, tail, overflow count | append, peek, read, discard, clear, resize, searches | FrameReader, console | wrap-around, one free slot, overwrite | behaves as a byte queue; searches agree with the definition of a match |
| Block staging, `Pipeline/DataModel/FrameBuilder/` | pool of block slots, open block per source, announced layouts, mask | stage, flush, publish, announce, session boundary | Dashboard, recorders, project model | slot reuse across threads, layout changes, link edges | slots exclusive, recordings exact, layouts ahead of values |
| Dashboard hand-off, `Ui/UI/Dashboard.cpp`, `Ui/UI/Dashboard/DashboardIngest.cpp`, `Pipeline/IO/PipelineHost.cpp` | two rings, generations, push tables, newest block | display tick, resets, queued layout change | FrameBuilder | two drains with a budget, queued clears | widgets move forward, under the layout they hold |
| Task engine, `Core/Async/TaskTree.cpp` | a tree of tasks, timers, one root per runner | run, stop, cancel, signals, deadlines, backoff | MQTT publisher, connection diagnostics, UART sequences | outcomes that cascade, cancel and re-entry | one outcome, nothing left alive, every run ends |
| XMODEM sender, `Protocols/FileTransfer/XMODEM.cpp` | protocol state, file position, block number, retries, timer | start, cancel, each byte received, timeout | FileTransmission, the device | lost and damaged packets, retries, last block, number wrap | whole file in order, one verdict, always ends |
| ZMODEM sender, `Protocols/FileTransfer/ZMODEM.cpp` | protocol state, file position, requested offset, chunk generation, retries, timer, parser | start, cancel, each header received, each streamed batch, timeout | FileTransmission, the device, the event loop | resynchronisation in mid-stream, queued continuations, answers without a role | whole file in order, one continuation, ends |
| YMODEM sender, `Protocols/FileTransfer/YMODEM.cpp` | the batch state beside the fields inherited from XMODEM | start, cancel, each byte received, timeout | FileTransmission, the device | two state machines in one object, two EOTs, three rounds of C | as XMODEM, and both machines agree |
| File transmission, `Devices/IO/FileTransmission.cpp` | mode, three senders, selected file, progress | begin, stop, change of mode, route received bytes | senders, ConnectionManager | lost link, change of mode in mid-transfer | at most one sender active, one verdict per transfer |
| Cross-thread calls, `Pipeline/IO/PipelineHost.*`, `Pipeline/DataModel/Scripting/ScriptApiCall.cpp` | parked flag, teardown latch, waiters, abandoned latch | call the other thread and wait, dispatch a script's command, join | FrameBuilder, FrameParser, the API, the program's exit | nested waits, deadlocks, exit in mid-call | every wait ends, no function outlives its caller, parked means quiescent |
| Reader life cycle, `Pipeline/IO/PipelineHost.cpp` | reader per device, retired readers, queued chunks | attach, reconfigure, detach, retire | drivers, FrameReader | made on one thread, used and deleted on the other | a reader outlives its use |
| Project synchronisation, `Pipeline/DataModel/FrameBuilder.cpp` | adopted version, deferred snapshot, in-flight and pending marks | syncFromProjectModel, applyProjectSnapshot | project model, scripts | edits while a script parks the thread | the last edit arrives, between two frames |
| Connection and device managers, `Devices/IO/` | session, devices, pending opens, failures told | connect, disconnect, rebuild, bus change, queued reconnect | drivers, PipelineHost, dialogs | verdicts, cancels and rebuilds in any order | one verdict per attempt, connecting ends, what is told is true |
| TCP dialling, `Devices/IO/AsyncTcpDial.cpp` | attempt, lookup, address index, probe socket, deadline | start, cancel, each slot of lookup, probe, socket and timers | the network drivers | late answers, several addresses, a deadline racing a connect | one verdict per dial, every dial ends |
| Stream lane, `Pipeline/IO/StreamWorker*.cpp` | worker pool, per-source queues | enqueue, process, publish | FrameBuilder | thread hand-off | not modelled yet |
| Message bus, `Core/Bus/MessageBus.cpp` | subscribers per topic | publish, subscribe, unsubscribe | everyone | queued delivery, re-entrancy | not modelled yet |
| Recording and replay, `Storage/` | files, databases, player position | start, stop, write, seek | FrameBuilder, session boundary | workers, masks | consumer side in BlockPipeline only |
| Codecs, `Protocols/` | windows and reassembly tables | encode, decode | drivers | sequence windows | not modelled yet |
| Project model, API, interface, scripting, licensing | documents, sessions, windows | edit, undo, dispatch, render | everyone | mostly data and presentation | not modelled |

`PROJECT.json` lists every component with its sources and the hazards found in the code, each with
the property that would catch it.

## 2 Modules and the code they model

| Module | Role |
|---|---|
| `XModem` | the XMODEM sender alone |
| `YModem` | the YMODEM sender (extends `XModem`, as the class does) |
| `FileTransmission` | the front end over both senders (extends `YModem`) |
| `XModemLink` | the front end, a line that loses, damages and drops, and an external receiver of either protocol (extends `FileTransmission`) |
| `FileTransmissionProofs` | theorems about `XModem`, over them about `YModem` and `FileTransmission`, and then about the delivery through `XModemLink` |
| `ZModem` | the ZMODEM sender alone |
| `ZModemLink` | the sender, a faulty line and an external receiver (extends `ZModem`) |
| `ZModemProofs` | theorems about `ZModem` and the delivery through `ZModemLink` |
| `FrameReader` | frame extraction over a ring, with the queue drain |
| `FrameReaderProofs` | theorems about `FrameReader` |
| `CircularBuffer` | the ring as storage, head and tail |
| `ByteQueue` | what the ring promises: a bounded queue of bytes (abstract) |
| `PatternSearch` | the searches of the ring (extends `CircularBuffer`) |
| `RingProofs` | theorems about `CircularBuffer` and `PatternSearch` |
| `TaskTree` | the asynchronous task engine, a call at a time |
| `TaskTreeProofs` | theorems about `TaskTree` |
| `BlockPipeline` | staging, publication and display of blocks, across two threads |
| `BlockPipelineProofs` | theorems about `BlockPipeline`: the hand-off, then what the dashboard shows |
| `PipelineHost` | calls between the two threads, synchronisation of the project, life of a reader, end of the program |
| `PipelineHostProofs` | theorems about `PipelineHost` |
| `AsyncTcpDial` | one TCP dial, as operators from a dialer to the dialers it can become |
| `Connections` | the devices of a session and who opens and closes them (extends `AsyncTcpDial`) |
| `ConnectionsProofs` | theorems about `Connections` |
| `MC*` | instances for TLC |

In every module, definitions keep the names of the functions and members they translate. A
definition whose comment starts with "Mutant" is a faulty variant of the one it stands before; no
specification uses it. It shows that the property named with it in `PROJECT.json` can fail.

### XModem

One action per entry point: `startTransfer` (and `startUnreadable`, the file that does not open),
`cancelTransfer`, `processInput(byte)` in each of the three waiting states, `handleTimeout`. The
object lives on the GUI thread and nothing re-enters it, so each handler is one step, including
the packet it writes, which `out` holds. A file is its size, a block the range it carries and its
number (`quint8`, `NumModulus` in the model). Padding, CRC and status text are left out.
`result`, `starts` and `blockErrors` are histories the properties read.

### YModem

`YModem` extends `XModem` as the class `YMODEM` derives from `XMODEM`: the fields are inherited,
`yState` is added, and the inherited `state` only says whether a transfer runs. The entry points
have the prefix `y` where the base class has one of the same name. Received bytes are grouped by the
byte, since each helper of the code belongs to one or two states: `receiveC`, `receiveACK`,
`receiveNAK`, `receiveCAN`, and any byte without a role in the state (`Roles`). The header is its
kind; its name and size are left out. `SendingData`, which no handler ends in, is left out.

### FileTransmission

One sender object per protocol exists, and at most one is active: an inactive one has the fields of a
new one (`resetState`), so the two share their variables and `mode` selects the handlers. Actions:
`beginTransmission`, `stopTransmission` (the user, or `connectedChanged`), `setTransferMode`,
`onRawDataReceived` byte by byte, `timeout`. XMODEM-1K is XMODEM with another `BlockSize`.

### XModemLink

Adds a FIFO in each direction, at most `MaxFaults` faults (packets damaged or lost, answers lost,
stray bytes, a device that aborts, a connection that drops), and the receiver. The receiver is not in
the repository: it is the usual one, which takes the block it expects, acknowledges a repetition of
the previous block, answers a damaged packet with NAK and gives up on any other number. One that
speaks YMODEM takes a header first, asks for the data with a second C, refuses the first EOT,
acknowledges the second and asks for the next header. The bytes of a cancel are not all lost, and a
transfer starts with a device that is not left within an earlier file: a block does not say which
file it is of. A timer only fires when the line is quiet: the timeout is longer than a round trip.
The answers carry no number, so a sender cannot tell a late answer from a new one; without this
assumption no XMODEM or YMODEM sender delivers files.

### ZModem

The members of the class are the fields of one record `z`, and a handler is an operator from a record
to the next, composed as the functions call one another: `parseReceivedHeader` calls
`sendDataSubpackets`, which calls `sendNextDataChunk`. The packets written are the field `out`.
Entry points are the actions: `startTransfer`, `startUnreadable`, `cancelTransfer`, `processInput`
for the bytes of one header, `continueLive` and `continueStale` for the single-shot timer that runs
the next batch, `handleTimeout`. The chunk generation, a counter in the code, is kept as what it
decides: how many queued continuations belong to the current stream (`live`) and how many to earlier
ones (`stale`). A seek or a read may fail, after any part of the batch was written. The byte parser
is what it makes of a header (`Readings`): whole, dropped for its CRC, or unfinished, in which case it
may swallow the next one. The encodings and CRCs of the packet builders are left out.

### ZModemLink

The line as in `XModemLink`, with a receiver that acts as the usual `rz`: ZRINIT for ZRQINIT, ZRPOS
with what it holds (nothing, or the part it kept of the file: crash recovery) or ZSKIP for ZFILE,
subpackets appended only in a frame that starts where its file ends, ZRPOS after damage, a ZEOF
ignored unless it is at the end of what was stored. Besides damage and loss the faults are a device that
repeats itself or aborts and a timeout that comes before the answer. A subpacket does not vanish
whole: losing part of it damages it. Neither does the ZDATA header of a new frame while the device
is still within the old one. Subpackets carry no position, so no receiver could tell the new frame's
data from the old one's, and the sender cannot help it: two frames joined without a trace are a limit of
the protocol and not of this code. Such a loss takes three faults to do harm, one more than the runs
have; it was met while an invariant was sought for any number of them.

### FrameReader

`ProcessChunk` is `processData` up to the loop (append, overflow accounting); each turn of the
scan loop is a step (`ScanIteration`), and the turn that leaves the loop emits `readyRead`, whose
direct connection drains the queue. `ProcessRawChunk` is the mode without delimiters.
Configurations are records: detection mode, start and finish sequences, checksum length, fixed
length, byte rules. The setters are not actions since a reader is rebuilt on every configuration
change (`PipelineHost::attach`). Each buffered byte carries the chunk it came from, which the code
does not store: it is what the code's `m_pendingChunks` has to agree with. Searches are their
definitions here; `PatternSearch` is where the code's search algorithms are compared with them.

### CircularBuffer, ByteQueue, PatternSearch

`CircularBuffer` has the fields of the class and an action per operation, with capacities rounded
to powers of two and one slot unused as in the code. `ByteQueue` is the abstract specification;
`CircularBuffer` implements it with the refinement mapping that reads the bytes from `head` to `tail`.
`PatternSearch` translates `findPatternKMP`, `computeKMPTable`, the anchored search for several
patterns and the masked scans, with their split into two runs at the wrap, as functions.

### TaskTree

An event (a signal, a timer, a call of the runner) causes a cascade, since `finished()` is a direct
connection: a child's outcome climbs the tree, starts siblings and cancels others before the event
returns. The model takes a cascade one call at a time. `calls` is the stack: a step takes the innermost
call (`start`, `report`, `cancelTask`) and puts in its place the calls it makes, on top of what
its caller does when they return: the loops of `ParallelGroup::doStart` (`startAll`) and of
`cancelChildren` (`sweep`), the second half of `Task::cancel` (`cancelled`) and of
`TaskRunner::run` (`runFresh`). An event is taken only when the stack is empty (`Idle`). Per task
there are the members of its class, as functions over the tasks. Tasks are numbered as a walk from the root
meets them, `last` being the end of a task's subtree; `IsTree` says what a tree is. An invoked function
succeeds or fails; one that calls the runner again is left out. `MaxAttempts` is the policy's; a backoff's
duration is abstracted to an armed timer. `run` composes the same tree afresh. `tripped`, `said`,
`heard` and `dropped` are histories the properties read.

### BlockPipeline

Two threads, each action a piece of one between two accesses to what the other writes.

- *Builder* (processing thread): `OnFrame`, `emitRepublishedFrame` (samples for the display only,
  masked), `AnnounceStructure` and `StoreSample` as the two halves of staging, `HandlePosted` for
  the calls other threads post (flush, connection sync, pause), `applyProjectSnapshot`.
- *GUI*: link edges and pause, project edits, queued slots (`HandleQueued`), and the display tick
  `uiTimeout`, `DrainStructure`, `StructuresDrained`, `DrainBlock`, `BlocksDrained`, which may run
  out of its time budget after any check of it.

Shared are the block ring and the structure ring of `PipelineHost` and the mirrored flags of the
link. A slot is free when nothing refers to it, which is the code's `use_count() == 1`; which
free slot is taken is left to `CHOOSE`, as the slot's former contents are rebound. A block's
`stale` mark stands for the age the display measures: opened before its last tick. Flushing all
sources goes source by source (`FlushNext`), and a link edge or a pause is the flush followed by its
boundary (`LinkBoundary`, `PauseBoundary`), so the other thread may act in between. `captured` and
`recorded` hold, per source, the samples and the session each belongs to: the first as captured, the
second as the recorders receive them.

### PipelineHost

An action is what one thread does between two accesses to what the other one writes. The GUI thread's
waits are nested event loops, so its state is a stack of calls (`gui.stack`), each with its place in
`runOnObjectThread`; the processing thread is at one place (`pipe.pc`). Two operations stand for all
callers: `sync` (`syncFromProjectModel`) and `ask` (`FrameParser::readCode`, which marshals itself to
its thread, calls back to the GUI thread from there and runs a script). A project is its version. The
reader of one device is made on the GUI thread, used and deleted on the processing thread; chunks
are queued for it. The program ends through the engine's join with its time limit, or directly.

### AsyncTcpDial, Connections

A dialer is a record and a slot of the class an operator that returns every result the slot can have,
with the verdict it reports. Qt's part is in two fields: an answer of the lookup that is on its way,
and answers of ended attempts, which `abortHostLookup()` does not recall once they are queued.
`Connections` runs on the GUI thread; an action is one event with every call it makes, and a handler
maps a session to the sessions it can leave, because the network decides how an open ends. A driver
is TCP (dials, owes a verdict later) or serial (open at once, may vanish and come back on its poll).

## 3 Runs, bounds and what they show

| Run | Instance | Shows |
|---|---|---|
| `xmodem_link` | files of 0, 1, 4, 7 bytes, blocks of 2, numbers modulo 3, 3 retries, 2 transfers, 3 faults, both modes | `RewindsAreExact`, `OneVerdictPerTransfer`, `TimerGuardsEveryWait`; success means the device stored this transfer's file once and in order (`SuccessMeansDelivered`); `EveryTransferEnds` |
| `zmodem_link` | files of 0 and 5 bytes, subpackets of 2, one per batch, 2 retries, 2 transfers, 2 faults, a device that kept 0 or 2 bytes | `OneVerdictPerTransfer`, `StreamHasOneDriver`, `SuccessMeansDelivered`, `EndsOrLosesItsTimer` |
| `zmodem_stall` | as `zmodem_link`, 1 transfer | `TimerGuardsEveryWait` violated, see 6 |
| `frame_reader` | 11 configurations, a ring that keeps 4 bytes, streams of up to 6 bytes over 3 values, chunks up to 5, turn limit 2 = queue size | `StampsFollowTheLastByte`, `ChunkingIsInvisible`, `PendingDescribesBuffer`, `NoFrameDropped`, `EveryTurnConsumes` |
| `frame_reader_trailer` | end delimiter and a one-byte checksum, nothing lost, chunks up to 3 | `ChunkingIsInvisible` violated, see 6 |
| `circular_buffer` | rings of 2, 4 and 8 in every layout with every content, reads and discards beyond it, patterns up to 4 bytes | `SearchesAgree`, `ImplementsByteQueue` |
| `task_tree` | three trees of 9 tasks, 3 attempts, 2 runs | `EmitOnce`, `NothingOutlivesItsParent`, `EveryTaskAwaitsSomething`, `OwnerHearsOnce`, `SuccessIsEarned`, `SupersededTreeIsDead`, `EveryRunEnds` |
| `block_pipeline` | ring of 2 blocks of 2 samples, 5 slots, 2 calls piled up; three scopes: 2 samples, 2 link edges, 1 edit; 4 samples, 1 edge; two sources, 2 samples, 2 edges | `SlotsAreExclusive`, `RecordingIsExact`, `SamplesStayInTheirSession`, `StagingNeverStarves`, `OpenBlocksArePublished`, `DisplayFollowsLayout` |
| `block_layout_lost` | 1 source, 2 samples, 1 link edge, 1 edit | `AnnouncedLayoutIsHeld` violated, see 6 |
| `pipeline_host` | five scopes of edits, asks, commands, chunks, readers, a script that hangs and a quit (`MCPipelineHost`) | `ParkedMeansQuiescent`, `FunctorHasItsWaiter`, `StaleOnlyIfLost`, `ReaderOutlivesItsUse`, `NeverAppliedMidFrame`, `EveryWaitEnds` |
| `pipeline_stale` | 1 edit, 1 command | `NeverStale` violated, see 6 |
| `connections` | 2 devices (TCP and TCP, TCP and serial, serial and TCP), 2 addresses, 2 connects, 1 edit, up to 2 changes of mode | `OneVerdictPerAttempt`, `ConnectingMeansAnswerComes`, `ToldIsTrue`, `ClosedStaysClosed`, `EveryDialEnds` |

Deadlock checking is off throughout, since every system may come to rest: its bounds are used up
(streams received, transfers started, samples captured) and it waits for input, the user or the
network, or the program has ended. That nothing waits for ever before that is stated by the liveness
properties instead.

Why the bounds are enough:

- *XMODEM and YMODEM.* What can go wrong depends on the block in flight and the one before it. Four
  blocks with numbers modulo 3 wrap, and a repetition, the next block and any other number are three
  cases. Sizes cover the empty file, a short block, an exact multiple and a short last block. Three
  retries let NAKs and timeouts alternate on one block. Two transfers let one find what the other
  left, in the same mode or in the other one. Three faults damage or lose a packet, its repetition
  and an answer. That the senders' own properties hold for whatever bytes a device may send, not only
  this one's, and delivery for any number of faults, is proved (5).
- *ZMODEM.* Three subpackets, one per batch, give a first, a middle and a last batch with a
  continuation queued between them, each of which a ZRPOS, a cancel or a new transfer may meet. Two
  faults break a packet and the answer that would repair it, or let the device repeat itself
  and lose the rest; the second transfer finds continuations and packets of the first. The invariant
  of the delivery was checked with three and four faults, too, before it was proved for any number (5).
- *Frames.* A delimiter has up to two bytes and a frame with header and trailer up to five; streams
  of six bytes over three values contain whole frames, empty ones, overlapping and false delimiters,
  and every cut. A chunk may be longer than the ring keeps, and the turn limit is reached.
- *Ring.* The content of the smallest rings reaches every combination of head, size and wrap.
- *Trees.* The reconnect tree of `PublisherWorker.cpp`, the probe tree of
  `Ui/Misc/ConnectionDiagnostics.cpp`, and a tree with every combinator. Each interleaving of
  their signals and timers is explored, with cancels and a second run. Three attempts make a
  retry that is neither the first nor the last.
- *Blocks.* Rings of two blocks of two samples are filled by what four samples, a tick out of
  budget and open blocks can produce, so drops, partial blocks and pinned slots all occur. Two
  edges and an edit open, close and reopen a session around a layout change. Two sources are needed
  to see one flushed while the other is still open. Slots number a ring's worth, one per source, and
  two for the dashboard: what the code guarantees for up to six sources (`kFloor`,
  `BlockStager.cpp:119`). The five safety properties are also proved for every size (5).
- *Cross-thread calls.* The GUI thread's stack of calls reaches depth four, deeper than a call nested
  in a nested one needs to be left in the wrong order. Each scope lets one kind of event meet the
  others: three edits coalesce while a script parks the thread; a marshalled call meets a sync and a
  command; a quit reaches a wait that serves another; a join times out on a script that hangs with
  two readers and two chunks queued.
- *Connections.* Two devices are the least for which the state told to listeners depends on both, and
  two addresses the least a sweep can fail half-way through. Two connects let an attempt meet
  what the one before it left, with an edit or a change of mode rebuilding devices in between.

## 4 Fairness

Safety runs use `Spec` without fairness. Five runs check liveness.

- `xmodem_link` (`FairLink`): weak fairness of delivering bytes and packets, which the line and both
  event loops do, and strong fairness of the sender's timeout, which is a running timer whenever the
  line keeps falling quiet: a timer that runs while the device repeats a byte without a role is not
  restarted by it. Nothing forces the device to ask for the file or to be set up again, nor the user
  to cancel; a device that stays silent, or that gave up, is what the retry limit is for.
- `zmodem_link` (`FairLink`): weak fairness of the line, the device's answers, both queues of the
  event loop and an armed timer. Weak is enough for the timer: the device does not ask unprompted for
  ever, since repetitions are faults. `EndsOrLosesItsTimer` is what remains true of the code: a
  transfer ends, or is in a wait whose timer an answer without a role has stopped (6).
- `task_tree` (`FairSpec`): a call that was made goes on until it returns (`cascade`), and an armed timer
  eventually fires (`clockFires`). Signals are never forced, since a
  device may stay silent; hence only trees whose waits sit under deadlines end, as the trees of the
  repository do.
- `pipeline_host` (`FairSpec`): weak fairness of a step of either thread: the operating system runs both.
  What a thread does next is its own choice only where the code has one, so no event is forced except
  those that are queued.
- `connections` (`FairSpec`): the deadline timer of a dial fires if it is left running. Neither the
  network nor the user is forced to do anything.

## 5 Proofs

The eight proof modules hold for every value of the constants that satisfies the named assumptions of
the module they are about: sizes are naturals, blocks and the retry limit positive, numbers at least
modulo 2 (`XModem`; `ZModem` without the last); a ring of at least two slots, a positive turn limit not above the
queue's size, well-formed configurations and a checksum that is any operator (`FrameReader`);
capacities that are naturals, non-empty patterns and any rules (`PatternSearch`); finite
sets of sources and slots, positive ring and block sizes and `NoBlock` a value that is no slot
(`BlockPipeline`); any set of scopes (`PipelineHost`); any number of devices and addresses, and
scopes that give each device a kind (`Connections`); any set of trees (`IsTree`) and a positive attempt
limit (`TaskTree`). Most properties are not inductive as they
stand; each module says what has to be added.

*XModem.* The properties are not inductive as they stand. `IInv` is `TypeOK`, `PositionInv` and
`CounterInv`: the file and the progress are at zero before the first block is asked for, the last
block ends where the file stands while it waits for an answer (`RewindIsExact`), EOT waits stand at
the file's end, timers and verdicts follow the state, and a block's own failures never exceed the
retry counter. A retransmission rewinds into a position from which the same block is read again; that is
where `RewindIsExact` is needed and re-established. Steps are one lemma per handler
(`StartIInv`, `InputIInv`, `TimeoutIInv`) over one per packet (`SendBlockIInv`, `SendEotIInv`,
`ResendIInv`, `FinishIInv`). Theorems: `TypeCorrect`, `RewindCorrect`, `EotCorrect`,
`VerdictCorrect`, `TimerCorrect`, `RetransmissionBounded`.

*FileTransmission.* `FileIInv` says that in XMODEM's mode `IInv` holds and the batch machine rests, and
in YMODEM's mode `BatchIInv` does: `TypeOK`, the place of the file in each of the batch's states
(`BatchPosition`), and `BatchCounter`, by which only a data block in flight has failures of its own.
The mode may change because a sender at rest satisfies both (`RestServesBothModes`), and a stop
leaves it at rest (`CancelRests`). The lemmas about XMODEM's handlers are used as they are; YMODEM's
have one per packet (`BatchSends`, `BatchResends`, `BatchWaits`, `BatchFinishes`) and one per byte
over them. Theorems: `FileRewindCorrect`, `FileVerdictCorrect`, `FileTimerCorrect`,
`FileMachinesAgree`, `FileEotCorrect`, `FileRetransmissionBounded`.

*XModemLink.* `LinkIInv` is `FileIInv` and, for each stage of a transfer, what sender, line and device
agree on. Before the first packet the device has nothing and owes no answer (`OpeningOK`); while a
header is announced it is at the file's beginning (`AnnouncedOK`); while a block is in flight it
holds the file either up to that block or with it, and the number it expects says which (`BlockOK`); once
the whole file was sent it holds that (`EndedOK`). The two cases of `BlockOK` are what a repetition and a
lost answer leave behind, and of a block that is not stored there is no ACK on the way. That needs
`Orderly`: a packet or its answer is on the line, never both. Two numbers that differ suffice, so any modulus
from 2 up will do. The sender's part of a step is summed up by what it can come to (`Reacts` for a
byte, `Repeats` for the timer; `XModemReacts` and `YModemReacts` prove that it does), with one lemma
per outcome (`WhenRests`, `WhenAnnounces`, `WhenAgrees`, `WhenBlocks`, `WhenCloses`, `WhenGone`); the
line's part takes packets away or spoils them (`WhenTaken`). Theorems: `LinkInvariance`;
`LinkImplementsFrontEnd`, so that all that is proved of the front end holds behind the line;
`DeliveryCorrect`.

*ZModem.* `IInv` is `Settled(z)`: the record's shape, a verdict owed exactly while a transfer is
active, and, while data is streamed, one live continuation and no timer. It is proved of each operator
that maps a record to the next and composed as the code composes its calls. Theorems:
`VerdictCorrect`, `DriverCorrect`.

*ZModemLink.* Many packets are on the line at once, and the sender may start over before any of them has
arrived, so the inductive invariant `Consistent` is about the whole line. `Flow` says that a
subpacket follows on from the packet before it, that the first on the line is one the device will put
where it belongs, and that the last ends where the sender goes on. It survives a resynchronisation
because a new ZDATA opens a new stretch; it would not survive losing that ZDATA without a trace. The rest tells the
transfer's phases apart, on both lines: a ZRQINIT is never behind a ZFILE (`Opening`); until the device
has taken the file up, the sender is waiting for it (`Untaken`); then what the device has is exact
(`Held`); and while that is not the whole file, nothing is on either line that could make the sender
close the transfer (`Unfinished`). The last is the difficult one. A ZRINIT is both the answer to ZRQINIT
and the one to ZEOF, so a late one of the first kind must not meet a sender that waits for the second:
none is on the way once the opening is over, and none behind a ZRPOS. The sender's part of a step is summed
up by `Does`, from one lemma per handler: it writes nothing, sends one packet of its state, streams a
stretch of data, or ends. Lemmas over it keep the invariant: `SenderKeeps`, `StartKeeps`, one per kind of packet the
device takes (`CalmKeeps`, `InitKeeps`, `FileKeeps`, `DataKeeps`, gathered in `DeviceKeeps`), and `FaultsKeep`. Theorem:
`DeliveryCorrect`, for every file, subpacket and batch size, retry limit, part the device kept and
number of faults.

*FrameReader.* `IInv` is the shape of buffer and counters, `LoopInv` (between calls the queue is
empty; in the loop it holds at most as many frames as turns were taken, and turns are left), and the
two properties. The lemmas bound what each detection mode decides about a buffer
(`EndOutcome`, `StartOutcome`, `StartEndOutcome`, `FixedOutcome`, gathered in `ScanOutcomeOK`): a turn
that goes on consumes between one byte and the whole buffer. `LowestProperty` (every non-empty set of
naturals has a least element, by well-foundedness) is what makes the searches' results lie in the
buffer. The timing records have an invariant of their own on top of it, `TimingInv`: the running sums
of the records cut the buffer into the stretches of its chunks, in the order of arrival (`RecordsOf`);
the stamps of the frames increase, each of the chunk of the last byte (`FramesOf`); and no frame has a
stamp that a record may still give out (`StampsPast`), without which a second frame from one chunk
could repeat the first one's. `BytesUpTo` is recursive: that its value exists and is the only one of its
equation is shown by `SetInduction` (a set that holds zero and, with any number, the next holds them
all), and `DiscardShortens` says what is left of the sums when bytes go. `ScanFits` adds to
`ScanOutcomeOK` that a frame's bytes are in the buffer, so that its last byte has a record. One lemma
per handler composes these (`RawChunkTiming`, `ChunkTiming`, `CaptureTiming`, `ConsumeTiming`).

That the frames do not depend on the chunking is proved from a third invariant, `ChunkInv`: whatever
bytes `y` come next, the frames of everything received with `y` behind it are those handed on so far
and then those of the buffered bytes with `y` behind them (`Continues`); and a call that ended on its
own account left no frame in the buffer (`Settled`). Quantifying over the bytes to come is what makes
it inductive: a chunk moves from `y` into the buffer. Its other half is one fact per detection mode,
that a turn on the buffered bytes is the turn on any longer buffer: it takes the same bytes and the same frame
(`EndResumes`, `StartResumes`, `StartEndResumes`, `FixedResumes`, gathered in `TurnResumes`), and
bytes that the last turn skips are skipped all the same when more have come (`TurnWaits`). `RunExists`,
`RunUnique` and `ExtractGoesOn` turn the recursive function in `ExtractAll` into its unfolding by one
turn. The theorem is `Spec => [](SplitsAnywhere(cfg) => ChunkingIsInvisible)`: the condition excludes a checksum
behind a finish sequence, where the code does depend on the chunking (section 6), and finish sequences of
which one may be taken for the beginning of another. A
single finish sequence of any length meets it, and so do quick plot's three line ends, where the
`"\n"` of a `"\r\n"` that was cut in two is dropped as an empty frame; the other detection modes meet
it with every configuration. The configurations of `frame_reader` meet it (`MCConfigsSplit`).

Theorems: `NoFrameIsDropped`, `BytesAccounted`, `ScanMakesProgress`, `PendingCorrect`, `StampsCorrect`,
`ChunkingCorrect`.

*Ring.* `RingInv` is the shape of storage, head and tail; from it follow the size, the place of a byte
after the mask (`MaskedIs`) and the content as a part of the storage (`Part`). Each operation has a
lemma that it is the queue's: `AppendStep` compares the content after the two copies and the moved head
with the newest bytes of old content and data, byte by byte; `ReadStep` and `DiscardStep` drop from the front
(`PartDrop`). That capacities are powers of two is not needed: that they hold what was asked for, and two
at least, is (`CapacityIsEnough`). The searches are recursive functions without an
induction theorem to cite. For each, the value it should have is written down as a function of the
loop's indices; that this function satisfies the loop's equation shows that the loop has a value, and
the least index at which another solution would differ shows that it is the only one. For
`computeKMPTable` that value is the longest border of each prefix (`Border`), found because the borders of a
prefix are the longest one and its own borders (`BordersChain`), and a longer border continues one
(`BordersGrow`). For `kmpScan` it is the first place of the pattern in a text in which the bytes
matched so far are the pattern's own (`Ahead`), which needs no history of how the loop came there;
`BorderIsEnough` says that a mismatch may fall back to the border and skip nothing. Theorems:
`RingIsByteQueue`, `SearchesAreCorrect`.

*PipelineHost.* `IInv` is `TypeInv` and what each part of the state owes another: a token in the GUI
thread's queue stands for a wait of the processing thread, and there is one at most (`BracketInv`);
the function that runs was dispatched for a call that waits (`WaiterInv`); a reader is in use only
while its thread parses (`ParseInv`); from the start of teardown the GUI thread is within a quit
(`TeardownInv`); a thread that has ended is at rest (`FinishedInv`); readers in use, current or with
chunks ahead of their deletion are alive (`ReaderInv`). That the last edit arrives has an invariant of
its own on top (`StaleInv`): until teardown begins, somebody always carries the project's last
version (`Carried`). It is applied or known to be lost; or an event that brings it is queued for the
processing thread; or that thread is in a sync that will ask for it or holds it; or the GUI thread has
yet to send it, from a queued sync, from the next turn of the one in flight, from one about to be sent
or, deferred, when the script's command ends. It is inductive because a sync on its way to be sent has
the version of now and every call under it waits in a loop that serves events (`FrameInv`), no version
is ahead of the project's (`VersionsPast`), and a queued dispatch is the only one of its call, which
nothing has answered yet, so that its waiter has not left (`CallInv`). Theorems: `ParkedCorrect`,
`WaiterCorrect`, `ReaderCorrect`, `MidFrameCorrect`, `ArrivalCorrect`.

*BlockPipeline.* `IInv` is `TypeInv`; `HandOff`, which says of every holder of a slot (open blocks,
ring, dashboard, drain) that no open block is held by another, that its contents are current and that
recorded samples followed by those still open are the captured ones, in their sessions; and the
parts of flushes and staging: whatever a flush passed over is not open, a boundary finds no block
open, a masked sample finds no unmasked block (`FlushInv`, `StagingInv`, `ScopeInv`). `StagingNeverStarves` is a
pigeonhole argument: the slots referred to are the image of a set that is smaller than the pool
(`ImageBound`, `UnionBound`, `SlotsSuffice`). Theorems: `SlotsCorrect`, `RecordingCorrect`,
`SessionsCorrect`, `PublishedCorrect`, `StagingCorrect`.

*What the dashboard shows.* `DisplayInv` adds to that invariant that the blocks that may still be shown
form a trail (`Trail`): the newest block the dashboard passed over, then the ring, then the open
blocks; each holds samples of its own layout, later than what their source shows, and blocks of one
source follow one another. A trail stays one when a block is dropped anywhere, which is what a full
ring and the time budget do; the builder's operators flush along it or extend its end (`FlushTrail`,
`GrowTrail`, `StoreTrail`), the display tick takes its head (`DrainTrail`, `ShowTrail`). Theorem:
`DisplayCorrect`.

*Connections.* `IInv` says of every device what its driver, its dial and the manager's record of its
open owe one another (`DeviceInv`): it connects exactly while the dial runs and the open is
unanswered, the latch is then armed and the manager waits; it waits for no other device, save one
whose open was overtaken; a device that is gone is closed. Of the session it says what a close leaves
closed until a rebuild that is already queued (`ClosedInv`), and that, unless one is, the state told is
the devices' own (`Told`). The proof follows the layers of the code. A slot of a dialer leaves the dial
as alive as it was or ends it with a verdict (`Follows`); an operator on one device leaves the others'
`DeviceInv` alone (`Only`), and each helper of the manager has a lemma that says what it does to its
device; handlers compose these. Between its helpers a handler is out of the invariant (a verdict
taken but not yet noted, a device dropped but still recorded), so the lemmas are about the operators'
results and not about the invariant alone. `Connect` opens the devices in turn by a recursive function
over their numbers; that it exists, and that every value of it is a session, is shown by induction
over the naturals in the form of a set (`SetInduction` again). Theorems: `InvariantHolds`, `OneVerdict`, `AnswerComes`, `Truthful`,
`StaysClosed`.

*TaskTree.* The properties hold in the middle of a cascade only because of what the calls in progress
have still to do, so the inductive invariant is mostly about the stack. `CallsOK` says what each call
may count on: a task is reported while it runs, its timer off and its children stopped, being swept by the
call right above, or to be stopped by it; a sweep lies over a report or a `cancelled` of its own group;
only a child its parent waits for is started. `NestingOK` says what may lie over what: over a
cancellation only further cancellations, inside the subtree of the task it sweeps or reports; over a loop of starts
only what is below its task and before the child it stands at. `NodesOK` and `OwnerOK` say
where the calls leave tasks and owner: a running task waits for a child, a timer or a signal, unless a
call that stops it is in progress (`AwaitOK`), where the children a parallel group counts include those
its loop will start (`Owed`); what succeeded has succeeded below (`EarnOK`). Numbering by a walk is what
keeps this first-order: a subtree is an interval, and what a loop has passed lies below a bound.

A step is part of a cancellation and starts nothing (`Unwinding`) or is not and starts at most one task
(`Growing`); each kind has lemmas that carry over what the calls below may count on (`StopsKept`,
`NoneRestarts` and those over them), and what a step puts on the stack is checked on its own
(`NewOK`). Then there is one lemma per operation, and for a report one per kind of the parent that hears it. That
a superseded tree is dead needs that no task runs when its root does not: the least running task would
have a running parent (`NoneRuns`). TLC checked the invariant, on these trees and on others drawn at random,
before it was proved. Theorems: `EngineInvariant`, `TypesHold`, `EmitOnceHolds`,
`NothingOutlivesItsParentHolds`, `SuccessIsEarnedHolds`, `SupersededTreeIsDeadHolds`,
`OwnerHearsOnceHolds`, `EveryTaskAwaitsSomethingHolds`.

Only model-checked: liveness (`EveryTransferEnds`, `EndsOrLosesItsTimer`, `EveryRunEnds`,
`EveryWaitEnds`, `EveryDialEnds`), which the prover does not do under fairness. Every safety property
that a passing run checks has a theorem. `ChunkingIsInvisible` has it under the condition
`SplitsAnywhere`, which the run's configurations meet. The delivery theorems are about the code
together with the receivers and lines described in section 2: they say nothing of a device that
stores what it was not sent.

## 6 Where the code and its documentation disagree

Four runs end in a counterexample, with the quoted sentence in `PROJECT.json`:

- `zmodem_stall`: `parseReceivedHeader` stops the timer before it looks at the header. A second
  ZRINIT while ZFILE waits for its answer, or a ZACK, sends nothing and restarts nothing; if the
  answer proper is then lost, the transfer hangs until the user cancels (`ZMODEM.cpp:622`).
- `frame_reader_trailer`: with an end delimiter and a checksum, an empty frame skips delimiter and
  checksum together, also when the checksum is still to come. Its bytes then start the next frame, so
  the frames depend on the chunks (`FrameReader.cpp:477`).
- `block_layout_lost`: a display tick may adopt a new layout before the queued slot that clears the
  dashboard's tables has run. The slot then clears the new ones, the builder counts the layout as
  announced, and the source stays dark until the next change (`Dashboard.cpp:275`).
- `pipeline_stale`: `syncFromProjectModel` looks at the parked flag, and the marshal it makes looks
  again. A script that issues a command in between parks the thread; the snapshot's function runs
  inline on the GUI thread, where `applyProjectSnapshot` refuses it, and nothing remembers the edit
  (`FrameBuilder.cpp:742`). `StaleOnlyIfLost` states what remains true.

Noted while modelling, without a run of their own:

- XMODEM: one retry counter serves every wait. Timeouts before the receiver asks for the file count
  against the first block's retries (`XMODEM.cpp:368`), which
  `src/doc/help/File-Transmission.md:60` describes as "per block".
- ZMODEM: a ZRPOS neither counts a retry nor clears one (`ZMODEM.cpp:608`), so a line that damages
  every stream is retried for as long as the device asks.
- ZMODEM: `SS_ASSERT_LOG(m_fileSize > 0)` (`ZMODEM.cpp:503`) logs for an empty file, which
  `tst_zmodem.cpp` (`emptyFileCompletesWithoutADataSubpacket`) nevertheless completes.
- ZMODEM: a skipped file ends as a success (`ZMODEM.cpp:646`); `SuccessMeansDelivered` says so.
- A read error ends a transfer without a cancel to the device (`ZMODEM.cpp:536`, `XMODEM.cpp:150`),
  which may then be within the old file when the next transfer starts. ZMODEM takes a ZRPOS in every
  state, also before it has named the new file. The link models start a transfer only once the device
  has given the old file up.
- A NAK of EOT resends it without `protocolError` and without counting a retry
  (`XMODEM.cpp:185`; `Protocol.h:32` describes the signal as one per error).
- `RetryTask::attempt()` is documented as zero when idle (`TaskTree.cpp:509`), but keeps its value
  after the last failure and after a cancel.
- A layout and its first block that are both published between the two drains of one tick
  put the block ahead of its layout (`PipelineHost.cpp:581`, `Dashboard.cpp:391`). The block is
  dropped as unknown; later ones are shown. `DisplayFollowsLayout` confirms that it is never shown
  under the wrong layout.
- A full structure ring drops a layout that is then marked as announced (`PipelineHost.cpp:568`,
  `FrameBuilder.cpp:207`).
- The pool's headroom of eight slots covers six sources; with more, staging may find no slot
  (`BlockStager.cpp:119`). `StagingNeverStarves` carries the exact condition.
- When the link drops and returns within one turn of the event loop, a frame in flight between the
  two may leave a layout announced that the dashboard has cleared. `QuickReconnect` allows
  that order in `block_pipeline`; `block_layout_lost`, where it would show too, excludes it.
- Replay: `publishReplayValues` stages rows under the mask without flushing each, although its comment
  says "flushes it immediately" (`FrameBuilder.cpp:2635`, against 2648-2655), and does not flush an
  open block first as `emitRepublishedFrame` does. It relies on the players, which release the link
  before they open, for what `StagingInv` says of the modelled entry points: a sample staged under
  the mask never finds an unmasked block open.
- YMODEM: a NAK of the header is ignored (`YMODEM.cpp:93`), so a damaged header is repeated only
  after the whole timeout. CAN is ignored in every wait but those for the header's and a block's
  answer. A receiver that acknowledges the second EOT but does not ask for another header makes the
  transfer fail with the file delivered.
- Cross-thread calls: an exit that reaches a nested wait while the call it waits for waits for the GUI
  thread never returns (`PipelineHost.h:107`, against "deadlock-free by protocol" at 245). A function
  that marshals itself to the processing thread (`FrameParser.cpp:671`, 638, 609,
  `FrameBuilder.cpp:2799`), called while that thread is parked, runs inline, finds itself on the wrong
  thread and marshals itself again without end (`ScriptApiCall.cpp:313`). Both are `Stuck`, which
  `EveryWaitEnds` lets through by name.
- A deferred snapshot may be applied after a newer one that a queued sync collected
  (`ExternalWiring.cpp:157`); `StaleOnlyIfLost` counts it as lost.
- Connections: opening a device again while it dials (`IOManagerHandler.cpp:257`) gives two verdicts if
  the second open fails at once (against `ConnectionManager.cpp:1201`); `OneVerdictPerAttempt` exempts
  it as `overtaken`. A change of bus does not forget the primary device's failure
  (`ConnectFanOut.cpp:177`), which `ToldIsTrue` exempts. A late answer of an earlier attempt's lookup
  is taken by the current one (`AsyncTcpDial.cpp:236`, against 229-232).
- Connections: the queued reconnect after a rebuild resumes a paused session (against
  `ConnectionManager.cpp:849`), reopens devices the user has closed in between, and is dropped by a
  rebuild during its own dial. A rebuild that the entitlement gate defers waits for
  `disconnectDevice()` and is not released by a dial that fails (`EntitlementGate.cpp:269`).
  `connectDevice` concludes its request in the turn it was made in, although its comment names the
  verdict (`ConnectionManager.cpp:556`).

## 7 What is not modelled

Beyond the components listed as not modelled in `PROJECT.json`:

- `BlockPipeline`: replay (`publishReplayValues`, `replayBlock`), stream-lane sources, Quick Plot,
  the reset on `projectFileChanged`; the calls that bring the project over are `PipelineHost`'s. A
  structure ring smaller than the number of layouts is outside the runs. One recording runs
  throughout; its workers and files are not there. Values are sample identities: parsing and transforms are left out.
- `FrameReader`: Quick Plot's default delimiters and console-only mode (which does nothing);
  `resetDiagnosticCounters`, which nothing calls. The pool of captured-data objects is storage only.
- `CircularBuffer`: vector instructions and memory locking; their results are the scalar ones.
- `XModem`, `YModem`, `ZModem`: a file that changes while it is sent. `ZModem`: the bytes of a header
  one by one, and raw CAN bytes, which the code's parser does not recognise either.
- `XModemLink`: an answer later than the timeout.
- `ZModemLink`: the loss without a trace of a ZDATA header within a frame (section 2).
- `FileTransmission`: plain text and raw binary sending, the file dialog, speed, log and settings; its
  ZMODEM mode, which stops, starts and routes as the others do, is `ZModemLink` instead.
- `PipelineHost`: several devices and readers at once beyond a reader's replacement; the functions that
  call across threads other than the two kinds named above.
- `AsyncTcpDial`, `Connections`: `startProbe`, `startResolve` and `setProbeEnabled`; the pause of a
  session, stream workers, the licence gates, drivers other than TCP and UART, UART's connection
  sequence, a driver that cannot be made in a rebuild, and the routing of data.
- `TaskTree`: durations; a call of `run()` from within the slot of `finished()` or from an invoked
  function, which no owner makes.

## 8 Plan

The safety properties that the runs check are all proved. What remains extends the model; in order of
importance, each item with its runs and, where named, its proofs.

1. `BlockPipeline`: the replay entry points and their players; a structure ring smaller than the number of sources.
2. `Connections`: the pause of a session and the licence gates; UART's sequence on top of `TaskTree`.
3. An abstract delivery specification that both links implement; the ZMODEM mode under
   `FileTransmission`.
4. `PipelineHost`: several devices; composition with `FrameReader`'s call order.
5. The stream lane (worker pool, per-source queues).
6. `MessageBus`: delivery against unsubscription and destruction; `LatestFrameTap` and the table
   snapshots as single-slot channels.
7. `ProjectHistory` (undo and redo), CAN reassembly, IEC 104 windows, the MQTT and Sparkplug
   sequences.

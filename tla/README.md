# Verification of eventr

TLA+ modules, TLC runs and TLAPS proofs for the eventr engine. An eventr process
runs one pipeline per config file. A pipeline is an acyclic graph of sources,
transforms and sinks joined by bounded edges; its stages are goroutines, its
edges are channels with an optional write-ahead log on disk, and a source learns
from an `Ack` whether a message it produced was dealt with.

Paths below are relative to `src/` of the repository. `PROJECT.json` maps every
definition to the lines it models, and lists runs, findings and hazards.

1. [Inventory](#1-inventory)
2. [Modules](#2-modules)
3. [Runs](#3-runs)
4. [Findings](#4-findings)
5. [Proofs](#5-proofs)
6. [What is not modelled](#6-what-is-not-modelled)
7. [Plan](#7-plan)

## 1. Inventory

| Component | Code | State it keeps | Operations |
|---|---|---|---|
| dispatch and ack tree | `internal/engine/pipeline.go`, `dispatch.go`, `inflight.go`, `errormode.go` | `Pipeline.inflight`; the ack closure of each message, with the counter and the first error of `dispatchFrom` and `ackAggregator` | `runSource`, `acquireInflight`, `dispatchFrom`, `matchEdges`, `runTransform`, `dispatchTransformOutputs`, `Message.Ack`, `releaseInflight`, `OnAck` |
| edge buffer | `internal/buffer/edge.go` | channels `mem` and `out`, `closed`, the message the drain goroutine holds | `Enqueue`, `sendToMemory`, `handleDiskFull`, `drainLoop`, `emit`, `Close`; the fan-in goroutine of the stage behind it |
| write-ahead log | `internal/buffer/disk.go`, `wal.go` | segment files, `consumer.offset`, current and read segment, read offset, `totalSize` | `NewDiskWAL`, `Append`, `ReadNext`, `Pending`, `persistOffset`, `Close` |
| sink stage | `internal/engine/pipeline.go` (`runSink`, `flushSinkBatch`, `writeWithRetry`) | `ingress`, the batch and its timer, `writeCh`, the writers | collect, flush by size, timeout or cancellation, write, retry, DLQ, ack |
| engine and hot reload | `internal/engine/engine.go`, `reload.go`, `admin.go`, `cmd/eventr/main.go` | `pipelines`, `configPaths`, `reloading`, the tasks, the health checker's list | `Load`, `Start`, `Stop`, `BeginReload`, `BeginReloadAll`, `swapPipeline`, `refreshHealthChecker` |
| topology and workers | `internal/topology`, `internal/config/normalize.go`, `internal/engine/workers.go` | none between calls; the marks of the depth-first search | `NormalizeSteps`, `Validate`, `detectCycle`, `allocateTransformWorkers` |
| pipeline start and stop | `internal/engine/pipeline.go`, `graph.go` | `cancel`, the wait groups, the runtime graph | `NewPipeline`, `Start`, `run`, `Stop` |
| Kafka source | `plugins/source/kafka` | the reader, `pending`; the offset committed at the broker | `Init`, `Consume`, `OnAck`, `Stop` |
| message | `internal/message`; the assignments of `internal/eql` | payload, metadata, parsed data with its flags, original payload, `ackFn` | `ShallowCopy`, `EnsureWritable`, `SetParsedData`, `BackupOriginalPayload`, `SetAckFn`, `WrapAckFn` |
| transforms | `plugins/transform` (map, filter, route) | none; they share the maps of a message with its other branches | `Process` |
| other plugins | `plugins/` | clients of services, a ticker, an HTTP server | `Consume`, `Write` |
| config, EQL, codecs, registry, observability, test runner | the rest of `internal/` | little or none | parsing, evaluation, reporting |

**How they interact.** A source plugin writes to a channel that `runSource` reads.
`runSource` waits for an inflight slot and calls `dispatchFrom`, which evaluates
the conditions of the out-edges and calls `Enqueue` on those that match. The
drain goroutine of the edge moves messages on to `out`; a fan-in goroutine of the
next stage takes them. A transform worker calls `dispatchFrom` again for every
output; a sink gathers batches and writes them. Whoever finishes a branch calls
`Ack`; the closures count the branches down and end in `releaseInflight` and the
source's `OnAck`. `Stop` cancels one context that every loop selects on. The
engine holds the pipelines; main, the SIGHUP goroutine, HTTP handlers and the
goroutine of every accepted reload share it under `Engine.mu`.

**What is hard about it, and what would make each part correct.**

* *Dispatch.* Branches of one message end in different goroutines at the same
  time, a goroutine may hold a message in each of several nested calls, a drop
  strategy acks somebody else's message, and a cancellation may come anywhere.
  Correct means: the source hears of a message once, only after every branch has
  ended, with an error exactly if a branch failed; the slots in use are the
  messages in flight; every accepted message is acked in the end.
* *Edge.* `Enqueue` decides on the length of a channel and acts later; drain
  goroutine, producers and eviction share `mem` and the log. Correct means: no
  message is lost, duplicated or acked while it goes on; order is kept where it is
  promised; nobody waits for ever.
* *Write-ahead log.* Reader and writer meet in a segment that is deleted when it
  is read to its end; a process may stop inside each method. Correct means:
  across restarts nothing accepted is skipped, repeated or reordered, the size
  limit is respected and a full log becomes usable again.
* *Sink stage.* Size, timeout and cancellation race for the batch; several
  writers and, after a cancellation, the collector write. Correct means: each
  message is written at most once per stage and attempt, its Ack tells what
  happened, order is kept with one writer, no message waits in a short batch for
  ever, and a stop ends.
* *Reload.* Reloads overlap each other, the start and the shutdown; each step may
  fail. Correct means: one pipeline of a name at a time, every running pipeline
  known to the engine, a success that is complete, flags that are released.
* *Topology.* Validation runs in the order of Go's maps. Correct means: the
  verdict depends on the graph only, and the workers add up.
* *Start, stop and the Kafka source.* A start may fail half way, a stop may come
  at any moment, time out and be repeated, while `Consume`, `runSource`, the acks
  and their commits go on. Correct means: nothing that was fetched is forgotten
  while the pipeline runs, what is committed was handled, things are taken down
  in an order in which nobody uses what is gone, and a stop ends.
* *Message data.* The branches of a message run in different goroutines and
  share Go maps, the parsed payload and those inside `Metadata`. Correct means: no
  branch sees what another one writes, no map is written while somebody else is in
  it, and the dead letter queue gets the payload the source delivered.

`PROJECT.json` lists under `hazards` the places where these bite, with the
properties that would show it. Differences between the documents and the code
that need no exploration are in section 4.

## 2. Modules

| Module | Models | Uses |
|---|---|---|
| `AckContract` | what the engine promises a source: one slot, one release, one report | |
| `FifoLog` | what a log promises an edge: a queue that loses nothing but in a power failure, and then nothing that was synced | |
| `Dispatch` | the life of a message from `runSource` to `OnAck` in any topology | refines `AckContract` |
| `DiskWAL` | the operations of the log | |
| `DiskWALCrash` | a process that stops and restarts around the log, and power failures | `EXTENDS DiskWAL`, refines `FifoLog` |
| `EdgeInbound` | one edge with its producers, their slots, its log and the fan-in behind it | `EXTENDS DiskWAL` |
| `SinkStage` | the goroutines of one sink, under the inflight limit | |
| `KafkaSource` | `Consume`, `runSource`, the limit, `OnAck` and the commits | `EXTENDS AckContract` |
| `PipelineLife` | Start, run and Stop of one Pipeline after another, fed by the Kafka source | `EXTENDS KafkaSource` |
| `MessageData` | what the branches of one message share, and the transforms that write to it | |
| `Reload` | main, the reload requests and the life of the pipelines | |
| `Topology` | normalisation, validation and worker allocation | |
| `DispatchProofs`, `ReloadProofs`, `DiskWALCrashProofs`, `EdgeInboundProofs`, `SinkStageProofs`, `PipelineLifeProofs`, `MessageDataProofs`, `TopologyProofs` | theorems about the module each is named after | `EXTENDS` it |
| `MCDispatch`, `MCEdgeInbound`, `MCSinkStage`, `MCMessageData`, `MCReload`, `MCTopology` | instances for TLC | |

**Dispatch.** A message pointer is named by its origin: the message it is a
branch of, and the edge or the transform output it was made for. `at[m]` says in
which call a message is and which goroutine runs that call, so the call stack of a
goroutine is the set of messages it holds (`HeldBy`). `AcksReturned` and
`SendsReturned` are what sequential code means for that set: an `Ack` returns
before the next send, the sends of one dispatch end before the next output is
dispatched. One action per step of the code: `Receive`, `Acquire`,
`AcquireCancelled` (runSource), `Dispatch`, `Unmatched` (dispatchFrom and
matchEdges, with the Ack matchEdges makes itself), `Send...` (Enqueue),
`Take`, `Process...`, `Write` (the stages), `AckBranch`, `ReleaseInflight`,
`OnAck` (the closures), `Cancel`, `Exit`, `ForwarderCancelled` (Stop). The closure
of a branch stores the error with a compare-and-swap and then decrements; the
store is followed by this goroutine's own decrement, and the stored value is
read only by the goroutine that brings the counter to zero, so the two are one
step. The order inside an edge is left open here, and so are batching and
retries; `EdgeInbound` and `SinkStage` have them. `Slack` is the room an edge has
beyond `mem`, in its drain and fan-in goroutines.

**DiskWAL, DiskWALCrash.** A segment is a sequence of records of size one; `Cut`
is a record of which only some writes were made, `Torn` one that was torn inside
a write. At the end of a segment the first decodes as end of file; the second, and
the first with more behind it, is an error on which `drainLoop` returns (edge.go:175),
in this process and, the offset being what it was, in every later one. The reader is
`drainLoop`, which calls `ReadNext` until it finds nothing and then waits for `mem`
(`asleep`, edge.go:186-191); what may come through `mem` wakes it (`Wake`). A producer
that drops the oldest record calls `ReadNext` at any time. All methods hold `w.mu`, so each is one step, but `ReadNext`
is cut where a stop can tear it: between `os.Remove` and the new offset.
`DiskWALCrash` stops the process between calls (`Halt`), by `Close`, inside
`Append`, inside that deletion or inside the write of the offset file;
`PowerFails` also takes some of what `synced` does not count from the end of each
segment; `Restart` is `NewDiskWAL` on what is left. `WriteFails` is an Append whose
write fails in a process that goes on: part of a record may stay in the segment, not
counted in `size` and `total`, and the caller tries the message again or drops it. `firm` are the unread messages
a sync came after, in the process that appended them: `fsyncLocked` syncs the
segment being written only, and a process that starts opens a new one.

**EdgeInbound.** `prod[p]` is the place in `Enqueue` where producer `p` is;
`drain` the place in `drainLoop`. `DropOldest` is two steps, as in the code: the
victim is picked after the producer found `mem` full, and by then the drain
goroutine may have emptied it. A message read back from disk has no `ackFn`
(`spilled`).

**SinkStage.** The forwarder of the inbound edge, the collector, `writeCh` and
its writers; `Flushing(x)` is `flushSinkBatch` with `writeWithRetry`, by a writer
or, after a cancellation, by the collector. `timer` tells an expired timer that
found an empty batch (`idle`) from one that is armed: the difference is the
condition of `Handled`. The edge delivers while the inflight limit leaves slots
(`HasSlot`), so that a batch above the limit can starve.

**KafkaSource, PipelineLife.** One partition, whose messages are their offsets.
`consume`, `runner`, `graph`, `drain` and `run` are goroutines, `step` is where
Start or Stop is. `SourceDone` may be taken while messages lie in `out`, for a
`select` picks any ready case. The graph behind the source is `AckContract`:
`Settle` releases a message with either result at any time, in the order of the
source if `ordered`. `OnAck` is `Hear` and, after the unlock, `Commit`, which the
broker may refuse; a commit overwrites the one before, also a later one. A Pipeline
object is one session. `Replaced` is `swapPipeline` inside a process, `Restart` a
crash or an exit and a new process, which forgets everything except the
committed offset. `orphan` says that the reader of a Pipeline whose Start failed
is still open. Stop begins after Start has returned; `Reload` has the stops that
come too early.

**MessageData.** The message leaves a stage over two edges. A payload is the set
of the writers whose values are in it, so that what a branch sends tells whose
assignments it saw; `blank` is a payload that is nil. `msg[b].data` says whether
`parsedData` is the map all copies point to, one of the branch's own, or the map
that was `Metadata` (`payload = metadata`), and `msg[b].local` the same of the map
the evaluation context holds: `EnsureWritable` changes the first and not the second.
`tags` is a map inside `Metadata` that was there when the message was copied;
`shallowCopyMap` copies the outer map only, so all branches have it. `looks` are the
branches whose expressions read it. An access to a map is a phase (`pc`), two phases
that overlap, one of them a write, are a race, and a race may end the process
(`Fatal`). Maps inside the payload count as one with the map they are in. One map
transform has one statement.

**Reload.** A pipeline object is `<<name, maker>>`; `life` says whether it is new,
running, draining or down. A config file may be edited between two readings, so
each reading finds it valid or not. The check of all configs of a request is one
step; so are clearing the last flag and reporting the task's end. The pipeline of
a failed `Start` is dropped from the model (its initialised stages are not
stopped by the code; `PipelineLife` has it). How long the goroutines of a stopped
pipeline take is open: `StopTimedOut` is always possible while they run.

**Topology.** The search is modelled visit by visit with an explicit stack, the
other rules as the sets they compute. `hasSourceToSinkPath` is modelled
(`CheckPath`) and never refuses anything: once every stage has an edge coming in
and there is no cycle, a source reaches a sink. The last correction in
`allocateTransformWorkers` never applies either.

## 3. Runs

`tlc -config <cfg> <module>`. Passing runs check several properties of one
instance; a violation run checks one statement of the documentation, which the code
contradicts, and ends with a trace.

| Run | Instance | Properties | States |
|---|---|---|---|
| `dispatch_stop` | one source, two sinks, drop edges, one condition that may fail, two messages, cancellation at any moment | `AckOnce`, `InflightAccounting`, `KeepsContract` | 118 197 |
| `dispatch_split` | a transform with two workers that fails, filters, passes on or splits in up to two outputs, each to two edges | `NoEarlyAck`, `BranchAccounting`, `ErrorReported`, `MeetsContract` | 7 935 |
| `dispatch_propagate` | two messages and one slot, required conditions under `error_mode: propagate`, cancellation | `Completion` | 60 605 |
| `dispatch_limit` | the same mode without a transform, three messages | `InflightLimit` (violated) | |
| `wal_log` | four messages, segments of two, log of three, one failed write, two stops of any kind anywhere | `TypeOK`, `IsQueue`, `AllRead`, `RoomAgain` | 141 591 |
| `edge_all` | every type, strategy and next stage, one place per channel or two, with and without a limit of two slots; two producers with three messages, two one-record segments | `OnePlace`, `AckedWhenGone`, `FIFO`, `NewestSurvive`, `Arrives`, `DrainStops` | 373 383 |
| `sink_all` | three messages; batches of one to three, one and two writers, with and without timeout, retry, DLQ; no limit, limits of one and two | `OnePlace`, `AckTruth`, `Ordered`, `Handled`, `StopEnds` | 187 287 |
| `life` | two messages, one slot, a channel of one place, two Pipelines of one process or two, started from main or not, acks in order or not | `OnePlace`, `CommitTruth`, `StopOrder`, `Redelivered`, `StopEnds` | 109 666 |
| `life_watermark` | two messages, two slots, one Pipeline | `LowWatermark` (violated) | |
| `cow` | two branches, ten paths of transforms, four kinds of stage before them, with and without payload, decoder, encoders and expressions that look inside `Metadata` | `Isolated`, `OwnFields` | 1 030 373 |
| `reload_all` | two pipelines, one or both with a config path, two reloads at any time from boot to exit | `TypeOK`, `FlagsAreLocks`, `AtMostOne`, `NoOrphans`, `SuccessIsComplete`, `InService`, `HealthCurrent`, `ReloadEnds` | 365 643 |
| `topology_all` | every kind of step with unknown and repeated ids; every graph on three transforms; every distribution of workers | `VerdictRight`, `WorkersShared` | 109 531 |

`OnePlace` and `VerdictRight` include the type invariant of their module; that of
`Dispatch` is proved (section 5).

**Why the bounds are enough.**

* *Dispatch.* Two branches of a message suffice for every race of the counter and
  of the first error; two outputs with two edges each give the nesting of
  aggregator and fan-out. Two messages contend for one slot, three make the excess
  of the double Ack visible. Edges have one place and `Slack` 0, so that they are
  full often; the size of an edge does not occur in the invariants.
* *Log.* Two records per segment give first and last positions; three records of
  space give a full segment and one being written; four messages with two stops
  make several segments and deletions and a reused segment name; the second stop
  hits the state the first one left. A power failure takes effect on two segments
  at once. One failed write, with whole messages before it and behind it, gives each
  place a cut record can have. `MaxSize` is larger than `SegCap`: with both equal the
  log stays full for ever (hazard at `disk.go:143`).
* *Edge.* One producer with two messages for order, a second one for races about
  the same place; channels of one place, which are full often, and of two: only a
  `mem` that holds two messages of a producer can give up the wrong one; one-record
  segments, so that each read reaches the end of a segment and deletes it. Two slots
  for three messages: with one in the log there is a slot left, with two there is none.
* *Sink.* Three messages fill one batch of two and leave a short one, or three
  batches of one with two writers and the collector; a batch of three can be flushed
  short by the timer and go on filling. A limit of one below a batch
  of two starves it, a limit of two just fills it.
* *Life.* Two messages are the least that can be acked out of order or be
  committed over; one slot and one place in `out` put one message in the hand of
  `runSource`, one in `out` or in the hand of `Consume`. Two Pipelines let the
  second one see what the first left behind at the broker and in the process.
* *Message data.* Two branches make every race; a path of two transforms has each
  order that matters (something that gives the branch its own map before or after
  an assignment, something that only reads before it, and an assignment that leads
  into `Metadata` because the payload has become that).
* *Reload.* Two names tell a reload of one from a reload of all; two requests
  overlap, follow each other, fail and refuse each other.
* *Topology.* Three inner stages have self loops, two- and three-cycles,
  diamonds and unreachable cycles; all 512 graphs on them are explored, in every
  order of the maps.

**Deadlock** is checked where the system must be able to go on: in the dispatch,
reload, topology and message data runs, whose modules say with `Terminated`,
`Decided` or `Over` when there is nothing left to do. In the log, edge, sink and
life runs the environment may have nothing more to send, and the number of
messages or Pipelines is bounded, so every end state is legal there and the
liveness properties say what must have happened by then.

**Fairness.** Weak fairness of a goroutine's steps is what the Go scheduler
gives: a goroutine that can run does. The log has one reader that keeps calling,
`drainLoop`, and only while it does not wait for `mem`: `Reading` of `DiskWALCrash`
is fair as long as it is not `asleep`, and `Wake` need not happen. A pipeline that is
cancelled ends the loop and closes the log, which is a stop there. Strong fairness is used for single cases of
a `select` (`DrainMem`, `OnTimer`, `OnDone`): Go chooses at random among the ready
cases, so a case that is ready again and again is not passed over for ever. There
is no fairness on the environment: nothing need be appended to the log, nobody
need cancel, signal or ask for a reload, no Init, fetch or commit need fail, and
in `Reload` the goroutines of a stopped pipeline may hang (`GoroutinesReturn`). The
messages of a model do come (`Forward` of `SinkStage`, the producers of an edge),
since `Handled` and `Arrives` speak of them; the next stage acks what it was given
(`Finish`); and a stopped log is started again, since `AllRead` speaks of restarts.
In `PipelineLife` a Start or a Stop that has begun goes on, its goroutines run, and
the graph settles what it accepted as long as ctx is not done, as `Completion` and
`MeetsContract` show of `Dispatch`; what ctx.Done leaves in channels need not be
acked. A broker gives a partition to the one reader that is open; beside an orphan
it may never (`Starving`). A plugin call
(`Process`, `Write`) is assumed to return; the code sets no deadline for it.

**Refinement.** `KeepsContract` and `MeetsContract` say that `Dispatch`
implements `AckContract`, the second with its fairness. The mapping reads the
state of a source message: *new* until it holds a slot, *open* until its closure
runs, *released* between `releaseInflight` and `OnAck`, *reported* afterwards.
`KafkaSource` uses the contract in the place of the graph. `IsQueue` says that
`DiskWALCrash` implements `FifoLog`. Messages are numbered in the order of their
Appends, so the queue is the set of those still to be returned (`Unread`): the records
ahead of the read position, over all segments, without cut and torn ones. What is
safe in it is `firm`, what was taken is what `ReadNext` returned, and `outages`
counts the stops since the power first failed. Only a step that adds to `outages` may
lose something: appends, rotations, deletions, stops without a power failure,
restarts and reads that find nothing must all be steps of a queue or invisible.

**Conditions inside properties.** Some properties carry a condition because the
code does less than one may expect; each is a hazard with its line, and each is
as narrow as TLC allows: without it, there is a trace.

* `AllRead` and `RoomAgain` promise nothing while `drainLoop` is asleep: what is
  appended then stays until a restart, or until something comes through `mem`.
* `IsQueue` and `AllRead` end with a stop inside a deletion or inside the write of
  the offset file (`OffsetSound`), `AllRead` and `RoomAgain` at a record torn inside
  a write or left unfinished by a failed one (`Stuck`); `TypeOK` allows the size counter
  to miss what a failed write left (`Slip`).
* `Arrives` excepts a log whose drain goroutine waits at an empty `mem` (`Asleep`),
  and the state in which every slot is held by a message that went through the log
  (`SlotsLost`). `FIFO` excludes overflow edges, `DrainStops` a log that is still
  pending.
* `Ordered` ends with the cancellation. `Handled` excepts a short batch while no
  timer is armed and nothing more can come (`Starved`).
* `Redelivered` speaks of a Pipeline that stays up with a live `Consume` (`Serving`),
  and excepts messages that were committed over or that failed in it.
  `StopOrder` excepts the reader of a Start that failed. The second half of
  `CommitTruth` holds where acks come in the order of the source.
* Where a document says something else than what the code does, the property demands
  neither: `ErrorReported` leaves open whether the source hears of a failure behind a
  best-effort edge, `AckTruth` whether a batch whose retry a stop interrupted is
  offered to the DLQ, `VerdictRight` whether a config with an isolated stage is
  accepted, `FlagsAreLocks` whether the flags of the names stay set that a reload of all
  leaves when it meets a missing config path or a config that does not load
  (`Abandoned`). Section 4 says what the code does there.
* `Isolated` excepts a branch that sends from the shared map (`Relies`) while another
  branch assigns into it (`Intrudes`), if the message was parsed before it was copied
  (`AtFanOut`); and one that copies the map inside `Metadata` into its payload
  (`Borrows`) while another one assigns into that (`Marks`). The process may end in the
  first case, or where one branch assigns into that map and another one reads,
  marshals, copies or changes it (`Touches`).
* `OwnFields` speaks of the original payload only if the source delivered one: a nil
  one is not backed up (section 4).
* `AtMostOne` and `NoOrphans` exclude a pipeline that a reload stopped before
  `Engine.Start` came to start it. `HealthCurrent` excludes overlapping reloads.

## 4. Findings

| Run | The documentation says | The code does |
|---|---|---|
| `dispatch_limit` | `max_inflight` bounds the messages in flight | a failed required condition under `propagate` acks twice, so a slot is released twice |
| `life_watermark` | the Kafka source commits a low watermark per partition | each acked offset is committed by itself, so a commit passes an earlier message that is still open or failed, and a restart does not fetch it again |

Further differences between documents and code, met while modelling. No run states
them; the first seven are inside what a model explores, and the property named leaves
the case open, so that no run takes the side of either.

* `docs/configurations.md:512` says of `required: false` that it makes a best-effort
  edge, behind which a failure does not block the Ack upstream. `dispatchFrom` counts
  every matched edge alike and stores the first error of any of them
  (`pipeline.go:411-427`); the flag is read only where a condition fails to evaluate
  (`pipeline.go:445`). A Kafka message that every required branch delivered is not
  committed when the best-effort one fails (`ErrorReported`; edge `e3` of
  `dispatch_split`).
* `eventr-design.md:641` says that messages in flight at a stop are no errors and do not
  go to the DLQ. `writeWithRetry` returns `ctx.Err()` like any failure
  (`pipeline.go:682`) and `flushSinkBatch` hands the batch to `deliverToDLQ`
  (`AckTruth`; such a message is acked with `stop` in the model).
* `eventr-design.md:686` explains a 409 as a reload in progress. A reload of all that
  meets a name without config path, or breaks off at a config that does not load,
  leaves flags behind (`reload.go:171`, `:212-215`): these names answer 409 until the
  process restarts, with no reload in progress (`FlagsAreLocks`, `Abandoned`).
* `eventr-design.md:1640` has `Validate` refuse isolated nodes. It asks for an edge into
  every stage that is not a source (`validate.go:65-69`), so a source without edges is
  accepted beside a connected pipeline; its messages match no edge and are acked nil
  (`pipeline.go:402-404`), that is, they vanish (`VerdictRight`, `Connected`). Nor does
  it refuse a `payload.*` reference where no decoder is configured, which `:1645`
  demands; that rule is about expressions, which `Topology` does not have.
* `eventr-design.md:164` says that parsed data is shared for reading and cloned at the
  first write. `EnsureWritable` gives the message a map of its own, but
  `AssignStmt.Execute` writes to the shared one it read before and makes that the parsed
  data again (`eql.go:184-205`). Two branches may send each other's values, or end the
  process with concurrent map accesses (`Isolated`, `AtFanOut`).
* A map inside `Metadata` is shared by all copies (`message.go:87-96`) and written in
  place (`eql.go:264-281`): an assignment to `metadata.a.b` on one branch meets whatever
  reads `metadata.a.b`, marshals `payload = metadata` or assigns there on another
  (`Isolated`, `Marks` and `Touches`).
* `eventr-design.md:610` promises the DLQ the bytes that entered the pipeline. The backup
  takes nil for "not made yet" (`message.go:142`, `:148`), and the Kafka source hands on
  a nil payload for an empty value (`kafka.go:93`): once a map has made a payload of
  it, the DLQ gets that one (`OwnFields`, `empty`).
* `delivery.dlq` is not read (`docs/configurations.md:533`), and the first inbound
  edge with a delivery decides for all messages of a sink (`pipeline.go:654`).
* `Stop` cancels first and waits afterwards; the drain of
  `eventr-design.md:629-652` is not implemented.
* A reload of all does not compare the name in the config with the pipeline's
  (`reload.go:216`).
* A reload during the shutdown leaves a pipeline that nobody stops; a reload
  during the start may let `Engine.Start` fail on a pipeline that already runs.
* A listing of the pipelines shows one as running whose reload failed
  (`reload.go:88`).
* `allocateTransformWorkers` gives some transforms none when there are fewer
  workers than transforms (three for four: 2, 1, 0, 0), and may give more than a
  transform asked for.
* Two edges with the same ends pass `Validate` and share the last condition and the
  last buffer (`graph.go:87`).
* The log persists its offset when a message is read (`disk.go:137`), not when it is
  acked: what was read and not yet written when the process stops is not
  processed again (`eventr-design.md:731`).
* The drain goroutine of a disk edge waits on `mem`, which no producer of such an
  edge uses, and does not look at the log again (`edge.go:187`): a disk edge does not
  decouple source and sink (`eventr-design.md:733`) but stops.
* A message that went through the log is acked to nobody (`edge.go:174`): its slot
  is lost, and a Kafka source never commits it.
* A batch timer that expires on an empty batch is not armed again
  (`pipeline.go:599`), although a short batch is to be flushed at the timeout
  (`docs/configurations.md:363`).
* A commit may set the offset back: acks of offset 1 and then 0 leave 1 as the
  next offset to fetch. A failed message stays in `pending` and is fetched again
  only by another Pipeline, if no later commit has passed it
  (`eventr-design.md:518`).
* `Stop` closes the reader first; messages that are acked while the rest stops
  cannot be committed any more and come again after the restart.
* When `FetchMessage` returns an error, `Consume` ends for good and `runSource` drops
  the error (`pipeline.go:327`); the pipeline stays up without a source.
* A Start that fails leaves the stages initialised before it open
  (`pipeline.go:160`).
* `ensureParsed` calls `SetParsedData`, which marks the message as changed
  (`message.go:120`), so that a message a stage only looked at is encoded again;
  `parsedDirty` is documented as "modified by a transform"
  (`eventr-design.md:162`).
* The HTTP source answers 202 when a message is in the channel of `runSource`
  (`httpserver.go:88`); a stop may leave it there.

## 5. Proofs

`tlapm` checks every obligation of the eight modules named `...Proofs`. Every safety
property that a run checks is stated by a theorem. All theorems hold for every value of the constants that the named
assumptions of the model allow. The properties are those of the runs (section 3);
each proof rests on an inductive invariant, `IInv` in most modules, which is
described below. Lemmas say of each step that it keeps a part of it.

| Module | Theorem | Property |
|---|---|---|
| `DispatchProofs` | `TypeCorrect`, `AckedOnce`, `InflightCounted`, `BranchesAccounted` | `TypeOK`, `AckOnce`, `InflightAccounting`, `BranchAccounting` |
| | `NothingAckedEarly`, `ErrorsReachTheSource`, `LimitHolds` | `NoEarlyAck`, `ErrorReported`, `InflightLimit` |
| | `ImplementsContract` | `KeepsContract` |
| `DiskWALCrashProofs` | `ImplementsQueue`, `TypeCorrect` | `IsQueue`, `TypeOK` |
| `EdgeInboundProofs` | `NothingLostOrDoubled`, `AcksMeanGivenUp`, `OrderKept`, `OldestGoFirst` | `OnePlace`, `AckedWhenGone`, `FIFO`, `NewestSurvive` |
| `SinkStageProofs` | `HeldOnce`, `AcksAreTrue`, `OneWriterKeepsOrder` | `OnePlace`, `AckTruth`, `Ordered` |
| `PipelineLifeProofs` | `StopsInOrder`, `FetchedIsInOnePlace`, `CommitsAreTrue` | `StopOrder`, `OnePlace`, `CommitTruth` |
| `MessageDataProofs` | `BranchesAreIsolated`, `BranchesKeepTheirFields` | `Isolated`, `OwnFields` |
| `ReloadProofs` | `TypeCorrect`, `FlagsLock`, `OnePipeline`, `NothingRunsUnseen` | `TypeOK`, `FlagsAreLocks`, `AtMostOne`, `NoOrphans` |
| | `SuccessMeansAll`, `AlwaysInService`, `CheckerIsCurrent` | `SuccessIsComplete`, `InService`, `HealthCurrent` |
| `TopologyProofs` | `VerdictIsRight`, `WorkersAreShared` | `VerdictRight`, `WorkersShared` |

**Dispatch**, for every topology, strategy, capacity, number of goroutines,
messages and outputs, with and without cancellation. Assumed besides: `NoFatalEdges`,
that no required conditional edge leaves a stage with `error_mode: propagate` -
without it `AckOnce` is false, as `dispatch_limit` shows. `Invariance` proves

    IInv == TypeOK /\ RootsBorn /\ WellPlaced /\ ParentsWait /\ FiniteBranches
            /\ BranchAccounting /\ AcksAgree /\ InflightAccounting

`AckOnce` by itself is not inductive: that a message is acked once rests on its
counter reaching zero once, hence on the counter being the number of unfinished
branches (`BranchAccounting`), hence on a parent waiting as long as a branch is
unfinished (`ParentsWait`) and on a fresh message having no branches. The steps
fall into four classes with a lemma each: a message is handed on, a message gets
branches, a branch is acked, a source message moves. `ImplementsContract` shows that
every step of `Dispatch` is a step of `AckContract` or a stutter; it needs
`InflightAccounting`, since `Accept` counts open messages where the code compares a
counter.

What the source hears depends on the whole tree of a message, of any depth.
`TreeInv` says so without a recursion over the depth: there is a function `line`
from each message to those it is a branch of, up to the source message
(`IsLineage`), along which everybody waits while somebody below is not acked
(`LineWaits`) and errors rise (`ErrorsRise`, `ErrorsHaveCause`). A step that makes
messages extends `line`, each by the line of its parent; so the function is a
witness that is kept along, and nothing is proved by induction over trees.

**Log**, for any number of messages, stops and segments of any size, whatever writes
fail and whatever a power failure takes. `IInv` speaks of a log whose offset is
sound; its parts are the segments and the position of the writer (`Segmented`), the
stored offset (`OffsetOK`), the reader (`ReaderOK`), the order of the messages
(`Numbered`) and what is synced (`Safe`). The heart is `ReaderOK`: the stored offset may
lag behind the reader by cut records only, so a process that starts goes on with the
same message. `Numbered` says that the unread messages lie in the segments in the
order of their numbers and all came after what was read; so what `ReadNext` returns
is the least of the queue. `ImplementsQueue` then maps every step to a step of
`FifoLog`, a stutter, or the end of the promise.

`TypeCorrect` is about sizes, and holds after a torn offset too, where `IInv` says
nothing; it has an invariant of its own, `TInv`. `totalSize` is the number of records
on disk (`Counts`), because `Append` adds one record or none at the end of one
segment (`Added`), a deletion subtracts all of a segment, and a start counts again;
one failed write may leave a record no counter knows of, hence `Slip`. That a segment
holds no more messages than `segmentSize` is not inductive by itself: `Writes` adds
that `currentSize` counts every message of the segment being written, with what the
failed write left at most one record more.

**Edge**, for any producers, sizes, buffer types, strategies and limits. A message is
at one place - with its producer, in `mem`, on disk, in the hand of the drain
goroutine, in `out`, with the next stage, or given up (`Apart`) - and a step moves at
most one from one place to another, or removes one. For the log behind the edge,
`Shape`, `Reading` and `LogSorted` say that its steps are such moves. `Rank` orders the
places: what is closer to the next stage is older (`Lined`), except on an overflow
edge; with the order inside each channel (`ChannelsSorted`) this is `FIFO`. `Survive`
says that what `drop_oldest` gave up is older than what it keeps.

**Sink stage**, for any number of messages and any settings. `PlaceInv` says that the
messages in `ingress`, the batch, the queue and the jobs of the writers come in the
order of the edge (`InOrder`), that no two of these overlap and none has an acked
message (`EachOnce`, `Apart`), and that nothing is elsewhere (`NothingLost`). `Told` and
`WordKept` tie what was written or put into the DLQ to the Ack that has been or is
about to be given; a batch that a stop interrupted is told from one whose sink failed. With one writer, `WrittenInOrder` says that all that is still to be
written follows what was.

**Start, stop and the Kafka source**, for any number of messages, Pipelines, places in
`out` and any limit. `LifeInv` is the control: what Start has done (`Started`), what
each step of Stop finds done (`Stopping`), and in which order the goroutines leave
(`Leaving`). `PlaceInv` follows an offset from the partition to the graph, in order,
and says that `pending` is exactly what was fetched and not acked with success
(`PendingExact`). `CommitInv` says that whatever is committed, or about to be, was
handled, and in an ordered graph everything below it was tried.

**Message data**, for any set of branches and any paths of transforms. For each
branch: what has met `payload = metadata` or a metadata assignment points no longer to
the shared map (`Mine`); what it has in hand is what its transforms so far make of the
message (`Intact`), unless another branch assigned into a map it depends on
(`Undisturbed`); the map inside `Metadata` has its own values only, unless another branch
assigns there (`TagsKnown`); and a branch that rewrites nothing sends what came
(`Untouched`). `Crash` says of an ended process which two branches met, from the phases
that can overlap.

**Reload**, for any pipelines and any number of requests. A request inside
`swapPipeline` holds the flag of its name; so no other request installs a pipeline
there, and what it looked up stays the installed one (`RequestsSane`). When it builds
the new pipeline the old one is down, or was closed before it was started (`OldDown`).
What main still has to start is installed or was closed (`PlanKnown`). Hence two
active pipelines of a name cannot meet. `OutcomeInv` adds what becomes of the names:
a request that is through with a name leaves it to later ones (`Succession`), no name
of a request without error is skipped (`NoneSkipped`), and a name that is out of
service is being started, being swapped or part of a failed reload (`Serving`).

**Topology**, for any number of steps, any ids and edges, and any order of Go's maps.
The verdict: the open visits are a path along edges (`StackOK`), and what is done
leads to what was done before it (`MarksOK`, with `rank` as the order). So a search
that ends without a cycle leaves a graph ordered by `rank`: in every set of stages the
one of least rank has no successor, and of stages that are not fed, the one of greatest
rank would have a predecessor that is not fed either, since a rule of `Validate` gives
it one (`RulesEnough`). A search that
finds a cycle has it on the stack (`CycleRefutes`). A config that can run passes the
rules of `Validate` (`RulesNeeded`). And where the searches come to the last check, there
is a path from a source to a sink (`PathFound`): `hasSourceToSinkPath` (`validate.go:139`)
never refuses what the rules before it let through. The workers: the transforms
that have a share hold together what the first so many shares come to, whatever
the order (`Given` in `Sharing`); for all of them that is `max_workers`, by the division
with remainder (`Division`).

**Induction.** The theorems on induction take an operator as a parameter, which the
provers cannot instantiate. Two facts that need none serve instead: a
non-empty set of numbers has a least element (`Least`, from `WFMin` and the
well-foundedness of `<`), so that a claim is proved by looking at its least
counterexample; and a recursive function exists on the subsets of a finite set, of
which there is only one (`RecurrenceExists`, `RecurrenceUnique`), which gives sums over
sets (`SumStep`). So are proved what the rounds of `Reachable` come to (`LevelsExist`,
`ReachableClosed`) and what the shares add up to.

**What the proofs changed.** Some properties were corrected or made stronger because
a proof failed. `Isolated` had not named the branches that tag a tagged message again, nor those that
only read it while another one does.
`FifoLog` was a sequence that might shrink at any stop; it now loses only in a power
failure. `EdgeInbound` did not say that a message is not one of the values that stand
for a cut or torn record (`EdgeAssumption`). The size of the log was a sum of lengths;
it is now the number of its records, which is the same and can be reasoned about
one record at a time, and likewise the messages of a segment (`Whole`). That
`hasSourceToSinkPath` cannot fail came out of the proof of `VerdictRight`.

**Only model-checked.** Liveness, which TLAPS does not prove under fairness: `MeetsContract`,
`Completion`, `AllRead`, `RoomAgain`, `Arrives`, `DrainStops`, `Handled`, `StopEnds` (of the
sink and of a Pipeline), `Redelivered`, `ReloadEnds`. Of these the theorems give the
safety part that they build on, where there is one: `ImplementsContract` that of
`MeetsContract`, `ImplementsQueue` that of `AllRead`. The theorems also speak of what
the models leave abstract only as the models do (section 6).

**For whoever extends the proofs.** The SMT backend treats every function it applies
`Len` or `Seq` to as a sequence, which may make a true obligation fail, and hides why, when
functions over other domains (`at`, `files`, `job`) occur with it. The lemmas whose names
end in `View` say what a step does to the *set* of elements and to their order; the
preservation lemmas cite these and leave `Seq` and `Len` folded. An expression with a
prime outside a definition (`Unread'`) is safest through a fact that equates it.
`Len` and `Cardinality` next to arithmetic often need a name first (`PICK k : k = Len(f)`,
or a `DEFINE` that is hidden); equality of sets built by `UNION` is proved member by
member (`InRecs`). Lemmas on sequences are at the beginning of the module that uses
them.

## 6. What is not modelled

* Codecs and the evaluation of EQL: a condition is true, false or an error, a
  `Process` call any of its outcomes, a `Write` a success or a failure of the whole
  batch. What an assignment does to shared maps is in `MessageData`; expressions
  other than `payload = metadata` that hand a nested map on (`payload = payload.x`)
  and delete statements, which touch the maps as assignments do, are not. Its map
  transforms have one assignment each and give fields of the payload plain values;
  its decoder fails on an empty payload, as that of JSON does, and on nothing else;
  predicates may come out either way; and its branches leave over memory edges: a
  disk edge marshals the message (`wal.go:30`) and what is read back has maps of its
  own.
* A `Process` call that returns two or more outputs with the message it was given
  among them (`dispatch.go:49-77`): none of the plugins here does that
  (`ProcessSplits` gives each output a pointer of its own).
* The HTTP and cron sources and the sinks, beyond their interface with the engine:
  they keep no state between calls except a client, a server or a ticker.
* More than one partition, and what a consumer group does between two readers,
  except that a partition held by a leaked reader may not be assigned.
* `PipelineLife` has one source, one sink and a memory edge; a stop of a disk edge
  is in `EdgeInbound`. A second Start of one object, which the code refuses, and a
  Start after Stop are left to `Reload`.
* Errors of opening, reading, syncing or removing a file of the log; loss of the
  offset file or of directory entries in a power failure; sizes of records.
* The attributes of edges in `Topology`; rules about a single stage or edge are one
  flag of the config.
* Config parsing, registry, metrics, logs, HTTP routing and the test runner: pure
  functions, tables filled before main, or output.

## 7. Plan

Done, in the order of importance: `Dispatch` with `AckContract` and proofs, the log
and the edge, the sink stage, `Reload` with proofs, `Topology`; then the limit in the
edge and the sink, syncs, power failures and `FifoLog`, `KafkaSource` with
`PipelineLife`, `MessageData`; then the proofs of the log as a queue, of the edge, the
sink stage, the Kafka source and `MessageData`; last those of the sizes of the log
and of `Topology`.

What could still be added:

1. Models: two edges between the same stages in a module of `graph.go`, several
   partitions of a topic.
2. Proofs: that the number of open messages of `AckContract` never exceeds
   `MaxInflight`, by itself and not through `Dispatch`.
3. Runs: the claims of the documents that section 4 lists, each as a property the code
   violates.
4. Liveness, if a prover for it becomes available.

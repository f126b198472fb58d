------------------------------ MODULE SinkStage ------------------------------
(***************************************************************************)
(* The goroutines of one sink stage (internal/engine pipeline.go runSink): *)
(* a forwarder fills ingress from the edge, the collector gathers batches  *)
(* and hands them over writeCh to max_in_flight writers, a writer writes,  *)
(* retries, feeds the DLQ and acks.  After a cancellation the collector    *)
(* may write a batch itself.                                               *)
(*                                                                         *)
(* Messages are numbered in the order the edge delivers them.  The stage's *)
(* settings are fixed in the initial state.  Sink.Write succeeds or fails  *)
(* as a whole, and returns, after a cancellation perhaps with the error of *)
(* its context; the Acks of one batch are one step.  The edge              *)
(* delivers only as many messages as the inflight limit of the pipeline    *)
(* leaves open (inflight.go).                                              *)
(***************************************************************************)
EXTENDS Integers, Sequences, FiniteSets, FiniteSetsExt, SequencesExt, Functions

CONSTANTS Messages,    \* how many messages the edge delivers (bounds the model)
          IngressSize, \* node.outBuffer
          Settings,    \* sets of [size, writers, timed, retries, dlq, limit]
          Collector    \* the goroutine of runSink, when it writes itself

ASSUME SinkAssumption ==
    /\ Messages \in Nat /\ IngressSize \in Nat \ {0}
    /\ Settings \subseteq [size : Nat \ {0}, writers : Nat \ {0}, timed : BOOLEAN,
                           retries : Nat, dlq : BOOLEAN, limit : Nat]
    /\ Collector \notin Nat

VARIABLES cfg,       \* the settings of this stage
          forwarder, \* run, done
          next,      \* the next message to come out of the edge
          ingress,   \* the ingress channel
          batch,     \* the batch being gathered
          timer,     \* none: no batch timeout; armed; fired: in timerC;
                     \* spent: received with a batch; idle: with none
          main,      \* the collector: select, enqueue, direct, done
          stopping,  \* it has seen ctx.Done in its select
          queue,     \* writeCh
          step,      \* step[x]: where in flushSinkBatch x is
          job, tries, result, \* the batch x writes, its attempts, the outcome
          written,   \* messages in the order their Write succeeded
          dlq,       \* messages written to the DLQ sink
          acked,     \* acked[m]: no, nil, err; stop: with the error of ctx
          cancelled

AllWriters == 1..Max({s.writers : s \in Settings})
Writers == 1..cfg.writers
Procs   == Writers \cup {Collector}

stage   == <<forwarder, ingress, batch, timer, main, stopping, queue>>
writing == <<step, job, tries, result, written, dlq>>
vars    == <<cfg, next, stage, writing, acked, cancelled>>

Init ==
    /\ cfg \in Settings
    /\ forwarder = "run" /\ next = 1
    /\ ingress = <<>> /\ batch = <<>> /\ queue = <<>>
    /\ timer = IF cfg.timed THEN "armed" ELSE "none"
    /\ main = "select" /\ stopping = FALSE
    /\ step = [x \in Procs |-> "idle"]
    /\ job = [x \in Procs |-> <<>>]
    /\ tries = [x \in Procs |-> 0]
    /\ result = [x \in Procs |-> "nil"]
    /\ written = <<>> /\ dlq = {}
    /\ acked = [m \in 1..Messages |-> "no"]
    /\ cancelled = FALSE

-----------------------------------------------------------------------------
(* The forwarder of the inbound edge.  A message holds its slot until it   *)
(* is acked; limit 0 stands for "no limit".                                *)

Open    == {m \in 1..next - 1 : acked[m] = "no"}
HasSlot == cfg.limit = 0 \/ Cardinality(Open) < cfg.limit

Forward ==
    /\ forwarder = "run" /\ next <= Messages /\ HasSlot
    /\ Len(ingress) < IngressSize
    /\ ingress' = Append(ingress, next)
    /\ next' = next + 1
    /\ UNCHANGED <<cfg, forwarder, batch, timer, main, stopping, queue, writing, acked, cancelled>>

ForwardCancelled ==
    /\ forwarder = "run" /\ next <= Messages /\ HasSlot /\ cancelled
    /\ acked' = [acked EXCEPT ![next] = "stop"]
    /\ next' = next + 1
    /\ forwarder' = "done"
    /\ UNCHANGED <<cfg, ingress, batch, timer, main, stopping, queue, writing, cancelled>>

-----------------------------------------------------------------------------
(* The collector. *)

BatchFull     == Len(batch) + 1 >= cfg.size

Collect ==
    /\ main = "select" /\ ingress # <<>>
    /\ batch' = Append(batch, Head(ingress))
    /\ ingress' = Tail(ingress)
    /\ main' = IF BatchFull THEN "enqueue" ELSE "select"
    /\ UNCHANGED <<cfg, forwarder, next, timer, stopping, queue, writing, acked, cancelled>>

TimerFires ==
    /\ timer = "armed"
    /\ timer' = "fired"
    /\ UNCHANGED <<cfg, next, forwarder, ingress, batch, main, stopping, queue, writing, acked, cancelled>>

(* flush returns at once when the batch is empty, before timer.Reset. *)
OnTimer ==
    /\ main = "select" /\ timer = "fired"
    /\ IF batch = <<>> THEN timer' = "idle" /\ UNCHANGED main
                       ELSE timer' = "spent" /\ main' = "enqueue"
    /\ UNCHANGED <<cfg, next, forwarder, ingress, batch, stopping, queue, writing, acked, cancelled>>

StopStep == IF batch = <<>> THEN "done" ELSE "enqueue"

OnDone ==
    /\ main = "select" /\ cancelled
    /\ stopping' = TRUE
    /\ main' = StopStep
    /\ UNCHANGED <<cfg, next, forwarder, ingress, batch, timer, queue, writing, acked, cancelled>>

(* What flush does once enqueue has returned. *)
RearmNever == timer
Rearm      == IF cfg.timed THEN "armed" ELSE "none"
Flushed    == timer' = Rearm /\ main' = IF stopping THEN "done" ELSE "select"

BatchKept  == batch
BatchReset == <<>>

EnqueueBatch ==
    /\ main = "enqueue" /\ Len(queue) < cfg.writers
    /\ queue' = Append(queue, batch)
    /\ batch' = BatchReset
    /\ Flushed
    /\ UNCHANGED <<cfg, next, forwarder, ingress, stopping, writing, acked, cancelled>>

DirectWhenFull == cancelled \/ Len(queue) >= cfg.writers
DirectNever    == FALSE
Direct         == cancelled

Start(x, b) ==
    /\ step' = [step EXCEPT ![x] = "write"]
    /\ job' = [job EXCEPT ![x] = b]
    /\ tries' = [tries EXCEPT ![x] = 0]
    /\ UNCHANGED <<result, written, dlq>>

WriteDirectly ==
    /\ main = "enqueue" /\ Direct
    /\ Start(Collector, batch)
    /\ batch' = BatchReset
    /\ main' = "direct"
    /\ UNCHANGED <<cfg, next, forwarder, ingress, timer, stopping, queue, acked, cancelled>>

-----------------------------------------------------------------------------
(* The writers; flushSinkBatch and writeWithRetry, by whoever calls them.  *)

TakeJob(w) ==
    /\ step[w] = "idle" /\ queue # <<>>
    /\ Start(w, Head(queue))
    /\ queue' = Tail(queue)
    /\ UNCHANGED <<cfg, next, forwarder, ingress, batch, timer, main, stopping, acked, cancelled>>

(* ctx.Done, or writeCh closed by the collector and empty. *)
WriterReturns(w) ==
    /\ step[w] = "idle"
    /\ cancelled \/ (main = "done" /\ queue = <<>>)
    /\ step' = [step EXCEPT ![w] = "done"]
    /\ UNCHANGED <<cfg, next, stage, job, tries, result, written, dlq, acked, cancelled>>

Outcome(x, s, r) ==
    /\ step' = [step EXCEPT ![x] = s]
    /\ result' = [result EXCEPT ![x] = r]
    /\ UNCHANGED <<cfg, next, stage, job, acked, cancelled>>

WriteSucceeds(x) ==
    /\ step[x] = "write"
    /\ written' = written \o job[x]
    /\ Outcome(x, "ack", "nil")
    /\ UNCHANGED <<tries, dlq>>

(* A Sink gets ctx with every Write, so a cancellation may be why it fails. *)
Errors == {"err"} \cup (IF cancelled THEN {"stop"} ELSE {})

WriteFails(x) ==
    /\ step[x] = "write"
    /\ IF tries[x] < cfg.retries THEN Outcome(x, "backoff", "err")
                                 ELSE \E r \in Errors : Outcome(x, "dlq", r)
    /\ tries' = [tries EXCEPT ![x] = @ + 1]
    /\ UNCHANGED <<written, dlq>>

BackoffOver(x) ==
    /\ step[x] = "backoff"
    /\ Outcome(x, "write", "err")
    /\ UNCHANGED <<tries, written, dlq>>

BackoffCancelled(x) ==
    /\ step[x] = "backoff" /\ cancelled
    /\ Outcome(x, "dlq", "stop")
    /\ UNCHANGED <<tries, written, dlq>>

FirstOf(b) == {Head(b)}
EachOf(b)  == ToSet(b)

(* The result of a write to the DLQ sink is ignored. *)
DeliverToDLQ(x) ==
    /\ step[x] = "dlq"
    /\ dlq' = IF cfg.dlq THEN dlq \cup EachOf(job[x]) ELSE dlq
    /\ Outcome(x, "ack", result[x])
    /\ UNCHANGED <<tries, written>>

AckBatch(x) ==
    /\ step[x] = "ack"
    /\ acked' = [m \in 1..Messages |-> IF m \in ToSet(job[x]) THEN result[x] ELSE acked[m]]
    /\ step' = [step EXCEPT ![x] = "idle"]
    /\ job' = [job EXCEPT ![x] = <<>>]
    /\ IF x = Collector THEN Flushed ELSE UNCHANGED <<timer, main>>
    /\ UNCHANGED <<cfg, next, forwarder, ingress, batch, stopping, queue, tries, result,
                   written, dlq, cancelled>>

Cancel ==
    /\ ~cancelled
    /\ cancelled' = TRUE
    /\ UNCHANGED <<cfg, next, stage, writing, acked>>

Collecting == Collect \/ OnTimer \/ OnDone \/ EnqueueBatch \/ WriteDirectly
Flushing(x) == WriteSucceeds(x) \/ WriteFails(x) \/ BackoffOver(x) \/ BackoffCancelled(x)
               \/ DeliverToDLQ(x) \/ AckBatch(x)

Next == \/ Forward \/ ForwardCancelled \/ TimerFires \/ Cancel
        \/ Collecting
        \/ \E w \in Writers : TakeJob(w) \/ WriterReturns(w)
        \/ \E x \in Procs : Flushing(x)

(* Every goroutine runs, time passes, and the messages of the model come   *)
(* (after the last one the source is idle).  Go's select does not pass     *)
(* over timerC or ctx.Done for ever while messages keep coming.            *)
Fairness ==
    /\ WF_vars(TimerFires) /\ WF_vars(Forward)
    /\ WF_vars(Collecting) /\ SF_vars(OnTimer) /\ SF_vars(OnDone)
    /\ \A w \in AllWriters : WF_vars(w \in Writers /\ (TakeJob(w) \/ WriterReturns(w) \/ Flushing(w)))
    /\ WF_vars(Flushing(Collector))

Spec     == Init /\ [][Next]_vars
FairSpec == Spec /\ Fairness

-----------------------------------------------------------------------------

(* The shape of the state; batches and channels keep their sizes.          *)
TypeOK ==
    /\ cfg \in Settings
    /\ forwarder \in {"run", "done"} /\ next \in 1..Messages + 1
    /\ ingress \in Seq(1..Messages) /\ Len(ingress) <= IngressSize
    /\ batch \in Seq(1..Messages) /\ Len(batch) <= cfg.size
    /\ timer \in {"none", "armed", "fired", "spent", "idle"}
    /\ main \in {"select", "enqueue", "direct", "done"} /\ stopping \in BOOLEAN
    /\ queue \in Seq(Seq(1..Messages)) /\ Len(queue) <= cfg.writers
    /\ step \in [Procs -> {"idle", "write", "backoff", "dlq", "ack", "done"}]
    /\ job \in [Procs -> Seq(1..Messages)]
    /\ tries \in [Procs -> 0..cfg.retries + 1]
    /\ result \in [Procs -> {"nil", "err", "stop"}]
    /\ written \in Seq(1..Messages) /\ dlq \subseteq 1..Messages
    /\ acked \in [1..Messages -> {"no", "nil", "err", "stop"}]
    /\ cancelled \in BOOLEAN

(* A message is with exactly one goroutine or channel, or acked: batches   *)
(* are copied (enqueue), reused (batch[:0]) and taken by several writers   *)
(* and the collector, and none is lost, written twice or acked while held. *)
Where(m) ==
    {w \in ({"edge", "ingress", "batch", "acked"} \X {0})
           \cup ({"queue"} \X (1..Len(queue))) \cup ({"job"} \X Procs) :
       CASE w[1] = "edge"    -> m >= next
         [] w[1] = "ingress" -> m \in ToSet(ingress)
         [] w[1] = "batch"   -> m \in ToSet(batch)
         [] w[1] = "acked"   -> acked[m] # "no"
         [] w[1] = "queue"   -> m \in ToSet(queue[w[2]])
         [] OTHER            -> m \in ToSet(job[w[2]])}
OnePlace ==
    /\ TypeOK
    /\ \A m \in 1..Messages : Cardinality(Where(m)) = 1
    /\ IsInjective(written)

(* The Ack says what became of the message: nil if its Write succeeded, an *)
(* error if not, and if it was the sink's error, the message was offered   *)
(* to the DLQ before, if there is one (flushSinkBatch).  Whether what the  *)
(* stop interrupted goes there is left open: writeWithRetry returns        *)
(* ctx.Err() like any failure, so it does, although eventr-design.md:641   *)
(* says that messages in flight at a stop are no errors and do not.        *)
AckTruth ==
    \A m \in 1..Messages :
        /\ acked[m] = "nil" => m \in ToSet(written)
        /\ acked[m] \in {"err", "stop"} => m \notin ToSet(written)
        /\ acked[m] = "err" /\ cfg.dlq => m \in dlq
        /\ m \in dlq => m \notin ToSet(written)

(* docs/configurations.md:354: ordered means one writer and strict order.  *)
(* It ends with the cancellation, when the collector may write a batch     *)
(* while the writer still has an earlier one.                              *)
Ordered ==
    cfg.writers = 1 /\ ~cancelled =>
        \A i, j \in 1..Len(written) : i < j => written[i] < written[j]

(* Every message that comes out of the edge is acked, unless the pipeline  *)
(* is cancelled or the message waits in a short batch that nothing will    *)
(* fill or flush (runSink): the source is idle, or the batch itself holds  *)
(* all slots; and no timer runs, since none was configured or it expired   *)
(* on an empty batch.                                                      *)
Starved == next > Messages \/ (cfg.limit > 0 /\ Len(batch) >= cfg.limit)
Handled ==
    \A m \in 1..Messages :
        (m < next) ~> \/ acked[m] # "no"
                      \/ cancelled
                      \/ /\ m \in ToSet(batch) /\ Len(batch) < cfg.size
                         /\ timer \in {"none", "idle"} /\ Starved

(* After a cancellation the collector and every writer return, so that     *)
(* Stop's wait for stageWG ends.                                           *)
StopEnds == cancelled ~> (main = "done" /\ \A w \in Writers : step[w] = "done")
=============================================================================

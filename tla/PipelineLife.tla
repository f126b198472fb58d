---------------------------- MODULE PipelineLife ----------------------------
(***************************************************************************)
(* The life of a pipeline fed by a Kafka source: internal/engine           *)
(* pipeline.go Start, Stop and run, one Pipeline object after another as   *)
(* reloads and restarts of the process make them.                          *)
(*                                                                         *)
(* Besides the source there is one more stage, the sink, and one edge.     *)
(* "graph" stands for the stageWG goroutines behind runSource, the last of *)
(* them to leave.  Stop is called when Start has returned nil: Reload.tla  *)
(* has the calls that come too early.                                      *)
(***************************************************************************)
EXTENDS KafkaSource

CONSTANTS Source, Sink, \* the ids of the stages
          MaxSessions  \* bounds how many Pipeline objects there are

ASSUME LifeAssumption == MaxSessions \in Nat \ {0} /\ Sink # Source

VARIABLES session,   \* the number of the Pipeline object
          step,      \* start, up; in Stop: cancel, wait, close, flush; then
                     \* stopped, timedOut; failed when Start returned an error
          byMain,    \* its ctx is the one main's signals cancel
          inited,    \* stages whose Init has returned
          stopped,   \* stages whose Stop was called
          edge,      \* EdgeInbound: new, open, closed
          drain,     \* its drain goroutine: none, run, ended
          run,       \* goroutine of run: none, begin, wait, ended
          graph,     \* none, run, ended
          orphan     \* readers of Pipelines that nothing refers to are still open

lifeVars == <<session, step, byMain, inited, stopped, edge, drain, run, graph, orphan>>
vars     == <<sourceVars, cancelled, lifeVars>>

Stages == {Source, Sink}

Fresh ==
    /\ inited' = {} /\ stopped' = {}
    /\ edge' = "new" /\ drain' = "none"
    /\ run' = "none" /\ graph' = "none" /\ cancelled' = FALSE
    /\ step' = "start"

Init ==
    /\ SourceInit
    /\ session = 1 /\ step = "start" /\ byMain \in BOOLEAN
    /\ inited = {} /\ stopped = {}
    /\ edge = "new" /\ drain = "none"
    /\ run = "none" /\ graph = "none" /\ cancelled = FALSE
    /\ orphan = FALSE

-----------------------------------------------------------------------------
(* Start.  p.stages is a map: Init is called in any order. *)

InitStage(s) ==
    /\ step = "start" /\ s \notin inited
    /\ inited' = inited \cup {s}
    /\ IF s = Source THEN NewReader ELSE UNCHANGED sourceVars
    /\ UNCHANGED <<cancelled, session, step, byMain, stopped, edge, drain, run, graph, orphan>>

(* Start cancels and returns; the stages initialised before stay as they are. *)
InitFails ==
    /\ step = "start" /\ Sink \notin inited
    /\ step' = "failed"
    /\ cancelled' = TRUE
    /\ UNCHANGED <<sourceVars, session, byMain, inited, stopped, edge, drain, run, graph, orphan>>

Launch ==
    /\ step = "start" /\ inited = Stages
    /\ step' = "up"
    /\ run' = "begin"
    /\ UNCHANGED <<sourceVars, cancelled, session, byMain, inited, stopped, edge, drain, graph, orphan>>

-----------------------------------------------------------------------------
(* run *)

RunBegins ==
    /\ run = "begin"
    /\ run' = "wait"
    /\ edge' = "open" /\ drain' = "run" /\ graph' = "run"
    /\ runner' = "select" /\ consume' = "fetch"
    /\ UNCHANGED <<broker, reader, next, hand, out, taken, pending, committing, ordered,
                   handled, failed, contractVars, cancelled, session, step, byMain,
                   inited, stopped, orphan>>

Acking == committing # {} \/ \E o \in Ids : phase[o] = "released"

GraphReturns ==
    /\ graph = "run" /\ cancelled /\ runner = "ended" /\ ~Acking
    /\ graph' = "ended"
    /\ UNCHANGED <<sourceVars, cancelled, session, step, byMain, inited, stopped,
                   edge, drain, run, orphan>>

RunReturns ==
    /\ run = "wait" /\ cancelled /\ graph = "ended"
    /\ run' = "ended"
    /\ UNCHANGED <<sourceVars, cancelled, session, step, byMain, inited, stopped,
                   edge, drain, graph, orphan>>

DrainReturns ==
    /\ drain = "run" /\ cancelled /\ ~Acking
    /\ drain' = "ended"
    /\ UNCHANGED <<sourceVars, cancelled, session, step, byMain, inited, stopped,
                   edge, run, graph, orphan>>

(* The goroutine of the source and whatever acks: the sink, or the drain   *)
(* goroutine with ctx.Err().  What ctx.Done leaves in channels stays open. *)
CanAck(r) == graph = "run" \/ (drain = "run" /\ cancelled /\ r = "err")

SettleHere(o) == \E r \in {"nil", "err"} : CanAck(r) /\ Settle(o, r)

Work ==
    /\ \/ Consume \/ FetchFails \/ RunSource
       \/ \E o \in Ids : SettleHere(o) \/ Hear(o) \/ Commit(o) \/ CommitFails(o)
    /\ UNCHANGED <<cancelled, lifeVars>>

-----------------------------------------------------------------------------
(* Stop.  The sources first; then ctx; then the goroutines, unless the     *)
(* caller's ctx expires, after which Stop may be called again.             *)

StopSources ==
    /\ step \in {"up", "timedOut"}
    /\ CloseReader
    /\ stopped' = stopped \cup {Source}
    /\ step' = "cancel"
    /\ UNCHANGED <<cancelled, session, byMain, inited, edge, drain, run, graph, orphan>>

Cancel ==
    /\ step = "cancel"
    /\ cancelled' = TRUE
    /\ step' = "wait"
    /\ UNCHANGED <<sourceVars, session, byMain, inited, stopped, edge, drain, run, graph, orphan>>

StagesGone == graph # "run"
AllGone    == run = "ended" /\ graph # "run"

Waited ==
    /\ step = "wait" /\ AllGone
    /\ step' = "close"
    /\ UNCHANGED <<sourceVars, cancelled, session, byMain, inited, stopped, edge, drain, run, graph, orphan>>

TimesOut ==
    /\ step = "wait"
    /\ step' = "timedOut"
    /\ UNCHANGED <<sourceVars, cancelled, session, byMain, inited, stopped, edge, drain, run, graph, orphan>>

(* Close of an edge waits for its drain goroutine. *)
CloseEdges ==
    /\ step = "close" /\ drain # "run"
    /\ edge' = "closed"
    /\ step' = "flush"
    /\ UNCHANGED <<sourceVars, cancelled, session, byMain, inited, stopped, drain, run, graph, orphan>>

FlushAndStop ==
    /\ step = "flush"
    /\ stopped' = stopped \cup (Stages \ {Source})
    /\ step' = "stopped"
    /\ UNCHANGED <<sourceVars, cancelled, session, byMain, inited, edge, drain, run, graph, orphan>>

-----------------------------------------------------------------------------
(* From one Pipeline to the next.  swapPipeline builds one after a Stop    *)
(* without error, also after a Start that failed: it stops the old one     *)
(* again.  A crash, or an exit after Stop, ends the process.               *)

NextPipeline ==
    /\ session < MaxSessions
    /\ session' = session + 1
    /\ Fresh
    /\ reader' = "none" /\ next' = 0 /\ consume' = "none" /\ hand' = NoMsg
    /\ out' = <<>> /\ runner' = "none" /\ taken' = NoMsg
    /\ pending' = {} /\ committing' = {}
    /\ phase' = [o \in Ids |-> "new"] /\ result' = [o \in Ids |-> "none"]
    /\ UNCHANGED <<broker, ordered, handled, failed>>

Replaced ==
    /\ step = "stopped" \/ (step = "failed" /\ ~byMain)
    /\ NextPipeline
    /\ byMain' = FALSE
    /\ orphan' = (orphan \/ reader = "open")

Restart ==
    /\ NextPipeline
    /\ byMain' = TRUE
    /\ orphan' = FALSE

(* SIGINT and SIGTERM cancel the ctx main passed to Start, before Stop. *)
Signal ==
    /\ byMain /\ ~cancelled
    /\ cancelled' = TRUE
    /\ UNCHANGED <<sourceVars, lifeVars>>

Start == (\E s \in Stages : InitStage(s)) \/ Launch
Run   == RunBegins \/ GraphReturns \/ RunReturns \/ DrainReturns
Stop  == Cancel \/ Waited \/ CloseEdges \/ FlushAndStop

Next == \/ Start \/ InitFails \/ Run \/ Work
        \/ StopSources \/ Stop \/ TimesOut
        \/ Replaced \/ Restart \/ Signal

(* Goroutines run, a Start and a Stop that were begun go on.  Until ctx is *)
(* done the graph settles what it accepted: AckContract promises it.       *)
(* A partition held by an orphan is assigned to this reader or never.      *)
Here(A)  == A /\ UNCHANGED <<cancelled, lifeVars>>
Starving == orphan /\ consume = "fetch" /\ reader = "open" /\ ~cancelled

Fairness ==
    /\ WF_vars(Start) /\ WF_vars(Stop)
    /\ WF_vars(RunBegins) /\ WF_vars(GraphReturns)
    /\ WF_vars(RunReturns) /\ WF_vars(DrainReturns)
    /\ WF_vars(Here(~Starving /\ Consume)) /\ WF_vars(Here(RunSource))
    /\ \A o \in Ids : /\ WF_vars(Here(~cancelled /\ SettleHere(o)))
                      /\ WF_vars(Here(Hear(o)))
                      /\ WF_vars(Here(Commit(o) \/ CommitFails(o)))

Spec == Init /\ [][Next]_vars /\ Fairness

-----------------------------------------------------------------------------
(* Types, and where a fetched offset is: with one of the goroutines, in    *)
(* out, or accepted; nowhere only after ctx is done.  pending holds it     *)
(* until it is reported with nil, so none is forgotten or kept (kafka.go   *)
(* Consume, OnAck; pipeline.go runSource).                                 *)
TypeOK ==
    /\ committed \in 0..Messages /\ start \in 0..Messages /\ next \in 0..Messages
    /\ reader \in {"none", "open", "closed"}
    /\ consume \in {"none", "fetch", "send", "ended"}
    /\ runner \in {"none", "select", "slot", "full", "ended"}
    /\ hand \in Ids \cup {NoMsg} /\ taken \in Ids \cup {NoMsg}
    /\ ToSet(out) \subseteq Ids /\ Len(out) <= OutSize
    /\ committing \subseteq Ids /\ handled \subseteq Ids /\ failed \subseteq Ids
    /\ phase \in [Ids -> Phases] /\ result \in [Ids -> Results]
    /\ step \in {"start", "up", "cancel", "wait", "close", "flush", "stopped",
                 "timedOut", "failed"}

Places(o) ==
    {p \in {"hand", "out", "taken", "graph"} : \/ p = "hand"  /\ hand = o
                                               \/ p = "out"   /\ o \in ToSet(out)
                                               \/ p = "taken" /\ taken = o
                                               \/ p = "graph" /\ phase[o] # "new"}

OnePlace ==
    /\ TypeOK
    /\ Cardinality(Open) <= MaxInflight \/ MaxInflight = 0
    /\ \A o \in Ids :
          /\ Cardinality(Places(o)) <= 1
          /\ o \notin start..next - 1 => Places(o) = {}
          /\ o \in start..next - 1 /\ ~cancelled => Places(o) # {}
          /\ o \in pending <=>
                /\ o \in start..next - 1
                /\ ~(phase[o] = "reported" /\ result[o] = "nil")

(* A commit is of an offset the pipeline has handled.  Where acks come in  *)
(* the order of the source, nothing below it is untried: it was handled or *)
(* reported with an error (OnAck).                                         *)
CommitTruth ==
    /\ committed > 0 => committed - 1 \in handled
    /\ ordered => 0..committed - 1 \subseteq handled \cup failed

(* What eventr-design.md promises: commits follow the low watermark, so    *)
(* everything below the committed offset was handled.  OnAck commits the   *)
(* offset of whatever message was acked last.                              *)
LowWatermark == 0..committed - 1 \subseteq handled

(* Stop takes things down in order: ctx is done only once the source is    *)
(* stopped, unless main was signalled; the edge is closed and the sink     *)
(* stopped only when every goroutine has left and no ack is under way;     *)
(* when it returns nil every stage that was initialised is stopped.  Only  *)
(* a Start that failed leaves a reader open in a Pipeline that is over.    *)
StopOrder ==
    /\ cancelled => reader = "closed" \/ byMain \/ step = "failed"
    /\ edge = "closed" \/ Sink \in stopped =>
          run = "ended" /\ graph = "ended" /\ runner = "ended" /\ drain = "ended" /\ ~Acking
    /\ step = "stopped" => stopped = inited /\ edge = "closed"
    /\ step \in {"stopped", "failed"} /\ reader = "open" => step = "failed" /\ Source \in inited

(* In a pipeline that stays up every message is handled, unless its offset *)
(* was committed over, it failed in this Pipeline (it is not tried again), *)
(* or Consume has returned with an error, which runSource drops.           *)
Serving == step = "up" /\ ~cancelled /\ consume # "ended" /\ ~orphan

Redelivered ==
    \A o \in Ids : Serving ~> \/ o \in handled \/ o < start \/ result[o] = "err"
                              \/ ~Serving

(* A Stop that has begun returns, its context expired or not.              *)
StopEnds == step = "cancel" ~> step \in {"stopped", "timedOut", "start"}
=============================================================================

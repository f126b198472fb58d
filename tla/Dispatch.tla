------------------------------ MODULE Dispatch ------------------------------
(***************************************************************************)
(* The life of a message in a running pipeline (internal/engine pipeline.go*)
(* and dispatch.go): runSource takes an inflight slot, dispatchFrom copies *)
(* the message to every matching out-edge, transforms pass it on, drop it  *)
(* or split it, sinks write it, and the outcome of every branch travels    *)
(* back up through the ack closures to the source.                         *)
(*                                                                         *)
(* A message pointer is named by where it came from: the message it is a   *)
(* branch of, and the edge or the transform output that made it.  at[m]    *)
(* says which goroutine or edge holds m and what is done with it next, so  *)
(* a goroutine's call stack is the set of messages it holds: an Ack that   *)
(* is running returns before the next send, the sends of one dispatch end  *)
(* before the next transform output is dispatched.                         *)
(*                                                                         *)
(* The order of messages inside an edge is left to EdgeInbound.tla, the    *)
(* batching, retries and DLQ of a sink to SinkStage.tla: here a sink write *)
(* succeeds or fails.                                                      *)
(***************************************************************************)
EXTENDS Integers, FiniteSets, Sequences

CONSTANTS Sources, Transforms, Sinks,   \* stage ids, by kind
          Edges, From, To,              \* the topology's edges
          Conditional,                  \* edges with a when/condition
          Required,                     \* edges with required: true
          Strategy,                     \* buffer strategy of each edge
          Size,                         \* capacity of each edge's mem channel
          Slack,                        \* places an edge has beyond mem
          ErrorMode,                    \* effective error_mode of each stage
          Workers, Home,                \* stage goroutines and their stage
          Forwarders, Over,             \* edge goroutines and their edge
          Ids, Feed,                    \* messages produced, and by which source
          Copies,                       \* outputs one Process call may make
          MaxInflight,                  \* engine.max_inflight, 0 = unlimited
          CanStop,                      \* may the pipeline be cancelled?
          NoMsg, NoOne                  \* "no parent", "no goroutine"

Stages == Sources \cup Transforms \cup Sinks

ASSUME TopologyAssumption ==
    /\ From \in [Edges -> Sources \cup Transforms]
    /\ To \in [Edges -> Transforms \cup Sinks]
    /\ Conditional \subseteq Edges
    /\ Required \subseteq Edges
    /\ Strategy \in [Edges -> {"block", "drop_newest", "drop_oldest"}]
    /\ Size \in [Edges -> Nat \ {0}]
    /\ Slack \in Nat
    /\ IsFiniteSet(Edges)

ASSUME EngineAssumption ==
    /\ ErrorMode \in [Stages -> {"propagate", "ignore", "silent"}]
    /\ Home \in [Workers -> Stages]
    /\ Over \in [Forwarders -> Edges]
    /\ Feed \in [Ids -> Sources]
    /\ MaxInflight \in Nat
    /\ CanStop \in BOOLEAN
    /\ IsFiniteSet(Ids)
    /\ IsFiniteSet(Copies)
    /\ Sources \cap (Edges \cup Copies) = {}
    /\ Copies \cap Edges = {}
    /\ NoOne \notin Workers \cup Forwarders

VARIABLES at,         \* at[m]       : who holds message m, and for what
          pending,    \* pending[m]  : dispatchFrom/ackAggregator counter of m
          firstErr,   \* firstErr[m] : first error a branch of m acked with
          inflight,   \* Pipeline.inflight
          acks,       \* acks[i]     : the calls of OnAck for message i
          alive,      \* goroutines that have not returned
          cancelled   \* the pipeline's run context is done

vars == <<at, pending, firstErr, inflight, acks, alive, cancelled>>

-----------------------------------------------------------------------------
(* Messages and places. *)

Root(i)     == [id |-> i, up |-> NoMsg, via |-> Feed[i]]
Child(m, x) == [id |-> m.id, up |-> m, via |-> x]
IsRoot(m)   == m.via \in Sources

Results == {"nil", "err"}
Calls   == {"source",               \* produced, not yet read by runSource
            "acquire",              \* acquireInflight tries to take a slot
            "full",                 \* it found none and waits
            "lost",                 \* given up without a slot: never acked
            "dispatch",             \* dispatchFrom is about to match edges
            "send", "blocked",      \* Enqueue on the edge m.via, waiting in it
            "buffered",             \* inside the edge m.via
            "held",                 \* read by a transform or sink worker
            "wait",                 \* its ack waits for its branches
            "ack", "onack",         \* Ack: the closure, then the source's OnAck
            "matchAck", "matchOnack", \* the same, called by matchEdges
            "unmatched",            \* matchEdges returned no edge after an Ack
            "done"}                 \* Ack has returned

Place(call, g, r) == [call |-> call, by |-> g, res |-> r]
Places == [call : Calls, by : Workers \cup Forwarders \cup {NoOne}, res : Results]

Born          == DOMAIN at
HeldBy(g)     == {m \in Born : at[m].by = g}
Idle(g)       == g \in alive /\ HeldBy(g) = {}
Runs(g, m, c) == m \in HeldBy(g) /\ at[m].call \in c
AckCalls      == {"ack", "onack", "matchAck", "matchOnack", "unmatched"}

(* Every Ack g called has returned. *)
AcksReturned(g)  == \A m \in HeldBy(g) : at[m].call \notin AckCalls
(* So has the dispatchFrom call g made for an earlier output. *)
SendsReturned(g) == \A m \in HeldBy(g) : at[m].call \notin {"send", "blocked"}

Move(m, call, g, r) == at' = [at EXCEPT ![m] = Place(call, g, r)]

(* The counter starts at the number of edges that matched, or of outputs.  *)
AwaitedOffByOne(kids) == Cardinality(kids) + 1
Awaited(kids)         == Cardinality(kids)

(* m's branches kids come to life at place p; m waits for all of them. *)
Branch(m, kids, p) ==
    /\ at' = [x \in Born \cup kids |-> IF x \in kids THEN p
                                       ELSE IF x = m THEN Place("wait", NoOne, "nil")
                                       ELSE at[x]]
    /\ pending' = [x \in Born \cup kids |-> IF x \in kids THEN 0
                                            ELSE IF x = m THEN Awaited(kids)
                                            ELSE pending[x]]
    /\ firstErr' = [x \in Born \cup kids |-> IF x \in kids THEN "nil" ELSE firstErr[x]]
    /\ UNCHANGED <<inflight, acks, alive, cancelled>>

counters == <<pending, firstErr, inflight, acks, alive, cancelled>>

Init ==
    /\ at        = [m \in {Root(i) : i \in Ids} |-> Place("source", NoOne, "nil")]
    /\ pending   = [m \in {Root(i) : i \in Ids} |-> 0]
    /\ firstErr  = [m \in {Root(i) : i \in Ids} |-> "nil"]
    /\ inflight  = 0
    /\ acks      = [i \in Ids |-> <<>>]
    /\ alive     = Workers \cup Forwarders
    /\ cancelled = FALSE

-----------------------------------------------------------------------------
(* runSource: read a message, take a slot, dispatch. *)

Receive(g) ==
    /\ Idle(g)
    /\ \E i \in Ids : /\ Feed[i] = Home[g]
                      /\ at[Root(i)].call = "source"
                      /\ Move(Root(i), "acquire", g, "nil")
    /\ UNCHANGED counters

HasSlot == MaxInflight = 0 \/ inflight < MaxInflight

Acquire(g) ==
    /\ HasSlot
    /\ \E m \in HeldBy(g) : /\ at[m].call \in {"acquire", "full"}
                            /\ Move(m, "dispatch", g, "nil")
    /\ inflight' = inflight + 1
    /\ UNCHANGED <<pending, firstErr, acks, alive, cancelled>>

(* No slot is free: a select on the context and a timer, then another try. *)
AcquireWaits(g) ==
    /\ ~HasSlot
    /\ \E m \in HeldBy(g) : /\ at[m].call = "acquire"
                            /\ Move(m, "full", g, "nil")
    /\ UNCHANGED counters

(* The select takes ctx.Done, whether or not a slot has been freed since:  *)
(* acquireInflight returns ctx.Err(), runSource returns, m is never acked. *)
AcquireCancelled(g) ==
    /\ cancelled
    /\ \E m \in HeldBy(g) : /\ at[m].call = "full"
                            /\ Move(m, "lost", NoOne, "nil")
    /\ alive' = alive \ {g}
    /\ UNCHANGED <<pending, firstErr, inflight, acks, cancelled>>

-----------------------------------------------------------------------------
(* dispatchFrom and matchEdges. *)

OutEdges(s) == {e \in Edges : From[e] = s}

(* What the conditions of stage s's edges may evaluate to.                 *)
Verdicts(s) == [OutEdges(s) \cap Conditional -> {"true", "false", "error"}]

Matched(s, verdict) ==
    {e \in OutEdges(s) : e \in Conditional => verdict[e] = "true"}

FatalAnyMode(s, verdict) ==
    \E e \in OutEdges(s) \cap Conditional \cap Required : verdict[e] = "error"

(* handleEvalError: under ignore and silent an error counts as false.      *)
Fatal(s, verdict) ==
    /\ ErrorMode[s] = "propagate"
    /\ \E e \in OutEdges(s) \cap Conditional \cap Required : verdict[e] = "error"

(* On a fatal error matchEdges acks m itself and returns no edge, and      *)
(* dispatchFrom then acks m again with nil.                                *)
Dispatch(g) ==
    /\ AcksReturned(g)
    /\ SendsReturned(g)
    /\ \E m \in HeldBy(g), verdict \in Verdicts(Home[g]) :
        LET edges == Matched(Home[g], verdict)
        IN  /\ at[m].call = "dispatch"
            /\ \/ /\ Fatal(Home[g], verdict)
                  /\ Move(m, "matchAck", g, "err")
                  /\ UNCHANGED counters
               \/ /\ ~Fatal(Home[g], verdict)
                  /\ edges = {}
                  /\ Move(m, "ack", g, "nil")
                  /\ UNCHANGED counters
               \/ /\ ~Fatal(Home[g], verdict)
                  /\ edges # {}
                  /\ Branch(m, {Child(m, e) : e \in edges}, Place("send", g, "nil"))

Unmatched(g) ==
    /\ \E m \in HeldBy(g) : /\ at[m].call = "unmatched"
                            /\ \A n \in HeldBy(g) \ {m} : at[n].call \notin AckCalls
                            /\ Move(m, "ack", g, "nil")
    /\ UNCHANGED counters

-----------------------------------------------------------------------------
(* sendToInbound and EdgeInbound.Enqueue on a memory edge.  mem holds Size *)
(* messages and the edge as a whole, with its drain and fan-in goroutines, *)
(* Slack more: mem may be full as soon as Size messages are in the edge.   *)

Inside(e)  == {m \in Born : at[m].call = "buffered" /\ m.via = e}
MayFit(e)  == Cardinality(Inside(e)) < Size[e] + Slack
MayFull(e) == Cardinality(Inside(e)) >= Size[e]

Send(g) ==
    /\ AcksReturned(g)
    /\ \E m \in HeldBy(g) : /\ at[m].call \in {"send", "blocked"}
                            /\ MayFit(m.via)
                            /\ Move(m, "buffered", NoOne, "nil")
    /\ UNCHANGED counters

(* mem is full: the select of sendToMemory waits for room or the context. *)
SendWaits(g) ==
    /\ AcksReturned(g)
    /\ \E m \in HeldBy(g) : /\ at[m].call = "send"
                            /\ Strategy[m.via] # "drop_newest"
                            /\ MayFull(m.via)
                            /\ Move(m, "blocked", g, "nil")
    /\ UNCHANGED counters

(* strategy drop_newest: the new message is dropped and acked with nil.    *)
SendDropNewest(g) ==
    /\ AcksReturned(g)
    /\ ~cancelled
    /\ \E m \in HeldBy(g) : /\ at[m].call = "send"
                            /\ Strategy[m.via] = "drop_newest"
                            /\ MayFull(m.via)
                            /\ Move(m, "ack", g, "nil")
    /\ UNCHANGED counters

(* strategy drop_oldest: a buffered message is dropped and acked with nil, *)
(* then the new one is sent, waiting if the place was taken meanwhile.     *)
SendDropOldest(g) ==
    /\ AcksReturned(g)
    /\ ~cancelled
    /\ \E m \in HeldBy(g) :
        /\ at[m].call = "send"
        /\ Strategy[m.via] = "drop_oldest"
        /\ MayFull(m.via)
        /\ \E old \in Inside(m.via) :
              at' = [at EXCEPT ![m]   = Place("blocked", g, "nil"),
                               ![old] = Place("ack", g, "nil")]
    /\ UNCHANGED counters

(* A send that waits gives up when the context is done.                    *)
SendCancelled(g) ==
    /\ AcksReturned(g)
    /\ cancelled
    /\ \E m \in HeldBy(g) : /\ \/ at[m].call = "blocked"
                               \/ /\ at[m].call = "send"
                                  /\ Strategy[m.via] # "block"
                                  /\ MayFull(m.via)
                            /\ Move(m, "ack", g, "err")
    /\ UNCHANGED counters

-----------------------------------------------------------------------------
(* runTransform and runSink. *)

Take(g) ==
    /\ Idle(g)
    /\ \E m \in Born : /\ at[m].call = "buffered"
                       /\ To[m.via] = Home[g]
                       /\ Move(m, "held", g, "nil")
    /\ UNCHANGED counters

(* ackMessageError, ackBatchError: a decode, predicate or Process error.   *)
ErrorResult(s) == IF ErrorMode[s] = "propagate" THEN "err" ELSE "nil"

ProcessFails(g) ==
    /\ Home[g] \in Transforms
    /\ \E m \in HeldBy(g) : /\ at[m].call = "held"
                            /\ Move(m, "ack", g, ErrorResult(Home[g]))
    /\ UNCHANGED counters

(* Process returns no output for m: dispatchTransformOutputs acks it.      *)
ProcessFilters(g) ==
    /\ Home[g] \in Transforms
    /\ \E m \in HeldBy(g) : /\ at[m].call = "held"
                            /\ Move(m, "ack", g, "nil")
    /\ UNCHANGED counters

(* The predicate is false, or Process returns the same pointer.            *)
ProcessPasses(g) ==
    /\ Home[g] \in Transforms
    /\ \E m \in HeldBy(g) : /\ at[m].call = "held"
                            /\ Move(m, "dispatch", g, "nil")
    /\ UNCHANGED counters

(* Process returns copies: an ackAggregator waits for all of them.         *)
ProcessSplits(g) ==
    /\ Home[g] \in Transforms
    /\ \E m \in HeldBy(g), outputs \in SUBSET Copies :
        /\ at[m].call = "held"
        /\ outputs # {}
        /\ Branch(m, {Child(m, c) : c \in outputs}, Place("dispatch", g, "nil"))

(* flushSinkBatch: Write, with its retries, succeeds or fails.             *)
Write(g) ==
    /\ Home[g] \in Sinks
    /\ \E m \in HeldBy(g), r \in Results : /\ at[m].call = "held"
                                           /\ Move(m, "ack", g, r)
    /\ UNCHANGED counters

-----------------------------------------------------------------------------
(* Message.Ack.  For a branch the closure stores the first error and       *)
(* decrements the counter; whoever brings it to zero acks the parent with  *)
(* what was stored.  The store precedes the goroutine's own decrement, so  *)
(* the two are one step.  For a source message the closure gives the slot  *)
(* back and then calls OnAck.                                              *)

AfterAck(m, g) ==
    IF at[m].call \in {"ack", "onack"} THEN Place("done", NoOne, at[m].res)
    ELSE Place("unmatched", g, at[m].res)

StoredLast(m) == at[m].res
Stored(m)     == IF firstErr[m.up] = "nil" THEN at[m].res ELSE firstErr[m.up]

LastBranchEarly(m) == pending[m.up] <= 2
LastBranch(m)      == pending[m.up] = 1

AckBranch(g) ==
    /\ \E m \in HeldBy(g) :
        /\ at[m].call \in {"ack", "matchAck"}
        /\ ~IsRoot(m)
        /\ pending'  = [pending EXCEPT ![m.up] = @ - 1]
        /\ firstErr' = [firstErr EXCEPT ![m.up] = Stored(m)]
        /\ at' = IF LastBranch(m)
                 THEN [at EXCEPT ![m] = AfterAck(m, g),
                                 ![m.up] = Place("ack", g, Stored(m))]
                 ELSE [at EXCEPT ![m] = AfterAck(m, g)]
    /\ UNCHANGED <<inflight, acks, alive, cancelled>>

(* releaseInflight, the outer handler WrapAckFn added.                     *)
ReleaseInflight(g) ==
    /\ \E m \in HeldBy(g) :
        /\ at[m].call \in {"ack", "matchAck"}
        /\ IsRoot(m)
        /\ Move(m, IF at[m].call = "ack" THEN "onack" ELSE "matchOnack", g, at[m].res)
    /\ inflight' = inflight - 1
    /\ UNCHANGED <<pending, firstErr, acks, alive, cancelled>>

OnAck(g) ==
    /\ \E m \in HeldBy(g) :
        /\ at[m].call \in {"onack", "matchOnack"}
        /\ acks' = [acks EXCEPT ![m.id] = Append(@, at[m].res)]
        /\ at' = [at EXCEPT ![m] = AfterAck(m, g)]
    /\ UNCHANGED <<pending, firstErr, inflight, alive, cancelled>>

-----------------------------------------------------------------------------
(* Pipeline.Stop cancels the run context; every loop selects on it.        *)

Cancel ==
    /\ CanStop
    /\ ~cancelled
    /\ cancelled' = TRUE
    /\ UNCHANGED <<at, pending, firstErr, inflight, acks, alive>>

(* A stage goroutine between two messages, or an edge goroutine, returns.  *)
Exit(g) ==
    /\ cancelled
    /\ Idle(g)
    /\ alive' = alive \ {g}
    /\ UNCHANGED <<at, pending, firstErr, inflight, acks, cancelled>>

(* The drain loop or the fan-in goroutine of an edge holds a message it    *)
(* cannot hand over: it acks it with ctx.Err() and returns.                *)
ForwarderCancelled(f) ==
    /\ cancelled
    /\ f \in alive
    /\ \E m \in Inside(Over[f]) : Move(m, "ack", f, "err")
    /\ alive' = alive \ {f}
    /\ UNCHANGED <<pending, firstErr, inflight, acks, cancelled>>

AckStep(g) == AckBranch(g) \/ ReleaseInflight(g) \/ OnAck(g) \/ Unmatched(g)

Step(g) ==
    \/ Receive(g) \/ Acquire(g) \/ AcquireWaits(g) \/ AcquireCancelled(g)
    \/ Dispatch(g)
    \/ Send(g) \/ SendWaits(g) \/ SendDropNewest(g)
    \/ SendDropOldest(g) \/ SendCancelled(g)
    \/ Take(g)
    \/ ProcessFails(g) \/ ProcessFilters(g) \/ ProcessPasses(g) \/ ProcessSplits(g)
    \/ Write(g)
    \/ AckStep(g)
    \/ Exit(g)

Forward(f) == ForwarderCancelled(f) \/ AckStep(f) \/ Exit(f)

(* The pipeline has nothing left to do.                                    *)
Terminated ==
    /\ \/ alive = {} /\ \A m \in Born : at[m].by = NoOne
       \/ ~CanStop /\ \A i \in Ids : at[Root(i)].call = "done"
    /\ UNCHANGED vars

Next ==
    \/ \E g \in Workers : Step(g)
    \/ \E f \in Forwarders : Forward(f)
    \/ Cancel
    \/ Terminated

(* The Go scheduler runs every goroutine that is not blocked.              *)
Fairness ==
    /\ \A g \in Workers : WF_vars(Step(g))
    /\ \A f \in Forwarders : WF_vars(Forward(f))

Safety == Init /\ [][Next]_vars
Spec   == Safety /\ Fairness
-----------------------------------------------------------------------------
(* Properties. *)

(* Every message is a source message or a branch of a born one, and no     *)
(* counter, atomic int32 in the code, ever falls below zero.               *)
TypeOK ==
    /\ \A m \in Born : /\ m.id \in Ids
                       /\ \/ m = Root(m.id)
                          \/ /\ m.via \in Edges \cup Copies
                             /\ m.up \in Born
                             /\ m = Child(m.up, m.via)
    /\ at \in [Born -> Places]
    /\ pending \in [Born -> Nat]
    /\ firstErr \in [Born -> Results]
    /\ inflight \in Nat
    /\ acks \in [Ids -> Seq(Results)]
    /\ alive \subseteq Workers \cup Forwarders
    /\ cancelled \in BOOLEAN

Kids(m)     == {c \in Born : ~IsRoot(c) /\ c.up = m}
LiveKids(m) == {c \in Kids(m) : at[c].call # "done"}

OutsideCalls == {"source", "acquire", "full", "lost", "onack", "matchOnack", "done"}
HoldsSlot    == {i \in Ids : at[Root(i)].call \notin OutsideCalls}

(* The source hears of a message at most once (OnAck, pipeline.go:339), so *)
(* a failed message is not afterwards reported as delivered.               *)
AckOnce == \A i \in Ids : Len(acks[i]) <= 1

(* The inflight counter is the number of messages that hold a slot, and    *)
(* never exceeds max_inflight (acquireInflight, releaseInflight).          *)
InflightAccounting ==
    /\ inflight = Cardinality(HoldsSlot)
    /\ MaxInflight # 0 => inflight <= MaxInflight

(* A message is acked only after every branch of it, wherever in the graph,*)
(* has been acked: nothing of an acked message is still being processed.   *)
NoEarlyAck ==
    \A m \in Born : at[Root(m.id)].call \in {"onack", "matchOnack", "done"}
                   => \/ IsRoot(m)
                      \/ at[m].call = "done"

(* The counter of a waiting message is the number of its unfinished        *)
(* branches (dispatchFrom's pending, ackAggregator.pending).               *)
BranchAccounting ==
    \A m \in Born : at[m].call = "wait" => pending[m] = Cardinality(LiveKids(m))

(* The branches of message i that ended, in a sink, a transform or a       *)
(* buffer, with an error; and what a branch went through to get there.     *)
Failed(i) == {m \in Born : m.id = i /\ Kids(m) = {} /\ at[m].res = "err"}
Path      == LET path[m \in Born] == IF IsRoot(m) THEN {} ELSE path[m.up] \cup {m.via}
             IN  path

(* No best-effort edge (required: false) lies on m's way.                  *)
Guaranteed(m) == Path[m] \cap Edges \subseteq Required

(* The source hears an error only when a branch failed, and it does when   *)
(* one failed that reached its end over required edges only: no error is   *)
(* lost on the way up and none appears from nowhere (firstErr,             *)
(* dispatch.go:63-72, pipeline.go:417-426).  Whether it also hears of a    *)
(* failure behind a best-effort edge is left open: it does, although       *)
(* docs/configurations.md:512 says such a failure does not block the Ack.  *)
ErrorReported ==
    \A i \in Ids : acks[i] # <<>> =>
        /\ acks[i][1] = "err" => Failed(i) # {}
        /\ (\E m \in Failed(i) : Guaranteed(m)) => acks[i][1] = "err"

(* docs/configurations.md:149: max_inflight bounds the messages in flight. *)
(* Counted here: the messages a branch of which is still on its way.       *)
InProgress(m) == at[m].call \in {"dispatch", "send", "blocked", "buffered", "held"}
InflightLimit ==
    MaxInflight # 0 =>
        Cardinality({i \in Ids : \E m \in Born : m.id = i /\ InProgress(m)}) <= MaxInflight

(* A message that got its slot is acked, unless the pipeline is cancelled. *)
Completion ==
    \A i \in Ids : (at[Root(i)].call = "dispatch")
                      ~> (acks[i] # <<>> \/ cancelled)

(* The engine keeps the contract of AckContract.tla.                       *)
phaseOf == [i \in Ids |->
    LET call == at[Root(i)].call
    IN  CASE call \in {"source", "acquire", "full", "lost"} -> "new"
          [] call \in {"onack", "matchOnack"}      -> "released"
          [] call = "done"                         -> "reported"
          [] OTHER                                 -> "open"]
resultOf == [i \in Ids |->
    IF at[Root(i)].call \in {"onack", "matchOnack", "done"} THEN at[Root(i)].res
    ELSE "none"]

Contract == INSTANCE AckContract WITH phase <- phaseOf, result <- resultOf

KeepsContract == Contract!ContractSafety
MeetsContract == Contract!ContractSpec
=============================================================================

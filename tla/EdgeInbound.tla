----------------------------- MODULE EdgeInbound -----------------------------
(***************************************************************************)
(* One edge of a running pipeline (internal/buffer edge.go): producers     *)
(* call Enqueue, the drain goroutine moves messages from the mem channel   *)
(* and the disk log to the out channel, and the fan-in goroutine of the    *)
(* stage behind the edge (pipeline.go) takes them from there.              *)
(*                                                                         *)
(* Message <<p, n>> is the n-th one producer p sends.  The edge's buffer   *)
(* type, strategy and size and the kind of the stage behind it are fixed   *)
(* in the initial state.  Close runs only after Stop has waited for every  *)
(* stage goroutine (pipeline.go:187-200), so no Enqueue finds the edge     *)
(* closed.                                                                 *)
(* What a message read back from disk loses is its ack function.           *)
(*                                                                         *)
(* A source in front of the edge calls Enqueue only for messages that hold *)
(* one of max_inflight slots (inflight.go), which the Ack gives back.      *)
(***************************************************************************)
EXTENDS DiskWAL

CONSTANTS Producers,   \* goroutines that call Enqueue
          Count,       \* Count[p]: messages p sends (bounds the model)
          Types, Strategies, Kinds,
          Sizes,       \* buffer.size
          Limits,      \* engine.max_inflight; 0 stands for "no limit"
          NoMsg

Msgs == UNION {{p} \X (1..Count[p]) : p \in Producers}

ASSUME EdgeAssumption ==
    /\ Count \in [Producers -> Nat]
    /\ Sizes \subseteq Nat \ {0}
    /\ Types \subseteq {"memory", "disk", "overflow"}
    /\ Strategies \subseteq {"block", "drop_newest", "drop_oldest"}
    /\ Kinds \subseteq {"transform", "sink"}
    /\ Limits \subseteq Nat
    /\ Msgs \cap {Cut, Torn, NoMsg} = {}

VARIABLES cfg,       \* [type, strategy, kind, size, limit]
          mem, out,  \* the two channels
          closed,    \* mem is closed
          prod,      \* prod[p]: where in Enqueue producer p is
          sent,      \* sent[p]: p's calls of Enqueue that have returned
          drain,     \* where in drainLoop the drain goroutine is
          hold,      \* the message it emits
          fanin,     \* the fan-in goroutine: run, done
          spilled,   \* messages that were appended to the log
          acked,     \* acked[m]: what the edge acked m with, if it did
          gone,      \* messages the edge has dropped or refused
          slots,     \* messages that hold an inflight slot
          delivered, \* messages handed to the next stage, in order
          cancelled  \* the pipeline's run context is done

acks == <<acked, gone, slots>>
edge == <<mem, out, closed, drain, hold>>
ends == <<fanin, delivered, cancelled>>
vars == <<wal, cfg, edge, prod, sent, spilled, acks, ends>>

OnDisk == cfg.type \in {"disk", "overflow"}

Init ==
    /\ WALInit
    /\ cfg \in [type : Types, strategy : Strategies, kind : Kinds, size : Sizes, limit : Limits]
    /\ mem = <<>> /\ out = <<>> /\ closed = FALSE
    /\ prod = [p \in Producers |-> "idle"]
    /\ sent = [p \in Producers |-> 0]
    /\ drain = "loop" /\ hold = NoMsg
    /\ fanin = "run"
    /\ spilled = {} /\ gone = {} /\ slots = {} /\ delivered = <<>>
    /\ acked = [m \in Msgs |-> "no"]
    /\ cancelled = FALSE

(* m leaves the edge with Ack(r); a copy read from disk has no ackFn.      *)
DismissSilently(m, r) == gone' = gone \cup {m} /\ UNCHANGED <<acked, slots>>
Dismiss(m, r) ==
    /\ gone' = gone \cup {m}
    /\ IF m \in spilled THEN UNCHANGED <<acked, slots>>
       ELSE acked' = [acked EXCEPT ![m] = r] /\ slots' = slots \ {m}

-----------------------------------------------------------------------------
(* Enqueue. *)

Cur(p)        == <<p, sent[p] + 1>>
Goto(p, step) == prod' = [prod EXCEPT ![p] = step] /\ UNCHANGED sent
Return(p)     == prod' = [prod EXCEPT ![p] = "idle"] /\ sent' = [sent EXCEPT ![p] = @ + 1]

HasRoomEarly == Len(mem) < cfg.size - 1
HasRoom      == Len(mem) < cfg.size

KeepsOldest == cfg.strategy = "drop_newest"

RouteMemFirst == IF OnDisk /\ ~HasRoom THEN "append" ELSE "try"
Route         == IF cfg.type = "disk" \/ (cfg.type = "overflow" /\ ~HasRoom) THEN "append" ELSE "try"

HasSlot == cfg.limit = 0 \/ Cardinality(slots) < cfg.limit

Enqueue(p) ==
    /\ prod[p] = "idle" /\ sent[p] < Count[p]
    /\ HasSlot
    /\ slots' = IF cfg.limit = 0 THEN slots ELSE slots \cup {Cur(p)}
    /\ Goto(p, Route)
    /\ UNCHANGED <<wal, cfg, edge, spilled, acked, gone, ends>>

(* The message goes into mem: at once, or in sendToMemory. *)
SendMem(p) ==
    /\ prod[p] \in {"try", "send", "wait"}
    /\ HasRoom
    /\ mem' = Append(mem, Cur(p))
    /\ Return(p)
    /\ UNCHANGED <<wal, cfg, out, closed, drain, hold, spilled, acks, ends>>

(* The first, non-blocking send finds mem full. *)
TryFails(p) ==
    /\ prod[p] = "try" /\ ~HasRoom
    /\ Goto(p, IF cfg.type = "overflow" THEN "append" ELSE "send")
    /\ UNCHANGED <<wal, cfg, edge, spilled, acks, ends>>

(* sendToMemory's default branches: neither room nor cancellation. *)
DropNewest(p) ==
    /\ prod[p] = "send" /\ KeepsOldest
    /\ ~HasRoom /\ ~cancelled
    /\ Dismiss(Cur(p), "nil")
    /\ Return(p)
    /\ UNCHANGED <<wal, cfg, edge, spilled, ends>>

PickVictim(p) ==
    /\ prod[p] = "send" /\ cfg.strategy = "drop_oldest"
    /\ ~HasRoom /\ ~cancelled
    /\ Goto(p, "victim")
    /\ UNCHANGED <<wal, cfg, edge, spilled, acks, ends>>

(* What drop_oldest takes out of mem, and what it leaves.                  *)
TakesNewest == [old |-> Last(mem), left |-> Front(mem)]
TakesNone   == [old |-> Head(mem), left |-> mem]
Takes       == [old |-> Head(mem), left |-> Tail(mem)]

(* The drain goroutine may have emptied mem in the meantime. *)
DropOldest(p) ==
    /\ prod[p] = "victim"
    /\ IF mem = <<>> THEN UNCHANGED <<mem, acks>>
                     ELSE Dismiss(Takes.old, "nil") /\ mem' = Takes.left
    /\ Goto(p, "wait")
    /\ UNCHANGED <<wal, cfg, out, closed, drain, hold, spilled, ends>>

(* The message goes into the log: first try, polling, or after an eviction.*)
AppendDisk(p) ==
    /\ prod[p] \in {"append", "poll", "retry"}
    /\ AppendRecord(Cur(p))
    /\ spilled' = spilled \cup {Cur(p)}
    /\ Return(p)
    /\ UNCHANGED <<cfg, edge, acks, ends>>

(* handleDiskFull. *)
DiskFull(p) ==
    /\ prod[p] = "append" /\ rpc = "idle" /\ Full
    /\ IF KeepsOldest
       THEN Dismiss(Cur(p), "nil") /\ Return(p)
       ELSE /\ Goto(p, IF cfg.strategy = "drop_oldest" THEN "evict" ELSE "poll")
            /\ UNCHANGED acks
    /\ UNCHANGED <<wal, cfg, edge, spilled, ends>>

(* drop_oldest: ReadNext, drop what it returns, append again. *)
EvictDisk(p) ==
    /\ prod[p] = "evict"
    /\ \/ ReadMessage /\ Dismiss(NextRecord, "nil") /\ Goto(p, "retry")
       \/ ReadNothing /\ Goto(p, "retry") /\ UNCHANGED acks
       \/ (RemoveSegment \/ ResetOffset) /\ UNCHANGED <<prod, sent, acks>>
    /\ UNCHANGED <<cfg, edge, spilled, ends>>

StillFull(p) ==
    /\ prod[p] = "retry" /\ rpc = "idle" /\ Full
    /\ Dismiss(Cur(p), "err")
    /\ Return(p)
    /\ UNCHANGED <<wal, cfg, edge, spilled, ends>>

(* ctx.Done in a blocking select. *)
GiveUp(p) ==
    /\ cancelled /\ prod[p] \in {"send", "wait", "poll"}
    /\ Dismiss(Cur(p), "err")
    /\ Return(p)
    /\ UNCHANGED <<wal, cfg, edge, spilled, ends>>

(* The stage in front of the edge stops. *)
Quit(p) ==
    /\ cancelled /\ prod[p] = "idle"
    /\ Goto(p, "quit")
    /\ UNCHANGED <<wal, cfg, edge, spilled, acks, ends>>

InEnqueue(p) == SendMem(p) \/ TryFails(p) \/ DropNewest(p) \/ PickVictim(p)
                \/ DropOldest(p) \/ AppendDisk(p) \/ DiskFull(p)
                \/ EvictDisk(p) \/ StillFull(p) \/ GiveUp(p)

-----------------------------------------------------------------------------
(* drainLoop. *)

ShouldStopClosed == closed /\ mem = <<>> /\ (OnDisk => ~Pending)
ShouldStop       == cancelled /\ mem = <<>> /\ (OnDisk => ~Pending)

DrainTop ==
    /\ drain = "loop"
    /\ drain' = IF ShouldStop THEN "done" ELSE IF OnDisk THEN "read" ELSE "select"
    /\ UNCHANGED <<wal, cfg, mem, out, closed, hold, prod, sent, spilled, acks, ends>>

DrainRead ==
    /\ drain = "read"
    /\ \/ ReadMessage /\ hold' = NextRecord /\ drain' = "emit"
       \/ ReadNothing /\ drain' = "select" /\ UNCHANGED hold
       \/ (RemoveSegment \/ ResetOffset) /\ UNCHANGED <<drain, hold>>
    /\ UNCHANGED <<cfg, mem, out, closed, prod, sent, spilled, acks, ends>>

DrainMem ==
    /\ drain = "select" /\ mem # <<>>
    /\ hold' = Head(mem) /\ mem' = Tail(mem)
    /\ drain' = "emit"
    /\ UNCHANGED <<wal, cfg, out, closed, prod, sent, spilled, acks, ends>>

DrainStop ==
    /\ drain = "select"
    /\ \/ cancelled /\ drain' = IF ShouldStop THEN "done" ELSE "loop"
       \/ closed /\ mem = <<>> /\ drain' = "done"
    /\ UNCHANGED <<wal, cfg, mem, out, closed, hold, prod, sent, spilled, acks, ends>>

Emit ==
    /\ drain = "emit" /\ Len(out) < cfg.size
    /\ out' = Append(out, hold)
    /\ hold' = NoMsg /\ drain' = "loop"
    /\ UNCHANGED <<wal, cfg, mem, closed, prod, sent, spilled, acks, ends>>

EmitCancelled ==
    /\ drain = "emit" /\ cancelled
    /\ Dismiss(hold, "err")
    /\ hold' = NoMsg /\ drain' = "done"
    /\ UNCHANGED <<wal, cfg, mem, out, closed, prod, sent, spilled, ends>>

Drain == DrainTop \/ DrainRead \/ DrainMem \/ DrainStop \/ Emit \/ EmitCancelled

-----------------------------------------------------------------------------
(* The fan-in of the stage behind the edge, and the end of the pipeline. *)

Deliver ==
    /\ fanin = "run" /\ out # <<>>
    /\ delivered' = Append(delivered, Head(out))
    /\ out' = Tail(out)
    /\ UNCHANGED <<wal, cfg, mem, closed, drain, hold, prod, sent, spilled, acks, fanin, cancelled>>

(* ctx.Done while the next stage has no room. *)
Refuse ==
    /\ fanin = "run" /\ out # <<>> /\ cancelled
    /\ Dismiss(Head(out), "err")
    /\ out' = Tail(out)
    /\ fanin' = "done"
    /\ UNCHANGED <<wal, cfg, mem, closed, drain, hold, prod, sent, spilled, delivered, cancelled>>

(* A sink's forwarder ranges over out; a transform's also looks at ctx.    *)
FanInStops ==
    /\ fanin = "run"
    /\ (out = <<>> /\ drain = "done") \/ (cfg.kind = "transform" /\ cancelled)
    /\ fanin' = "done"
    /\ UNCHANGED <<wal, cfg, edge, prod, sent, spilled, acks, delivered, cancelled>>

FanIn == Deliver \/ Refuse \/ FanInStops

(* The stages behind the edge are done with a message.  One that went      *)
(* through the log has nobody to tell.                                     *)
Finish ==
    /\ \E m \in (ToSet(delivered) \cap slots) \ spilled : slots' = slots \ {m}
    /\ UNCHANGED <<wal, cfg, edge, prod, sent, spilled, acked, gone, ends>>

Cancel ==
    /\ ~cancelled
    /\ cancelled' = TRUE
    /\ UNCHANGED <<wal, cfg, edge, prod, sent, spilled, acks, fanin, delivered>>

Close ==
    /\ ~closed /\ cancelled /\ fanin = "done"
    /\ \A p \in Producers : prod[p] = "quit"
    /\ closed' = TRUE
    /\ UNCHANGED <<wal, cfg, mem, out, drain, hold, prod, sent, spilled, acks, ends>>

Next == \/ \E p \in Producers : Enqueue(p) \/ InEnqueue(p) \/ Quit(p)
        \/ Drain \/ FanIn \/ Finish \/ Cancel \/ Close

(* A producer keeps sending and finishes what it began, the drain          *)
(* goroutine runs, and the next stage takes what it is offered.  Go's      *)
(* select picks at random among the ready cases: mem is not passed over    *)
(* for ever in favour of ctx.Done.                                         *)
Fairness == /\ \A p \in Producers : WF_vars(Enqueue(p) \/ InEnqueue(p))
            /\ WF_vars(Drain) /\ SF_vars(DrainMem)
            /\ WF_vars(FanIn) /\ WF_vars(Finish)

Spec     == Init /\ [][Next]_vars
FairSpec == Spec /\ Fairness

-----------------------------------------------------------------------------

(* The shape of the state; no channel and no log exceeds its capacity.     *)
TypeOK ==
    /\ cfg \in [type : Types, strategy : Strategies, kind : Kinds, size : Sizes, limit : Limits]
    /\ mem \in Seq(Msgs) /\ Len(mem) <= cfg.size
    /\ out \in Seq(Msgs) /\ Len(out) <= cfg.size
    /\ closed \in BOOLEAN /\ cancelled \in BOOLEAN
    /\ prod \in [Producers -> {"idle", "try", "send", "victim", "wait", "append",
                               "evict", "retry", "poll", "quit"}]
    /\ \A p \in Producers : sent[p] \in 0..Count[p]
    /\ drain \in {"loop", "read", "select", "emit", "done"}
    /\ hold \in Msgs \cup {NoMsg} /\ (hold # NoMsg <=> drain = "emit")
    /\ fanin \in {"run", "done"}
    /\ spilled \subseteq Msgs /\ gone \subseteq Msgs /\ slots \subseteq Msgs
    /\ IF cfg.limit = 0 THEN slots = {} ELSE Cardinality(slots) <= cfg.limit
    /\ acked \in [Msgs -> {"no", "nil", "err"}]
    /\ delivered \in Seq(Msgs)
    /\ total \in 0..MaxSize
    /\ ~OnDisk => files = <<>>

(* No message is lost or duplicated inside the edge, whatever the type,    *)
(* the strategy and the moment of a cancellation: each is in one place.    *)
Place(m) == {w \in {"producer", "mem", "disk", "drain", "out", "next", "gone"} :
               CASE w = "producer" -> m[2] > sent[m[1]]
                 [] w = "mem"      -> m \in ToSet(mem)
                 [] w = "disk"     -> m \in Unread
                 [] w = "drain"    -> m = hold
                 [] w = "out"      -> m \in ToSet(out)
                 [] w = "next"     -> m \in ToSet(delivered)
                 [] OTHER          -> m \in gone}
OnePlace ==
    /\ \A m \in Msgs : Cardinality(Place(m)) = 1
    /\ \A s \in {mem, out, delivered} : IsInjective(s)

(* The edge acks what it gives up, and only that; it reports success only  *)
(* for what its strategy drops, and under block it gives nothing up before *)
(* the pipeline is stopped.  (A message on disk has no ackFn left.)        *)
AckedWhenGone ==
    \A m \in Msgs :
        /\ acked[m] # "no" => m \in gone
        /\ m \in gone \ spilled => acked[m] # "no"
        /\ m \in gone => cancelled \/ cfg.strategy # "block"
        /\ acked[m] = "nil" => cfg.strategy # "block"
        /\ acked[m] = "err" => cancelled \/ cfg.strategy = "drop_oldest"

(* The messages of one producer leave a memory or a disk edge in the order *)
(* they were sent.  An overflow edge reorders them: what waits in mem is   *)
(* overtaken by what was spilled after it.                                 *)
FIFO ==
    cfg.type # "overflow" =>
        \A i, j \in 1..Len(delivered) :
            i < j /\ delivered[i][1] = delivered[j][1] => delivered[i][2] < delivered[j][2]

(* drop_oldest prefers new messages: none is given up while an older one   *)
(* of the same producer stays in mem (sendToMemory).                       *)
NewestSurvive ==
    cfg.type = "memory" /\ cfg.strategy = "drop_oldest" /\ ~cancelled =>
        \A m \in gone, x \in ToSet(mem) : m[1] = x[1] => m[2] < x[2]

(* Every message reaches the next stage or is given up, and its slot comes *)
(* back: no producer is stuck (Enqueue, drainLoop).  Where the code falls  *)
(* short: messages in the log wait for ever once the drain goroutine waits *)
(* for mem and nothing fills it, and the slots of messages that went       *)
(* through the log are lost, until none is left.                           *)
Served(m)  == m \in ToSet(delivered) \cup gone /\ (m \in slots => m \in spilled)
Asleep     == drain = "select" /\ mem = <<>> /\ Unread # {}
SlotsLost  == cfg.limit > 0 /\ Cardinality(slots \cap spilled) >= cfg.limit
Arrives    == \A m \in Msgs : <>(Served(m) \/ cancelled \/ SlotsLost) \/ <>[]Asleep

(* After a cancellation the drain and the fan-in goroutine return, so that *)
(* Stop does: only a log shouldStop sees as pending keeps them.            *)
DrainStops == cancelled ~> (drain = "done" /\ fanin = "done") \/ (OnDisk /\ Pending)
=============================================================================

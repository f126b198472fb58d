----------------------------- MODULE KafkaSource -----------------------------
(***************************************************************************)
(* A Kafka source and the goroutines that serve it: plugins/source/kafka   *)
(* kafka.go (Consume, OnAck), internal/engine pipeline.go (runSource) and  *)
(* inflight.go.  One partition; its messages are their offsets.  What the  *)
(* graph behind the source does to a message is AckContract, which         *)
(* Dispatch implements; PipelineLife adds Start and Stop.                  *)
(*                                                                         *)
(* The reader of the client library fetches from the offset that was       *)
(* committed when it joined the group, and a commit overwrites the one     *)
(* before.  After Close it refuses both.                                   *)
(***************************************************************************)
EXTENDS AckContract, Sequences, SequencesExt

CONSTANTS Messages,  \* offsets 0 .. Messages - 1 are in the partition
          OutSize,   \* node.outBuffer
          NoMsg

ASSUME KafkaAssumption ==
    /\ Messages \in Nat /\ Ids = 0..Messages - 1
    /\ MaxInflight \in Nat /\ OutSize \in Nat \ {0}
    /\ NoMsg \notin Nat

VARIABLES committed,  \* the broker's: the first offset that is not committed
          start,      \* the committed offset when the reader joined
          reader,     \* s.reader: none (nil), open, closed
          next,       \* the next offset the reader fetches
          consume,    \* goroutine of Consume: none, fetch, send, ended
          hand,       \* its km
          out,        \* the channel from Consume to runSource
          runner,     \* runSource: none, select, slot, full, ended
          taken,      \* its msg, until it is dispatched
          pending,    \* s.pending
          committing, \* taken out of pending by OnAck, CommitMessages not called yet
          cancelled,  \* ctx.Done of the pipeline
          ordered,    \* the graph acks in the order of the source
          handled,    \* history: offsets reported with nil
          failed      \* history: offsets reported with an error

broker     == <<committed, start>>
producing  == <<reader, next, consume, hand>>
receiving  == <<runner, taken>>
sourceVars == <<broker, producing, out, receiving, pending, committing,
                ordered, handled, failed, contractVars>>

SourceInit ==
    /\ committed = 0 /\ start = 0
    /\ reader = "none" /\ next = 0
    /\ consume = "none" /\ hand = NoMsg /\ out = <<>>
    /\ runner = "none" /\ taken = NoMsg
    /\ pending = {} /\ committing = {}
    /\ ordered \in BOOLEAN
    /\ handled = {} /\ failed = {}
    /\ ContractInit

-----------------------------------------------------------------------------
(* Init and Stop of the source. *)

NewReader ==
    /\ reader' = "open"
    /\ start' = committed /\ next' = committed
    /\ UNCHANGED <<committed, consume, hand, out, receiving, pending, committing,
                   ordered, handled, failed, contractVars>>

CloseReader ==
    /\ reader' = "closed"
    /\ UNCHANGED <<broker, next, consume, hand, out, receiving, pending, committing,
                   ordered, handled, failed, contractVars>>

-----------------------------------------------------------------------------
(* Consume. *)

UnchangedByConsume == UNCHANGED <<broker, reader, receiving, committing,
                                  ordered, handled, failed, contractVars>>

Fetch ==
    /\ consume = "fetch" /\ reader = "open" /\ next < Messages
    /\ hand' = next /\ next' = next + 1
    /\ pending' = pending \cup {next}
    /\ consume' = "send"
    /\ UNCHANGED out /\ UnchangedByConsume

(* Any error of FetchMessage ends Consume: a closed reader, ctx.Done, or   *)
(* what the broker answers.                                                *)
ConsumeEnds ==
    /\ consume' = "ended" /\ hand' = NoMsg
    /\ UNCHANGED <<next, out, pending>> /\ UnchangedByConsume

FetchReturns == consume = "fetch" /\ (reader = "closed" \/ cancelled) /\ ConsumeEnds
FetchFails   == consume = "fetch" /\ reader = "open" /\ ConsumeEnds

Send ==
    /\ consume = "send" /\ Len(out) < OutSize
    /\ out' = Append(out, hand)
    /\ hand' = NoMsg
    /\ consume' = "fetch"
    /\ UNCHANGED <<next, pending>> /\ UnchangedByConsume

SendFull  == Len(out) = OutSize
SendStops == cancelled

SendCancelled == consume = "send" /\ SendStops /\ ConsumeEnds

Consume == Fetch \/ FetchReturns \/ Send \/ SendCancelled

-----------------------------------------------------------------------------
(* runSource.  Its select takes any branch that is ready, so what is in    *)
(* out is left there once Consume has returned or ctx is done.  Dispatch   *)
(* to the edges is part of Admit: Dispatch.tla has its steps.              *)

UnchangedByRunner == UNCHANGED <<broker, producing, pending, committing,
                                 ordered, handled, failed>>

Take ==
    /\ runner = "select" /\ out # <<>>
    /\ taken' = Head(out) /\ out' = Tail(out)
    /\ runner' = "slot"
    /\ UNCHANGED contractVars /\ UnchangedByRunner

Leave ==
    /\ runner' = "ended" /\ taken' = NoMsg
    /\ UNCHANGED <<out, contractVars>> /\ UnchangedByRunner

SourceDone == runner = "select" /\ (cancelled \/ consume = "ended") /\ Leave

Admit ==
    /\ runner \in {"slot", "full"} /\ Accept(taken)
    /\ taken' = NoMsg
    /\ runner' = "select"
    /\ UNCHANGED out /\ UnchangedByRunner

(* acquireInflight found no slot: a select on ctx.Done and a timer, then   *)
(* another look.  ctx.Done may win although a slot has been freed.         *)
Full == MaxInflight # 0 /\ Cardinality(Open) >= MaxInflight

AdmitWaits ==
    /\ runner = "slot" /\ Full
    /\ runner' = "full"
    /\ UNCHANGED <<taken, out, contractVars>> /\ UnchangedByRunner

GivesUpAtOnce == runner = "full"
GivesUpNever  == FALSE
GivesUp       == runner = "full" /\ cancelled

AdmitCancelled == GivesUp /\ Leave

RunSource == Take \/ SourceDone \/ Admit \/ AdmitWaits \/ AdmitCancelled

-----------------------------------------------------------------------------
(* The acks.  Settle: the last branch of a message is acked somewhere in   *)
(* the graph; Hear: OnAck up to its unlock; Commit: CommitMessages.  In an *)
(* ordered graph one goroutine does all three before the next message.     *)

UnchangedByAck == UNCHANGED <<start, producing, out, receiving, ordered>>

Before(o) == \A p \in 0..o - 1 : phase[p] \in {"new", "reported"} /\ p \notin committing

Settle(o, r) ==
    /\ ordered => Before(o)
    /\ Release(o, r)
    /\ UNCHANGED <<committed, pending, committing, handled, failed>> /\ UnchangedByAck

AckedAnyway(o) == TRUE
Acked(o)       == result[o] = "nil"

Hear(o) ==
    /\ Report(o)
    /\ IF Acked(o) THEN pending' = pending \ {o} /\ committing' = committing \cup {o}
                   ELSE UNCHANGED <<pending, committing>>
    /\ IF result[o] = "nil" THEN handled' = handled \cup {o} /\ UNCHANGED failed
                            ELSE failed' = failed \cup {o} /\ UNCHANGED handled
    /\ UNCHANGED committed /\ UnchangedByAck

(* The error of CommitMessages is dropped. *)
CommitReturns(o, c) ==
    /\ o \in committing
    /\ committing' = committing \ {o}
    /\ committed' = c
    /\ UNCHANGED <<pending, handled, failed, contractVars>> /\ UnchangedByAck

Commit(o)      == reader = "open" /\ CommitReturns(o, o + 1)
CommitFails(o) == CommitReturns(o, committed)
=============================================================================

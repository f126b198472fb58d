-------------------------- MODULE PipelineLifeProofs --------------------------
(***************************************************************************)
(* Theorems about PipelineLife.tla, for any number of messages, Pipelines  *)
(* and places in out, and for any limit.                                   *)
(***************************************************************************)
EXTENDS PipelineLife, FiniteSetTheorems, TLAPS

-----------------------------------------------------------------------------
(* The messages and offsets in a channel.                                  *)

(* Every element has a place. *)
LEMMA InSeq ==
    ASSUME NEW S, NEW s \in Seq(S), NEW x
    PROVE  x \in ToSet(s) <=> \E i \in 1..Len(s) : s[i] = x
BY DEF ToSet

LEMMA ToSetType ==
    ASSUME NEW S, NEW s \in Seq(S)
    PROVE  ToSet(s) \subseteq S
BY InSeq

LEMMA ToSetAppend ==
    ASSUME NEW S, NEW s \in Seq(S), NEW e \in S
    PROVE  ToSet(Append(s, e)) = ToSet(s) \cup {e}
<1> DEFINE t == Append(s, e)
<1>1. t \in Seq(S) /\ Len(t) = Len(s) + 1 /\ Len(s) \in Nat
  OBVIOUS
<1>2. /\ \A i \in 1..Len(s) : t[i] = s[i]
      /\ t[Len(s) + 1] = e
  OBVIOUS
<1> HIDE DEF t
<1>3. ASSUME NEW x PROVE x \in ToSet(t) <=> x \in ToSet(s) \/ x = e
  <2>1. x \in ToSet(t) <=> \E i \in 1..Len(s) + 1 : t[i] = x
    BY <1>1, InSeq
  <2>2. x \in ToSet(s) <=> \E i \in 1..Len(s) : s[i] = x
    BY InSeq
  <2> QED BY <1>1, <1>2, <2>1, <2>2
<1> QED BY <1>3 DEF t

LEMMA ToSetTail ==
    ASSUME NEW S, NEW s \in Seq(S), s # <<>>
    PROVE  /\ Head(s) \in S /\ Tail(s) \in Seq(S)
           /\ ToSet(s) = ToSet(Tail(s)) \cup {Head(s)}
<1> DEFINE t == Tail(s)
<1>1. Head(s) \in S /\ t \in Seq(S) /\ Len(t) = Len(s) - 1 /\ Len(s) \in Nat \ {0}
  OBVIOUS
<1>2. /\ \A i \in 1..Len(t) : t[i] = s[i + 1]
      /\ Head(s) = s[1]
  OBVIOUS
<1> HIDE DEF t
<1>3. ASSUME NEW x PROVE x \in ToSet(s) <=> x \in ToSet(t) \/ x = Head(s)
  <2>1. x \in ToSet(t) <=> \E i \in 1..Len(s) - 1 : t[i] = x
    BY <1>1, InSeq
  <2>2. x \in ToSet(s) <=> \E i \in 1..Len(s) : s[i] = x
    BY InSeq
  <2>3. ASSUME x \in ToSet(s), x # Head(s) PROVE x \in ToSet(t)
    <3>1. PICK i \in 1..Len(s) : s[i] = x
      BY <2>2, <2>3
    <3>2. i - 1 \in 1..Len(t) /\ t[i - 1] = x
      BY <1>1, <1>2, <2>3, <3>1
    <3> QED BY <1>1, <2>1, <3>2
  <2>4. ASSUME x \in ToSet(t) \/ x = Head(s) PROVE x \in ToSet(s)
    BY <1>1, <1>2, <2>1, <2>2, <2>4
  <2> QED BY <2>3, <2>4
<1> QED BY <1>1, <1>3 DEF t

LEMMA ToSetEmpty == ToSet(<<>>) = {}
BY DEF ToSet

(* Numbers that only grow, such as the offsets in a channel. *)
Increasing(s) == \A i, j \in 1..Len(s) : i < j => s[i] < s[j]

LEMMA AppendIncreasing ==
    ASSUME NEW S, S \subseteq Int, NEW s \in Seq(S), NEW e \in S,
           Increasing(s), \A x \in ToSet(s) : x < e
    PROVE  Increasing(Append(s, e))
<1> DEFINE t == Append(s, e)
<1>1. /\ Len(t) = Len(s) + 1 /\ Len(s) \in Nat
      /\ \A i \in 1..Len(s) : t[i] = s[i]
      /\ t[Len(s) + 1] = e
  OBVIOUS
<1>2. \A i \in 1..Len(s) : s[i] < e
  BY InSeq
<1> HIDE DEF t
<1>3. ASSUME NEW i \in 1..Len(t), NEW j \in 1..Len(t), i < j
      PROVE  t[i] < t[j]
  <2>1. CASE j = Len(s) + 1
    BY <1>1, <1>2, <1>3, <2>1
  <2>2. CASE j # Len(s) + 1
    BY <1>1, <1>3, <2>2 DEF Increasing
  <2> QED BY <2>1, <2>2
<1> QED BY <1>3 DEF Increasing, t

LEMMA TailIncreasing ==
    ASSUME NEW S, S \subseteq Int, NEW s \in Seq(S), s # <<>>, Increasing(s)
    PROVE  Increasing(Tail(s)) /\ \A x \in ToSet(Tail(s)) : Head(s) < x
<1> DEFINE t == Tail(s)
<1>1. /\ Len(t) = Len(s) - 1 /\ Len(s) \in Nat \ {0} /\ t \in Seq(S)
      /\ \A i \in 1..Len(t) : t[i] = s[i + 1]
      /\ Head(s) = s[1]
  OBVIOUS
<1> HIDE DEF t
<1>2. ASSUME NEW i \in 1..Len(t), NEW j \in 1..Len(t), i < j
      PROVE  t[i] < t[j]
  BY <1>1, <1>2 DEF Increasing
<1>3. ASSUME NEW x \in ToSet(t) PROVE Head(s) < x
  <2>1. PICK i \in 1..Len(t) : t[i] = x
    BY <1>1, InSeq
  <2> QED BY <1>1, <2>1 DEF Increasing
<1> QED BY <1>2, <1>3 DEF Increasing, t

-----------------------------------------------------------------------------
(* The order of Start and Stop.                                            *)

(* Nothing has been fetched, accepted or acked. *)
Pristine ==
    /\ consume = "none" /\ runner = "none"
    /\ hand = NoMsg /\ taken = NoMsg /\ out = <<>>
    /\ pending = {} /\ committing = {}
    /\ \A o \in Ids : phase[o] = "new"

LifeTypes ==
    /\ step \in {"start", "up", "cancel", "wait", "close", "flush", "stopped",
                 "timedOut", "failed"}
    /\ reader \in {"none", "open", "closed"}
    /\ runner \in {"none", "select", "slot", "full", "ended"}
    /\ edge \in {"new", "open", "closed"} /\ drain \in {"none", "run", "ended"}
    /\ run \in {"none", "begin", "wait", "ended"} /\ graph \in {"none", "run", "ended"}
    /\ inited \subseteq Stages /\ stopped \subseteq Stages
    /\ phase \in [Ids -> Phases] /\ result \in [Ids -> Results]

(* What Start has done before it returns, and nothing before run begins. *)
Started ==
    /\ step \in {"start", "failed"} <=> run = "none"
    /\ step \notin {"start", "failed"} => inited = Stages
    /\ reader = "none" <=> Source \notin inited
    /\ run \in {"none", "begin"} => graph = "none" /\ drain = "none" /\ Pristine
    /\ run \in {"wait", "ended"} => graph # "none" /\ drain # "none"

(* What each step of Stop finds done. *)
Stopping ==
    /\ step \in {"cancel", "wait", "close", "flush", "stopped", "timedOut"} =>
          reader = "closed" /\ Source \in stopped
    /\ step \in {"close", "flush", "stopped"} => run = "ended"
    /\ step \in {"flush", "stopped"} => drain = "ended" /\ edge = "closed"
    /\ step = "stopped" => Sink \in stopped
    /\ edge = "closed" => step \in {"flush", "stopped"}
    /\ Sink \in stopped => step = "stopped"
    /\ step \in {"start", "failed"} => reader # "closed"

(* The goroutines leave in order, and no ack is left when the last of      *)
(* those that ack has gone.                                                *)
Leaving ==
    /\ cancelled => reader = "closed" \/ byMain \/ step = "failed"
    /\ run = "ended" => graph = "ended"
    /\ graph = "ended" => runner = "ended"
    /\ graph # "run" /\ drain # "run" => ~Acking

LifeInv == LifeTypes /\ Started /\ Stopping /\ Leaving

LEMMA LifeInvInit == Init => LifeInv
BY LifeAssumption DEF Init, SourceInit, ContractInit, LifeInv, LifeTypes, Started, Stopping, Leaving,
   Pristine, Acking, Stages, Phases, Results

LEMMA StartKeepsLifeInv ==
    ASSUME LifeInv, Start \/ InitFails
    PROVE  LifeInv'
<1> USE DEF LifeInv, LifeTypes, Started, Stopping, Leaving, Pristine, Acking, Stages
<1>1. ASSUME NEW s \in Stages, InitStage(s)
      PROVE  LifeInv'
  BY <1>1, LifeAssumption DEF InitStage, NewReader, sourceVars, broker, producing, receiving, contractVars
<1>2. CASE Launch
  BY <1>2, LifeAssumption DEF Launch, sourceVars, broker, producing, receiving, contractVars
<1>3. CASE InitFails
  BY <1>3, LifeAssumption DEF InitFails, sourceVars, broker, producing, receiving, contractVars
<1> QED BY <1>1, <1>2, <1>3 DEF Start

LEMMA RunKeepsLifeInv ==
    ASSUME LifeInv, Run \/ Signal
    PROVE  LifeInv'
<1> USE DEF LifeInv, LifeTypes, Started, Stopping, Leaving, Pristine, Acking, Stages,
            sourceVars, broker, producing, receiving, contractVars, lifeVars
<1>1. CASE RunBegins
  BY <1>1 DEF RunBegins
<1>2. CASE GraphReturns
  BY <1>2 DEF GraphReturns
<1>3. CASE RunReturns
  BY <1>3 DEF RunReturns
<1>4. CASE DrainReturns
  BY <1>4 DEF DrainReturns
<1>5. CASE Signal
  BY <1>5 DEF Signal
<1> QED BY <1>1, <1>2, <1>3, <1>4, <1>5 DEF Run

LEMMA StopKeepsLifeInv ==
    ASSUME LifeInv, StopSources \/ Stop \/ TimesOut
    PROVE  LifeInv'
<1> USE LifeAssumption
    DEF LifeInv, LifeTypes, Started, Stopping, Leaving, Pristine, Acking, Stages,
        sourceVars, broker, producing, receiving, contractVars
<1>1. CASE StopSources
  BY <1>1 DEF StopSources, CloseReader
<1>2. CASE Cancel
  BY <1>2 DEF Cancel
<1>3. CASE Waited
  BY <1>3 DEF Waited, AllGone
<1>4. CASE TimesOut
  BY <1>4 DEF TimesOut
<1>5. CASE CloseEdges
  BY <1>5 DEF CloseEdges
<1>6. CASE FlushAndStop
  BY <1>6 DEF FlushAndStop
<1> QED BY <1>1, <1>2, <1>3, <1>4, <1>5, <1>6 DEF Stop

LEMMA NextPipelineKeepsLifeInv ==
    ASSUME LifeInv, Replaced \/ Restart
    PROVE  LifeInv'
BY DEF Replaced, Restart, NextPipeline, Fresh, broker,
       LifeInv, LifeTypes, Started, Stopping, Leaving, Pristine, Acking, Phases, Results

(* The steps of the goroutines: none works before run has begun, and none  *)
(* comes to life again.                                                    *)
LEMMA WorkKeepsLifeInv ==
    ASSUME LifeInv, Work
    PROVE  LifeInv'
<1> USE DEF LifeInv, LifeTypes, Started, Stopping, Leaving, Pristine, Acking, lifeVars
<1>1. CASE Consume \/ FetchFails
  BY <1>1 DEF Work, Consume, Fetch, FetchReturns, FetchFails, Send, SendCancelled, ConsumeEnds,
              UnchangedByConsume, broker, receiving, contractVars
<1>2. CASE RunSource
  BY <1>2 DEF Work, RunSource, Take, SourceDone, Admit, AdmitWaits, AdmitCancelled, GivesUp, Leave,
              Accept, Phases,
              UnchangedByRunner, broker, producing, contractVars
<1>3. ASSUME NEW o \in Ids, SettleHere(o)
      PROVE  LifeInv'
  BY <1>3 DEF Work, SettleHere, CanAck, Settle, Release, UnchangedByAck, producing, receiving,
              Phases, Results
<1>4. ASSUME NEW o \in Ids, Hear(o)
      PROVE  LifeInv'
  BY <1>4 DEF Work, Hear, Report, UnchangedByAck, producing, receiving, Phases
<1>5. ASSUME NEW o \in Ids, Commit(o) \/ CommitFails(o)
      PROVE  LifeInv'
  BY <1>5 DEF Work, Commit, CommitFails, CommitReturns, UnchangedByAck, producing, receiving, contractVars
<1> QED BY <1>1, <1>2, <1>3, <1>4, <1>5 DEF Work

LEMMA NextKeepsLifeInv ==
    ASSUME LifeInv, [Next]_vars
    PROVE  LifeInv'
<1>1. CASE UNCHANGED vars
  BY <1>1 DEF vars, sourceVars, lifeVars, broker, producing, receiving, contractVars,
              LifeInv, LifeTypes, Started, Stopping, Leaving, Pristine, Acking, Phases, Results
<1> QED BY <1>1, StartKeepsLifeInv, RunKeepsLifeInv, StopKeepsLifeInv, NextPipelineKeepsLifeInv,
           WorkKeepsLifeInv DEF Next

LEMMA LifeInvariant == Spec => []LifeInv
BY LifeInvInit, NextKeepsLifeInv, PTL DEF Spec

(* Start and Stop keep their order (pipeline.go:152-216 and 245-314), on   *)
(* every path through a Stop that times out, a Start that fails, a signal  *)
(* and a replaced Pipeline.                                                *)
THEOREM StopsInOrder == Spec => []StopOrder
<1>1. LifeInv => StopOrder
  BY DEF LifeInv, LifeTypes, Started, Stopping, Leaving, StopOrder, Stages
<1> QED BY LifeInvariant, <1>1, PTL

-----------------------------------------------------------------------------
(* Where a fetched offset is.                                              *)

PlaceTypes ==
    /\ committed \in 0..Messages /\ start \in 0..Messages /\ next \in 0..Messages
    /\ consume \in {"none", "fetch", "send", "ended"}
    /\ hand \in Ids \cup {NoMsg} /\ taken \in Ids \cup {NoMsg}
    /\ pending \subseteq Ids /\ committing \subseteq Ids
    /\ handled \subseteq Ids /\ failed \subseteq Ids

(* The channel from Consume to runSource: it keeps the order. *)
OutQueue == out \in Seq(Ids) /\ Len(out) <= OutSize /\ Increasing(out)

(* Each goroutine holds an offset exactly while it has work with it. *)
Holding ==
    /\ hand # NoMsg <=> consume = "send"
    /\ hand # NoMsg => hand = next - 1
    /\ taken # NoMsg <=> runner \in {"slot", "full"}
    /\ reader # "none" => start <= next

AtHand(o)   == hand = o \/ o \in ToSet(out) \/ taken = o
Accepted(o) == phase[o] # "new"

(* What is on its way was fetched by this reader and is not accepted yet. *)
Fetched ==
    \A o \in Ids : /\ AtHand(o) \/ Accepted(o) => start <= o /\ o < next
                   /\ AtHand(o) => ~Accepted(o)

(* From the partition to the graph, in the order of the offsets. *)
InLine ==
    /\ \A o \in ToSet(out) : /\ taken # NoMsg => taken < o
                             /\ hand # NoMsg => o < hand
    /\ taken # NoMsg /\ hand # NoMsg => taken < hand

(* What ctx.Done takes from a goroutine is the last thing it had. *)
Dropped(o) ==
    /\ cancelled
    /\ runner = "ended" \/ (consume = "ended" /\ o = next - 1)

NothingLost ==
    \A o \in Ids : start <= o /\ o < next => AtHand(o) \/ Accepted(o) \/ Dropped(o)

PendingExact ==
    \A o \in Ids : o \in pending <=> /\ start <= o /\ o < next
                                     /\ ~(phase[o] = "reported" /\ result[o] = "nil")

SlotsKept == Cardinality(Open) <= MaxInflight \/ MaxInflight = 0

PlaceInv ==
    /\ PlaceTypes /\ OutQueue /\ Holding /\ Fetched /\ InLine /\ NothingLost
    /\ PendingExact /\ SlotsKept

(* OutQueue is kept apart from what the others say, and so are Seq and Len. *)
LEMMA OutFacts ==
    OutQueue => /\ ToSet(out) \subseteq Ids
                /\ out # <<>> => Head(out) \in ToSet(out) /\ Head(out) \in Ids
BY ToSetType, ToSetTail DEF OutQueue

LEMMA OutAppend ==
    ASSUME OutQueue, Len(out) < OutSize, hand \in Ids, \A o \in ToSet(out) : o < hand,
           out' = Append(out, hand)
    PROVE  OutQueue' /\ ToSet(out') = ToSet(out) \cup {hand}
<1>1. Ids \subseteq Int /\ OutSize \in Nat
  BY KafkaAssumption
<1>2. out \in Seq(Ids) /\ Increasing(out)
  BY DEF OutQueue
<1>3. Increasing(Append(out, hand))
  BY <1>1, <1>2, AppendIncreasing
<1>5. ToSet(Append(out, hand)) = ToSet(out) \cup {hand}
  BY <1>2, ToSetAppend
<1>4. out' \in Seq(Ids) /\ Len(out') <= OutSize
  BY <1>1, <1>2
<1> QED BY <1>3, <1>4, <1>5 DEF OutQueue

LEMMA OutTake ==
    ASSUME OutQueue, out # <<>>, out' = Tail(out)
    PROVE  /\ OutQueue' /\ Head(out) \in Ids
           /\ ToSet(out) = ToSet(out') \cup {Head(out)}
           /\ \A o \in ToSet(out') : Head(out) < o
<1>1. Ids \subseteq Int /\ OutSize \in Nat
  BY KafkaAssumption
<1>2. out \in Seq(Ids) /\ Increasing(out) /\ Len(out) <= OutSize
  BY DEF OutQueue
<1>3. Increasing(Tail(out)) /\ \A o \in ToSet(Tail(out)) : Head(out) < o
  BY <1>1, <1>2, TailIncreasing
<1>4. Head(out) \in Ids /\ ToSet(out) = ToSet(Tail(out)) \cup {Head(out)}
  BY <1>2, ToSetTail
<1>5. out' \in Seq(Ids) /\ Len(out') <= OutSize
  BY <1>1, <1>2
<1> QED BY <1>3, <1>4, <1>5 DEF OutQueue

LEMMA OpenFinite ==
    IsFiniteSet(Open) /\ Cardinality(Open) \in Nat
<1>1. IsFiniteSet(Ids)
  BY KafkaAssumption, FS_Interval
<1>2. Open \subseteq Ids
  BY DEF Open
<1> QED BY <1>1, <1>2, FS_Subset, FS_CardinalityType

(* In a Pipeline in which nothing was fetched, everything is in its place. *)
LEMMA PristinePlaces ==
    Pristine /\ PlaceTypes /\ next <= start /\ (reader # "none" => start <= next) => PlaceInv
<1> SUFFICES ASSUME Pristine, PlaceTypes, next <= start, reader # "none" => start <= next
             PROVE  PlaceInv
  OBVIOUS
<1>1. Open = {}
  BY DEF Pristine, Open
<1>2. SlotsKept
  BY <1>1, FS_EmptySet, KafkaAssumption DEF SlotsKept
<1>3. ToSet(out) = {}
  BY ToSetEmpty DEF Pristine
<1>4. OutQueue
  <2>1. out = <<>> /\ OutSize \in Nat
    BY KafkaAssumption DEF Pristine
  <2> QED BY <2>1 DEF OutQueue, Increasing
<1> QED BY <1>2, <1>3, <1>4, KafkaAssumption
        DEF Pristine, PlaceTypes, PlaceInv, Holding, AtHand, Accepted, Fetched, InLine,
            NothingLost, PendingExact

LEMMA PlaceInvInit == Init => PlaceInv
<1> SUFFICES ASSUME Init PROVE PlaceInv
  OBVIOUS
<1>1. Pristine /\ PlaceTypes
  BY KafkaAssumption DEF Init, SourceInit, ContractInit, Pristine, PlaceTypes
<1> QED BY <1>1, PristinePlaces DEF Init, SourceInit

(* A step that moves nothing. *)
placeVars == <<committed, start, reader, next, consume, hand, out, runner, taken, pending,
               committing, handled, failed, phase, result>>

LEMMA QuietKeepsPlaceInv ==
    ASSUME PlaceInv, UNCHANGED placeVars, cancelled => cancelled'
    PROVE  PlaceInv'
BY DEF placeVars, PlaceInv, PlaceTypes, OutQueue, Holding, AtHand, Accepted, Fetched, InLine,
       NothingLost, Dropped, PendingExact, SlotsKept, Open

(* A reader that joins the group starts where the last commit is. *)
LEMMA NewReaderKeepsPlaceInv ==
    ASSUME PlaceInv, Pristine, NewReader
    PROVE  PlaceInv'
<1>1. Pristine' /\ PlaceTypes'
  BY DEF Pristine, NewReader, receiving, contractVars, PlaceInv, PlaceTypes
<1>2. (next <= start /\ (reader # "none" => start <= next))'
  BY DEF NewReader, PlaceInv, PlaceTypes
<1>3. (Pristine /\ PlaceTypes /\ next <= start /\ (reader # "none" => start <= next) => PlaceInv)'
  BY PristinePlaces, PTL
<1> QED BY <1>1, <1>2, <1>3

(* A new Pipeline object begins with nothing, whatever the last one left. *)
LEMMA NextPipelineKeepsPlaceInv ==
    ASSUME PlaceInv, Replaced \/ Restart
    PROVE  PlaceInv'
<1>1. Pristine'
  BY DEF Replaced, Restart, NextPipeline, Fresh, Pristine
<1>2. /\ committed' = committed /\ start' = start /\ next' = 0
      /\ reader' = "none" /\ handled' = handled /\ failed' = failed
  BY DEF Replaced, Restart, NextPipeline, broker
<1>3. PlaceTypes' /\ (next <= start /\ (reader # "none" => start <= next))'
  BY <1>1, <1>2, KafkaAssumption DEF Pristine, PlaceInv, PlaceTypes
<1>4. (Pristine /\ PlaceTypes /\ next <= start /\ (reader # "none" => start <= next) => PlaceInv)'
  BY PristinePlaces, PTL
<1> QED BY <1>1, <1>3, <1>4

-----------------------------------------------------------------------------
(* Consume and runSource leave what the graph and Stop have. *)
othersVars == <<committed, start, reader, committing, handled, failed, phase, result, cancelled>>

LEMMA FetchKeepsPlaceInv ==
    ASSUME PlaceInv, Fetch, UNCHANGED cancelled
    PROVE  PlaceInv'
<1> USE KafkaAssumption DEF PlaceInv, PlaceTypes
<1>1. /\ next \in Ids /\ hand' = next /\ next' = next + 1 /\ hand = NoMsg /\ start <= next
      /\ consume' = "send" /\ pending' = pending \cup {next} /\ consume = "fetch"
      /\ UNCHANGED othersVars /\ UNCHANGED <<out, runner, taken>>
  BY DEF Fetch, UnchangedByConsume, broker, receiving, contractVars, othersVars, Holding
<1>2. ~Accepted(next) /\ ~AtHand(next)
  BY <1>1 DEF Fetched
<1>3. \A o \in Ids : /\ AtHand(o)' <=> AtHand(o) \/ o = next
                     /\ Accepted(o)' <=> Accepted(o)
  BY <1>1 DEF AtHand, Accepted, othersVars
<1>4. PlaceTypes' /\ Holding'
  BY <1>1 DEF Holding, othersVars
<1>5. OutQueue' /\ SlotsKept'
  BY <1>1 DEF OutQueue, SlotsKept, Open, othersVars
<1>6. Fetched'
  <2> SUFFICES ASSUME NEW o \in Ids
               PROVE  /\ AtHand(o)' \/ Accepted(o)' => start <= o /\ o < next + 1
                      /\ AtHand(o)' => ~Accepted(o)'
    BY <1>1 DEF Fetched, othersVars
  <2>1. CASE o = next
    BY <1>1, <1>2, <1>3, <2>1
  <2>2. CASE o # next
    BY <1>3, <2>2 DEF Fetched
  <2> QED BY <2>1, <2>2
<1>7. PendingExact'
  <2> SUFFICES ASSUME NEW o \in Ids
               PROVE  o \in pending' <=> /\ start <= o /\ o < next + 1
                                         /\ ~(phase[o] = "reported" /\ result[o] = "nil")
    BY <1>1 DEF PendingExact, othersVars
  <2>1. CASE o = next
    BY <1>1, <1>2, <2>1 DEF Accepted
  <2>2. CASE o # next
    BY <1>1, <2>2 DEF PendingExact
  <2> QED BY <2>1, <2>2
<1>8. InLine'
  <2>1. /\ \A o \in ToSet(out) : o < next
        /\ taken # NoMsg => taken < next
    BY OutFacts DEF Fetched, AtHand
  <2> QED BY <1>1, <2>1 DEF InLine
<1>9. NothingLost'
  BY <1>1, <1>3 DEF NothingLost, Dropped, othersVars
<1> QED BY <1>4, <1>5, <1>6, <1>7, <1>8, <1>9

LEMMA SendKeepsPlaceInv ==
    ASSUME PlaceInv, Send, UNCHANGED cancelled
    PROVE  PlaceInv'
<1> USE KafkaAssumption DEF PlaceInv, PlaceTypes
<1>1. /\ hand \in Ids /\ hand # NoMsg /\ hand' = NoMsg
      /\ consume = "send" /\ consume' = "fetch"
      /\ UNCHANGED othersVars /\ UNCHANGED <<next, pending, runner, taken>>
  BY DEF Send, UnchangedByConsume, broker, receiving, contractVars, othersVars, Holding
<1>2. OutQueue' /\ ToSet(out') = ToSet(out) \cup {hand}
  <2>1. Len(out) < OutSize /\ out' = Append(out, hand)
    BY DEF Send
  <2>2. \A o \in ToSet(out) : o < hand
    BY <1>1 DEF InLine
  <2> QED BY <1>1, <2>1, <2>2, OutAppend
<1>3. \A o \in Ids : /\ AtHand(o)' <=> AtHand(o)
                     /\ Accepted(o)' <=> Accepted(o)
  BY <1>1, <1>2 DEF AtHand, Accepted, othersVars
<1>4. PlaceTypes' /\ Holding' /\ SlotsKept'
  BY <1>1 DEF Holding, othersVars, SlotsKept, Open
<1>5. Fetched' /\ PendingExact' /\ InLine'
  BY <1>1, <1>2, <1>3 DEF Fetched, PendingExact, InLine, othersVars
<1>6. NothingLost'
  BY <1>1, <1>3 DEF NothingLost, Dropped, othersVars
<1> QED BY <1>2, <1>4, <1>5, <1>6

(* Consume returns; it may hold a message only if ctx is done. *)
LEMMA ConsumeEndsKeepsPlaceInv ==
    ASSUME PlaceInv, FetchReturns \/ FetchFails \/ SendCancelled, UNCHANGED cancelled
    PROVE  PlaceInv'
<1> USE KafkaAssumption DEF PlaceInv, PlaceTypes
<1>1. /\ consume' = "ended" /\ hand' = NoMsg
      /\ hand # NoMsg => cancelled /\ hand = next - 1
      /\ consume # "ended"
      /\ UNCHANGED othersVars /\ UNCHANGED <<next, out, pending, runner, taken>>
  BY DEF FetchReturns, FetchFails, SendCancelled, SendStops, ConsumeEnds, UnchangedByConsume,
         broker, receiving, contractVars, othersVars, Holding
<1>2. \A o \in Ids : /\ Accepted(o)' <=> Accepted(o)
                     /\ AtHand(o)' <=> o \in ToSet(out) \/ taken = o
  BY <1>1 DEF Accepted, AtHand, othersVars
<1>3. PlaceTypes' /\ Holding'
  BY <1>1 DEF Holding, othersVars
<1>4. OutQueue' /\ SlotsKept'
  BY <1>1 DEF OutQueue, SlotsKept, Open, othersVars
<1>5. Fetched' /\ PendingExact' /\ InLine'
  BY <1>1, <1>2 DEF Fetched, PendingExact, othersVars, AtHand, InLine
<1>6. NothingLost'
  BY <1>1, <1>2 DEF NothingLost, Dropped, othersVars, AtHand
<1> QED BY <1>3, <1>4, <1>5, <1>6

LEMMA TakeKeepsPlaceInv ==
    ASSUME PlaceInv, Take, UNCHANGED cancelled
    PROVE  PlaceInv'
<1> USE KafkaAssumption DEF PlaceInv, PlaceTypes
<1>1. /\ runner = "select" /\ runner' = "slot" /\ taken = NoMsg
      /\ UNCHANGED othersVars /\ UNCHANGED <<next, consume, hand, pending>>
  BY DEF Take, UnchangedByRunner, broker, producing, contractVars, othersVars, Holding
<1>2. /\ OutQueue' /\ taken' \in Ids
      /\ ToSet(out) = ToSet(out') \cup {taken'}
      /\ \A o \in ToSet(out') : taken' < o
  <2>1. out # <<>> /\ taken' = Head(out) /\ out' = Tail(out)
    BY DEF Take
  <2> QED BY <2>1, OutTake
<1>3. \A o \in Ids : /\ Accepted(o)' <=> Accepted(o)
                     /\ AtHand(o)' <=> AtHand(o)
  BY <1>1, <1>2 DEF Accepted, AtHand, othersVars
<1>4. PlaceTypes' /\ Holding' /\ SlotsKept'
  BY <1>1, <1>2 DEF Holding, othersVars, SlotsKept, Open
<1>5. Fetched' /\ PendingExact' /\ InLine'
  BY <1>1, <1>2, <1>3 DEF Fetched, PendingExact, InLine, othersVars
<1>6. NothingLost'
  BY <1>1, <1>3 DEF NothingLost, Dropped, othersVars
<1> QED BY <1>2, <1>4, <1>5, <1>6

(* runSource returns: with ctx done it drops what it holds. *)
LEMMA LeaveKeepsPlaceInv ==
    ASSUME PlaceInv, SourceDone \/ AdmitCancelled, UNCHANGED cancelled
    PROVE  PlaceInv'
<1> USE KafkaAssumption DEF PlaceInv, PlaceTypes
<1>1. /\ runner' = "ended" /\ taken' = NoMsg
      /\ taken # NoMsg => cancelled
      /\ runner # "ended"
      /\ UNCHANGED othersVars /\ UNCHANGED <<next, consume, hand, pending, out>>
  BY DEF SourceDone, AdmitCancelled, GivesUp, Leave, UnchangedByRunner, broker, producing,
         contractVars, othersVars, Holding
<1>2. \A o \in Ids : /\ Accepted(o)' <=> Accepted(o)
                     /\ AtHand(o)' <=> o \in ToSet(out) \/ hand = o
  BY <1>1 DEF Accepted, AtHand, othersVars
<1>3. PlaceTypes' /\ Holding'
  BY <1>1 DEF Holding, othersVars
<1>4. OutQueue' /\ SlotsKept'
  BY <1>1 DEF OutQueue, SlotsKept, Open, othersVars
<1>5. Fetched' /\ PendingExact' /\ InLine'
  BY <1>1, <1>2 DEF Fetched, PendingExact, othersVars, AtHand, InLine
<1>6. NothingLost'
  BY <1>1, <1>2 DEF NothingLost, Dropped, othersVars, AtHand
<1> QED BY <1>3, <1>4, <1>5, <1>6

(* It found no slot: the message stays with it. *)
LEMMA WaitKeepsPlaceInv ==
    ASSUME PlaceInv, AdmitWaits, UNCHANGED cancelled
    PROVE  PlaceInv'
<1> USE KafkaAssumption DEF PlaceInv, PlaceTypes
<1>1. /\ runner = "slot" /\ runner' = "full"
      /\ UNCHANGED othersVars /\ UNCHANGED <<next, consume, hand, pending, out, taken>>
  BY DEF AdmitWaits, UnchangedByRunner, broker, producing, contractVars, othersVars
<1>2. \A o \in Ids : (Accepted(o)' <=> Accepted(o)) /\ (AtHand(o)' <=> AtHand(o))
  BY <1>1 DEF Accepted, AtHand, othersVars
<1>3. PlaceTypes' /\ Holding' /\ OutQueue' /\ SlotsKept'
  BY <1>1 DEF Holding, othersVars, OutQueue, SlotsKept, Open
<1>4. Fetched' /\ PendingExact' /\ InLine'
  BY <1>1, <1>2 DEF Fetched, PendingExact, InLine, othersVars
<1>5. NothingLost'
  BY <1>1, <1>2 DEF NothingLost, Dropped, othersVars
<1> QED BY <1>3, <1>4, <1>5

(* Dispatch to the edges has begun: the message is the graph's. *)
LEMMA AdmitKeepsPlaceInv ==
    ASSUME LifeTypes, PlaceInv, Admit, UNCHANGED cancelled
    PROVE  PlaceInv'
<1> DEFINE m == taken
<1> USE KafkaAssumption DEF PlaceInv, PlaceTypes
<1>1. /\ runner \in {"slot", "full"} /\ runner' = "select" /\ m \in Ids /\ m # NoMsg /\ taken' = NoMsg
      /\ phase[m] = "new" /\ phase' = [phase EXCEPT ![m] = "open"]
      /\ MaxInflight = 0 \/ Cardinality(Open) < MaxInflight
      /\ UNCHANGED <<committed, start, reader, next, consume, hand, out, pending, committing,
                     handled, failed, result>>
  BY DEF Admit, Accept, UnchangedByRunner, broker, producing, Holding
<1>2. \A o \in Ids : phase'[o] = IF o = m THEN "open" ELSE phase[o]
  BY <1>1 DEF LifeTypes
<1>3. ~(m \in ToSet(out)) /\ hand # m
  BY <1>1 DEF InLine
<1> HIDE DEF m
<1>4. \A o \in Ids : /\ Accepted(o)' <=> Accepted(o) \/ o = m
                     /\ AtHand(o)' <=> AtHand(o) /\ o # m
  BY <1>1, <1>2, <1>3 DEF Accepted, AtHand, m
<1>5. SlotsKept'
  <2>1. Open' = Open \cup {m} /\ m \notin Open
    BY <1>1, <1>2 DEF Open
  <2>2. Cardinality(Open') = Cardinality(Open) + 1
    BY <2>1, OpenFinite, FS_AddElement
  <2> QED BY <1>1, <2>2, OpenFinite DEF SlotsKept
<1>6. PlaceTypes' /\ Holding' /\ OutQueue'
  BY <1>1 DEF Holding, OutQueue
<1>7. AtHand(m)
  BY DEF AtHand, m
<1>8. Fetched' /\ InLine'
  BY <1>1, <1>4, <1>7 DEF Fetched, InLine
<1>9. PendingExact'
  BY <1>1, <1>2 DEF PendingExact
<1>10. NothingLost'
  BY <1>1, <1>4 DEF NothingLost, Dropped
<1> QED BY <1>5, <1>6, <1>8, <1>9, <1>10

-----------------------------------------------------------------------------
(* The acks leave the goroutines of the source alone. *)
sourceSide == <<start, reader, next, consume, hand, out, runner, taken, cancelled>>

(* What a message is acked with counts once OnAck has heard it. *)
LEMMA AckKeepsPlaceInv ==
    ASSUME LifeTypes, PlaceInv, NEW o \in Ids, NEW p, UNCHANGED sourceSide,
           PlaceTypes', p # "new", p # "open", phase[o] # "new",
           phase' = [phase EXCEPT ![o] = p], PendingExact'
    PROVE  PlaceInv'
<1> USE DEF PlaceInv
<1>1. \A i \in Ids : phase'[i] = IF i = o THEN p ELSE phase[i]
  BY DEF LifeTypes
<1>2. \A i \in Ids : /\ Accepted(i)' <=> Accepted(i)
                     /\ AtHand(i)' <=> AtHand(i)
  BY <1>1 DEF Accepted, AtHand, sourceSide
<1>3. Holding' /\ Fetched' /\ InLine' /\ NothingLost'
  BY <1>2 DEF Holding, Fetched, InLine, NothingLost, Dropped, sourceSide
<1>4. OutQueue'
  BY DEF OutQueue, sourceSide
<1>5. SlotsKept'
  <2>1. Open' \subseteq Open
    BY <1>1 DEF Open
  <2>2. Cardinality(Open') <= Cardinality(Open) /\ Cardinality(Open') \in Nat
    BY <2>1, OpenFinite, FS_Subset, FS_CardinalityType
  <2> QED BY <2>2, OpenFinite, KafkaAssumption DEF SlotsKept
<1> QED BY <1>3, <1>4, <1>5

LEMMA SettleKeepsPlaceInv ==
    ASSUME LifeTypes, PlaceInv, NEW o \in Ids, NEW r \in {"nil", "err"}, Settle(o, r),
           UNCHANGED cancelled
    PROVE  PlaceInv'
<1>1. /\ phase[o] = "open" /\ phase' = [phase EXCEPT ![o] = "released"]
      /\ result' = [result EXCEPT ![o] = r]
      /\ UNCHANGED <<committed, pending, committing, handled, failed>>
      /\ UNCHANGED sourceSide
  BY DEF Settle, Release, UnchangedByAck, producing, receiving, sourceSide
<1>2. \A i \in Ids : /\ phase'[i] = IF i = o THEN "released" ELSE phase[i]
                     /\ result'[i] = IF i = o THEN r ELSE result[i]
  BY <1>1 DEF LifeTypes
<1>3. PlaceTypes' /\ PendingExact'
  BY <1>1, <1>2 DEF PlaceInv, PlaceTypes, PendingExact, sourceSide
<1> QED BY <1>1, <1>3, AckKeepsPlaceInv

LEMMA HearKeepsPlaceInv ==
    ASSUME LifeTypes, PlaceInv, NEW o \in Ids, Hear(o), UNCHANGED cancelled
    PROVE  PlaceInv'
<1>1. /\ phase[o] = "released" /\ phase' = [phase EXCEPT ![o] = "reported"]
      /\ result' = result /\ committed' = committed
      /\ UNCHANGED sourceSide
      /\ pending' = IF result[o] = "nil" THEN pending \ {o} ELSE pending
      /\ committing' \subseteq committing \cup {o}
      /\ handled' \subseteq handled \cup {o} /\ failed' \subseteq failed \cup {o}
  BY DEF Hear, Acked, Report, UnchangedByAck, producing, receiving, sourceSide
<1>2. \A i \in Ids : phase'[i] = IF i = o THEN "reported" ELSE phase[i]
  BY <1>1 DEF LifeTypes
<1>3. PlaceTypes'
  BY <1>1 DEF PlaceInv, PlaceTypes, sourceSide
<1>4. PendingExact'
  BY <1>1, <1>2 DEF PlaceInv, PendingExact, sourceSide
<1> QED BY <1>1, <1>3, <1>4, AckKeepsPlaceInv

(* A commit is of what has left the pipeline. *)
LEMMA CommitKeepsPlaceInv ==
    ASSUME PlaceInv, NEW o \in Ids, Commit(o) \/ CommitFails(o), UNCHANGED cancelled
    PROVE  PlaceInv'
<1>1. /\ committed' \in {committed, o + 1} /\ committing' \subseteq committing
      /\ UNCHANGED <<start, reader, next, consume, hand, out, runner, taken, pending, handled,
                     failed, phase, result>>
  BY DEF Commit, CommitFails, CommitReturns, UnchangedByAck, producing, receiving, contractVars
<1>2. PlaceTypes'
  BY <1>1, KafkaAssumption DEF PlaceInv, PlaceTypes
<1> QED BY <1>1, <1>2
        DEF PlaceInv, OutQueue, Holding, AtHand, Accepted, Fetched, InLine, NothingLost, Dropped,
            PendingExact, SlotsKept, Open

-----------------------------------------------------------------------------
LEMMA WorkKeepsPlaceInv ==
    ASSUME LifeInv, PlaceInv, Work
    PROVE  PlaceInv'
<1>1. UNCHANGED cancelled /\ LifeTypes
  BY DEF Work, LifeInv
<1>2. CASE Consume \/ FetchFails
  BY <1>1, <1>2, FetchKeepsPlaceInv, SendKeepsPlaceInv, ConsumeEndsKeepsPlaceInv DEF Consume
<1>3. CASE RunSource
  BY <1>1, <1>3, TakeKeepsPlaceInv, LeaveKeepsPlaceInv, WaitKeepsPlaceInv,
     AdmitKeepsPlaceInv DEF RunSource
<1>4. ASSUME NEW o \in Ids, SettleHere(o) \/ Hear(o) \/ Commit(o) \/ CommitFails(o)
      PROVE  PlaceInv'
  BY <1>1, <1>4, SettleKeepsPlaceInv, HearKeepsPlaceInv, CommitKeepsPlaceInv DEF SettleHere
<1> QED BY <1>2, <1>3, <1>4 DEF Work

(* Start and Stop move nothing, except for the reader. *)
LEMMA StartAndStopKeepPlaceInv ==
    ASSUME LifeInv, PlaceInv, Start \/ InitFails \/ Run \/ StopSources \/ Stop \/ TimesOut \/ Signal
    PROVE  PlaceInv'
<1> USE DEF sourceVars, broker, producing, receiving, contractVars
<1>1. CASE InitStage(Source)
  <2>1. Pristine
    BY <1>1 DEF InitStage, LifeInv, Started
  <2> QED BY <1>1, <2>1, NewReaderKeepsPlaceInv DEF InitStage
<1>2. CASE InitStage(Sink)
  BY <1>2, LifeAssumption, QuietKeepsPlaceInv DEF InitStage, placeVars
<1>3. CASE Launch \/ InitFails \/ Signal
  BY <1>3, QuietKeepsPlaceInv DEF Launch, InitFails, Signal, placeVars
<1>4. CASE RunBegins
  <2>1. /\ consume = "none" /\ runner = "none" /\ consume' = "fetch" /\ runner' = "select"
        /\ UNCHANGED <<committed, start, reader, next, hand, out, taken, pending, committing,
                       handled, failed, phase, result, cancelled>>
    BY <1>4 DEF RunBegins, LifeInv, Started, Pristine
  <2> QED BY <2>1 DEF PlaceInv, PlaceTypes, OutQueue, Holding, AtHand, Accepted, Fetched, InLine,
                      NothingLost, Dropped, PendingExact, SlotsKept, Open
<1>5. CASE GraphReturns \/ RunReturns \/ DrainReturns
  BY <1>5, QuietKeepsPlaceInv DEF GraphReturns, RunReturns, DrainReturns, placeVars
<1>6. CASE StopSources
  <2>1. /\ reader' = "closed" /\ reader # "none"
        /\ UNCHANGED <<committed, start, next, consume, hand, out, runner, taken, pending,
                       committing, handled, failed, phase, result, cancelled>>
    BY <1>6 DEF StopSources, CloseReader, LifeInv, Started, Stages
  <2> QED BY <2>1 DEF PlaceInv, PlaceTypes, OutQueue, Holding, AtHand, Accepted, Fetched, InLine,
                      NothingLost, Dropped, PendingExact, SlotsKept, Open
<1>7. CASE Stop \/ TimesOut
  BY <1>7, QuietKeepsPlaceInv DEF Stop, Cancel, Waited, CloseEdges, FlushAndStop, TimesOut, placeVars
<1> QED BY <1>1, <1>2, <1>3, <1>4, <1>5, <1>6, <1>7 DEF Start, Run, Stages

LEMMA NextKeepsPlaceInv ==
    ASSUME LifeInv, PlaceInv, [Next]_vars
    PROVE  PlaceInv'
<1>1. CASE UNCHANGED vars
  BY <1>1, QuietKeepsPlaceInv
     DEF vars, sourceVars, broker, producing, receiving, contractVars, placeVars
<1> QED BY <1>1, WorkKeepsPlaceInv, StartAndStopKeepPlaceInv, NextPipelineKeepsPlaceInv DEF Next

LEMMA PlaceInvariant == Spec => []PlaceInv
BY PlaceInvInit, LifeInvariant, NextKeepsPlaceInv, PTL DEF Spec

(* Where Places looks, at most one thing can be found. *)
LEMMA OnlyOnePlace ==
    ASSUME PlaceInv, LifeTypes, NEW o \in Ids
    PROVE  /\ Cardinality(Places(o)) <= 1
           /\ Places(o) = {} <=> ~AtHand(o) /\ ~Accepted(o)
<1>1. NoMsg \notin Ids
  BY KafkaAssumption
<1>2. \/ Places(o) = {} /\ ~AtHand(o) /\ ~Accepted(o)
      \/ \E p : Places(o) = {p} /\ (AtHand(o) \/ Accepted(o))
  <2>1. /\ hand = o => o \notin ToSet(out) /\ taken # o
        /\ taken = o => o \notin ToSet(out)
        /\ AtHand(o) => ~Accepted(o)
    BY <1>1, KafkaAssumption DEF PlaceInv, PlaceTypes, InLine, Fetched
  <2>2. CASE hand = o
    <3>1. Places(o) = {"hand"}
      BY <2>1, <2>2 DEF Places, Accepted, AtHand
    <3> QED BY <2>2, <3>1 DEF AtHand
  <2>3. CASE o \in ToSet(out)
    <3>1. Places(o) = {"out"}
      BY <2>1, <2>3 DEF Places, Accepted, AtHand
    <3> QED BY <2>3, <3>1 DEF AtHand
  <2>4. CASE taken = o
    <3>1. Places(o) = {"taken"}
      BY <2>1, <2>4 DEF Places, Accepted, AtHand
    <3> QED BY <2>4, <3>1 DEF AtHand
  <2>5. CASE Accepted(o)
    <3>1. Places(o) = {"graph"}
      BY <2>1, <2>5 DEF Places, Accepted, AtHand
    <3> QED BY <2>5, <3>1
  <2>6. CASE ~AtHand(o) /\ ~Accepted(o)
    <3>1. Places(o) = {}
      BY <2>6 DEF Places, Accepted, AtHand
    <3> QED BY <2>6, <3>1
  <2> QED BY <2>2, <2>3, <2>4, <2>5, <2>6 DEF AtHand
<1>3. Cardinality(Places(o)) <= 1
  <2>1. Cardinality({}) = 0 /\ \A p : Cardinality({p}) = 1
    BY FS_EmptySet, FS_Singleton
  <2>2. Cardinality(Places(o)) \in {0, 1}
    BY <1>2, <2>1
  <2> QED BY <2>2
<1> QED BY <1>2, <1>3

(* A fetched offset is in one place, whatever the goroutines did and       *)
(* however often Start and Stop were called (kafka.go:80-121,             *)
(* pipeline.go:315-357); the limit on open messages is never exceeded.     *)
THEOREM FetchedIsInOnePlace == Spec => []OnePlace
<1>1. LifeInv /\ PlaceInv => OnePlace
  <2> SUFFICES ASSUME LifeInv, PlaceInv PROVE OnePlace
    OBVIOUS
  <2> USE KafkaAssumption
  <2>1. TypeOK
    <3>1. ToSet(out) \subseteq Ids
      BY OutFacts DEF PlaceInv
    <3>2. Len(out) <= OutSize
      BY DEF PlaceInv, OutQueue
    <3> QED BY <3>1, <3>2 DEF LifeInv, LifeTypes, PlaceInv, PlaceTypes, TypeOK
  <2>2. ASSUME NEW o \in Ids
        PROVE  /\ Cardinality(Places(o)) <= 1
               /\ o \notin start..next - 1 => Places(o) = {}
               /\ o \in start..next - 1 /\ ~cancelled => Places(o) # {}
               /\ o \in pending <=> /\ o \in start..next - 1
                                    /\ ~(phase[o] = "reported" /\ result[o] = "nil")
    <3>1. o \in start..next - 1 <=> start <= o /\ o < next
      BY DEF PlaceInv, PlaceTypes
    <3>2. /\ Cardinality(Places(o)) <= 1
          /\ Places(o) = {} <=> ~AtHand(o) /\ ~Accepted(o)
      BY OnlyOnePlace DEF LifeInv
    <3> QED BY <3>1, <3>2 DEF PlaceInv, Fetched, NothingLost, Dropped, PendingExact
  <2> QED BY <2>1, <2>2 DEF OnePlace, PlaceInv, SlotsKept
<1> QED BY LifeInvariant, PlaceInvariant, <1>1, PTL

-----------------------------------------------------------------------------
(* What is committed.                                                      *)

Tried(o) == o \in handled \cup failed

(* The graph was given the offsets one after the other. *)
AcceptedInOrder ==
    \A o, p \in Ids : start <= p /\ p < o /\ Accepted(o) => Accepted(p)

(* An ack under way, in an ordered graph, has nothing untried below it. *)
AckedInOrder ==
    ordered => \A o, p \in Ids :
                  p < o /\ (phase[o] = "released" \/ o \in committing) => Tried(p)

Recorded ==
    /\ committing \subseteq handled
    /\ \A o \in Ids : phase[o] = "reported" => Tried(o)
    /\ ordered => \A p \in Ids : p < start => Tried(p)

CommittedTruly ==
    /\ committed > 0 => committed - 1 \in handled
    /\ ordered => \A p \in Ids : p < committed => Tried(p)

CommitInv == AcceptedInOrder /\ AckedInOrder /\ Recorded /\ CommittedTruly

ackVars == <<committed, start, committing, ordered, handled, failed, phase>>

LEMMA CommitInvInit == Init => CommitInv
BY KafkaAssumption DEF Init, SourceInit, ContractInit, CommitInv, AcceptedInOrder, Accepted,
   AckedInOrder, Recorded, CommittedTruly, Tried

LEMMA QuietKeepsCommitInv ==
    ASSUME CommitInv, UNCHANGED ackVars
    PROVE  CommitInv'
BY DEF ackVars, CommitInv, AcceptedInOrder, Accepted, AckedInOrder, Recorded, CommittedTruly, Tried

(* Nothing is acked when a reader joins or a Pipeline begins; what the     *)
(* broker has is what the last Pipelines committed.                        *)
LEMMA PristineKeepsCommitInv ==
    ASSUME CommitInv, PlaceTypes, Pristine', committed' = committed, start' \in {start, committed},
           UNCHANGED <<ordered, handled, failed>>
    PROVE  CommitInv'
<1>1. committing' = {} /\ \A o \in Ids : phase'[o] = "new"
  BY DEF Pristine
<1> QED BY <1>1 DEF CommitInv, AcceptedInOrder, Accepted, AckedInOrder, Recorded, CommittedTruly, Tried

(* runSource has no older offset left that it could still admit. *)
LEMMA AdmitKeepsCommitInv ==
    ASSUME LifeTypes, PlaceInv, CommitInv, Admit
    PROVE  CommitInv'
<1> DEFINE m == taken
<1>1. /\ runner \in {"slot", "full"} /\ m \in Ids /\ m # NoMsg
      /\ phase' = [phase EXCEPT ![m] = "open"]
      /\ UNCHANGED <<committed, start, committing, ordered, handled, failed>>
  BY DEF Admit, Accept, UnchangedByRunner, broker, producing, PlaceInv, PlaceTypes, Holding
<1>2. \A o \in Ids : phase'[o] = IF o = m THEN "open" ELSE phase[o]
  BY <1>1 DEF LifeTypes
<1>3. ASSUME NEW p \in Ids, start <= p, p < m
      PROVE  Accepted(p)
  <2>1. m < next
    BY <1>1 DEF PlaceInv, Fetched, AtHand
  <2>2. p < next /\ ~(consume = "ended" /\ p = next - 1)
    BY <1>1, <1>3, <2>1, KafkaAssumption DEF PlaceInv, PlaceTypes
  <2>3. ~AtHand(p)
    BY <1>1, <1>3, KafkaAssumption DEF PlaceInv, PlaceTypes, InLine, AtHand
  <2> QED BY <1>1, <1>3, <2>2, <2>3 DEF PlaceInv, NothingLost, Dropped
<1> HIDE DEF m
<1>4. AcceptedInOrder'
  BY <1>1, <1>2, <1>3 DEF CommitInv, AcceptedInOrder, Accepted
<1> QED BY <1>1, <1>2, <1>4 DEF CommitInv, AckedInOrder, Recorded, CommittedTruly, Tried

LEMMA SettleKeepsCommitInv ==
    ASSUME LifeTypes, PlaceInv, CommitInv, NEW o \in Ids, NEW r, Settle(o, r)
    PROVE  CommitInv'
<1>1. /\ phase[o] = "open" /\ phase' = [phase EXCEPT ![o] = "released"]
      /\ ordered => Before(o)
      /\ UNCHANGED <<committed, start, committing, ordered, handled, failed>>
  BY DEF Settle, Release, UnchangedByAck
<1>2. \A i \in Ids : phase'[i] = IF i = o THEN "released" ELSE phase[i]
  BY <1>1 DEF LifeTypes
<1>3. ASSUME ordered, NEW p \in Ids, p < o PROVE Tried(p)
  <2>1. phase[p] \in {"new", "reported"}
    BY <1>1, <1>3, KafkaAssumption DEF Before
  <2>2. CASE p < start
    BY <1>3, <2>2 DEF CommitInv, Recorded
  <2>3. CASE start <= p
    BY <1>1, <1>3, <2>1, <2>3 DEF CommitInv, AcceptedInOrder, Accepted, Recorded
  <2> QED BY <2>2, <2>3, KafkaAssumption DEF PlaceInv, PlaceTypes
<1>4. AcceptedInOrder' /\ Recorded' /\ CommittedTruly'
  BY <1>1, <1>2 DEF CommitInv, AcceptedInOrder, Accepted, Recorded, CommittedTruly, Tried
<1>5. AckedInOrder'
  BY <1>1, <1>2, <1>3 DEF CommitInv, AckedInOrder, Tried
<1> QED BY <1>4, <1>5 DEF CommitInv

LEMMA HearKeepsCommitInv ==
    ASSUME LifeTypes, CommitInv, NEW o \in Ids, Hear(o)
    PROVE  CommitInv'
<1>1. /\ phase[o] = "released" /\ phase' = [phase EXCEPT ![o] = "reported"]
      /\ UNCHANGED <<committed, start, ordered>>
      /\ \/ committing' = committing \cup {o} /\ handled' = handled \cup {o} /\ failed' = failed
         \/ committing' = committing /\ handled' = handled /\ failed' = failed \cup {o}
  BY DEF Hear, Acked, Report, UnchangedByAck
<1>2. \A i \in Ids : phase'[i] = IF i = o THEN "reported" ELSE phase[i]
  BY <1>1 DEF LifeTypes
<1>3. /\ \A i \in Ids : Tried(i)' <=> Tried(i) \/ i = o
      /\ handled \subseteq handled'
  BY <1>1 DEF Tried
<1> QED BY <1>1, <1>2, <1>3
        DEF CommitInv, AcceptedInOrder, Accepted, AckedInOrder, Recorded, CommittedTruly

LEMMA CommitKeepsCommitInv ==
    ASSUME PlaceTypes, CommitInv, NEW o \in Ids, Commit(o) \/ CommitFails(o)
    PROVE  CommitInv'
<1>1. /\ committed' \in {committed, o + 1} /\ o \in committing /\ committing' = committing \ {o}
      /\ UNCHANGED <<start, ordered, handled, failed, phase>>
  BY DEF Commit, CommitFails, CommitReturns, UnchangedByAck, contractVars
<1>2. CommittedTruly'
  <2>1. CASE committed' = committed
    BY <1>1, <2>1 DEF CommitInv, CommittedTruly, Tried
  <2>2. CASE committed' = o + 1
    BY <1>1, <2>2, KafkaAssumption DEF CommitInv, CommittedTruly, AckedInOrder, Recorded, Tried
  <2> QED BY <1>1, <2>1, <2>2
<1> QED BY <1>1, <1>2 DEF CommitInv, AcceptedInOrder, Accepted, AckedInOrder, Recorded, Tried

LEMMA NextKeepsCommitInv ==
    ASSUME LifeInv, PlaceInv, CommitInv, [Next]_vars
    PROVE  CommitInv'
<1> USE DEF broker, contractVars
<1>1. CASE UNCHANGED vars
  BY <1>1, QuietKeepsCommitInv DEF vars, sourceVars, ackVars
<1>2. CASE Start \/ InitFails
  <2>1. CASE InitStage(Source)
    <3>1. Pristine /\ NewReader
      BY <2>1 DEF InitStage, LifeInv, Started
    <3>2. Pristine'
      BY <3>1 DEF Pristine, NewReader, receiving
    <3> QED BY <3>1, <3>2, PristineKeepsCommitInv DEF NewReader, PlaceInv
  <2>2. CASE InitStage(Sink) \/ Launch \/ InitFails
    BY <2>2, LifeAssumption, QuietKeepsCommitInv DEF InitStage, Launch, InitFails, sourceVars, ackVars
  <2> QED BY <1>2, <2>1, <2>2 DEF Start, Stages
<1>3. CASE Run \/ StopSources \/ Stop \/ TimesOut \/ Signal
  BY <1>3, QuietKeepsCommitInv
     DEF Run, RunBegins, GraphReturns, RunReturns, DrainReturns, StopSources, CloseReader, Stop,
         Cancel, Waited, CloseEdges, FlushAndStop, TimesOut, Signal, sourceVars, ackVars
<1>4. CASE Replaced \/ Restart
  <2>1. Pristine'
    BY <1>4 DEF Replaced, Restart, NextPipeline, Fresh, Pristine
  <2> QED BY <1>4, <2>1, PristineKeepsCommitInv DEF Replaced, Restart, NextPipeline, PlaceInv
<1>5. CASE Work
  <2>1. CASE Consume \/ FetchFails
    BY <2>1, QuietKeepsCommitInv
       DEF Consume, Fetch, FetchReturns, FetchFails, Send, SendCancelled, ConsumeEnds,
           UnchangedByConsume, ackVars
  <2>2. CASE Take \/ SourceDone \/ AdmitWaits \/ AdmitCancelled
    BY <2>2, QuietKeepsCommitInv
       DEF Take, SourceDone, AdmitWaits, AdmitCancelled, Leave, UnchangedByRunner, ackVars
  <2>3. CASE Admit
    BY <2>3, AdmitKeepsCommitInv DEF LifeInv
  <2>4. ASSUME NEW o \in Ids, SettleHere(o) \/ Hear(o) \/ Commit(o) \/ CommitFails(o)
        PROVE  CommitInv'
    BY <2>4, SettleKeepsCommitInv, HearKeepsCommitInv, CommitKeepsCommitInv
       DEF SettleHere, LifeInv, PlaceInv
  <2> QED BY <1>5, <2>1, <2>2, <2>3, <2>4 DEF Work, RunSource
<1> QED BY <1>1, <1>2, <1>3, <1>4, <1>5 DEF Next

(* Nothing is committed that was not handled, and where acks come in the   *)
(* order of the source nothing below it is untried, across Pipelines and   *)
(* restarts (kafka.go OnAck 106-121, CommitMessages after the unlock).     *)
THEOREM CommitsAreTrue == Spec => []CommitTruth
<1>1. CommitInv /\ PlaceTypes => CommitTruth
  <2> SUFFICES ASSUME CommitInv, PlaceTypes PROVE CommitTruth
    OBVIOUS
  <2>1. \A p \in 0..committed - 1 : p \in Ids /\ p < committed
    BY KafkaAssumption DEF PlaceTypes
  <2> QED BY <2>1 DEF CommitInv, CommittedTruly, Tried, CommitTruth
<1>2. Spec => []CommitInv
  BY CommitInvInit, LifeInvariant, PlaceInvariant, NextKeepsCommitInv, PTL DEF Spec
<1>3. PlaceInv => PlaceTypes
  BY DEF PlaceInv
<1> QED BY <1>1, <1>2, <1>3, PlaceInvariant, PTL
===============================================================================

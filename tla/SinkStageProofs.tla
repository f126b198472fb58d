--------------------------- MODULE SinkStageProofs ---------------------------
(***************************************************************************)
(* Theorems about SinkStage.tla, for any number of messages and any        *)
(* settings.                                                               *)
(*                                                                         *)
(* The channels and batches are sequences, but all the argument needs of   *)
(* them is which messages are in them and that these come in order; the    *)
(* lemmas named ...View say so, and Seq and Len stay in those lemmas.      *)
(***************************************************************************)
EXTENDS SinkStage, FiniteSetTheorems, TLAPS

-----------------------------------------------------------------------------
(* The messages and offsets in channels and batches.                       *)

(* Every element has a place. *)
LEMMA InSeq ==
    ASSUME NEW S, NEW s \in Seq(S), NEW x
    PROVE  x \in ToSet(s) <=> \E i \in 1..Len(s) : s[i] = x
BY DEF ToSet

LEMMA ToSetType ==
    ASSUME NEW S, NEW s \in Seq(S)
    PROVE  ToSet(s) \subseteq S
BY InSeq

LEMMA ToSetAppend ==
    ASSUME NEW S, NEW s \in Seq(S), NEW e \in S
    PROVE  ToSet(Append(s, e)) = ToSet(s) \cup {e}
<1> DEFINE t == Append(s, e)
<1>1. t \in Seq(S) /\ Len(t) = Len(s) + 1 /\ Len(s) \in Nat
  OBVIOUS
<1>2. /\ \A i \in 1..Len(s) : t[i] = s[i]
      /\ t[Len(s) + 1] = e
  OBVIOUS
<1> HIDE DEF t
<1>3. ASSUME NEW x PROVE x \in ToSet(t) <=> x \in ToSet(s) \/ x = e
  <2>1. x \in ToSet(t) <=> \E i \in 1..Len(s) + 1 : t[i] = x
    BY <1>1, InSeq
  <2>2. x \in ToSet(s) <=> \E i \in 1..Len(s) : s[i] = x
    BY InSeq
  <2> QED BY <1>1, <1>2, <2>1, <2>2
<1> QED BY <1>3 DEF t

LEMMA ToSetTail ==
    ASSUME NEW S, NEW s \in Seq(S), s # <<>>
    PROVE  /\ Head(s) \in S /\ Tail(s) \in Seq(S)
           /\ ToSet(s) = ToSet(Tail(s)) \cup {Head(s)}
<1> DEFINE t == Tail(s)
<1>1. Head(s) \in S /\ t \in Seq(S) /\ Len(t) = Len(s) - 1 /\ Len(s) \in Nat \ {0}
  OBVIOUS
<1>2. /\ \A i \in 1..Len(t) : t[i] = s[i + 1]
      /\ Head(s) = s[1]
  OBVIOUS
<1> HIDE DEF t
<1>3. ASSUME NEW x PROVE x \in ToSet(s) <=> x \in ToSet(t) \/ x = Head(s)
  <2>1. x \in ToSet(t) <=> \E i \in 1..Len(s) - 1 : t[i] = x
    BY <1>1, InSeq
  <2>2. x \in ToSet(s) <=> \E i \in 1..Len(s) : s[i] = x
    BY InSeq
  <2>3. ASSUME x \in ToSet(s), x # Head(s) PROVE x \in ToSet(t)
    <3>1. PICK i \in 1..Len(s) : s[i] = x
      BY <2>2, <2>3
    <3>2. i - 1 \in 1..Len(t) /\ t[i - 1] = x
      BY <1>1, <1>2, <2>3, <3>1
    <3> QED BY <1>1, <2>1, <3>2
  <2>4. ASSUME x \in ToSet(t) \/ x = Head(s) PROVE x \in ToSet(s)
    BY <1>1, <1>2, <2>1, <2>2, <2>4
  <2> QED BY <2>3, <2>4
<1> QED BY <1>1, <1>3 DEF t

LEMMA ToSetEmpty == ToSet(<<>>) = {}
BY DEF ToSet

(* The elements of the one follow those of the other. *)
LEMMA ToSetConcat ==
    ASSUME NEW S, NEW s \in Seq(S), NEW t \in Seq(S)
    PROVE  ToSet(s \o t) = ToSet(s) \cup ToSet(t)
<1> DEFINE u == s \o t
<1>1. u \in Seq(S) /\ Len(u) = Len(s) + Len(t) /\ Len(s) \in Nat /\ Len(t) \in Nat
  OBVIOUS
<1>2. /\ \A i \in 1..Len(s) : u[i] = s[i]
      /\ \A i \in 1..Len(t) : u[Len(s) + i] = t[i]
      /\ \A i \in Len(s) + 1..Len(u) : u[i] = t[i - Len(s)] /\ i - Len(s) \in 1..Len(t)
  BY <1>1
<1> HIDE DEF u
<1>3. ASSUME NEW x PROVE x \in ToSet(u) <=> x \in ToSet(s) \/ x \in ToSet(t)
  <2>1. /\ x \in ToSet(s) <=> \E i \in 1..Len(s) : s[i] = x
        /\ x \in ToSet(t) <=> \E i \in 1..Len(t) : t[i] = x
        /\ x \in ToSet(u) <=> \E i \in 1..Len(u) : u[i] = x
    BY <1>1, InSeq
  <2>2. ASSUME x \in ToSet(u) PROVE x \in ToSet(s) \/ x \in ToSet(t)
    BY <1>1, <1>2, <2>1, <2>2
  <2>3. ASSUME x \in ToSet(s) PROVE x \in ToSet(u)
    BY <1>1, <1>2, <2>1, <2>3
  <2>4. ASSUME x \in ToSet(t) PROVE x \in ToSet(u)
    <3>1. PICK i \in 1..Len(t) : t[i] = x
      BY <2>1, <2>4
    <3>2. Len(s) + i \in 1..Len(u) /\ u[Len(s) + i] = x
      BY <1>1, <1>2, <3>1
    <3> QED BY <2>1, <3>2
  <2> QED BY <2>2, <2>3, <2>4
<1> QED BY <1>3 DEF u

(* Numbers that only grow, such as the offsets in a channel. *)
Increasing(s) == \A i, j \in 1..Len(s) : i < j => s[i] < s[j]

LEMMA AppendIncreasing ==
    ASSUME NEW S, S \subseteq Int, NEW s \in Seq(S), NEW e \in S,
           Increasing(s), \A x \in ToSet(s) : x < e
    PROVE  Increasing(Append(s, e))
<1> DEFINE t == Append(s, e)
<1>1. /\ Len(t) = Len(s) + 1 /\ Len(s) \in Nat
      /\ \A i \in 1..Len(s) : t[i] = s[i]
      /\ t[Len(s) + 1] = e
  OBVIOUS
<1>2. \A i \in 1..Len(s) : s[i] < e
  BY InSeq
<1> HIDE DEF t
<1>3. ASSUME NEW i \in 1..Len(t), NEW j \in 1..Len(t), i < j
      PROVE  t[i] < t[j]
  <2>1. CASE j = Len(s) + 1
    BY <1>1, <1>2, <1>3, <2>1
  <2>2. CASE j # Len(s) + 1
    BY <1>1, <1>3, <2>2 DEF Increasing
  <2> QED BY <2>1, <2>2
<1> QED BY <1>3 DEF Increasing, t

LEMMA TailIncreasing ==
    ASSUME NEW S, S \subseteq Int, NEW s \in Seq(S), s # <<>>, Increasing(s)
    PROVE  Increasing(Tail(s)) /\ \A x \in ToSet(Tail(s)) : Head(s) < x
<1> DEFINE t == Tail(s)
<1>1. /\ Len(t) = Len(s) - 1 /\ Len(s) \in Nat \ {0} /\ t \in Seq(S)
      /\ \A i \in 1..Len(t) : t[i] = s[i + 1]
      /\ Head(s) = s[1]
  OBVIOUS
<1> HIDE DEF t
<1>2. ASSUME NEW i \in 1..Len(t), NEW j \in 1..Len(t), i < j
      PROVE  t[i] < t[j]
  BY <1>1, <1>2 DEF Increasing
<1>3. ASSUME NEW x \in ToSet(t) PROVE Head(s) < x
  <2>1. PICK i \in 1..Len(t) : t[i] = x
    BY <1>1, InSeq
  <2> QED BY <1>1, <2>1 DEF Increasing
<1> QED BY <1>2, <1>3 DEF Increasing, t

LEMMA EmptyIncreasing == Increasing(<<>>) /\ IsInjective(<<>>)
BY DEF Increasing, IsInjective

LEMMA ConcatIncreasing ==
    ASSUME NEW S, S \subseteq Int, NEW s \in Seq(S), NEW t \in Seq(S),
           Increasing(s), Increasing(t), \A x \in ToSet(s), y \in ToSet(t) : x < y
    PROVE  Increasing(s \o t)
<1> DEFINE u == s \o t
<1>1. /\ Len(u) = Len(s) + Len(t) /\ Len(s) \in Nat /\ Len(t) \in Nat
      /\ \A i \in 1..Len(s) : u[i] = s[i]
      /\ \A i \in Len(s) + 1..Len(u) : u[i] = t[i - Len(s)] /\ i - Len(s) \in 1..Len(t)
  OBVIOUS
<1>2. \A i \in 1..Len(s), j \in 1..Len(t) : s[i] < t[j]
  BY InSeq
<1> HIDE DEF u
<1>3. ASSUME NEW i \in 1..Len(u), NEW j \in 1..Len(u), i < j
      PROVE  u[i] < u[j]
  <2>1. CASE j <= Len(s)
    BY <1>1, <1>3, <2>1 DEF Increasing
  <2>2. CASE i <= Len(s) /\ Len(s) < j
    BY <1>1, <1>2, <1>3, <2>2
  <2>3. CASE Len(s) < i
    BY <1>1, <1>3, <2>3 DEF Increasing
  <2> QED BY <1>1, <2>1, <2>2, <2>3
<1> QED BY <1>3 DEF Increasing, u

(* No element comes twice. *)
LEMMA IncreasingInjective ==
    ASSUME NEW S, S \subseteq Int, NEW s \in Seq(S), Increasing(s)
    PROVE  IsInjective(s)
<1>1. /\ DOMAIN s = 1..Len(s) /\ Len(s) \in Nat
      /\ \A i \in 1..Len(s) : s[i] \in S
  OBVIOUS
<1>2. \A i \in 1..Len(s) : s[i] \in Int
  BY <1>1
<1> QED BY <1>1, <1>2 DEF Increasing, IsInjective

LEMMA ConcatInjective ==
    ASSUME NEW S, NEW s \in Seq(S), NEW t \in Seq(S),
           IsInjective(s), IsInjective(t), ToSet(s) \cap ToSet(t) = {}
    PROVE  IsInjective(s \o t)
<1> DEFINE u == s \o t
<1>1. /\ Len(u) = Len(s) + Len(t) /\ Len(s) \in Nat /\ Len(t) \in Nat
      /\ \A i \in 1..Len(s) : u[i] = s[i]
      /\ \A i \in Len(s) + 1..Len(u) : u[i] = t[i - Len(s)] /\ i - Len(s) \in 1..Len(t)
      /\ DOMAIN u = 1..Len(u) /\ DOMAIN s = 1..Len(s) /\ DOMAIN t = 1..Len(t)
  OBVIOUS
<1>2. \A i \in 1..Len(s), j \in 1..Len(t) : s[i] # t[j]
  BY InSeq
<1> HIDE DEF u
<1>3. ASSUME NEW i \in 1..Len(u), NEW j \in 1..Len(u), u[i] = u[j]
      PROVE  i = j
  <2>1. CASE i <= Len(s) /\ j <= Len(s)
    BY <1>1, <1>3, <2>1 DEF IsInjective
  <2>2. CASE (i <= Len(s) /\ Len(s) < j) \/ (j <= Len(s) /\ Len(s) < i)
    BY <1>1, <1>2, <1>3, <2>2
  <2>3. CASE Len(s) < i /\ Len(s) < j
    <3>1. /\ i - Len(s) \in DOMAIN t /\ j - Len(s) \in DOMAIN t
          /\ t[i - Len(s)] = t[j - Len(s)]
      BY <1>1, <1>3, <2>3
    <3>2. i - Len(s) = j - Len(s)
      BY <3>1 DEF IsInjective
    <3> QED BY <1>1, <3>2
  <2> QED BY <1>1, <2>1, <2>2, <2>3
<1> QED BY <1>1, <1>3 DEF IsInjective, u

-----------------------------------------------------------------------------
(* The invariants.                                                         *)

Msgs    == 1..Messages
Batches == Seq(Msgs)

FlatTypes ==
    /\ cfg \in Settings
    /\ forwarder \in {"run", "done"} /\ next \in 1..Messages + 1
    /\ timer \in {"none", "armed", "fired", "spent", "idle"}
    /\ main \in {"select", "enqueue", "direct", "done"} /\ stopping \in BOOLEAN
    /\ step \in [Procs -> {"idle", "write", "backoff", "dlq", "ack", "done"}]
    /\ tries \in [Procs -> 0..cfg.retries + 1]
    /\ result \in [Procs -> {"nil", "err", "stop"}]
    /\ \A x \in Procs : step[x] = "dlq" => result[x] # "nil"
    /\ dlq \subseteq Msgs
    /\ acked \in [Msgs -> {"no", "nil", "err", "stop"}]
    /\ cancelled \in BOOLEAN
    /\ job \in [Procs -> Batches]

SeqTypes ==
    /\ ingress \in Batches /\ Len(ingress) <= IngressSize
    /\ batch \in Batches /\ Len(batch) <= cfg.size
    /\ main = "select" => Len(batch) < cfg.size
    /\ queue \in Seq(Batches) /\ Len(queue) <= cfg.writers
    /\ written \in Batches

(* Who has a batch to write; the collector has one only while it writes    *)
(* itself, and then it gathers nothing.                                    *)
Control ==
    /\ \A x \in Procs : step[x] \in {"idle", "done"} => job[x] = <<>>
    /\ \A x \in Procs : tries[x] > cfg.retries => step[x] \notin {"write", "backoff"}
    /\ step[Collector] # "done"
    /\ main = "direct" <=> step[Collector] # "idle"
    /\ main = "direct" => batch = <<>> /\ cancelled

Held(x) == ToSet(job[x])
Slots   == 1..Len(queue)
Slot(k) == ToSet(queue[k])

Ahead(S, T) == \A m \in S, n \in T : m < n

(* What the edge has delivered. *)
Delivered ==
    /\ \A m \in ToSet(ingress) \cup ToSet(batch) : m < next
    /\ \A k \in Slots : \A m \in Slot(k) : m < next
    /\ \A x \in Procs : \A m \in Held(x) : m < next

(* Its order is kept everywhere but among the batches being written. *)
Sorted ==
    /\ Ahead(ToSet(batch), ToSet(ingress))
    /\ \A k \in Slots : Ahead(Slot(k), ToSet(batch)) /\ Ahead(Slot(k), ToSet(ingress))
    /\ \A j, k \in Slots : j < k => Ahead(Slot(j), Slot(k))
    /\ \A x \in Procs : Ahead(Held(x), ToSet(batch)) /\ Ahead(Held(x), ToSet(ingress))
    /\ \A k \in Slots : /\ \A w \in Writers : Ahead(Held(w), Slot(k))
                        /\ Ahead(Slot(k), Held(Collector))

InOrder == Delivered /\ Sorted

(* No batch has a message twice. *)
EachOnce ==
    /\ Increasing(ingress) /\ Increasing(batch)
    /\ \A k \in Slots : Increasing(queue[k])
    /\ \A x \in Procs : Increasing(job[x])

(* No two of them write the same message, and none that was acked. *)
Apart ==
    /\ \A x, y \in Procs : x # y => Held(x) \cap Held(y) = {}
    /\ \A m \in Msgs : acked[m] # "no" =>
          /\ m < next /\ m \notin ToSet(ingress) /\ m \notin ToSet(batch)
          /\ \A k \in Slots : m \notin Slot(k)
          /\ \A x \in Procs : m \notin Held(x)

NothingLost ==
    \A m \in Msgs : \/ m >= next \/ m \in ToSet(ingress) \/ m \in ToSet(batch) \/ acked[m] # "no"
                    \/ \E k \in Slots : m \in Slot(k)
                    \/ \E x \in Procs : m \in Held(x)

Sent(x)    == step[x] = "ack" /\ result[x] = "nil"
Refused(x) == step[x] = "ack" /\ result[x] # "nil"

(* What was written or put aside is acked, or about to be, with the word   *)
(* that fits.                                                              *)
Told ==
    /\ IsInjective(written)
    /\ \A m \in ToSet(written) : acked[m] = "nil" \/ \E x \in Procs : m \in Held(x) /\ Sent(x)
    /\ \A x \in Procs : Sent(x) => Held(x) \subseteq ToSet(written)
    /\ \A m \in dlq : acked[m] \in {"err", "stop"} \/ \E x \in Procs : m \in Held(x) /\ Refused(x)
    /\ \A x \in Procs : Refused(x) /\ cfg.dlq => Held(x) \subseteq dlq

WordKept ==
    \A m \in Msgs : /\ acked[m] = "nil" => m \in ToSet(written)
                    /\ acked[m] = "err" /\ cfg.dlq => m \in dlq

(* With one writer and no cancellation, what is to be written follows what *)
(* was.                                                                    *)
WrittenInOrder ==
    cfg.writers = 1 /\ ~cancelled =>
        /\ Increasing(written)
        /\ \A m \in ToSet(written) : m < next
        /\ Ahead(ToSet(written), ToSet(batch)) /\ Ahead(ToSet(written), ToSet(ingress))
        /\ \A k \in Slots : Ahead(ToSet(written), Slot(k))
        /\ \A x \in Procs : step[x] # "ack" => Ahead(ToSet(written), Held(x))

PlaceInv == InOrder /\ EachOnce /\ Apart /\ NothingLost

-----------------------------------------------------------------------------
(* What the steps do to the sequences. *)

LEMMA CfgType ==
    ASSUME FlatTypes
    PROVE  /\ cfg.size \in Nat \ {0} /\ cfg.writers \in Nat \ {0} /\ cfg.retries \in Nat
           /\ cfg.limit \in Nat /\ cfg.timed \in BOOLEAN /\ cfg.dlq \in BOOLEAN
BY SinkAssumption DEF FlatTypes

LEMMA MsgsInt == Msgs \subseteq Int /\ Messages \in Nat /\ IngressSize \in Nat \ {0}
BY SinkAssumption DEF Msgs

LEMMA ForwardView ==
    ASSUME ingress \in Batches, Increasing(ingress), next \in Msgs,
           \A m \in ToSet(ingress) : m < next, Len(ingress) < IngressSize,
           ingress' = Append(ingress, next)
    PROVE  /\ ingress' \in Batches /\ Len(ingress') <= IngressSize /\ Increasing(ingress')
           /\ ToSet(ingress') = ToSet(ingress) \cup {next}
<1>1. Increasing(Append(ingress, next))
  BY MsgsInt, AppendIncreasing DEF Batches
<1>2. ToSet(Append(ingress, next)) = ToSet(ingress) \cup {next}
  BY ToSetAppend DEF Batches
<1>3. ingress' \in Batches /\ Len(ingress') <= IngressSize
  BY MsgsInt DEF Batches
<1> QED BY <1>1, <1>2, <1>3

LEMMA CollectView ==
    ASSUME ingress \in Batches, Increasing(ingress), batch \in Batches, Increasing(batch),
           Ahead(ToSet(batch), ToSet(ingress)), ingress # <<>>,
           batch' = Append(batch, Head(ingress)), ingress' = Tail(ingress),
           Len(ingress) <= IngressSize
    PROVE  /\ ingress' \in Batches /\ Increasing(ingress') /\ Len(ingress') <= IngressSize
           /\ batch' \in Batches /\ Increasing(batch') /\ Len(batch') = Len(batch) + 1
           /\ Head(ingress) \in Msgs
           /\ ToSet(ingress) = ToSet(ingress') \cup {Head(ingress)}
           /\ ToSet(batch') = ToSet(batch) \cup {Head(ingress)}
           /\ \A m \in ToSet(ingress') : Head(ingress) < m
<1>1. Increasing(Tail(ingress)) /\ \A m \in ToSet(Tail(ingress)) : Head(ingress) < m
  BY MsgsInt, TailIncreasing DEF Batches
<1>2. /\ Head(ingress) \in Msgs /\ Tail(ingress) \in Batches
      /\ ToSet(ingress) = ToSet(Tail(ingress)) \cup {Head(ingress)}
  BY ToSetTail DEF Batches
<1>3. Len(ingress') <= IngressSize
  BY MsgsInt DEF Batches
<1>4. \A m \in ToSet(batch) : m < Head(ingress)
  BY <1>2 DEF Ahead
<1>5. Increasing(Append(batch, Head(ingress)))
  BY <1>2, <1>4, MsgsInt, AppendIncreasing DEF Batches
<1>6. ToSet(Append(batch, Head(ingress))) = ToSet(batch) \cup {Head(ingress)}
  BY <1>2, ToSetAppend DEF Batches
<1>7. batch' \in Batches /\ Len(batch') = Len(batch) + 1
  BY <1>2 DEF Batches
<1> QED BY <1>1, <1>2, <1>3, <1>5, <1>6, <1>7

LEMMA EmptyBatch ==
    /\ <<>> \in Batches /\ Len(<<>>) = 0 /\ Increasing(<<>>) /\ ToSet(<<>>) = {}
    /\ IsInjective(<<>>)
<1>1. <<>> \in Batches /\ Len(<<>>) = 0
  BY DEF Batches
<1> QED BY <1>1, EmptyIncreasing, ToSetEmpty

(* A batch goes to the end of writeCh ... *)
LEMMA EnqueueView ==
    ASSUME queue \in Seq(Batches), batch \in Batches, queue' = Append(queue, batch),
           NEW n \in Nat, Len(queue) < n
    PROVE  /\ queue' \in Seq(Batches) /\ Len(queue') <= n
           /\ \E e \in Int : /\ Slots' = Slots \cup {e}
                             /\ \A k \in Slots : k \in Int /\ k < e
                             /\ queue'[e] = batch
           /\ \A k \in Slots : queue'[k] = queue[k]
<1>1. /\ queue' \in Seq(Batches) /\ Len(queue') = Len(queue) + 1 /\ Len(queue) \in Nat
      /\ queue'[Len(queue) + 1] = batch
      /\ \A k \in 1..Len(queue) : queue'[k] = queue[k]
  OBVIOUS
<1>2. /\ Slots' = Slots \cup {Len(queue) + 1} /\ Len(queue) + 1 \in Int
      /\ \A k \in Slots : k \in Int /\ k < Len(queue) + 1
  BY <1>1 DEF Slots
<1>3. Len(queue') <= n
  BY <1>1
<1> QED BY <1>1, <1>2, <1>3 DEF Slots

(* ... and is taken from its front. *)
LEMMA TakeView ==
    ASSUME queue \in Seq(Batches), queue # <<>>, queue' = Tail(queue),
           NEW n \in Nat, Len(queue) <= n
    PROVE  /\ queue' \in Seq(Batches) /\ Len(queue') <= n
           /\ Head(queue) \in Batches
           /\ 1 \in Slots /\ queue[1] = Head(queue)
           /\ \A k \in Slots' : k + 1 \in Slots /\ queue'[k] = queue[k + 1] /\ k \in Nat \ {0}
           /\ \A k \in Slots : k # 1 => k - 1 \in Slots' /\ queue'[k - 1] = queue[k] /\ k \in Nat
<1>1. /\ queue' \in Seq(Batches) /\ Len(queue') = Len(queue) - 1 /\ Len(queue) \in Nat \ {0}
      /\ Head(queue) = queue[1] /\ Head(queue) \in Batches
      /\ \A k \in 1..Len(queue') : queue'[k] = queue[k + 1]
  OBVIOUS
<1> QED BY <1>1 DEF Slots

(* A write that succeeds puts the messages of a batch behind the others. *)
LEMMA WriteView ==
    ASSUME written \in Batches, IsInjective(written), NEW b \in Batches, Increasing(b),
           ToSet(written) \cap ToSet(b) = {}, written' = written \o b
    PROVE  /\ written' \in Batches /\ IsInjective(written')
           /\ ToSet(written') = ToSet(written) \cup ToSet(b)
           /\ Increasing(written) /\ Ahead(ToSet(written), ToSet(b)) => Increasing(written')
<1>1. IsInjective(b)
  BY MsgsInt, IncreasingInjective DEF Batches
<1>2. written' \in Batches
  BY DEF Batches
<1>3. ToSet(written \o b) = ToSet(written) \cup ToSet(b)
  BY ToSetConcat DEF Batches
<1>4. IsInjective(written \o b)
  BY <1>1, ConcatInjective DEF Batches
<1>5. ASSUME Increasing(written), Ahead(ToSet(written), ToSet(b))
      PROVE  Increasing(written \o b)
  BY <1>5, MsgsInt, ConcatIncreasing DEF Batches, Ahead
<1> QED BY <1>2, <1>3, <1>4, <1>5

LEMMA Elements ==
    ASSUME NEW b \in Batches
    PROVE  ToSet(b) \subseteq Msgs
BY ToSetType DEF Batches

LEMMA InMsgs ==
    ASSUME FlatTypes, SeqTypes
    PROVE  /\ ToSet(ingress) \subseteq Msgs /\ ToSet(batch) \subseteq Msgs
           /\ ToSet(written) \subseteq Msgs
           /\ \A k \in Slots : Slot(k) \subseteq Msgs /\ queue[k] \in Batches
           /\ \A x \in Procs : Held(x) \subseteq Msgs /\ job[x] \in Batches
<1>1. ingress \in Batches /\ batch \in Batches /\ written \in Batches
  BY DEF SeqTypes
<1>2. \A k \in Slots : queue[k] \in Batches
  BY DEF SeqTypes, Slots
<1>3. \A x \in Procs : job[x] \in Batches
  BY DEF FlatTypes
<1> QED BY <1>1, <1>2, <1>3, Elements DEF Slot, Held

-----------------------------------------------------------------------------
(* Types, and who is doing what. *)

Types == FlatTypes /\ SeqTypes /\ Control

LEMMA InitTypes == Init => Types
<1> SUFFICES ASSUME Init PROVE Types
  OBVIOUS
<1>1. FlatTypes
  <2>1. cfg \in Settings /\ cfg.retries \in Nat /\ next \in 1..Messages + 1
    BY SinkAssumption DEF Init
  <2>2. job \in [Procs -> Batches]
    BY EmptyBatch DEF Init
  <2>3. tries \in [Procs -> 0..cfg.retries + 1]
    BY <2>1 DEF Init
  <2>4. acked \in [Msgs -> {"no", "nil", "err", "stop"}]
    BY DEF Init, Msgs
  <2> QED BY <2>1, <2>2, <2>3, <2>4 DEF Init, FlatTypes
<1>2. cfg.size \in Nat \ {0} /\ cfg.writers \in Nat \ {0}
  BY <1>1, CfgType
<1>3. SeqTypes
  <2>1. ingress = <<>> /\ batch = <<>> /\ queue = <<>> /\ written = <<>>
    BY DEF Init
  <2>2. queue \in Seq(Batches) /\ Len(queue) = 0
    BY <2>1
  <2> QED BY <1>2, <2>1, <2>2, EmptyBatch, MsgsInt DEF SeqTypes
<1>4. Control
  BY <1>1, CfgType DEF Init, Control, FlatTypes, Procs
<1> QED BY <1>1, <1>3, <1>4 DEF Types

(* Steps that leave every batch, and what each writer does, as it is. *)
LEMMA QuietKeepsTypes ==
    ASSUME Types, FlatTypes', UNCHANGED <<cfg, ingress, batch, queue, written, job, step, tries>>,
           main' = "select" => main = "select", main' = "direct" <=> main = "direct",
           cancelled => cancelled'
    PROVE  Types'
<1>1. SeqTypes'
  BY DEF Types, SeqTypes
<1>2. Control'
  BY DEF Types, Control, Procs, Writers
<1> QED BY <1>1, <1>2 DEF Types

LEMMA CollectingKeepsTypes ==
    ASSUME Types, InOrder, EachOnce, Forward \/ ForwardCancelled \/ TimerFires \/ Cancel \/ Collecting
    PROVE  Types'
<1> USE DEF Types
<1> USE CfgType
<1>1. CASE Forward
  <2>1. /\ next \in Msgs /\ next' \in 1..Messages + 1
        /\ UNCHANGED <<cfg, forwarder, batch, timer, main, stopping, queue, step, job, tries, result,
                       written, dlq, acked, cancelled>>
    BY <1>1, MsgsInt DEF Forward, writing, FlatTypes, Msgs
  <2>2. ingress' \in Batches /\ Len(ingress') <= IngressSize
    BY <1>1, <2>1, ForwardView DEF Forward, SeqTypes, InOrder, Delivered, EachOnce
  <2>3. SeqTypes'
    BY <2>1, <2>2 DEF SeqTypes
  <2>4. FlatTypes' /\ Control'
    BY <2>1 DEF FlatTypes, Control, Procs, Writers
  <2> QED BY <2>3, <2>4
<1>2. CASE ForwardCancelled
  <2>1. FlatTypes'
    BY <1>2, MsgsInt DEF ForwardCancelled, writing, FlatTypes, Msgs, Procs, Writers
  <2> QED BY <1>2, <2>1, QuietKeepsTypes DEF ForwardCancelled, writing
<1>3. CASE TimerFires \/ OnTimer \/ OnDone \/ Cancel
  <2>1. FlatTypes'
    BY <1>3 DEF TimerFires, OnTimer, OnDone, StopStep, Cancel, stage, writing, FlatTypes, Procs, Writers
  <2> QED BY <1>3, <2>1, QuietKeepsTypes
          DEF TimerFires, OnTimer, OnDone, StopStep, Cancel, stage, writing
<1>4. CASE Collect
  <2>1. /\ main = "select"
        /\ UNCHANGED <<cfg, forwarder, next, timer, stopping, queue, step, job, tries, result,
                       written, dlq, acked, cancelled>>
    BY <1>4 DEF Collect, writing
  <2>2. /\ ingress' \in Batches /\ Len(ingress') <= IngressSize
        /\ batch' \in Batches /\ Len(batch') = Len(batch) + 1
    BY <1>4, CollectView DEF Collect, SeqTypes, InOrder, Sorted, EachOnce
  <2>3. /\ main' = IF Len(batch) + 1 >= cfg.size THEN "enqueue" ELSE "select"
        /\ Len(batch) < cfg.size /\ Len(batch) \in Nat /\ cfg.size \in Nat
    BY <1>4, <2>1 DEF Collect, BatchFull, SeqTypes, Batches
  <2>4. Len(batch') <= cfg.size /\ (main' = "select" => Len(batch') < cfg.size)
    BY <2>2, <2>3
  <2>5. SeqTypes'
    BY <2>1, <2>2, <2>4 DEF SeqTypes
  <2>6. main' \in {"enqueue", "select"}
    BY <2>3
  <2>7. FlatTypes' /\ Control'
    BY <2>1, <2>6 DEF FlatTypes, Control, Procs, Writers
  <2> QED BY <2>5, <2>7
<1>5. CASE EnqueueBatch
  <2>1. /\ main = "enqueue" /\ main' \in {"done", "select"} /\ batch' = <<>>
        /\ timer' \in {"none", "armed"}
        /\ UNCHANGED <<cfg, next, forwarder, ingress, stopping, step, job, tries, result, written,
                       dlq, acked, cancelled>>
    BY <1>5 DEF EnqueueBatch, BatchReset, Flushed, Rearm, writing
  <2>2. queue' \in Seq(Batches) /\ Len(queue') <= cfg.writers
    BY <1>5, EnqueueView DEF EnqueueBatch, SeqTypes
  <2>3. Len(batch') < cfg.size /\ Len(batch') <= cfg.size
    BY <2>1, EmptyBatch
  <2>4. SeqTypes'
    BY <2>1, <2>2, <2>3, EmptyBatch DEF SeqTypes
  <2>5. FlatTypes' /\ Control'
    BY <2>1 DEF FlatTypes, Control, Procs, Writers
  <2> QED BY <2>4, <2>5
<1>6. CASE WriteDirectly
  <2>1. /\ main = "enqueue" /\ main' = "direct" /\ batch' = <<>> /\ cancelled
        /\ step' = [step EXCEPT ![Collector] = "write"]
        /\ job' = [job EXCEPT ![Collector] = batch]
        /\ tries' = [tries EXCEPT ![Collector] = 0]
        /\ UNCHANGED <<cfg, next, forwarder, ingress, timer, stopping, queue, result, written,
                       dlq, acked, cancelled>>
    BY <1>6 DEF WriteDirectly, Direct, BatchReset, Start
  <2>2. SeqTypes'
    <3>1. Len(batch') <= cfg.size
      BY <2>1, EmptyBatch
    <3> QED BY <2>1, <3>1, EmptyBatch DEF SeqTypes
  <2>3. batch \in Batches
    BY DEF SeqTypes
  <2>4. FlatTypes'
    BY <2>1, <2>3 DEF FlatTypes, Procs, Writers
  <2>5. Control'
    BY <2>1, <2>3 DEF FlatTypes, Control, Procs, Writers
  <2> QED BY <2>2, <2>4, <2>5
<1> QED BY <1>1, <1>2, <1>3, <1>4, <1>5, <1>6 DEF Collecting

(* The steps of whoever writes a batch. *)
LEMMA FlushingKeepsTypes ==
    ASSUME Types, NEW x \in Procs, Flushing(x)
    PROVE  Types'
<1> USE DEF Types
<1>1. CASE WriteSucceeds(x)
  <2>1. /\ step[x] = "write" /\ step' = [step EXCEPT ![x] = "ack"]
        /\ result' = [result EXCEPT ![x] = "nil"]
        /\ UNCHANGED <<cfg, next, forwarder, ingress, batch, timer, main, stopping, queue, job,
                       tries, dlq, acked, cancelled>>
    BY <1>1 DEF WriteSucceeds, Outcome, stage
  <2>2. written' \in Batches
    <3>1. written' = written \o job[x] /\ job[x] \in Batches /\ written \in Batches
      BY <1>1 DEF WriteSucceeds, FlatTypes, SeqTypes
    <3> QED BY <3>1 DEF Batches
  <2>3. SeqTypes'
    BY <2>1, <2>2 DEF SeqTypes
  <2>4. FlatTypes' /\ Control'
    BY <2>1 DEF FlatTypes, Control, Procs, Writers
  <2> QED BY <2>3, <2>4
<1>2. CASE WriteFails(x)
  <2>1. /\ step[x] = "write" /\ tries' = [tries EXCEPT ![x] = @ + 1]
        /\ step' = [step EXCEPT ![x] = IF tries[x] < cfg.retries THEN "backoff" ELSE "dlq"]
        /\ \E e \in {"err", "stop"} : result' = [result EXCEPT ![x] = e]
        /\ UNCHANGED <<cfg, next, forwarder, ingress, batch, timer, main, stopping, queue, job,
                       written, dlq, acked, cancelled>>
    BY <1>2 DEF WriteFails, Errors, Outcome, stage
  <2>2. tries[x] \in 0..cfg.retries /\ cfg.retries \in Nat
    BY <2>1, CfgType DEF FlatTypes, Control
  <2>3. SeqTypes'
    BY <2>1 DEF SeqTypes
  <2>4. FlatTypes' /\ Control'
    BY <2>1, <2>2 DEF FlatTypes, Control, Procs, Writers
  <2> QED BY <2>3, <2>4
<1>3. CASE BackoffOver(x) \/ BackoffCancelled(x)
  <2>1. /\ step[x] = "backoff"
        /\ \/ step' = [step EXCEPT ![x] = "write"]
           \/ step' = [step EXCEPT ![x] = "dlq"]
        /\ \E e \in {"err", "stop"} : result' = [result EXCEPT ![x] = e]
        /\ UNCHANGED <<cfg, next, forwarder, ingress, batch, timer, main, stopping, queue, job,
                       tries, written, dlq, acked, cancelled>>
    BY <1>3 DEF BackoffOver, BackoffCancelled, Outcome, stage
  <2>2. SeqTypes'
    BY <2>1 DEF SeqTypes
  <2>3. Control'
    BY <2>1 DEF FlatTypes, Control, Procs, Writers
  <2>4. result' \in [Procs -> {"nil", "err", "stop"}] /\ result'[x] # "nil"
    BY <2>1 DEF FlatTypes
  <2>5. \A y \in Procs : step'[y] = "dlq" => result'[y] # "nil"
    BY <2>1, <2>4 DEF FlatTypes
  <2>6. FlatTypes'
    BY <2>1, <2>4, <2>5 DEF FlatTypes, Procs, Writers
  <2> QED BY <2>2, <2>3, <2>6
<1>4. CASE DeliverToDLQ(x)
  <2>1. /\ step[x] = "dlq" /\ step' = [step EXCEPT ![x] = "ack"]
        /\ result' = [result EXCEPT ![x] = result[x]]
        /\ dlq' \subseteq dlq \cup Held(x)
        /\ UNCHANGED <<cfg, next, forwarder, ingress, batch, timer, main, stopping, queue, job,
                       tries, written, acked, cancelled>>
    BY <1>4 DEF DeliverToDLQ, EachOf, Held, Outcome, stage
  <2>2. dlq' \subseteq Msgs
    BY <2>1, InMsgs DEF FlatTypes
  <2>3. SeqTypes'
    BY <2>1 DEF SeqTypes
  <2>4. FlatTypes' /\ Control'
    BY <2>1, <2>2 DEF FlatTypes, Control, Procs, Writers
  <2> QED BY <2>3, <2>4
<1>5. CASE AckBatch(x)
  <2>1. /\ step[x] = "ack" /\ step' = [step EXCEPT ![x] = "idle"]
        /\ job' = [job EXCEPT ![x] = <<>>]
        /\ acked' = [m \in Msgs |-> IF m \in Held(x) THEN result[x] ELSE acked[m]]
        /\ \/ x # Collector /\ UNCHANGED <<timer, main>>
           \/ x = Collector /\ timer' \in {"none", "armed"} /\ main' \in {"done", "select"}
        /\ UNCHANGED <<cfg, next, forwarder, ingress, batch, stopping, queue, tries, result,
                       written, dlq, cancelled>>
    BY <1>5 DEF AckBatch, Flushed, Rearm, Held, Msgs
  <2>2. SeqTypes'
    <3>1. x = Collector => batch = <<>>
      BY <2>1 DEF Control
    <3>2. cfg.size \in Nat \ {0} /\ Len(<<>>) = 0
      BY CfgType, EmptyBatch
    <3>3. main' = "select" => Len(batch) < cfg.size
      BY <2>1, <3>1, <3>2 DEF SeqTypes
    <3> QED BY <2>1, <3>3 DEF SeqTypes
  <2>3. job' \in [Procs -> Batches]
    BY <2>1, EmptyBatch DEF FlatTypes
  <2>4. acked' \in [Msgs -> {"no", "nil", "err", "stop"}]
    BY <2>1 DEF FlatTypes
  <2>5. FlatTypes' /\ Control'
    BY <2>1, <2>3, <2>4 DEF FlatTypes, Control, Procs, Writers
  <2> QED BY <2>2, <2>5
<1> QED BY <1>1, <1>2, <1>3, <1>4, <1>5 DEF Flushing

LEMMA WriterKeepsTypes ==
    ASSUME Types, NEW w \in Writers, TakeJob(w) \/ WriterReturns(w)
    PROVE  Types'
<1> USE DEF Types
<1>0. w \in Procs /\ w # Collector
  BY SinkAssumption, CfgType DEF Procs, Writers
<1>1. CASE TakeJob(w)
  <2>1. /\ step[w] = "idle" /\ step' = [step EXCEPT ![w] = "write"]
        /\ job' = [job EXCEPT ![w] = Head(queue)]
        /\ tries' = [tries EXCEPT ![w] = 0]
        /\ queue # <<>> /\ queue' = Tail(queue)
        /\ UNCHANGED <<cfg, next, forwarder, ingress, batch, timer, main, stopping, result, written,
                       dlq, acked, cancelled>>
    BY <1>1 DEF TakeJob, Start
  <2>2. Head(queue) \in Batches /\ queue' \in Seq(Batches) /\ Len(queue') <= cfg.writers
    BY <2>1, TakeView, CfgType DEF SeqTypes
  <2>3. SeqTypes'
    BY <2>1, <2>2 DEF SeqTypes
  <2>4. cfg.retries \in Nat
    BY CfgType
  <2>5. FlatTypes' /\ Control'
    BY <1>0, <2>1, <2>2, <2>4 DEF FlatTypes, Control, Procs, Writers
  <2> QED BY <2>3, <2>5
<1>2. CASE WriterReturns(w)
  <2>1. /\ step[w] = "idle" /\ step' = [step EXCEPT ![w] = "done"]
        /\ UNCHANGED <<cfg, next, forwarder, ingress, batch, timer, main, stopping, queue, job,
                       tries, result, written, dlq, acked, cancelled>>
    BY <1>2 DEF WriterReturns, stage
  <2>2. SeqTypes'
    BY <2>1 DEF SeqTypes
  <2>3. FlatTypes' /\ Control'
    BY <1>0, <2>1 DEF FlatTypes, Control, Procs, Writers
  <2> QED BY <2>2, <2>3
<1> QED BY <1>1, <1>2

-----------------------------------------------------------------------------
(* Every message is in one place, and the places are in order. *)

LEMMA InitPlaces == Init => PlaceInv
<1> SUFFICES ASSUME Init PROVE PlaceInv
  OBVIOUS
<1>1. /\ next = 1 /\ ToSet(ingress) = {} /\ ToSet(batch) = {} /\ Slots = {}
      /\ \A x \in Procs : job[x] = <<>> /\ Held(x) = {}
      /\ \A m \in Msgs : acked[m] = "no"
      /\ ingress = <<>> /\ batch = <<>>
  <2>1. Slots = {}
    BY DEF Init, Slots
  <2> QED BY <2>1, ToSetEmpty DEF Init, Held, Msgs
<1>2. Collector \in Procs /\ Writers \subseteq Procs
  BY DEF Procs
<1>3. \A m \in Msgs : m >= 1
  BY MsgsInt DEF Msgs
<1> QED BY <1>1, <1>2, <1>3, EmptyIncreasing DEF PlaceInv, InOrder, Delivered, Sorted, EachOnce, Apart, NothingLost, Ahead

LEMMA QuietKeepsPlaces ==
    ASSUME PlaceInv, UNCHANGED <<cfg, next, ingress, batch, queue, job, acked>>
    PROVE  PlaceInv'
BY DEF PlaceInv, InOrder, Delivered, Sorted, EachOnce, Apart, NothingLost, Ahead, Held, Slots, Slot, Procs, Writers

(* What the lemmas below need of the sets, with the sequences left out. *)
LEMMA SameSlots ==
    ASSUME UNCHANGED <<cfg, queue, job>>
    PROVE  /\ Slots' = Slots /\ \A k \in Slots : Slot(k)' = Slot(k) /\ queue'[k] = queue[k]
           /\ Procs' = Procs /\ Writers' = Writers
           /\ \A x \in Procs : Held(x)' = Held(x) /\ job'[x] = job[x]
BY DEF Slots, Slot, Procs, Writers, Held

LEMMA ForwardKeepsPlaces ==
    ASSUME Types, PlaceInv, Forward
    PROVE  PlaceInv'
<1>1. /\ next \in Msgs /\ next \in Int /\ next' = next + 1
      /\ UNCHANGED <<cfg, batch, queue, job, acked>>
  BY MsgsInt DEF Forward, writing, Types, FlatTypes, Msgs
<1>2. Increasing(ingress') /\ ToSet(ingress') = ToSet(ingress) \cup {next}
  BY <1>1, ForwardView DEF Forward, Types, SeqTypes, PlaceInv, InOrder, Delivered, EachOnce
<1>3. /\ Slots' = Slots /\ \A k \in Slots : Slot(k)' = Slot(k) /\ queue'[k] = queue[k]
      /\ Procs' = Procs /\ Writers' = Writers
      /\ \A x \in Procs : Held(x)' = Held(x) /\ job'[x] = job[x]
  BY <1>1, SameSlots
<1>4. /\ ToSet(ingress) \subseteq Msgs /\ ToSet(batch) \subseteq Msgs
      /\ \A k \in Slots : Slot(k) \subseteq Msgs
      /\ \A x \in Procs : Held(x) \subseteq Msgs
      /\ Msgs \subseteq Int /\ Writers \subseteq Procs /\ Collector \in Procs
  BY InMsgs, MsgsInt DEF Types, Procs
<1>5. InOrder'
  <2>1. \A m \in Msgs : m < next \/ m = next => m < next + 1
    BY <1>1, <1>4
  <2>2. Delivered'
    <3>1. \A m \in ToSet(ingress') \cup ToSet(batch') : m \in Msgs /\ (m < next \/ m = next)
      BY <1>1, <1>2, <1>4 DEF PlaceInv, InOrder, Delivered
    <3>2. \A m \in ToSet(ingress') \cup ToSet(batch') : m < next'
      BY <1>1, <2>1, <3>1
    <3>3. /\ \A k \in Slots : \A m \in Slot(k) : m < next'
          /\ \A x \in Procs : \A m \in Held(x) : m < next'
      BY <1>1, <1>4, <2>1 DEF PlaceInv, InOrder, Delivered
    <3> QED BY <1>3, <3>2, <3>3 DEF Delivered
  <2>3. Sorted'
    BY <1>1, <1>2, <1>3, <1>4 DEF PlaceInv, InOrder, Delivered, Sorted, Ahead
  <2> QED BY <2>2, <2>3 DEF InOrder
<1>6. EachOnce'
  BY <1>1, <1>2, <1>3 DEF PlaceInv, EachOnce
<1>7. Apart'
  BY <1>1, <1>2, <1>3, <1>4 DEF PlaceInv, Apart
<1>8. NothingLost'
  BY <1>1, <1>2, <1>3, <1>4 DEF PlaceInv, NothingLost
<1> QED BY <1>5, <1>6, <1>7, <1>8 DEF PlaceInv

LEMMA ForwardCancelledKeepsPlaces ==
    ASSUME Types, PlaceInv, ForwardCancelled
    PROVE  PlaceInv'
<1>1. /\ next \in Msgs /\ next \in Int /\ next' = next + 1
      /\ acked' = [acked EXCEPT ![next] = "stop"]
      /\ UNCHANGED <<cfg, ingress, batch, queue, job>>
  BY MsgsInt DEF ForwardCancelled, writing, Types, FlatTypes, Msgs
<1>2. \A m \in Msgs : acked'[m] = IF m = next THEN "stop" ELSE acked[m]
  BY <1>1 DEF Types, FlatTypes
<1>3. /\ Slots' = Slots /\ \A k \in Slots : Slot(k)' = Slot(k) /\ queue'[k] = queue[k]
      /\ Procs' = Procs /\ Writers' = Writers
      /\ \A x \in Procs : Held(x)' = Held(x) /\ job'[x] = job[x]
  BY <1>1, SameSlots
<1>4. /\ ToSet(ingress) \subseteq Msgs /\ ToSet(batch) \subseteq Msgs
      /\ \A k \in Slots : Slot(k) \subseteq Msgs
      /\ \A x \in Procs : Held(x) \subseteq Msgs
      /\ Msgs \subseteq Int /\ Writers \subseteq Procs /\ Collector \in Procs
  BY InMsgs, MsgsInt DEF Types, Procs
<1>5. InOrder' /\ EachOnce'
  <2>1. \A m \in Msgs : m < next => m < next + 1
    BY <1>1, <1>4
  <2>2. Delivered'
    BY <1>1, <1>3, <1>4, <2>1 DEF PlaceInv, InOrder, Delivered
  <2>3. Sorted' /\ EachOnce'
    BY <1>1, <1>3, <1>4 DEF PlaceInv, InOrder, Sorted, EachOnce, Ahead
  <2> QED BY <2>2, <2>3 DEF InOrder
<1>7. Apart'
  BY <1>1, <1>2, <1>3, <1>4 DEF PlaceInv, InOrder, Delivered, Apart
<1>8. NothingLost'
  BY <1>1, <1>2, <1>3, <1>4 DEF PlaceInv, NothingLost
<1> QED BY <1>5, <1>7, <1>8 DEF PlaceInv

LEMMA CollectKeepsPlaces ==
    ASSUME Types, PlaceInv, Collect
    PROVE  PlaceInv'
<1> DEFINE h == Head(ingress)
<1>1. UNCHANGED <<cfg, next, queue, job, acked>>
  BY DEF Collect, writing
<1>2. /\ Increasing(ingress') /\ Increasing(batch') /\ h \in Msgs
      /\ ToSet(ingress) = ToSet(ingress') \cup {h}
      /\ ToSet(batch') = ToSet(batch) \cup {h}
      /\ \A m \in ToSet(ingress') : h < m
  BY CollectView DEF Collect, Types, SeqTypes, PlaceInv, InOrder, Sorted, EachOnce
<1> HIDE DEF h
<1>3. /\ Slots' = Slots /\ \A k \in Slots : Slot(k)' = Slot(k) /\ queue'[k] = queue[k]
      /\ Procs' = Procs /\ Writers' = Writers
      /\ \A x \in Procs : Held(x)' = Held(x) /\ job'[x] = job[x]
  BY <1>1, SameSlots
<1>4. Collector \in Procs /\ Writers \subseteq Procs
  BY DEF Procs
<1>5. InOrder'
  <2>1. Delivered'
    BY <1>1, <1>2, <1>3 DEF PlaceInv, InOrder, Delivered
  <2>2. Sorted'
    BY <1>1, <1>2, <1>3, <1>4 DEF PlaceInv, InOrder, Sorted, Ahead
  <2> QED BY <2>1, <2>2 DEF InOrder
<1>6. EachOnce'
  BY <1>1, <1>2, <1>3 DEF PlaceInv, EachOnce
<1>7. Apart'
  BY <1>1, <1>2, <1>3 DEF PlaceInv, Apart
<1>8. NothingLost'
  BY <1>1, <1>2, <1>3 DEF PlaceInv, NothingLost
<1> QED BY <1>5, <1>6, <1>7, <1>8 DEF PlaceInv

LEMMA EnqueueKeepsPlaces ==
    ASSUME Types, PlaceInv, EnqueueBatch
    PROVE  PlaceInv'
<1>1. UNCHANGED <<cfg, next, ingress, job, acked>> /\ batch' = <<>> /\ main = "enqueue"
  BY DEF EnqueueBatch, BatchReset, writing
<1>2. /\ \E e \in Int : /\ Slots' = Slots \cup {e}
                        /\ \A k \in Slots : k \in Int /\ k < e
                        /\ queue'[e] = batch
      /\ \A k \in Slots : queue'[k] = queue[k]
  <2>1. queue' = Append(queue, batch) /\ Len(queue) < cfg.writers /\ cfg.writers \in Nat
    BY CfgType DEF EnqueueBatch, Types
  <2> QED BY <2>1, EnqueueView DEF Types, SeqTypes
<1>3. PICK e \in Int : /\ Slots' = Slots \cup {e}
                       /\ \A k \in Slots : k \in Int /\ k < e
                       /\ queue'[e] = batch
  BY <1>2
<1>4. /\ Slot(e)' = ToSet(batch) /\ \A k \in Slots : Slot(k)' = Slot(k)
      /\ ToSet(batch') = {} /\ Increasing(batch')
  BY <1>1, <1>2, <1>3, EmptyBatch DEF Slot
<1>5. /\ Procs' = Procs /\ Writers' = Writers /\ Writers \subseteq Procs
      /\ \A x \in Procs : Held(x)' = Held(x) /\ job'[x] = job[x]
  BY <1>1 DEF Procs, Writers, Held
<1>6. Held(Collector) = {} /\ Collector \in Procs
  <2>1. Collector \in Procs
    BY DEF Procs
  <2> QED BY <1>1, <2>1, ToSetEmpty DEF Types, Control, Held
<1>7. InOrder'
  BY <1>1, <1>3, <1>4, <1>5, <1>6 DEF PlaceInv, InOrder, Delivered, Sorted, Ahead
<1>8. EachOnce'
  BY <1>1, <1>2, <1>3, <1>4, <1>5 DEF PlaceInv, EachOnce
<1>9. Apart'
  BY <1>1, <1>3, <1>4, <1>5 DEF PlaceInv, Apart
<1>10. NothingLost'
  BY <1>1, <1>3, <1>4, <1>5 DEF PlaceInv, NothingLost
<1> QED BY <1>7, <1>8, <1>9, <1>10 DEF PlaceInv

LEMMA WriteDirectlyKeepsPlaces ==
    ASSUME Types, PlaceInv, WriteDirectly
    PROVE  PlaceInv'
<1>1. /\ UNCHANGED <<cfg, next, ingress, queue, acked>> /\ batch' = <<>> /\ main = "enqueue"
      /\ job' = [job EXCEPT ![Collector] = batch]
  BY DEF WriteDirectly, BatchReset, Start
<1>2. /\ Collector \in Procs /\ Writers \subseteq Procs /\ Collector \notin Writers
      /\ Procs' = Procs /\ Writers' = Writers
  BY <1>1, SinkAssumption, CfgType DEF Procs, Writers, Types
<1>3. /\ \A x \in Procs : job'[x] = IF x = Collector THEN batch ELSE job[x]
      /\ \A x \in Procs : Held(x)' = IF x = Collector THEN ToSet(batch) ELSE Held(x)
  BY <1>1 DEF Types, FlatTypes, Held
<1>4. Held(Collector) = {}
  BY <1>1, <1>2, ToSetEmpty DEF Types, Control, Held
<1>5. /\ Slots' = Slots /\ \A k \in Slots : Slot(k)' = Slot(k) /\ queue'[k] = queue[k]
      /\ ToSet(batch') = {} /\ Increasing(batch')
  BY <1>1, EmptyBatch DEF Slots, Slot
<1>6. InOrder'
  BY <1>1, <1>2, <1>3, <1>5 DEF PlaceInv, InOrder, Delivered, Sorted, Ahead
<1>7. EachOnce'
  BY <1>1, <1>2, <1>3, <1>5 DEF PlaceInv, EachOnce
<1>8. Apart'
  <2>1. \A x \in Procs : ToSet(batch) \cap Held(x) = {}
    <3>1. ToSet(batch) \subseteq Int
      BY InMsgs, MsgsInt DEF Types
    <3> QED BY <3>1 DEF PlaceInv, InOrder, Sorted, Ahead
  <2> QED BY <1>1, <1>2, <1>3, <1>5, <2>1 DEF PlaceInv, Apart
<1>9. NothingLost'
  BY <1>1, <1>2, <1>3, <1>4, <1>5 DEF PlaceInv, NothingLost
<1> QED BY <1>6, <1>7, <1>8, <1>9 DEF PlaceInv

LEMMA TakeJobKeepsPlaces ==
    ASSUME Types, PlaceInv, NEW w \in Writers, TakeJob(w)
    PROVE  PlaceInv'
<1> DEFINE b == Head(queue)
<1>1. /\ UNCHANGED <<cfg, next, ingress, batch, acked>> /\ step[w] = "idle"
      /\ job' = [job EXCEPT ![w] = b]
  BY DEF TakeJob, Start
<1>2. /\ b \in Batches /\ 1 \in Slots /\ queue[1] = b
      /\ \A k \in Slots' : k + 1 \in Slots /\ queue'[k] = queue[k + 1] /\ k \in Nat \ {0}
      /\ \A k \in Slots : k # 1 => k - 1 \in Slots' /\ queue'[k - 1] = queue[k] /\ k \in Nat
  <2>1. queue # <<>> /\ queue' = Tail(queue) /\ cfg.writers \in Nat
    BY CfgType DEF TakeJob, Types
  <2> QED BY <2>1, TakeView DEF Types, SeqTypes
<1> HIDE DEF b
<1>3. /\ w \in Procs /\ w # Collector /\ Writers \subseteq Procs /\ Collector \in Procs
      /\ Procs' = Procs /\ Writers' = Writers
  BY <1>1, SinkAssumption, CfgType DEF Procs, Writers, Types
<1>4. /\ \A x \in Procs : job'[x] = IF x = w THEN b ELSE job[x]
      /\ \A x \in Procs : Held(x)' = IF x = w THEN Slot(1) ELSE Held(x)
  BY <1>1, <1>2 DEF Types, FlatTypes, Held, Slot
<1>5. Held(w) = {}
  BY <1>1, <1>3, ToSetEmpty DEF Types, Control, Held
<1>6. \A k \in Slots' : k + 1 \in Slots /\ Slot(k)' = Slot(k + 1) /\ 1 < k + 1
  BY <1>2 DEF Slot
<1>7. \A k \in Slots : k # 1 => k - 1 \in Slots' /\ Slot(k - 1)' = Slot(k)
  BY <1>2 DEF Slot
<1>8. InOrder'
  <2>1. Delivered'
    BY <1>1, <1>2, <1>3, <1>4, <1>6 DEF PlaceInv, InOrder, Delivered
  <2>2. /\ Ahead(ToSet(batch), ToSet(ingress))'
        /\ \A k \in Slots' : Ahead(Slot(k), ToSet(batch))' /\ Ahead(Slot(k), ToSet(ingress))'
        /\ \A x \in Procs : Ahead(Held(x), ToSet(batch))' /\ Ahead(Held(x), ToSet(ingress))'
    BY <1>1, <1>2, <1>3, <1>4, <1>6 DEF PlaceInv, InOrder, Sorted, Ahead
  <2>3. ASSUME NEW j \in Slots', NEW k \in Slots', j < k
        PROVE  Ahead(Slot(j), Slot(k))'
    <3>1. j + 1 \in Slots /\ k + 1 \in Slots /\ j + 1 < k + 1
      BY <1>2, <2>3
    <3>2. Ahead(Slot(j + 1), Slot(k + 1))
      BY <3>1 DEF PlaceInv, InOrder, Sorted
    <3> QED BY <1>6, <3>2 DEF Ahead
  <2>4. ASSUME NEW k \in Slots'
        PROVE  /\ \A v \in Writers : Ahead(Held(v), Slot(k))'
               /\ Ahead(Slot(k), Held(Collector))'
    BY <1>2, <1>3, <1>4, <1>6 DEF PlaceInv, InOrder, Sorted, Ahead
  <2> QED BY <1>3, <2>1, <2>2, <2>3, <2>4 DEF InOrder, Sorted
<1>9. EachOnce'
  BY <1>1, <1>2, <1>3, <1>4 DEF PlaceInv, EachOnce
<1>10. Apart'
  <2>1. ASSUME NEW x \in Procs, x # w PROVE Slot(1) \cap Held(x) = {}
    <3>1. Slot(1) \subseteq Int
      BY <1>2, InMsgs, MsgsInt DEF Types
    <3>2. CASE x \in Writers
      BY <1>2, <3>1, <3>2 DEF PlaceInv, InOrder, Sorted, Ahead
    <3>3. CASE x = Collector
      BY <1>2, <3>1, <3>3 DEF PlaceInv, InOrder, Sorted, Ahead
    <3> QED BY <3>2, <3>3 DEF Procs
  <2> QED BY <1>1, <1>2, <1>3, <1>4, <1>6, <2>1 DEF PlaceInv, Apart
<1>11. NothingLost'
  <2> SUFFICES ASSUME NEW m \in Msgs, m < next, m \notin ToSet(ingress), m \notin ToSet(batch),
                      acked[m] = "no"
               PROVE  \/ \E k \in Slots' : m \in Slot(k)'
                      \/ \E x \in Procs : m \in Held(x)'
    BY <1>1, <1>3, MsgsInt DEF NothingLost, Types, FlatTypes
  <2>1. CASE \E k \in Slots : m \in Slot(k)
    <3>1. PICK k \in Slots : m \in Slot(k)
      BY <2>1
    <3>2. CASE k = 1
      BY <1>3, <1>4, <3>1, <3>2
    <3>3. CASE k # 1
      BY <1>7, <3>1, <3>3
    <3> QED BY <3>2, <3>3
  <2>2. CASE \E x \in Procs : m \in Held(x)
    BY <1>4, <1>5, <2>2
  <2> QED BY <2>1, <2>2, MsgsInt DEF PlaceInv, NothingLost, Types, FlatTypes
<1> QED BY <1>8, <1>9, <1>10, <1>11 DEF PlaceInv

(* The Acks of a batch: nobody else holds its messages. *)
LEMMA AckBatchKeepsPlaces ==
    ASSUME Types, PlaceInv, NEW w \in Procs, AckBatch(w)
    PROVE  PlaceInv'
<1>1. /\ UNCHANGED <<cfg, next, ingress, batch, queue>>
      /\ job' = [job EXCEPT ![w] = <<>>]
      /\ acked' = [m \in Msgs |-> IF m \in Held(w) THEN result[w] ELSE acked[m]]
      /\ result[w] \in {"nil", "err", "stop"}
  BY DEF AckBatch, Held, Msgs, Types, FlatTypes
<1>2. \A m \in Msgs : acked'[m] # "no" <=> m \in Held(w) \/ acked[m] # "no"
  BY <1>1
<1>3. /\ \A x \in Procs : job'[x] = IF x = w THEN <<>> ELSE job[x]
      /\ \A x \in Procs : Held(x)' = IF x = w THEN {} ELSE Held(x)
  BY <1>1, ToSetEmpty DEF Types, FlatTypes, Held
<1>4. /\ Slots' = Slots /\ \A k \in Slots : Slot(k)' = Slot(k) /\ queue'[k] = queue[k]
      /\ Procs' = Procs /\ Writers' = Writers /\ Writers \subseteq Procs /\ Collector \in Procs
  BY <1>1 DEF Slots, Slot, Procs, Writers
<1>5. InOrder'
  BY <1>1, <1>3, <1>4 DEF PlaceInv, InOrder, Delivered, Sorted, Ahead
<1>6. EachOnce'
  BY <1>1, <1>3, <1>4, EmptyIncreasing DEF PlaceInv, EachOnce
<1>7. Apart'
  <2>1. Held(w) \subseteq Msgs /\ Msgs \subseteq Int
    BY InMsgs, MsgsInt DEF Types
  <2>2. ASSUME NEW m \in Held(w)
        PROVE  /\ m < next /\ m \notin ToSet(ingress) /\ m \notin ToSet(batch)
               /\ \A k \in Slots : m \notin Slot(k)
               /\ \A x \in Procs : x # w => m \notin Held(x)
    <3>0. m \in Int
      BY <2>1
    <3>1. ~(m < m)
      BY <3>0
    <3>2. /\ m < next /\ m \notin ToSet(ingress) /\ m \notin ToSet(batch)
          /\ \A x \in Procs : x # w => m \notin Held(x)
      BY <3>1 DEF PlaceInv, InOrder, Delivered, Sorted, Ahead, Apart
    <3>3. \A k \in Slots : m \notin Slot(k)
      BY <3>1 DEF PlaceInv, InOrder, Sorted, Ahead, Procs
    <3> QED BY <3>2, <3>3
  <2> QED BY <1>1, <1>2, <1>3, <1>4, <2>2 DEF PlaceInv, Apart
<1>8. NothingLost'
  BY <1>1, <1>2, <1>3, <1>4 DEF PlaceInv, NothingLost
<1> QED BY <1>5, <1>6, <1>7, <1>8 DEF PlaceInv

LEMMA NextKeepsPlaces ==
    ASSUME Types, PlaceInv, Next
    PROVE  PlaceInv'
<1>1. CASE TimerFires \/ Cancel \/ OnTimer \/ OnDone
  BY <1>1, QuietKeepsPlaces DEF TimerFires, Cancel, OnTimer, OnDone, stage, writing
<1>2. ASSUME NEW w \in Writers, WriterReturns(w)
      PROVE  PlaceInv'
  BY <1>2, QuietKeepsPlaces DEF WriterReturns, stage
<1>3. ASSUME NEW x \in Procs, WriteSucceeds(x) \/ WriteFails(x) \/ BackoffOver(x)
                                \/ BackoffCancelled(x) \/ DeliverToDLQ(x)
      PROVE  PlaceInv'
  BY <1>3, QuietKeepsPlaces DEF WriteSucceeds, WriteFails, BackoffOver, BackoffCancelled,
                                DeliverToDLQ, Outcome, stage
<1> QED BY <1>1, <1>2, <1>3, ForwardKeepsPlaces, ForwardCancelledKeepsPlaces, CollectKeepsPlaces,
           EnqueueKeepsPlaces, WriteDirectlyKeepsPlaces, TakeJobKeepsPlaces, AckBatchKeepsPlaces
        DEF Next, Collecting, Flushing

-----------------------------------------------------------------------------
(* What is written, put aside and acked agree. *)

Words == Told /\ WordKept

LEMMA InitWords == Init => Words
<1> SUFFICES ASSUME Init PROVE Words
  OBVIOUS
<1>1. ToSet(written) = {} /\ IsInjective(written) /\ dlq = {}
  BY EmptyBatch DEF Init
<1> QED BY <1>1 DEF Init, Words, Told, WordKept, Sent, Refused, Msgs

(* Steps of the forwarder, the collector and idle goroutines.  A batch     *)
(* changes hands only where nobody has an outcome for it.                  *)
LEMMA HandOverKeepsWords ==
    ASSUME Words,
           UNCHANGED <<cfg, written, dlq, acked, result>>,
           \A x \in Procs : \/ step'[x] = step[x] /\ job'[x] = job[x]
                            \/ step[x] # "ack" /\ step'[x] # "ack",
           UNCHANGED <<forwarder, next>> \/ forwarder = "run"
    PROVE  Words'
<1>1. \A x \in Procs : \/ /\ (Sent(x)' <=> Sent(x)) /\ (Refused(x)' <=> Refused(x))
                          /\ Held(x)' = Held(x)
                       \/ ~Sent(x) /\ ~Sent(x)' /\ ~Refused(x) /\ ~Refused(x)'
  BY DEF Sent, Refused, Held
<1>2. Procs' = Procs
  BY DEF Procs, Writers
<1>3. Told'
  <2>1. \A x \in Procs : \A m \in Held(x) : Sent(x) => Sent(x)' /\ m \in Held(x)'
    BY <1>1
  <2>2. \A x \in Procs : \A m \in Held(x) : Refused(x) => Refused(x)' /\ m \in Held(x)'
    BY <1>1
  <2>3. \A x \in Procs : /\ Sent(x)' => Sent(x) /\ Held(x)' = Held(x)
                         /\ Refused(x)' => Refused(x) /\ Held(x)' = Held(x)
    BY <1>1
  <2> QED BY <1>2, <2>1, <2>2, <2>3 DEF Words, Told
<1>4. WordKept'
  BY DEF Words, WordKept
<1> QED BY <1>3, <1>4 DEF Words

LEMMA ForwardCancelledKeepsWords ==
    ASSUME Types, PlaceInv, Words, ForwardCancelled
    PROVE  Words'
<1>1. /\ next \in Msgs /\ next \in Int /\ next' = next + 1
      /\ forwarder = "run" /\ forwarder' = "done"
      /\ acked' = [acked EXCEPT ![next] = "stop"]
      /\ UNCHANGED <<cfg, written, dlq, step, result, job>>
  BY MsgsInt DEF ForwardCancelled, writing, Types, FlatTypes, Msgs
<1>2. \A m \in Msgs : acked'[m] = IF m = next THEN "stop" ELSE acked[m]
  BY <1>1 DEF Types, FlatTypes
<1>3. acked[next] = "no" /\ \A x \in Procs : next \notin Held(x)
  BY <1>1, InMsgs DEF PlaceInv, Apart, InOrder, Delivered, Types
<1>4. ToSet(written) \subseteq Msgs /\ dlq \subseteq Msgs
  BY InMsgs DEF Types, FlatTypes
<1>5. /\ Procs' = Procs
      /\ \A x \in Procs : (Sent(x)' <=> Sent(x)) /\ (Refused(x)' <=> Refused(x)) /\ Held(x)' = Held(x)
  BY <1>1 DEF Procs, Writers, Sent, Refused, Held
<1>6. Told'
  BY <1>1, <1>2, <1>3, <1>4, <1>5 DEF Words, Told
<1>7. WordKept'
  BY <1>1, <1>2 DEF Words, WordKept
<1> QED BY <1>6, <1>7 DEF Words

LEMMA WriteSucceedsKeepsWords ==
    ASSUME Types, PlaceInv, Words, NEW w \in Procs, WriteSucceeds(w)
    PROVE  Words'
<1>1. /\ step[w] = "write" /\ step' = [step EXCEPT ![w] = "ack"]
      /\ result' = [result EXCEPT ![w] = "nil"]
      /\ UNCHANGED <<cfg, next, forwarder, job, dlq, acked>>
  BY DEF WriteSucceeds, Outcome, stage
<1>2. ToSet(written) \cap Held(w) = {}
  <2>1. ASSUME NEW m \in ToSet(written), m \in Held(w)
        PROVE  FALSE
    <3>1. m \in Msgs /\ ~Sent(w)
      BY <1>1, InMsgs DEF Types, Sent
    <3> QED BY <2>1, <3>1 DEF Words, Told, PlaceInv, Apart
  <2> QED BY <2>1
<1>3. IsInjective(written') /\ ToSet(written') = ToSet(written) \cup Held(w)
  <2>1. job[w] \in Batches /\ Increasing(job[w]) /\ written \in Batches /\ IsInjective(written)
    BY DEF Types, FlatTypes, SeqTypes, PlaceInv, EachOnce, Words, Told
  <2>2. written' = written \o job[w]
    BY DEF WriteSucceeds
  <2> QED BY <1>2, <2>1, <2>2, WriteView DEF Held
<1>4. /\ Procs' = Procs /\ Sent(w)' /\ ~Refused(w)' /\ ~Sent(w) /\ ~Refused(w)
      /\ \A x \in Procs : /\ Held(x)' = Held(x)
                          /\ x # w => (Sent(x)' <=> Sent(x)) /\ (Refused(x)' <=> Refused(x))
  BY <1>1 DEF Procs, Writers, Sent, Refused, Held, Types, FlatTypes
<1>5. Told'
  BY <1>1, <1>3, <1>4 DEF Words, Told
<1>6. WordKept'
  BY <1>1, <1>3 DEF Words, WordKept
<1> QED BY <1>5, <1>6 DEF Words

LEMMA DeliverKeepsWords ==
    ASSUME Types, Words, NEW w \in Procs, DeliverToDLQ(w)
    PROVE  Words'
<1>1. /\ step[w] = "dlq" /\ step' = [step EXCEPT ![w] = "ack"]
      /\ result' = [result EXCEPT ![w] = result[w]] /\ result[w] # "nil"
      /\ dlq' = IF cfg.dlq THEN dlq \cup Held(w) ELSE dlq
      /\ UNCHANGED <<cfg, next, forwarder, job, written, acked>>
  BY DEF DeliverToDLQ, EachOf, Held, Outcome, stage, Types, FlatTypes
<1>2. /\ Procs' = Procs /\ ~Sent(w)' /\ Refused(w)' /\ ~Sent(w) /\ ~Refused(w)
      /\ \A x \in Procs : /\ Held(x)' = Held(x)
                          /\ x # w => (Sent(x)' <=> Sent(x)) /\ (Refused(x)' <=> Refused(x))
  BY <1>1 DEF Procs, Writers, Sent, Refused, Held, Types, FlatTypes
<1>3. dlq \subseteq dlq' /\ dlq' \subseteq dlq \cup Held(w) /\ (cfg.dlq => Held(w) \subseteq dlq')
  BY <1>1
<1>4. Told'
  <2>1. \A m \in dlq' : acked'[m] \in {"err", "stop"} \/ \E x \in Procs : m \in Held(x)' /\ Refused(x)'
    BY <1>1, <1>2, <1>3 DEF Words, Told
  <2>2. \A x \in Procs : Refused(x)' /\ cfg.dlq => Held(x)' \subseteq dlq'
    BY <1>2, <1>3 DEF Words, Told
  <2> QED BY <1>1, <1>2, <2>1, <2>2 DEF Words, Told
<1>5. WordKept'
  BY <1>1, <1>3 DEF Words, WordKept
<1> QED BY <1>4, <1>5 DEF Words

LEMMA AckBatchKeepsWords ==
    ASSUME Types, PlaceInv, Words, NEW w \in Procs, AckBatch(w)
    PROVE  Words'
<1>1. /\ step[w] = "ack" /\ step' = [step EXCEPT ![w] = "idle"]
      /\ job' = [job EXCEPT ![w] = <<>>]
      /\ acked' = [m \in Msgs |-> IF m \in Held(w) THEN result[w] ELSE acked[m]]
      /\ UNCHANGED <<cfg, next, forwarder, written, dlq, result>>
  BY DEF AckBatch, Held, Msgs
<1>2. \A m \in Msgs : acked'[m] = IF m \in Held(w) THEN result[w] ELSE acked[m]
  BY <1>1
<1>3. /\ Procs' = Procs /\ ~Sent(w)' /\ ~Refused(w)'
      /\ Sent(w) <=> result[w] = "nil"
      /\ Refused(w) <=> result[w] \in {"err", "stop"}
      /\ \A x \in Procs : x # w => /\ Held(x)' = Held(x)
                                   /\ (Sent(x)' <=> Sent(x)) /\ (Refused(x)' <=> Refused(x))
  BY <1>1 DEF Procs, Writers, Sent, Refused, Held, Types, FlatTypes
<1>4. \A m \in Msgs : acked[m] # "no" => m \notin Held(w)
  BY DEF PlaceInv, Apart
<1>5. ToSet(written) \subseteq Msgs /\ dlq \subseteq Msgs
  BY InMsgs DEF Types, FlatTypes
<1>6. \A x \in Procs : x # w => Held(x) \cap Held(w) = {}
  BY DEF PlaceInv, Apart
<1>7. Told'
  <2>1. \A m \in ToSet(written') : acked'[m] = "nil" \/ \E x \in Procs : m \in Held(x)' /\ Sent(x)'
    BY <1>1, <1>2, <1>3, <1>4, <1>5, <1>6 DEF Words, Told
  <2>2. \A m \in dlq' : acked'[m] \in {"err", "stop"} \/ \E x \in Procs : m \in Held(x)' /\ Refused(x)'
    BY <1>1, <1>2, <1>3, <1>4, <1>5, <1>6 DEF Words, Told
  <2> QED BY <1>1, <1>3, <2>1, <2>2 DEF Words, Told
<1>8. WordKept'
  BY <1>1, <1>2, <1>3 DEF Words, Told, WordKept
<1> QED BY <1>7, <1>8 DEF Words

LEMMA NextKeepsWords ==
    ASSUME Types, PlaceInv, Words, Next
    PROVE  Words'
<1>1. CASE TimerFires \/ Cancel \/ Collect \/ OnTimer \/ OnDone \/ EnqueueBatch
  <2>1. UNCHANGED <<cfg, written, dlq, acked, result, step, job, forwarder, next>>
    BY <1>1 DEF TimerFires, Cancel, Collect, OnTimer, OnDone, EnqueueBatch, stage, writing
  <2> QED BY <2>1, HandOverKeepsWords
<1>2. CASE Forward
  <2>1. UNCHANGED <<cfg, written, dlq, acked, result, step, job>> /\ forwarder = "run"
    BY <1>2 DEF Forward, writing
  <2> QED BY <2>1, HandOverKeepsWords
<1>3. CASE WriteDirectly
  <2>1. /\ UNCHANGED <<cfg, written, dlq, acked, result, forwarder, next>>
        /\ step' = [step EXCEPT ![Collector] = "write"] /\ step[Collector] = "idle"
        /\ job' = [job EXCEPT ![Collector] = batch]
    BY <1>3 DEF WriteDirectly, Start, Types, Control
  <2>2. \A x \in Procs : \/ step'[x] = step[x] /\ job'[x] = job[x]
                         \/ step[x] # "ack" /\ step'[x] # "ack"
    BY <2>1 DEF Types, FlatTypes
  <2> QED BY <2>1, <2>2, HandOverKeepsWords
<1>4. ASSUME NEW w \in Writers, TakeJob(w) \/ WriterReturns(w)
      PROVE  Words'
  <2>1. /\ UNCHANGED <<cfg, written, dlq, acked, result, forwarder, next>>
        /\ step[w] = "idle"
        /\ \/ step' = [step EXCEPT ![w] = "write"]
           \/ step' = [step EXCEPT ![w] = "done"]
        /\ \/ job' = [job EXCEPT ![w] = Head(queue)]
           \/ job' = job
    BY <1>4 DEF TakeJob, WriterReturns, Start, stage
  <2>2. \A x \in Procs : \/ step'[x] = step[x] /\ job'[x] = job[x]
                         \/ step[x] # "ack" /\ step'[x] # "ack"
    BY <2>1 DEF Types, FlatTypes
  <2> QED BY <2>1, <2>2, HandOverKeepsWords
<1>5. ASSUME NEW w \in Procs, WriteFails(w) \/ BackoffOver(w) \/ BackoffCancelled(w)
      PROVE  Words'
  <2>1. /\ UNCHANGED <<cfg, written, dlq, acked, job, forwarder, next>>
        /\ step[w] # "ack"
        /\ \E s \in {"write", "backoff", "dlq"} : step' = [step EXCEPT ![w] = s]
        /\ \E e \in {"err", "stop"} : result' = [result EXCEPT ![w] = e]
    BY <1>5 DEF WriteFails, Errors, BackoffOver, BackoffCancelled, Outcome, stage
  <2>2. /\ Procs' = Procs
        /\ \A x \in Procs : (Sent(x)' <=> Sent(x)) /\ (Refused(x)' <=> Refused(x)) /\ Held(x)' = Held(x)
    BY <2>1 DEF Procs, Writers, Sent, Refused, Held, Types, FlatTypes
  <2> QED BY <2>1, <2>2 DEF Words, Told, WordKept
<1> QED BY <1>1, <1>2, <1>3, <1>4, <1>5, ForwardCancelledKeepsWords, WriteSucceedsKeepsWords,
           DeliverKeepsWords, AckBatchKeepsWords
        DEF Next, Collecting, Flushing

-----------------------------------------------------------------------------
(* One writer and no cancellation. *)

LEMMA InitWritten == Init => WrittenInOrder
<1>1. Init => written = <<>> /\ ToSet(written) = {}
  BY ToSetEmpty DEF Init
<1> QED BY <1>1, EmptyIncreasing DEF WrittenInOrder, Ahead

(* What holds a message that was not written moves on; nothing is written. *)
LEMMA MoveKeepsWritten ==
    ASSUME Types, WrittenInOrder, UNCHANGED <<cfg, written>>, cancelled => cancelled',
           ToSet(written) \subseteq Msgs,
           next' \in {next, next + 1}, next \in Int,
           ToSet(ingress') \subseteq ToSet(ingress) \cup {next},
           ToSet(batch') \subseteq ToSet(batch) \cup ToSet(ingress),
           \A k \in Slots' : Slot(k)' = ToSet(batch) \/ \E j \in Slots : Slot(k)' = Slot(j),
           \A x \in Procs : \/ Held(x)' = {} \/ step'[x] = "ack"
                            \/ Held(x)' = Held(x) /\ step[x] # "ack"
                            \/ \E j \in Slots : Held(x)' = Slot(j)
    PROVE  WrittenInOrder'
<1> SUFFICES ASSUME cfg.writers = 1, ~cancelled
             PROVE  /\ Increasing(written)
                    /\ \A m \in ToSet(written) : m < next'
                    /\ Ahead(ToSet(written), ToSet(batch')) /\ Ahead(ToSet(written), ToSet(ingress'))
                    /\ \A k \in Slots' : Ahead(ToSet(written), Slot(k)')
                    /\ \A x \in Procs : step'[x] # "ack" => Ahead(ToSet(written), Held(x)')
  BY DEF WrittenInOrder, Ahead, Procs, Writers
<1>1. /\ Increasing(written)
      /\ \A m \in ToSet(written) : m < next
      /\ Ahead(ToSet(written), ToSet(batch)) /\ Ahead(ToSet(written), ToSet(ingress))
      /\ \A k \in Slots : Ahead(ToSet(written), Slot(k))
      /\ \A x \in Procs : step[x] # "ack" => Ahead(ToSet(written), Held(x))
  BY DEF WrittenInOrder
<1>2. \A m \in ToSet(written) : m < next'
  <2> SUFFICES ASSUME NEW m \in ToSet(written) PROVE m < next'
    OBVIOUS
  <2>1. m \in Int
    BY MsgsInt
  <2>2. m < next
    BY <1>1
  <2> QED BY <2>1, <2>2
<1>3. Ahead(ToSet(written), ToSet(batch')) /\ Ahead(ToSet(written), ToSet(ingress'))
  BY <1>1 DEF Ahead
<1>4. \A k \in Slots' : Ahead(ToSet(written), Slot(k)')
  BY <1>1 DEF Ahead
<1>5. \A x \in Procs : step'[x] # "ack" => Ahead(ToSet(written), Held(x)')
  BY <1>1 DEF Ahead
<1> QED BY <1>1, <1>2, <1>3, <1>4, <1>5

(* The batch that is written comes before everything not written yet. *)
LEMMA WriteKeepsWritten ==
    ASSUME Types, PlaceInv, Words, WrittenInOrder, NEW w \in Procs, WriteSucceeds(w)
    PROVE  WrittenInOrder'
<1>1. /\ step[w] = "write" /\ step' = [step EXCEPT ![w] = "ack"]
      /\ written' = written \o job[w]
      /\ UNCHANGED <<cfg, next, ingress, batch, queue, job, cancelled>>
  BY DEF WriteSucceeds, Outcome, stage
<1> SUFFICES ASSUME cfg.writers = 1, ~cancelled
             PROVE  /\ Increasing(written')
                    /\ \A m \in ToSet(written') : m < next
                    /\ Ahead(ToSet(written'), ToSet(batch)) /\ Ahead(ToSet(written'), ToSet(ingress))
                    /\ \A k \in Slots : Ahead(ToSet(written'), Slot(k))
                    /\ \A x \in Procs : step'[x] # "ack" => Ahead(ToSet(written'), Held(x))
  BY <1>1 DEF WrittenInOrder, Ahead, Procs, Writers, Slots, Slot, Held
<1>2. main # "direct" /\ step[Collector] = "idle" /\ Collector \in Procs
  BY DEF Types, Control, FlatTypes, Procs
<1>3. w \in Writers /\ \A x \in Procs : x # w => x = Collector
  BY <1>1, <1>2 DEF Procs, Writers
<1>4. Held(Collector) = {}
  BY <1>2, ToSetEmpty DEF Types, Control, Held
<1>5. /\ Increasing(written)
      /\ \A m \in ToSet(written) : m < next
      /\ Ahead(ToSet(written), ToSet(batch)) /\ Ahead(ToSet(written), ToSet(ingress))
      /\ \A k \in Slots : Ahead(ToSet(written), Slot(k))
      /\ Ahead(ToSet(written), Held(w))
  BY <1>1 DEF WrittenInOrder
<1>6. Increasing(written') /\ ToSet(written') = ToSet(written) \cup Held(w)
  <2>1. /\ job[w] \in Batches /\ Increasing(job[w]) /\ written \in Batches /\ IsInjective(written)
        /\ ToSet(job[w]) = Held(w)
    BY DEF Types, FlatTypes, SeqTypes, PlaceInv, EachOnce, Words, Told, Held
  <2>2. ToSet(written) \cap ToSet(job[w]) = {}
    <3>1. ASSUME NEW m \in ToSet(written), m \in Held(w) PROVE FALSE
      <4>1. m \in Int /\ m < m
        BY <1>5, <3>1, InMsgs, MsgsInt DEF Ahead, Types
      <4> QED BY <4>1
    <3> QED BY <2>1, <3>1
  <2> QED BY <1>1, <1>5, <2>1, <2>2, WriteView
<1>7. /\ \A m \in Held(w) : m < next
      /\ Ahead(Held(w), ToSet(batch)) /\ Ahead(Held(w), ToSet(ingress))
      /\ \A k \in Slots : Ahead(Held(w), Slot(k))
  BY <1>3 DEF PlaceInv, InOrder, Delivered, Sorted
<1>8. \A x \in Procs : step'[x] # "ack" => x = Collector
  BY <1>1, <1>3 DEF Types, FlatTypes
<1> QED BY <1>4, <1>5, <1>6, <1>7, <1>8 DEF Ahead

LEMMA NextKeepsWritten ==
    ASSUME Types, PlaceInv, Words, WrittenInOrder, Next
    PROVE  WrittenInOrder'
<1>0. /\ ToSet(written) \subseteq Msgs /\ next \in Int
      /\ \A x \in Procs : Held(x) \subseteq Msgs
  BY InMsgs, MsgsInt DEF Types, FlatTypes
<1>1. CASE TimerFires \/ Cancel \/ OnTimer \/ OnDone
  <2>1. /\ UNCHANGED <<cfg, written, next, ingress, batch, queue, job, step>>
        /\ cancelled => cancelled'
    BY <1>1 DEF TimerFires, Cancel, OnTimer, OnDone, stage, writing
  <2> QED BY <2>1 DEF WrittenInOrder, Ahead, Procs, Writers, Slots, Slot, Held
<1>2. CASE Forward \/ ForwardCancelled
  <2>1. /\ UNCHANGED <<cfg, written, batch, queue, job, step, cancelled>> /\ next' = next + 1
    BY <1>2 DEF Forward, ForwardCancelled, writing
  <2>2. ToSet(ingress') \subseteq ToSet(ingress) \cup {next}
    <3>1. CASE Forward
      <4>1. next \in Msgs
        BY <3>1, MsgsInt DEF Forward, Types, FlatTypes, Msgs
      <4> QED BY <3>1, <4>1, ForwardView DEF Forward, Types, SeqTypes, PlaceInv, InOrder, Delivered, EachOnce
    <3>2. CASE ForwardCancelled
      BY <3>2 DEF ForwardCancelled
    <3> QED BY <1>2, <3>1, <3>2
  <2>3. Slots' = Slots /\ \A k \in Slots : Slot(k)' = Slot(k)
    BY <2>1 DEF Slots, Slot
  <2>4. \A x \in Procs : step'[x] = step[x] /\ Held(x)' = Held(x)
    BY <2>1 DEF Held
  <2> QED BY <1>0, <2>1, <2>2, <2>3, <2>4, MoveKeepsWritten
<1>3. CASE Collect
  <2>1. UNCHANGED <<cfg, written, next, queue, job, step, cancelled>>
    BY <1>3 DEF Collect, writing
  <2>2. /\ ToSet(ingress') \subseteq ToSet(ingress) \cup {next}
        /\ ToSet(batch') \subseteq ToSet(batch) \cup ToSet(ingress)
    BY <1>3, CollectView DEF Collect, Types, SeqTypes, PlaceInv, InOrder, Sorted, EachOnce
  <2>3. Slots' = Slots /\ \A k \in Slots : Slot(k)' = Slot(k)
    BY <2>1 DEF Slots, Slot
  <2>4. \A x \in Procs : step'[x] = step[x] /\ Held(x)' = Held(x)
    BY <2>1 DEF Held
  <2> QED BY <1>0, <2>1, <2>2, <2>3, <2>4, MoveKeepsWritten
<1>4. CASE EnqueueBatch
  <2>1. UNCHANGED <<cfg, written, next, ingress, job, step, cancelled>> /\ batch' = <<>>
    BY <1>4 DEF EnqueueBatch, BatchReset, writing
  <2>2. ToSet(batch') = {}
    BY <2>1, ToSetEmpty
  <2>3. \A k \in Slots' : Slot(k)' = ToSet(batch) \/ \E j \in Slots : Slot(k)' = Slot(j)
    <3>1. queue' = Append(queue, batch) /\ Len(queue) < cfg.writers /\ cfg.writers \in Nat
      BY <1>4, CfgType DEF EnqueueBatch, Types
    <3>2. /\ \E e \in Int : Slots' = Slots \cup {e} /\ queue'[e] = batch
          /\ \A k \in Slots : queue'[k] = queue[k]
      BY <3>1, EnqueueView DEF Types, SeqTypes
    <3> QED BY <3>2 DEF Slot
  <2>4. \A x \in Procs : step'[x] = step[x] /\ Held(x)' = Held(x)
    BY <2>1 DEF Held
  <2> QED BY <1>0, <2>1, <2>2, <2>3, <2>4, MoveKeepsWritten
<1>5. CASE WriteDirectly
  BY <1>5 DEF WriteDirectly, Direct, WrittenInOrder
<1>6. ASSUME NEW w \in Writers, TakeJob(w)
      PROVE  WrittenInOrder'
  <2>1. /\ UNCHANGED <<cfg, written, next, ingress, batch, cancelled>>
        /\ step' = [step EXCEPT ![w] = "write"] /\ job' = [job EXCEPT ![w] = Head(queue)]
    BY <1>6 DEF TakeJob, Start
  <2>2. /\ 1 \in Slots /\ queue[1] = Head(queue)
        /\ \A k \in Slots' : k + 1 \in Slots /\ queue'[k] = queue[k + 1]
    <3>1. queue # <<>> /\ queue' = Tail(queue) /\ cfg.writers \in Nat
      BY <1>6, CfgType DEF TakeJob, Types
    <3> QED BY <3>1, TakeView DEF Types, SeqTypes
  <2>3. \A k \in Slots' : \E j \in Slots : Slot(k)' = Slot(j)
    BY <2>2 DEF Slot
  <2>4. \A x \in Procs : \/ step'[x] = step[x] /\ Held(x)' = Held(x)
                         \/ Held(x)' = Slot(1)
    BY <2>1, <2>2 DEF Types, FlatTypes, Held, Slot
  <2> QED BY <1>0, <2>1, <2>2, <2>3, <2>4, MoveKeepsWritten
<1>7. ASSUME NEW w \in Procs, WriteFails(w) \/ BackoffOver(w) \/ BackoffCancelled(w) \/ DeliverToDLQ(w)
                                \/ AckBatch(w) \/ WriterReturns(w)
      PROVE  WrittenInOrder'
  <2>1. /\ UNCHANGED <<cfg, written, next, ingress, batch, queue, cancelled>>
        /\ \/ /\ UNCHANGED job /\ step[w] # "ack"
              /\ \E s : step' = [step EXCEPT ![w] = s]
           \/ /\ job' = [job EXCEPT ![w] = <<>>]
              /\ step' = [step EXCEPT ![w] = "idle"]
    BY <1>7 DEF WriteFails, BackoffOver, BackoffCancelled, DeliverToDLQ, AckBatch, WriterReturns,
                Outcome, stage
  <2>2. Slots' = Slots /\ \A k \in Slots : Slot(k)' = Slot(k)
    BY <2>1 DEF Slots, Slot
  <2>3. \A x \in Procs : \/ step'[x] = step[x] /\ Held(x)' = Held(x)
                         \/ step[x] # "ack" /\ Held(x)' = Held(x)
                         \/ Held(x)' = {}
    BY <2>1, ToSetEmpty DEF Types, FlatTypes, Held
  <2> QED BY <1>0, <2>1, <2>2, <2>3, MoveKeepsWritten
<1> QED BY <1>1, <1>2, <1>3, <1>4, <1>5, <1>6, <1>7, WriteKeepsWritten
        DEF Next, Collecting, Flushing, Procs

-----------------------------------------------------------------------------
(* The inductive invariant and what follows from it. *)

IInv == Types /\ PlaceInv /\ Words /\ WrittenInOrder

LEMMA Inductive ==
    ASSUME IInv, [Next]_vars
    PROVE  IInv'
<1>1. CASE UNCHANGED vars
  <2>1. UNCHANGED <<cfg, next, forwarder, ingress, batch, timer, main, stopping, queue, step, job,
                    tries, result, written, dlq, acked, cancelled>>
    BY <1>1 DEF vars, stage, writing
  <2>2. FlatTypes'
    BY <2>1 DEF IInv, Types, FlatTypes, Procs, Writers
  <2>3. Types' /\ PlaceInv' /\ Words'
    BY <2>1, <2>2, QuietKeepsTypes, QuietKeepsPlaces, HandOverKeepsWords DEF IInv
  <2>4. WrittenInOrder'
    BY <2>1 DEF IInv, WrittenInOrder, Ahead, Procs, Writers, Slots, Slot, Held
  <2> QED BY <2>3, <2>4 DEF IInv
<1>2. CASE Next
  <2>1. Types'
    BY <1>2, CollectingKeepsTypes, FlushingKeepsTypes, WriterKeepsTypes DEF Next, IInv, PlaceInv
  <2>2. PlaceInv' /\ Words' /\ WrittenInOrder'
    BY <1>2, NextKeepsPlaces, NextKeepsWords, NextKeepsWritten DEF IInv
  <2> QED BY <2>1, <2>2 DEF IInv
<1> QED BY <1>1, <1>2

(* The invariant of the forwarder, the collector and the writers of runSink,*)
(* whatever the sizes, timers, retries and limits: what each of them holds, *)
(* in which order, and what has been said of every message that is gone.    *)
THEOREM Invariance == Spec => []IInv
<1>1. Init => IInv
  BY InitTypes, InitPlaces, InitWords, InitWritten DEF IInv
<1> QED BY <1>1, Inductive, PTL DEF Spec

(* Where(m) names the places that hold m, one pair for each. *)
LEMMA Places ==
    ASSUME NEW m
    PROVE  \A p : (p \in Where(m)) <=>
              \/ p = <<"edge", 0>> /\ m >= next
              \/ p = <<"ingress", 0>> /\ m \in ToSet(ingress)
              \/ p = <<"batch", 0>> /\ m \in ToSet(batch)
              \/ p = <<"acked", 0>> /\ acked[m] # "no"
              \/ \E k \in Slots : p = <<"queue", k>> /\ m \in Slot(k)
              \/ \E x \in Procs : p = <<"job", x>> /\ m \in Held(x)
BY DEF Where, Slots, Slot, Held

(* The places exclude one another. *)
LEMMA Disjoint ==
    ASSUME IInv, NEW m \in Msgs
    PROVE  /\ m >= next => /\ m \notin ToSet(ingress) /\ m \notin ToSet(batch) /\ acked[m] = "no"
                           /\ \A k \in Slots : m \notin Slot(k)
                           /\ \A x \in Procs : m \notin Held(x)
           /\ m \in ToSet(ingress) => /\ m \notin ToSet(batch)
                                      /\ \A k \in Slots : m \notin Slot(k)
                                      /\ \A x \in Procs : m \notin Held(x)
           /\ m \in ToSet(batch) => /\ \A k \in Slots : m \notin Slot(k)
                                    /\ \A x \in Procs : m \notin Held(x)
           /\ acked[m] # "no" => /\ m \notin ToSet(ingress) /\ m \notin ToSet(batch)
                                 /\ \A k \in Slots : m \notin Slot(k)
                                 /\ \A x \in Procs : m \notin Held(x)
           /\ \A k \in Slots : m \in Slot(k) => /\ \A j \in Slots : m \in Slot(j) => j = k
                                                /\ \A x \in Procs : m \notin Held(x)
           /\ \A x, y \in Procs : m \in Held(x) /\ m \in Held(y) => x = y
<1>0. m \in Int /\ next \in Int /\ \A k \in Slots : k \in Int
  BY MsgsInt DEF IInv, Types, FlatTypes, Slots
<1>1. ~(m < m)
  BY <1>0
<1>2. m >= next => ~(m < next)
  BY <1>0
<1>3. \A S, T : Ahead(S, T) => ~(m \in S /\ m \in T)
  BY <1>1 DEF Ahead
<1>4. \A j, k \in Slots : m \in Slot(j) /\ m \in Slot(k) => j = k
  <2>1. SUFFICES ASSUME NEW j \in Slots, NEW k \in Slots, m \in Slot(j), m \in Slot(k), j # k
                 PROVE  FALSE
    OBVIOUS
  <2>2. j < k \/ k < j
    BY <1>0, <2>1
  <2> QED BY <1>3, <2>1, <2>2 DEF IInv, PlaceInv, InOrder, Sorted
<1>5. m >= next => /\ m \notin ToSet(ingress) /\ m \notin ToSet(batch) /\ acked[m] = "no"
                   /\ \A k \in Slots : m \notin Slot(k)
                   /\ \A x \in Procs : m \notin Held(x)
  BY <1>2 DEF IInv, PlaceInv, InOrder, Delivered, Apart
<1>6. /\ ~(m \in ToSet(batch) /\ m \in ToSet(ingress))
      /\ \A k \in Slots : m \in Slot(k) => m \notin ToSet(batch) /\ m \notin ToSet(ingress)
      /\ \A x \in Procs : m \in Held(x) => m \notin ToSet(batch) /\ m \notin ToSet(ingress)
      /\ \A k \in Slots : \A x \in Procs : m \in Slot(k) => m \notin Held(x)
  BY <1>3 DEF IInv, PlaceInv, InOrder, Sorted, Procs
<1>7. \A x, y \in Procs : m \in Held(x) /\ m \in Held(y) => x = y
  BY DEF IInv, PlaceInv, Apart
<1>8. acked[m] # "no" => /\ m \notin ToSet(ingress) /\ m \notin ToSet(batch)
                         /\ \A k \in Slots : m \notin Slot(k)
                         /\ \A x \in Procs : m \notin Held(x)
  BY DEF IInv, PlaceInv, Apart
<1> QED BY <1>4, <1>5, <1>6, <1>7, <1>8

LEMMA OneWhere ==
    ASSUME IInv, NEW m \in Msgs
    PROVE  \E p : Where(m) = {p}
<1>1. \A p : (\A q : (q \in Where(m)) <=> (q = p)) => \E r : Where(m) = {r}
  OBVIOUS
<1>2. CASE m >= next
  <2> DEFINE p == <<"edge", 0>>
  <2>1. \A q : (q \in Where(m)) <=> (q = p)
    BY <1>2, Places, Disjoint
  <2> HIDE DEF p
  <2> QED BY <1>1, <2>1
<1>3. CASE m \in ToSet(ingress)
  <2> DEFINE p == <<"ingress", 0>>
  <2>1. \A q : (q \in Where(m)) <=> (q = p)
    BY <1>3, Places, Disjoint
  <2> HIDE DEF p
  <2> QED BY <1>1, <2>1
<1>4. CASE m \in ToSet(batch)
  <2> DEFINE p == <<"batch", 0>>
  <2>1. \A q : (q \in Where(m)) <=> (q = p)
    BY <1>4, Places, Disjoint
  <2> HIDE DEF p
  <2> QED BY <1>1, <2>1
<1>5. CASE acked[m] # "no"
  <2> DEFINE p == <<"acked", 0>>
  <2>1. \A q : (q \in Where(m)) <=> (q = p)
    BY <1>5, Places, Disjoint
  <2> HIDE DEF p
  <2> QED BY <1>1, <2>1
<1>6. ASSUME NEW k \in Slots, m \in Slot(k)
      PROVE  \E r : Where(m) = {r}
  <2> DEFINE p == <<"queue", k>>
  <2>1. \A q : (q \in Where(m)) <=> (q = p)
    BY <1>6, Places, Disjoint
  <2> HIDE DEF p
  <2>2. Where(m) = {p}
    BY <2>1
  <2> QED BY <2>2
<1>7. ASSUME NEW x \in Procs, m \in Held(x)
      PROVE  \E r : Where(m) = {r}
  <2> DEFINE p == <<"job", x>>
  <2>1. \A q : (q \in Where(m)) <=> (q = p)
    BY <1>7, Places, Disjoint
  <2> HIDE DEF p
  <2>2. Where(m) = {p}
    BY <2>1
  <2> QED BY <2>2
<1>8. \/ m >= next \/ m \in ToSet(ingress) \/ m \in ToSet(batch) \/ acked[m] # "no"
      \/ \E k \in Slots : m \in Slot(k)
      \/ \E x \in Procs : m \in Held(x)
  BY DEF IInv, PlaceInv, NothingLost
<1> QED BY <1>2, <1>3, <1>4, <1>5, <1>6, <1>7, <1>8

LEMMA TypesOK ==
    ASSUME IInv
    PROVE  TypeOK
<1>1. /\ cfg \in Settings
      /\ forwarder \in {"run", "done"} /\ next \in 1..Messages + 1
      /\ timer \in {"none", "armed", "fired", "spent", "idle"}
      /\ main \in {"select", "enqueue", "direct", "done"} /\ stopping \in BOOLEAN
      /\ step \in [Procs -> {"idle", "write", "backoff", "dlq", "ack", "done"}]
      /\ job \in [Procs -> Seq(1..Messages)]
      /\ tries \in [Procs -> 0..cfg.retries + 1]
      /\ result \in [Procs -> {"nil", "err", "stop"}]
      /\ dlq \subseteq 1..Messages
      /\ acked \in [1..Messages -> {"no", "nil", "err", "stop"}]
      /\ cancelled \in BOOLEAN
  BY DEF IInv, Types, FlatTypes, Msgs, Batches
<1>2. /\ ingress \in Seq(1..Messages) /\ Len(ingress) <= IngressSize
      /\ batch \in Seq(1..Messages) /\ Len(batch) <= cfg.size
      /\ queue \in Seq(Seq(1..Messages)) /\ Len(queue) <= cfg.writers
      /\ written \in Seq(1..Messages)
  BY DEF IInv, Types, SeqTypes, Msgs, Batches
<1> QED BY <1>1, <1>2 DEF TypeOK

(* From the edge to the Ack, through ingress, a batch, writeCh and a writer *)
(* or the collector itself, a message is in one place, and written at most  *)
(* once (pipeline.go runSink, enqueue, writeWithRetry).                     *)
THEOREM HeldOnce == Spec => []OnePlace
<1>1. ASSUME IInv
      PROVE  OnePlace
  <2>1. TypeOK
    BY <1>1, TypesOK
  <2>2. \A p : Cardinality({p}) = 1
    BY FS_Singleton
  <2>3. \A m \in 1..Messages : Cardinality(Where(m)) = 1
    BY <1>1, <2>2, OneWhere DEF Msgs
  <2>4. IsInjective(written)
    BY <1>1 DEF IInv, Words, Told
  <2> QED BY <2>1, <2>3, <2>4 DEF OnePlace
<1> QED BY <1>1, Invariance, PTL

(* flushSinkBatch acks nil exactly what was written, and offers a message   *)
(* to the DLQ before it acks the error of the sink.                         *)
THEOREM AcksAreTrue == Spec => []AckTruth
<1>1. ASSUME IInv
      PROVE  AckTruth
  <2> SUFFICES ASSUME NEW m \in Msgs
               PROVE  /\ acked[m] = "nil" => m \in ToSet(written)
                      /\ acked[m] \in {"err", "stop"} => m \notin ToSet(written)
                      /\ acked[m] = "err" /\ cfg.dlq => m \in dlq
                      /\ m \in dlq => m \notin ToSet(written)
    BY DEF AckTruth, Msgs
  <2>1. /\ acked[m] = "nil" => m \in ToSet(written)
        /\ acked[m] = "err" /\ cfg.dlq => m \in dlq
    BY <1>1 DEF IInv, Words, WordKept
  <2>2. \A x \in Procs : m \in Held(x) => acked[m] = "no"
    BY <1>1 DEF IInv, PlaceInv, Apart
  <2>3. m \in ToSet(written) => acked[m] = "nil" \/ \E x \in Procs : m \in Held(x) /\ Sent(x)
    BY <1>1 DEF IInv, Words, Told
  <2>4. m \in dlq => acked[m] \in {"err", "stop"} \/ \E x \in Procs : m \in Held(x) /\ Refused(x)
    BY <1>1 DEF IInv, Words, Told
  <2>5. acked[m] \in {"err", "stop"} => m \notin ToSet(written)
    BY <2>2, <2>3
  <2>6. \A x, y \in Procs : ~(m \in Held(x) /\ Sent(x) /\ m \in Held(y) /\ Refused(y))
    BY <1>1, Disjoint DEF Sent, Refused
  <2>7. m \in dlq => m \notin ToSet(written)
    BY <2>2, <2>3, <2>4, <2>6
  <2> QED BY <2>1, <2>5, <2>7
<1> QED BY <1>1, Invariance, PTL

(* One writer keeps the order of the edge, as docs/configurations.md says   *)
(* of ordered sinks, until the pipeline is cancelled.                       *)
THEOREM OneWriterKeepsOrder == Spec => []Ordered
<1>1. ASSUME IInv
      PROVE  Ordered
  BY <1>1 DEF IInv, WrittenInOrder, Increasing, Ordered
<1> QED BY <1>1, Invariance, PTL
==============================================================================

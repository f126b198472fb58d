--------------------------- MODULE EdgeInboundProofs ---------------------------
(***************************************************************************)
(* Theorems about EdgeInbound.tla, for any producers, sizes, buffer types, *)
(* strategies and limits.                                                  *)
(*                                                                         *)
(* A message is at a place, and a step moves at most one of them, from one *)
(* place to another (Move); on a memory or a disk edge the places have an  *)
(* order, and only the oldest message of a place moves on (Lined).  That   *)
(* the steps of the log are such moves is the invariant of DiskWAL (Shape, *)
(* Reading, LogSorted).                                                    *)
(***************************************************************************)
EXTENDS EdgeInbound, FiniteSetTheorems, TLAPS

-----------------------------------------------------------------------------
(* The messages in a channel.                                              *)

(* Every element has a place. *)
LEMMA InSeq ==
    ASSUME NEW S, NEW s \in Seq(S), NEW x
    PROVE  x \in ToSet(s) <=> \E i \in 1..Len(s) : s[i] = x
BY DEF ToSet

LEMMA ToSetAppend ==
    ASSUME NEW S, NEW s \in Seq(S), NEW e \in S
    PROVE  ToSet(Append(s, e)) = ToSet(s) \cup {e}
<1> DEFINE t == Append(s, e)
<1>1. t \in Seq(S) /\ Len(t) = Len(s) + 1 /\ Len(s) \in Nat
  OBVIOUS
<1>2. /\ \A i \in 1..Len(s) : t[i] = s[i]
      /\ t[Len(s) + 1] = e
  OBVIOUS
<1> HIDE DEF t
<1>3. ASSUME NEW x PROVE x \in ToSet(t) <=> x \in ToSet(s) \/ x = e
  <2>1. x \in ToSet(t) <=> \E i \in 1..Len(s) + 1 : t[i] = x
    BY <1>1, InSeq
  <2>2. x \in ToSet(s) <=> \E i \in 1..Len(s) : s[i] = x
    BY InSeq
  <2> QED BY <1>1, <1>2, <2>1, <2>2
<1> QED BY <1>3 DEF t

LEMMA ToSetTail ==
    ASSUME NEW S, NEW s \in Seq(S), s # <<>>
    PROVE  /\ Head(s) \in S /\ Tail(s) \in Seq(S)
           /\ ToSet(s) = ToSet(Tail(s)) \cup {Head(s)}
<1> DEFINE t == Tail(s)
<1>1. Head(s) \in S /\ t \in Seq(S) /\ Len(t) = Len(s) - 1 /\ Len(s) \in Nat \ {0}
  OBVIOUS
<1>2. /\ \A i \in 1..Len(t) : t[i] = s[i + 1]
      /\ Head(s) = s[1]
  OBVIOUS
<1> HIDE DEF t
<1>3. ASSUME NEW x PROVE x \in ToSet(s) <=> x \in ToSet(t) \/ x = Head(s)
  <2>1. x \in ToSet(t) <=> \E i \in 1..Len(s) - 1 : t[i] = x
    BY <1>1, InSeq
  <2>2. x \in ToSet(s) <=> \E i \in 1..Len(s) : s[i] = x
    BY InSeq
  <2>3. ASSUME x \in ToSet(s), x # Head(s) PROVE x \in ToSet(t)
    <3>1. PICK i \in 1..Len(s) : s[i] = x
      BY <2>2, <2>3
    <3>2. i - 1 \in 1..Len(t) /\ t[i - 1] = x
      BY <1>1, <1>2, <2>3, <3>1
    <3> QED BY <1>1, <2>1, <3>2
  <2>4. ASSUME x \in ToSet(t) \/ x = Head(s) PROVE x \in ToSet(s)
    BY <1>1, <1>2, <2>1, <2>2, <2>4
  <2> QED BY <2>3, <2>4
<1> QED BY <1>1, <1>3 DEF t

LEMMA ToSetEmpty == ToSet(<<>>) = {}
BY DEF ToSet

-----------------------------------------------------------------------------
(* The invariants.                                                         *)

Steps == {"idle", "try", "send", "victim", "wait", "append", "evict", "retry", "poll", "quit"}

FlatTypes ==
    /\ cfg \in [type : Types, strategy : Strategies, kind : Kinds, size : Sizes, limit : Limits]
    /\ closed \in BOOLEAN /\ cancelled \in BOOLEAN
    /\ prod \in [Producers -> Steps]
    /\ sent \in [Producers -> Nat]
    /\ \A p \in Producers : /\ sent[p] <= Count[p]
                            /\ prod[p] \notin {"idle", "quit"} => sent[p] < Count[p]
    /\ drain \in {"loop", "read", "select", "emit", "done"}
    /\ hold \in Msgs \cup {NoMsg} /\ (hold # NoMsg <=> drain = "emit")
    /\ fanin \in {"run", "done"}
    /\ spilled \subseteq Msgs /\ gone \subseteq Msgs
    /\ acked \in [Msgs -> {"no", "nil", "err"}]

Channels ==
    /\ mem \in Seq(Msgs) /\ Len(mem) <= cfg.size
    /\ out \in Seq(Msgs) /\ Len(out) <= cfg.size
    /\ delivered \in Seq(Msgs)

SlotTypes ==
    /\ slots \subseteq Msgs /\ IsFiniteSet(slots)
    /\ IF cfg.limit = 0 THEN slots = {} ELSE Cardinality(slots) <= cfg.limit

(* Which steps of Enqueue and drainLoop an edge of this type and strategy  *)
(* comes to.                                                               *)
Modes ==
    /\ \A p \in Producers :
         /\ prod[p] \in {"append", "evict", "retry", "poll"} => OnDisk
         /\ prod[p] \in {"send", "victim", "wait"} => cfg.type = "memory"
         /\ prod[p] = "try" => cfg.type # "disk"
         /\ prod[p] \in {"victim", "evict", "retry"} => cfg.strategy = "drop_oldest"
    /\ drain = "read" => OnDisk
    /\ cfg.type = "disk" => mem = <<>>
    /\ ~OnDisk => files = <<>>

(* The segments are those from the one being read to the one being written.*)
Shape ==
    /\ files = [s \in Segments |-> files[s]]
    /\ \A s \in Segments : files[s] \in Seq(Msgs)
    /\ writer \in Nat /\ \E lo \in Nat \ {0} : Segments = lo..writer
    /\ writer # 0 => writer \in Segments
    /\ total \in 0..MaxSize

(* The stored offset is that of the open segment, or none.                 *)
Reading ==
    /\ rpc \in {"idle", "reset", "again"}
    /\ stored \in [seg : Nat, pos : Nat]
    /\ reader # 0 => /\ reader \in Segments /\ \A s \in Segments : reader <= s
                     /\ pos \in 0..Len(files[reader])
                     /\ stored.seg \in {0, reader} /\ rpc # "reset"
    /\ reader = 0 => pos = 0 /\ stored.seg \notin Segments
    /\ reader = 0 /\ rpc # "reset" => stored.seg = 0

Left(s, i) == s \in Segments /\ i \in 1..Len(files[s]) /\ (s = Cursor.seg => i > Cursor.pos)

(* The records that are left come in the order of their Enqueues.          *)
LogSorted ==
    \A s, t, i, j \in Nat :
        Left(s, i) /\ Left(t, j) /\ (s < t \/ (s = t /\ i < j)) /\ files[s][i][1] = files[t][j][1]
        => files[s][i][2] < files[t][j][2]

-----------------------------------------------------------------------------

Places == {"producer", "mem", "disk", "drain", "out", "next", "gone"}

At(w) == CASE w = "producer" -> {m \in Msgs : m[2] > sent[m[1]]}
           [] w = "mem"      -> ToSet(mem)
           [] w = "disk"     -> Unread
           [] w = "drain"    -> {hold} \ {NoMsg}
           [] w = "out"      -> ToSet(out)
           [] w = "next"     -> ToSet(delivered)
           [] OTHER          -> gone

Apart ==
    /\ \A w \in Places : At(w) \subseteq Msgs
    /\ \A m \in Msgs : \E w \in Places : \A v \in Places : m \in At(v) <=> v = w

Older(S, T) == \A a \in S, b \in T : a[1] = b[1] => a[2] < b[2]
Sorted(s)   == \A i, j \in 1..Len(s) : i < j /\ s[i][1] = s[j][1] => s[i][2] < s[j][2]

ChannelsSorted ==
    /\ IsInjective(mem) /\ IsInjective(out) /\ IsInjective(delivered)
    /\ Sorted(mem)
    /\ cfg.type # "overflow" => Sorted(out) /\ Sorted(delivered)

(* Rank[v] < Rank[w]: what is in v was sent before what is in w. *)
Rank == [w \in Places |-> CASE w = "next"  -> 1
                            [] w = "out"   -> 2
                            [] w = "drain" -> 3
                            [] w = "producer" -> 5
                            [] w = "gone"  -> 6
                            [] OTHER -> 4]

Lined ==
    cfg.type # "overflow" =>
        \A v, w \in Places \ {"gone"} : Rank[v] < Rank[w] => Older(At(v), At(w))

Survive ==
    cfg.type = "memory" /\ cfg.strategy = "drop_oldest" /\ ~cancelled => Older(gone, ToSet(mem))

IInv == /\ FlatTypes /\ Channels /\ SlotTypes /\ Modes /\ Shape /\ Reading /\ LogSorted
        /\ Apart /\ ChannelsSorted /\ Lined /\ Survive /\ AckedWhenGone

-----------------------------------------------------------------------------
(* Messages, and the channels as sequences of them. *)

LEMMA MsgIs ==
    ASSUME NEW m
    PROVE  m \in Msgs <=> \E p \in Producers : \E n \in 1..Count[p] : m = <<p, n>>
BY DEF Msgs

LEMMA MsgParts ==
    ASSUME NEW m \in Msgs
    PROVE  /\ m[1] \in Producers /\ m[2] \in 1..Count[m[1]] /\ m[2] \in Int
           /\ m = <<m[1], m[2]>>
           /\ m \notin {Cut, Torn, NoMsg}
<1>1. PICK p \in Producers : \E n \in 1..Count[p] : m = <<p, n>>
  BY MsgIs
<1>2. Count[p] \in Nat
  BY EdgeAssumption
<1> QED BY <1>1, <1>2, EdgeAssumption

(* A message goes into a channel ... *)
LEMMA PutView ==
    ASSUME NEW s \in Seq(Msgs), NEW m \in Msgs, m \notin ToSet(s), IsInjective(s)
    PROVE  /\ Append(s, m) \in Seq(Msgs) /\ Len(Append(s, m)) = Len(s) + 1
           /\ ToSet(Append(s, m)) = ToSet(s) \cup {m}
           /\ IsInjective(Append(s, m))
           /\ Sorted(s) /\ Older(ToSet(s), {m}) => Sorted(Append(s, m))
<1> DEFINE t == Append(s, m)
<1>1. /\ t \in Seq(Msgs) /\ Len(t) = Len(s) + 1 /\ Len(s) \in Nat
      /\ DOMAIN t = 1..Len(t) /\ DOMAIN s = 1..Len(s)
      /\ \A i \in 1..Len(s) : t[i] = s[i]
      /\ t[Len(s) + 1] = m
  OBVIOUS
<1>2. ToSet(t) = ToSet(s) \cup {m}
  BY ToSetAppend
<1>3. \A i \in 1..Len(s) : s[i] \in ToSet(s)
  BY InSeq
<1> HIDE DEF t
<1>4. ASSUME NEW i \in 1..Len(t), NEW j \in 1..Len(t), t[i] = t[j]
      PROVE  i = j
  BY <1>1, <1>3, <1>4 DEF IsInjective
<1>5. ASSUME Sorted(s), Older(ToSet(s), {m}),
             NEW i \in 1..Len(t), NEW j \in 1..Len(t), i < j, t[i][1] = t[j][1]
      PROVE  t[i][2] < t[j][2]
  <2>1. CASE j = Len(s) + 1
    BY <1>1, <1>3, <1>5, <2>1 DEF Older
  <2>2. CASE j # Len(s) + 1
    BY <1>1, <1>5, <2>2 DEF Sorted
  <2> QED BY <2>1, <2>2
<1>6. IsInjective(t)
  BY <1>1, <1>4 DEF IsInjective
<1>7. Sorted(s) /\ Older(ToSet(s), {m}) => Sorted(t)
  BY <1>5 DEF Sorted
<1> QED BY <1>1, <1>2, <1>6, <1>7 DEF t

(* ... and out of it. *)
LEMMA TakeView ==
    ASSUME NEW s \in Seq(Msgs), s # <<>>, IsInjective(s)
    PROVE  /\ Head(s) \in Msgs /\ Head(s) \in ToSet(s)
           /\ Tail(s) \in Seq(Msgs) /\ Len(Tail(s)) = Len(s) - 1
           /\ ToSet(Tail(s)) = ToSet(s) \ {Head(s)}
           /\ IsInjective(Tail(s))
           /\ Sorted(s) => Sorted(Tail(s)) /\ Older({Head(s)}, ToSet(s) \ {Head(s)})
<1> DEFINE t == Tail(s)
           h == Head(s)
<1>1. /\ t \in Seq(Msgs) /\ Len(t) = Len(s) - 1 /\ Len(s) \in Nat \ {0}
      /\ DOMAIN t = 1..Len(t) /\ DOMAIN s = 1..Len(s)
      /\ \A i \in 1..Len(t) : t[i] = s[i + 1]
      /\ h = s[1] /\ h \in Msgs
  OBVIOUS
<1>2. ToSet(s) = ToSet(t) \cup {h}
  BY ToSetTail
<1> HIDE DEF t, h
<1>3. \A i \in 1..Len(t) : t[i] # h
  BY <1>1 DEF IsInjective
<1>4. h \notin ToSet(t)
  BY <1>1, <1>3, InSeq
<1>5. ASSUME NEW i \in 1..Len(t), NEW j \in 1..Len(t), t[i] = t[j]
      PROVE  i = j
  <2>1. i + 1 \in DOMAIN s /\ j + 1 \in DOMAIN s /\ s[i + 1] = s[j + 1]
    BY <1>1, <1>5
  <2>2. i + 1 = j + 1
    BY <2>1 DEF IsInjective
  <2> QED BY <2>2
<1>6. ASSUME Sorted(s)
      PROVE  Sorted(t) /\ Older({h}, ToSet(t))
  <2>1. Sorted(t)
    BY <1>1, <1>6 DEF Sorted
  <2>2. ASSUME NEW b \in ToSet(t), h[1] = b[1] PROVE h[2] < b[2]
    <3>1. PICK j \in 1..Len(t) : t[j] = b
      BY <1>1, InSeq
    <3> QED BY <1>1, <1>6, <2>2, <3>1 DEF Sorted
  <2> QED BY <2>1, <2>2 DEF Older
<1>7. IsInjective(t)
  BY <1>1, <1>5 DEF IsInjective
<1>8. ToSet(t) = ToSet(s) \ {h}
  BY <1>2, <1>4
<1> QED BY <1>1, <1>2, <1>6, <1>7, <1>8 DEF t, h

LEMMA EmptyView ==
    ToSet(<<>>) = {} /\ IsInjective(<<>>) /\ Sorted(<<>>)
<1>1. IsInjective(<<>>)
  BY DEF IsInjective
<1>2. Sorted(<<>>)
  BY DEF Sorted
<1> QED BY <1>1, <1>2, ToSetEmpty

-----------------------------------------------------------------------------
(* The log: where ReadNext stands, and what it has still to read. *)

LEMMA IntervalEnds ==
    ASSUME NEW lo \in Nat, NEW hi \in Nat, lo <= hi
    PROVE  Min(lo..hi) = lo /\ Max(lo..hi) = hi
<1>1. \A x : x \in lo..hi /\ (\A y \in lo..hi : x <= y) => x = lo
  OBVIOUS
<1>2. \A x : x \in lo..hi /\ (\A y \in lo..hi : x >= y) => x = hi
  OBVIOUS
<1>3. Min(lo..hi) = lo
  BY <1>1 DEF Min
<1>4. Max(lo..hi) = hi
  BY <1>2 DEF Max
<1> QED BY <1>3, <1>4

LEMMA CursorIs ==
    Shape /\ Reading =>
        /\ Segments = {} => Cursor = NoOffset /\ writer = 0 /\ reader = 0
        /\ \A lo \in Nat \ {0} : Segments = lo..writer /\ Segments # {} =>
              /\ lo \in Segments /\ lo <= writer /\ writer \in Segments
              /\ Cursor = [seg |-> lo, pos |-> pos]
              /\ reader \in {0, lo} /\ (stored.seg \in {0, lo} \/ rpc = "reset")
              /\ pos \in 0..Len(files[lo])
        /\ Cursor.pos = pos /\ pos \in Nat /\ Cursor.seg \in Nat
<1> SUFFICES ASSUME Shape, Reading
             PROVE  /\ Segments = {} => Cursor = NoOffset /\ writer = 0 /\ reader = 0
                    /\ \A lo \in Nat \ {0} : Segments = lo..writer /\ Segments # {} =>
                          /\ lo \in Segments /\ lo <= writer /\ writer \in Segments
                          /\ Cursor = [seg |-> lo, pos |-> pos]
                          /\ reader \in {0, lo} /\ (stored.seg \in {0, lo} \/ rpc = "reset")
                          /\ pos \in 0..Len(files[lo])
                    /\ Cursor.pos = pos /\ pos \in Nat /\ Cursor.seg \in Nat
  OBVIOUS
<1>0. \A s \in Segments : Len(files[s]) \in Nat
  BY DEF Shape
<1>1. ASSUME Segments = {}
      PROVE  Cursor = NoOffset /\ writer = 0 /\ reader = 0 /\ pos = 0
  BY <1>1 DEF Shape, Reading, Cursor, FirstSegment, Nowhere
<1>2. ASSUME NEW lo \in Nat \ {0}, Segments = lo..writer, Segments # {}
      PROVE  /\ lo \in Segments /\ lo <= writer /\ writer \in Segments
             /\ Cursor = [seg |-> lo, pos |-> pos]
             /\ reader \in {0, lo} /\ (stored.seg \in {0, lo} \/ rpc = "reset")
             /\ pos \in 0..Len(files[lo])
  <2>1. writer \in Nat /\ lo <= writer /\ lo \in Segments /\ writer \in Segments
    BY <1>2 DEF Shape
  <2>2. Min(Segments) = lo
    BY <1>2, <2>1, IntervalEnds
  <2>3. CASE reader # 0
    <3>1. reader = lo
      BY <1>2, <2>1, <2>3 DEF Reading
    <3> QED BY <2>1, <2>3, <3>1 DEF Reading, Cursor
  <2>4. CASE reader = 0
    <3>1. pos = 0 /\ stored.seg \notin Segments /\ (stored.seg = 0 \/ rpc = "reset")
      BY <2>4 DEF Reading
    <3>2. Cursor = [seg |-> lo, pos |-> 0]
      BY <1>2, <2>2, <2>4, <3>1 DEF Cursor, FirstSegment
    <3> QED BY <1>0, <2>1, <2>4, <3>1, <3>2
  <2> QED BY <2>3, <2>4
<1>3. Cursor.pos = pos /\ pos \in Nat /\ Cursor.seg \in Nat
  <2>1. CASE Segments = {}
    BY <1>1, <2>1 DEF NoOffset
  <2>2. CASE Segments # {}
    <3>1. PICK lo \in Nat \ {0} : Segments = lo..writer
      BY DEF Shape
    <3> QED BY <1>0, <1>2, <2>2, <3>1
  <2> QED BY <2>1, <2>2
<1> QED BY <1>1, <1>2, <1>3

LEMMA UnreadIs ==
    Shape /\ Reading =>
        /\ \A x : x \in Unread <=> \E s, i \in Nat : Left(s, i) /\ files[s][i] = x
        /\ Segments \subseteq Nat \ {0} /\ Unread \subseteq Msgs
<1> SUFFICES ASSUME Shape, Reading
             PROVE  /\ \A x : x \in Unread <=> \E s, i \in Nat : Left(s, i) /\ files[s][i] = x
                    /\ Segments \subseteq Nat \ {0} /\ Unread \subseteq Msgs
  OBVIOUS
<1>1. Cursor.pos \in Nat
  BY CursorIs
<1>2. \A s \in Segments : files[s] \in Seq(Msgs)
  BY DEF Shape
<1>3. Segments \subseteq Nat \ {0}
  BY DEF Shape
<1>4. ASSUME NEW s \in Segments, NEW x
      PROVE  x \in ToSet(Ahead(s)) <=> \E i \in Nat : Left(s, i) /\ files[s][i] = x
  <2> DEFINE f == files[s]
             k == IF s = Cursor.seg THEN Cursor.pos ELSE 0
             r == SubSeq(f, k + 1, Len(f))
  <2>1. f \in Seq(Msgs) /\ k \in Nat /\ Len(f) \in Nat
    BY <1>1, <1>2
  <2>2. \A i \in Nat : Left(s, i) <=> i \in 1..Len(f) /\ i > k
    BY DEF Left
  <2>3. Ahead(s) = r
    BY DEF Ahead
  <2> HIDE DEF f, k
  <2>4. r \in Seq(Msgs) /\ Len(r) = (IF k + 1 <= Len(f) THEN Len(f) - k ELSE 0)
        /\ \A i \in 1..Len(r) : r[i] = f[i + k]
    BY <2>1
  <2> HIDE DEF r
  <2>5. x \in ToSet(r) <=> \E i \in 1..Len(r) : r[i] = x
    BY <2>4, InSeq
  <2>6. ASSUME NEW i \in 1..Len(r), r[i] = x
        PROVE  i + k \in Nat /\ i + k \in 1..Len(f) /\ i + k > k /\ f[i + k] = x
    BY <2>1, <2>4, <2>6
  <2>7. ASSUME NEW i \in Nat, i \in 1..Len(f), i > k, f[i] = x
        PROVE  i - k \in 1..Len(r) /\ r[i - k] = x
    BY <2>1, <2>4, <2>7
  <2>8. x \in ToSet(r) <=> \E i \in Nat : i \in 1..Len(f) /\ i > k /\ f[i] = x
    BY <2>5, <2>6, <2>7
  <2>9. x \in ToSet(Ahead(s)) <=> \E i \in Nat : Left(s, i) /\ f[i] = x
    BY <2>2, <2>3, <2>8
  <2> QED BY <2>9 DEF f
<1>5. \A x : x \in Unread <=> (\E s \in Segments : x \in ToSet(Ahead(s))) /\ x \notin {Cut, Torn}
  BY DEF Unread
<1>6. \A s, i : Left(s, i) => s \in Segments /\ files[s][i] \in Msgs
  BY <1>2 DEF Left
<1>7. \A x : x \in Unread <=> \E s, i \in Nat : Left(s, i) /\ files[s][i] = x
  BY <1>3, <1>4, <1>5, <1>6, EdgeAssumption
<1>8. Unread \subseteq Msgs
  BY <1>6, <1>7
<1> QED BY <1>3, <1>7, <1>8

LogInv == Shape /\ Reading /\ LogSorted

LEMMA CursorNext ==
    ASSUME Shape', Reading'
    PROVE  /\ Segments' = {} => Cursor' = NoOffset
           /\ \A lo \in Nat \ {0} : Segments' = lo..writer' /\ Segments' # {} =>
                 Cursor' = [seg |-> lo, pos |-> pos']
           /\ \A x : x \in Unread' <=> \E s, i \in Nat : Left(s, i)' /\ files'[s][i] = x
           /\ Segments' \subseteq Nat \ {0} /\ Unread' \subseteq Msgs
<1>1. (Shape /\ Reading)' =>
        (/\ Segments = {} => Cursor = NoOffset /\ writer = 0 /\ reader = 0
         /\ \A lo \in Nat \ {0} : Segments = lo..writer /\ Segments # {} =>
              /\ lo \in Segments /\ lo <= writer /\ writer \in Segments
              /\ Cursor = [seg |-> lo, pos |-> pos]
              /\ reader \in {0, lo} /\ (stored.seg \in {0, lo} \/ rpc = "reset")
              /\ pos \in 0..Len(files[lo])
         /\ Cursor.pos = pos /\ pos \in Nat /\ Cursor.seg \in Nat)'
  BY CursorIs, PTL
<1>2. (Shape /\ Reading)' =>
        (/\ \A x : x \in Unread <=> \E s, i \in Nat : Left(s, i) /\ files[s][i] = x
         /\ Segments \subseteq Nat \ {0} /\ Unread \subseteq Msgs)'
  BY UnreadIs, PTL
<1>3. /\ Segments' = {} => Cursor' = NoOffset
      /\ \A lo \in Nat \ {0} : Segments' = lo..writer' /\ Segments' # {} =>
            Cursor' = [seg |-> lo, pos |-> pos']
  BY <1>1
<1> QED BY <1>2, <1>3

(* A step that leaves the same records to read. *)
LEMMA SameLeft ==
    ASSUME LogInv, Shape', Reading',
           \A s, i \in Nat : Left(s, i)' <=> Left(s, i),
           \A s \in Segments' : files'[s] = files[s]
    PROVE  LogInv' /\ Unread' = Unread
<1>1. \A s, i : Left(s, i)' => s \in Segments'
  BY DEF Left
<1>2. \A s, i \in Nat : Left(s, i)' => files'[s][i] = files[s][i]
  BY <1>1
<1>3. LogSorted'
  <2>1. SUFFICES ASSUME NEW s \in Nat, NEW t \in Nat, NEW i \in Nat, NEW j \in Nat,
                        Left(s, i)', Left(t, j)', s < t \/ (s = t /\ i < j),
                        files'[s][i][1] = files'[t][j][1]
                 PROVE  files'[s][i][2] < files'[t][j][2]
    BY DEF LogSorted
  <2>2. files'[s][i] = files[s][i] /\ files'[t][j] = files[t][j] /\ Left(s, i) /\ Left(t, j)
    BY <1>2, <2>1
  <2> QED BY <2>1, <2>2 DEF LogInv, LogSorted
<1>4. \A x : x \in Unread' <=> x \in Unread
  BY <1>2, UnreadIs, CursorNext DEF LogInv
<1> QED BY <1>3, <1>4 DEF LogInv

LEMMA ReadMessageView ==
    ASSUME LogInv, ReadMessage
    PROVE  /\ LogInv'
           /\ NextRecord \in Unread /\ NextRecord \in Msgs
           /\ Unread' = Unread \ {NextRecord}
           /\ Older({NextRecord}, Unread \ {NextRecord})
<1>0. PICK lo \in Nat \ {0} : Segments = lo..writer
  BY DEF LogInv, Shape
<1> DEFINE m == NextRecord
<1>1. /\ Segments # {} /\ Cursor = [seg |-> lo, pos |-> pos]
      /\ lo \in Segments /\ pos \in Nat
  <2>1. Cursor.seg \in Segments
    BY DEF ReadMessage, HasRecord, Follows
  <2> QED BY <1>0, <2>1, CursorIs DEF LogInv
<1>2. /\ pos < Len(files[lo]) /\ m = files[lo][pos + 1] /\ m \in Msgs
      /\ files[lo] \in Seq(Msgs)
  <2>1. files[lo] \in Seq(Msgs)
    BY <1>1 DEF LogInv, Shape
  <2>2. pos < Len(files[lo]) /\ m = files[lo][pos + 1]
    BY <1>1 DEF ReadMessage, HasRecord, Follows, NextRecord
  <2> QED BY <1>1, <2>1, <2>2
<1>3. /\ reader' = lo /\ pos' = pos + 1 /\ stored' = [seg |-> lo, pos |-> pos + 1]
      /\ rpc' = "idle" /\ files' = files /\ writer' = writer /\ total' = total
  BY <1>1 DEF ReadMessage, SeekTo, Progress
<1>4. Segments' = Segments
  BY <1>3 DEF Segments
<1>5. Shape'
  BY <1>3, <1>4 DEF LogInv, Shape
<1>6. Reading'
  <2>1. Len(files[lo]) \in Nat /\ \A s \in Segments : lo <= s
    BY <1>0, <1>2 DEF LogInv, Shape
  <2>2. lo # 0 /\ pos + 1 \in 0..Len(files[lo])
    BY <1>1, <1>2, <2>1
  <2> QED BY <1>1, <1>3, <1>4, <2>1, <2>2 DEF Reading
<1>7. Cursor' = [seg |-> lo, pos |-> pos + 1]
  BY <1>0, <1>1, <1>3, <1>4, <1>5, <1>6, CursorNext
<1>8. Left(lo, pos + 1)
  BY <1>1, <1>2 DEF Left
<1>9. \A s, i \in Nat : Left(s, i)' <=> Left(s, i) /\ ~(s = lo /\ i = pos + 1)
  BY <1>1, <1>3, <1>4, <1>7 DEF Left
<1>10. \A s, i \in Nat : Left(s, i)' => lo < s \/ (lo = s /\ pos + 1 < i)
  <2>1. \A s \in Segments : lo <= s
    BY <1>0 DEF LogInv, Shape
  <2> QED BY <1>1, <1>4, <1>7, <2>1 DEF Left
<1> HIDE DEF m
<1>11. \A s, i \in Nat : Left(s, i)' /\ m[1] = files[s][i][1] => m[2] < files[s][i][2]
  BY <1>1, <1>2, <1>8, <1>9, <1>10 DEF LogInv, LogSorted
<1>12. m[2] \in Int
  BY <1>2, MsgParts
<1>13. \A s, i \in Nat : Left(s, i)' => files[s][i] # m
  BY <1>11, <1>12
<1>14. /\ \A x : x \in Unread <=> \E s, i \in Nat : Left(s, i) /\ files[s][i] = x
       /\ \A x : x \in Unread' <=> \E s, i \in Nat : Left(s, i)' /\ files[s][i] = x
  BY <1>3, <1>5, <1>6, UnreadIs, CursorNext DEF LogInv
<1>15. m \in Unread
  <2>1. lo \in Nat /\ pos + 1 \in Nat
    BY <1>1
  <2> QED BY <1>2, <1>8, <1>14, <2>1
<1>16. Unread' = Unread \ {m}
  <2>1. ASSUME NEW x \in Unread' PROVE x \in Unread \ {m}
    BY <1>9, <1>13, <1>14
  <2>2. ASSUME NEW x \in Unread \ {m} PROVE x \in Unread'
    BY <1>2, <1>9, <1>14
  <2> QED BY <2>1, <2>2
<1>17. Older({m}, Unread')
  BY <1>11, <1>14 DEF Older
<1>18. LogSorted'
  BY <1>3, <1>9 DEF LogInv, LogSorted
<1> QED BY <1>2, <1>5, <1>6, <1>15, <1>16, <1>17, <1>18 DEF LogInv, m

(* All that is read of the segment where ReadNext stands. *)
LEMMA NoRecordLeft ==
    ASSUME LogInv, ~HasRecord(Cursor), NEW lo \in Nat \ {0}, Segments = lo..writer, Segments # {}
    PROVE  pos = Len(files[lo]) /\ ~AtCut(Cursor)
<1>1. /\ Cursor = [seg |-> lo, pos |-> pos] /\ lo \in Segments
      /\ pos \in 0..Len(files[lo])
  BY CursorIs DEF LogInv
<1>2. files[lo] \in Seq(Msgs) /\ Len(files[lo]) \in Nat
  BY <1>1 DEF LogInv, Shape
<1>3. ASSUME pos < Len(files[lo])
      PROVE  files[lo][pos + 1] \notin {Cut, Torn}
  <2>1. files[lo][pos + 1] \in Msgs
    BY <1>1, <1>2, <1>3
  <2> QED BY <2>1, EdgeAssumption
<1>4. pos = Len(files[lo])
  BY <1>1, <1>2, <1>3 DEF HasRecord, Follows
<1> QED BY <1>1, <1>2, <1>4 DEF AtCut, Follows

LEMMA ReadNothingView ==
    ASSUME LogInv, ReadNothing
    PROVE  LogInv' /\ Unread' = Unread
<1>0. /\ rpc' = "idle" /\ rpc # "reset" /\ ~HasRecord(Cursor)
      /\ files' = files /\ stored' = stored /\ writer' = writer /\ total' = total
      /\ SeekTo(IF AtCut(Cursor) THEN Progress(Cursor) ELSE Cursor)
  BY DEF ReadNothing, disk
<1>1. Segments' = Segments
  BY <1>0 DEF Segments
<1>2. Shape'
  BY <1>0, <1>1 DEF LogInv, Shape
<1>3. CASE Segments = {}
  <2>1. Cursor = NoOffset /\ reader = 0 /\ ~AtCut(Cursor)
    BY <1>3, CursorIs DEF LogInv, AtCut, Follows
  <2>2. reader' = 0 /\ pos' = 0
    BY <1>0, <2>1 DEF SeekTo, NoOffset
  <2>3. Reading'
    BY <1>0, <1>1, <2>1, <2>2 DEF LogInv, Reading
  <2>4. \A s, i \in Nat : Left(s, i)' <=> Left(s, i)
    BY <1>1, <1>3 DEF Left
  <2> QED BY <1>0, <1>2, <2>3, <2>4, SameLeft
<1>4. CASE Segments # {}
  <2>1. PICK lo \in Nat \ {0} : Segments = lo..writer
    BY DEF LogInv, Shape
  <2>2. /\ Cursor = [seg |-> lo, pos |-> pos] /\ lo \in Segments /\ ~AtCut(Cursor)
        /\ pos \in 0..Len(files[lo]) /\ stored.seg \in {0, lo}
    BY <1>0, <1>4, <2>1, CursorIs, NoRecordLeft DEF LogInv
  <2>3. reader' = lo /\ pos' = pos
    BY <1>0, <2>2 DEF SeekTo
  <2>4. Reading'
    <3>1. \A s \in Segments : lo <= s
      BY <2>1 DEF LogInv, Shape
    <3> QED BY <1>0, <1>1, <2>2, <2>3, <3>1 DEF LogInv, Reading
  <2>5. Cursor' = Cursor
    BY <1>0, <1>1, <1>2, <1>4, <2>1, <2>2, <2>3, <2>4, CursorNext
  <2>6. \A s, i \in Nat : Left(s, i)' <=> Left(s, i)
    BY <1>0, <1>1, <2>5 DEF Left
  <2> QED BY <1>0, <1>2, <2>4, <2>6, SameLeft
<1> QED BY <1>3, <1>4

LEMMA MaxZero ==
    ASSUME NEW n \in Int
    PROVE  Max({n, 0}) = IF n >= 0 THEN n ELSE 0
<1>1. \A x : x \in {n, 0} /\ (\A y \in {n, 0} : x >= y) => x = IF n >= 0 THEN n ELSE 0
  OBVIOUS
<1>2. \E x \in {n, 0} : \A y \in {n, 0} : x >= y
  OBVIOUS
<1> QED BY <1>1, <1>2 DEF Max

LEMMA RemoveSegmentView ==
    ASSUME LogInv, RemoveSegment
    PROVE  LogInv' /\ Unread' = Unread
<1>0. PICK lo \in Nat \ {0} : Segments = lo..writer
  BY DEF LogInv, Shape
<1>1. /\ Segments # {} /\ lo \in Segments /\ lo # writer /\ lo < writer
      /\ Cursor = [seg |-> lo, pos |-> pos] /\ pos = Len(files[lo])
      /\ writer \in Segments /\ writer \in Nat
  <2>1. Cursor.seg \in Segments /\ ~HasRecord(Cursor) /\ Cursor.seg # writer
    BY DEF RemoveSegment, Exhausted, AtEnd
  <2>2. Cursor = [seg |-> lo, pos |-> pos] /\ lo \in Segments /\ writer \in Segments /\ lo <= writer
    BY <1>0, <2>1, CursorIs DEF LogInv
  <2>3. pos = Len(files[lo])
    BY <1>0, <2>1, NoRecordLeft
  <2> QED BY <2>1, <2>2, <2>3 DEF LogInv, Shape
<1>2. /\ files' = [s \in Segments \ {lo} |-> files[s]]
      /\ total' = Max({total - Len(files[lo]), 0})
      /\ reader' = 0 /\ pos' = 0 /\ rpc' = "reset" /\ stored' = stored /\ writer' = writer
      /\ rpc # "reset"
  BY <1>1 DEF RemoveSegment, SizeWithout, SeekTo, Nowhere, NoOffset
<1>3. Segments' = Segments \ {lo}
  BY <1>2 DEF Segments
<1>4. /\ Segments' = (lo + 1)..writer /\ lo + 1 \in Nat \ {0} /\ Segments' # {}
      /\ writer \in Segments'
  BY <1>0, <1>1, <1>3
<1>5. \A s \in Segments' : files'[s] = files[s] /\ files[s] \in Seq(Msgs)
  BY <1>2, <1>3 DEF LogInv, Shape
<1>6. total' \in 0..MaxSize
  <2>1. Len(files[lo]) \in Nat /\ total \in 0..MaxSize /\ MaxSize \in Nat
    BY <1>1, WALAssumption DEF LogInv, Shape
  <2>2. total - Len(files[lo]) \in Int
    BY <2>1
  <2> QED BY <1>2, <2>1, <2>2, MaxZero
<1>7. Shape'
  <2>1. files' = [s \in Segments' |-> files'[s]]
    BY <1>2, <1>3
  <2> QED BY <1>1, <1>2, <1>4, <1>5, <1>6, <2>1 DEF Shape
<1>8. Reading'
  <2>1. stored.seg \in {0, lo}
    BY <1>0, <1>1, <1>2, CursorIs DEF LogInv
  <2>2. stored.seg \notin Segments'
    BY <1>1, <1>4, <2>1
  <2> QED BY <1>2, <2>2 DEF LogInv, Reading
<1>9. Cursor' = [seg |-> lo + 1, pos |-> 0]
  BY <1>2, <1>4, <1>7, <1>8, CursorNext
<1>10. ASSUME NEW s \in Nat, NEW i \in Nat PROVE Left(s, i)' <=> Left(s, i)
  <2>1. Left(s, i) <=> s \in Segments /\ i \in 1..Len(files[s]) /\ s # lo
    <3>1. lo \in Segments => ~(i \in 1..Len(files[lo]) /\ i > Len(files[lo]))
      <4>1. lo \in Segments => Len(files[lo]) \in Nat
        BY DEF LogInv, Shape
      <4> QED BY <4>1
    <3> QED BY <1>1, <3>1 DEF Left
  <2>2. Left(s, i)' <=> s \in Segments' /\ i \in 1..Len(files'[s])
    <3>1. i \in 1..Len(files'[s]) => i > 0
      OBVIOUS
    <3> QED BY <1>9, <3>1 DEF Left
  <2> QED BY <1>3, <1>5, <2>1, <2>2
<1> QED BY <1>5, <1>7, <1>8, <1>10, SameLeft

LEMMA ResetOffsetView ==
    ASSUME LogInv, ResetOffset
    PROVE  LogInv' /\ Unread' = Unread
<1>1. /\ rpc = "reset" /\ rpc' = "again" /\ stored' = NoOffset
      /\ files' = files /\ writer' = writer /\ total' = total /\ reader' = reader /\ pos' = pos
  BY DEF ResetOffset, OffsetReset
<1>2. Segments' = Segments
  BY <1>1 DEF Segments
<1>3. Shape'
  BY <1>1, <1>2 DEF LogInv, Shape
<1>4. reader = 0 /\ pos = 0 /\ 0 \notin Segments
  BY <1>1, UnreadIs DEF LogInv, Reading
<1>5. Reading'
  BY <1>1, <1>2, <1>4 DEF Reading, NoOffset
<1>6. Cursor' = Cursor
  <2>1. CASE Segments = {}
    BY <1>2, <1>3, <1>5, <2>1, CursorIs, CursorNext DEF LogInv
  <2>2. CASE Segments # {}
    <3>1. PICK lo \in Nat \ {0} : Segments = lo..writer
      BY DEF LogInv, Shape
    <3> QED BY <1>1, <1>2, <1>3, <1>5, <2>2, <3>1, CursorIs, CursorNext DEF LogInv
  <2> QED BY <2>1, <2>2
<1>7. \A s, i \in Nat : Left(s, i)' <=> Left(s, i)
  BY <1>1, <1>2, <1>6 DEF Left
<1> QED BY <1>1, <1>3, <1>5, <1>7, SameLeft

LEMMA AppendView ==
    ASSUME LogInv, NEW m \in Msgs, Older(Unread, {m}), AppendRecord(m)
    PROVE  LogInv' /\ Unread' = Unread \cup {m}
<1>0. PICK T : T = Target
  OBVIOUS
<1>1. /\ files' = Put(<<m>>) /\ writer' = T /\ total' = total + 1 /\ total < MaxSize
      /\ stored' = stored /\ reader' = reader /\ pos' = pos /\ rpc' = rpc /\ rpc = "idle"
  <2>1. total \in 0..MaxSize /\ MaxSize \in Nat
    BY WALAssumption DEF LogInv, Shape
  <2>2. ~(total >= MaxSize)
    BY DEF AppendRecord, Full
  <2> QED BY <1>0, <2>1, <2>2 DEF AppendRecord
<1>2. PICK lo \in Nat \ {0} :
         /\ Segments \cup {T} = lo..T /\ T \in Nat \ {0} /\ lo <= T
         /\ Segments # {} => Segments = lo..writer /\ lo \in Segments
         /\ Segments = {} => lo = T
         /\ \A s \in Segments : s <= T
  <2>1. PICK lo \in Nat \ {0} : Segments = lo..writer
    BY DEF LogInv, Shape
  <2>2. writer \in Nat /\ (writer # 0 => writer \in Segments)
    BY DEF LogInv, Shape
  <2>3. CASE Segments = {}
    <3>1. T = 1
      BY <1>0, <2>2, <2>3 DEF Target, NextSegment
    <3>2. Segments \cup {T} = 1..T
      BY <2>3, <3>1
    <3> QED BY <2>3, <3>1, <3>2
  <2>4. CASE Segments # {}
    <3>1. lo <= writer /\ lo \in Segments /\ writer \in Segments
      BY <2>1, <2>2, <2>4
    <3>2. T \in {writer, writer + 1}
      <4>1. Max(Segments) = writer
        BY <2>1, <2>2, <3>1, IntervalEnds
      <4> QED BY <1>0, <2>4, <4>1 DEF Target, NextSegment
    <3>3. Segments \cup {T} = lo..T /\ T \in Nat \ {0} /\ lo <= T /\ \A s \in Segments : s <= T
      BY <2>1, <2>2, <3>1, <3>2
    <3> QED BY <2>1, <2>4, <3>1, <3>3
  <2> QED BY <2>3, <2>4
<1>3. Segments' = Segments \cup {T}
  BY <1>0, <1>1 DEF Segments, Put
<1>4. /\ files' = [s \in Segments' |-> files'[s]]
      /\ \A s \in Segments : s # T => files'[s] = files[s]
      /\ files'[T] = IF T \in Segments THEN files[T] \o <<m>> ELSE <<m>>
  BY <1>0, <1>1, <1>3 DEF Put
<1>5. \A s \in Segments : files[s] \in Seq(Msgs) /\ Len(files[s]) \in Nat
  BY DEF LogInv, Shape
<1>6. PICK k : /\ T \in Segments => k = Len(files[T])
               /\ T \notin Segments => k = 0
  <2>1. CASE T \in Segments
    BY <2>1
  <2>2. CASE T \notin Segments
    BY <2>2
  <2> QED BY <2>1, <2>2
<1>7. /\ files'[T] \in Seq(Msgs) /\ Len(files'[T]) = k + 1 /\ files'[T][k + 1] = m /\ k \in Nat
      /\ T \in Segments => \A i \in 1..k : files'[T][i] = files[T][i]
  <2>1. CASE T \in Segments
    <3> DEFINE f == files[T]
               g == f \o <<m>>
    <3>1. f \in Seq(Msgs) /\ k = Len(f) /\ files'[T] = g
      BY <1>4, <1>5, <1>6, <2>1
    <3> HIDE DEF f
    <3>2. g \in Seq(Msgs) /\ Len(g) = k + 1 /\ g[k + 1] = m /\ k \in Nat
          /\ \A i \in 1..k : g[i] = f[i]
      BY <3>1
    <3> QED BY <3>1, <3>2 DEF f
  <2>2. CASE T \notin Segments
    <3>1. files'[T] = <<m>> /\ k = 0
      BY <1>4, <1>6, <2>2
    <3>2. <<m>> \in Seq(Msgs) /\ Len(<<m>>) = 1 /\ <<m>>[1] = m
      OBVIOUS
    <3> QED BY <2>2, <3>1, <3>2
  <2> QED BY <2>1, <2>2
<1>8. Shape'
  <2>1. \A s \in Segments' : files'[s] \in Seq(Msgs)
    BY <1>3, <1>4, <1>5, <1>7
  <2>2. total' \in 0..MaxSize
    BY <1>1, WALAssumption DEF LogInv, Shape
  <2>3. writer' \in Nat /\ writer' \in Segments' /\ Segments' = lo..writer'
    BY <1>1, <1>2, <1>3
  <2> QED BY <1>4, <2>1, <2>2, <2>3 DEF Shape
<1>9. Reading'
  <2>1. CASE reader # 0
    <3>1. /\ reader \in Segments /\ \A s \in Segments : reader <= s
          /\ pos \in 0..Len(files[reader]) /\ stored.seg \in {0, reader}
      BY <2>1 DEF LogInv, Reading
    <3>2. reader \in Segments' /\ \A s \in Segments' : reader <= s
      BY <1>2, <1>3, <3>1
    <3>3. pos \in 0..Len(files'[reader])
      <4>1. CASE reader = T
        BY <1>5, <1>6, <1>7, <3>1, <4>1
      <4>2. CASE reader # T
        BY <1>4, <3>1, <4>2
      <4> QED BY <4>1, <4>2
    <3> QED BY <1>1, <2>1, <3>1, <3>2, <3>3 DEF LogInv, Reading
  <2>2. CASE reader = 0
    <3>1. pos = 0 /\ stored.seg = 0
      BY <1>1, <2>2 DEF LogInv, Reading
    <3>2. 0 \notin Segments'
      BY <1>2, <1>3
    <3> QED BY <1>1, <2>2, <3>1, <3>2 DEF LogInv, Reading
  <2> QED BY <2>1, <2>2
<1>10. /\ Cursor' = [seg |-> lo, pos |-> pos] /\ pos \in Nat
       /\ Segments # {} => Cursor = Cursor' /\ pos \in 0..Len(files[lo])
       /\ Segments = {} => pos = 0
  <2>1. Segments' = lo..writer' /\ Segments' # {}
    BY <1>1, <1>2, <1>3
  <2>2. Cursor' = [seg |-> lo, pos |-> pos]
    BY <1>1, <1>8, <1>9, <2>1, CursorNext
  <2> QED BY <1>2, <2>2, CursorIs DEF LogInv, NoOffset
<1>11. Left(T, k + 1)' /\ k + 1 \in Nat
  <2>1. T = lo => k + 1 > pos
    <3>1. CASE Segments = {}
      BY <1>7, <1>10, <3>1
    <3>2. CASE Segments # {}
      BY <1>2, <1>5, <1>6, <1>7, <1>10, <3>2
    <3> QED BY <3>1, <3>2
  <2>2. k + 1 \in 1..Len(files'[T]) /\ T \in Segments'
    BY <1>3, <1>7
  <2> QED BY <1>7, <1>10, <2>1, <2>2 DEF Left
<1>12. ASSUME NEW s \in Nat, NEW i \in Nat
       PROVE  Left(s, i)' <=> Left(s, i) \/ (s = T /\ i = k + 1)
  <2>1. CASE s # T
    <3>1. s \in Segments' <=> s \in Segments
      BY <1>3, <2>1
    <3> QED BY <1>4, <1>10, <2>1, <3>1 DEF Left
  <2>2. CASE s = T /\ T \in Segments
    <3>1. i \in 1..k + 1 <=> i \in 1..k \/ i = k + 1
      BY <1>7
    <3>2. Left(T, i)' <=> i \in 1..k + 1 /\ (T = lo => i > pos)
      BY <1>3, <1>7, <1>10 DEF Left
    <3>3. Left(T, i) <=> i \in 1..k /\ (T = lo => i > pos)
      BY <1>5, <1>6, <1>10, <2>2 DEF Left
    <3> QED BY <1>11, <2>2, <3>1, <3>2, <3>3
  <2>3. CASE s = T /\ T \notin Segments
    <3>1. i \in 1..Len(files'[T]) <=> i = k + 1
      BY <1>7, <1>6, <2>3
    <3> QED BY <1>11, <2>3, <3>1 DEF Left
  <2> QED BY <2>1, <2>2, <2>3
<1>13. \A s, i \in Nat : Left(s, i) => s \in Segments /\ files'[s][i] = files[s][i]
  <2>1. \A i : T \in Segments /\ i \in 1..Len(files[T]) => files'[T][i] = files[T][i]
    BY <1>5, <1>6, <1>7
  <2> QED BY <1>4, <2>1 DEF Left
<1>14. /\ \A x : x \in Unread <=> \E s, i \in Nat : Left(s, i) /\ files[s][i] = x
       /\ \A x : x \in Unread' <=> \E s, i \in Nat : Left(s, i)' /\ files'[s][i] = x
  BY <1>8, <1>9, UnreadIs, CursorNext DEF LogInv
<1>15. Unread' = Unread \cup {m}
  <2>1. ASSUME NEW x \in Unread' PROVE x \in Unread \/ x = m
    <3>1. PICK s \in Nat, i \in Nat : Left(s, i)' /\ files'[s][i] = x
      BY <1>14, <2>1
    <3>2. CASE Left(s, i)
      <4>1. files[s][i] = x
        BY <1>13, <3>1, <3>2
      <4> QED BY <1>14, <3>2, <4>1
    <3>3. CASE s = T /\ i = k + 1
      BY <1>7, <3>1, <3>3
    <3> QED BY <1>12, <3>1, <3>2, <3>3
  <2>2. ASSUME NEW x \in Unread PROVE x \in Unread'
    BY <1>12, <1>13, <1>14
  <2>3. m \in Unread'
    BY <1>2, <1>7, <1>11, <1>14
  <2> QED BY <2>1, <2>2, <2>3
<1>16. LogSorted'
  <2>1. \A s, i \in Nat : Left(s, i) /\ s = T => i <= k
    BY <1>5, <1>6 DEF Left
  <2>2. SUFFICES ASSUME NEW s \in Nat, NEW t \in Nat, NEW i \in Nat, NEW j \in Nat,
                        Left(s, i)', Left(t, j)', s < t \/ (s = t /\ i < j),
                        files'[s][i][1] = files'[t][j][1]
                 PROVE  files'[s][i][2] < files'[t][j][2]
    BY DEF LogSorted
  <2>3. CASE Left(s, i) /\ Left(t, j)
    <3>1. files'[s][i] = files[s][i] /\ files'[t][j] = files[t][j]
      BY <1>13, <2>3
    <3> QED BY <2>2, <2>3, <3>1 DEF LogInv, LogSorted
  <2>4. CASE Left(s, i) /\ t = T /\ j = k + 1
    <3>1. files'[s][i] \in Unread
      BY <1>13, <1>14, <2>4
    <3> QED BY <1>7, <2>2, <2>4, <3>1 DEF Older
  <2>5. CASE s = T /\ i = k + 1 /\ Left(t, j)
    <3>1. t <= T
      BY <1>2, <1>13, <2>5
    <3>2. t = T /\ k + 1 < j
      BY <1>2, <2>2, <2>5, <3>1
    <3> QED BY <1>7, <2>1, <2>5, <3>2
  <2>6. CASE s = T /\ i = k + 1 /\ t = T /\ j = k + 1
    BY <1>2, <1>7, <2>2, <2>6
  <2> QED BY <1>12, <2>2, <2>3, <2>4, <2>5, <2>6
<1> QED BY <1>8, <1>9, <1>15, <1>16 DEF LogInv

-----------------------------------------------------------------------------
(* One message moves, from one place to another. *)

AtSame == \A u \in Places : At(u)' = At(u)

Move(x, v, w) ==
    /\ x \in At(v) /\ v # w
    /\ At(v)' = At(v) \ {x} /\ At(w)' = At(w) \cup {x}
    /\ \A u \in Places \ {v, w} : At(u)' = At(u)

(* Unless it is given up it moves towards the next stage, and on a memory  *)
(* or a disk edge it is the oldest of its producer where it was.           *)
Hop(x, v, w) ==
    /\ Move(x, v, w)
    /\ w # "gone" => /\ v # "gone" /\ Rank[v] = Rank[w] + 1
                     /\ cfg.type # "overflow" => Older({x}, At(v) \ {x})

Effect == AtSame \/ \E x \in Msgs, v, w \in Places : Hop(x, v, w)

LEMMA EffectKeepsApart ==
    ASSUME Apart, Effect
    PROVE  Apart'
<1>1. CASE AtSame
  BY <1>1 DEF AtSame, Apart
<1>2. ASSUME NEW x \in Msgs, NEW v \in Places, NEW w \in Places, Hop(x, v, w)
      PROVE  Apart'
  <2>1. Move(x, v, w)
    BY <1>2 DEF Hop
  <2>2. ASSUME NEW u \in Places PROVE At(u)' \subseteq Msgs
    BY <2>1 DEF Move, Apart
  <2>3. ASSUME NEW m \in Msgs, m # x
        PROVE  \E u \in Places : \A t \in Places : m \in At(t)' <=> t = u
    <3>1. \A t \in Places : m \in At(t)' <=> m \in At(t)
      BY <2>1, <2>3 DEF Move
    <3> QED BY <3>1 DEF Apart
  <2>4. \A t \in Places : x \in At(t)' <=> t = w
    <3>1. \A t \in Places : x \in At(t) <=> t = v
      BY <2>1 DEF Apart, Move
    <3> QED BY <2>1, <3>1 DEF Move
  <2> QED BY <2>2, <2>3, <2>4 DEF Apart
<1> QED BY <1>1, <1>2 DEF Effect

LEMMA RankIs ==
    /\ \A v \in Places : Rank[v] \in 1..6
    /\ Rank["next"] = 1 /\ Rank["out"] = 2 /\ Rank["drain"] = 3 /\ Rank["mem"] = 4
    /\ Rank["disk"] = 4 /\ Rank["producer"] = 5 /\ Rank["gone"] = 6
    /\ \A v, w \in Places : Rank[v] = Rank[w] => v = w \/ {v, w} = {"mem", "disk"}
BY DEF Rank, Places

LEMMA NoFiles ==
    ASSUME files = <<>>
    PROVE  Unread = {}
<1>1. Segments = {}
  BY DEF Segments
<1> QED BY <1>1 DEF Unread

(* Where there is a queue in mem there is none on disk. *)
LEMMA OneQueue ==
    ASSUME FlatTypes, Modes, cfg.type # "overflow"
    PROVE  At("mem") = {} \/ At("disk") = {}
<1>1. cfg.type \in {"memory", "disk"}
  BY EdgeAssumption DEF FlatTypes
<1>2. CASE cfg.type = "memory"
  <2>1. Unread = {}
    BY <1>2, NoFiles DEF Modes, OnDisk
  <2> QED BY <2>1 DEF At
<1>3. CASE cfg.type = "disk"
  BY <1>3, ToSetEmpty DEF Modes, At
<1> QED BY <1>1, <1>2, <1>3

LEMMA EffectKeepsLined ==
    ASSUME FlatTypes, Modes, Apart, Lined, Effect, cfg' = cfg
    PROVE  Lined'
<1> SUFFICES ASSUME cfg.type # "overflow",
                    NEW s \in Places \ {"gone"}, NEW t \in Places \ {"gone"}, Rank[s] < Rank[t],
                    NEW a \in At(s)', NEW b \in At(t)', a[1] = b[1]
             PROVE  a[2] < b[2]
  <2>1. Rank' = Rank
    BY DEF Rank, Places
  <2> QED BY <2>1 DEF Lined, Older
<1>1. \A u \in Places \ {"gone"}, v \in Places \ {"gone"} : Rank[u] < Rank[v] => Older(At(u), At(v))
  BY DEF Lined
<1>2. CASE AtSame
  BY <1>1, <1>2 DEF AtSame, Older
<1>3. ASSUME NEW x \in Msgs, NEW v \in Places, NEW w \in Places, Hop(x, v, w)
      PROVE  a[2] < b[2]
  <2>1. Move(x, v, w)
    BY <1>3 DEF Hop
  <2>2. \A u \in Places : x \in At(u) <=> u = v
    BY <2>1 DEF Move, Apart
  <2>3. \A u \in Places : At(u)' \subseteq At(u) \cup {x} /\ (x \in At(u)' <=> u = w)
    BY <2>1, <2>2 DEF Move
  <2>4. CASE a # x /\ b # x
    BY <1>1, <2>3, <2>4 DEF Older
  <2>5. CASE a = x
    <3>1. s = w /\ t # w /\ b # x /\ b \in At(t)
      BY <2>3, <2>5, RankIs
    <3>2. w # "gone" /\ v # "gone" /\ Rank[v] = Rank[w] + 1 /\ Older({x}, At(v) \ {x})
      BY <1>3, <3>1 DEF Hop
    <3>3. CASE t = v
      BY <2>5, <3>1, <3>2, <3>3 DEF Older
    <3>4. CASE t # v /\ Rank[t] = Rank[v]
      <4>1. At(v) = {} \/ At(t) = {}
        BY <3>4, RankIs, OneQueue
      <4> QED BY <2>1, <3>1, <4>1 DEF Move
    <3>5. CASE Rank[t] # Rank[v]
      <4>1. Rank[v] < Rank[t]
        BY <3>1, <3>2, <3>5, RankIs
      <4>2. Older(At(v), At(t))
        BY <1>1, <3>2, <4>1
      <4> QED BY <2>1, <2>5, <3>1, <4>2 DEF Older, Move
    <3> QED BY <3>3, <3>4, <3>5
  <2>6. CASE b = x
    <3>1. t = w /\ s # w /\ a # x /\ a \in At(s)
      BY <2>3, <2>6, RankIs
    <3>2. w # "gone" /\ v # "gone" /\ Rank[v] = Rank[w] + 1
      BY <1>3, <3>1 DEF Hop
    <3>3. Rank[s] < Rank[v]
      BY <3>1, <3>2, RankIs
    <3>4. Older(At(s), At(v))
      BY <1>1, <3>2, <3>3
    <3> QED BY <2>1, <2>6, <3>1, <3>4 DEF Older, Move
  <2> QED BY <2>4, <2>5, <2>6
<1> QED BY <1>2, <1>3 DEF Effect

(* The message producer p is sending is younger than all in the edge.      *)
LEMMA CurView ==
    ASSUME FlatTypes, Apart, NEW p \in Producers, sent[p] < Count[p]
    PROVE  /\ Cur(p) \in Msgs /\ Cur(p) \in At("producer")
           /\ \A u \in Places \ {"producer"} : Cur(p) \notin At(u) /\ Older(At(u), {Cur(p)})
           /\ Older({Cur(p)}, At("producer") \ {Cur(p)})
           /\ sent' = [sent EXCEPT ![p] = @ + 1] => At("producer")' = At("producer") \ {Cur(p)}
<1> DEFINE m == Cur(p)
<1>1. sent[p] \in Nat /\ Count[p] \in Nat
  BY EdgeAssumption DEF FlatTypes
<1>2. m \in Msgs /\ m[1] = p /\ m[2] = sent[p] + 1
  BY <1>1, MsgIs DEF Cur
<1> HIDE DEF m
<1>3. m \in At("producer")
  BY <1>1, <1>2 DEF At
<1>4. \A x \in Msgs : x[1] \in Producers /\ x[2] \in Int /\ sent[x[1]] \in Int /\ x = <<x[1], x[2]>>
  BY MsgParts DEF FlatTypes
<1>5. ASSUME NEW u \in Places \ {"producer"}
      PROVE  m \notin At(u) /\ Older(At(u), {m})
  <2>1. m \notin At(u)
    BY <1>2, <1>3, <1>5 DEF Apart, Places
  <2>2. ASSUME NEW a \in At(u), a[1] = m[1] PROVE a[2] < m[2]
    <3>1. a \in Msgs /\ a \notin At("producer")
      BY <1>5 DEF Apart, Places
    <3>2. ~(a[2] > sent[a[1]])
      BY <3>1 DEF At
    <3> QED BY <1>1, <1>2, <1>4, <2>2, <3>1, <3>2
  <2> QED BY <2>1, <2>2 DEF Older
<1>6. Older({m}, At("producer") \ {m})
  <2>1. ASSUME NEW b \in At("producer"), b # m, b[1] = m[1] PROVE m[2] < b[2]
    <3>1. b \in Msgs /\ b[2] > sent[b[1]]
      BY DEF At
    <3>2. b[2] # m[2] /\ b[1] = p
      BY <1>2, <1>4, <2>1, <3>1
    <3> QED BY <1>1, <1>2, <1>4, <3>1, <3>2
  <2> QED BY <2>1 DEF Older
<1>7. ASSUME sent' = [sent EXCEPT ![p] = @ + 1]
      PROVE  At("producer")' = At("producer") \ {m}
  <2>1. At("producer")' = {x \in Msgs : x[2] > sent'[x[1]]}
    BY DEF At
  <2>2. ASSUME NEW x \in Msgs
        PROVE  x[2] > sent'[x[1]] <=> x[2] > sent[x[1]] /\ x # m
    <3>1. CASE x[1] # p
      BY <1>2, <1>4, <1>7, <3>1 DEF FlatTypes
    <3>2. CASE x[1] = p
      <4>1. sent'[p] = sent[p] + 1
        BY <1>7 DEF FlatTypes
      <4>2. x # m <=> x[2] # sent[p] + 1
        BY <1>2, <1>4, <3>2
      <4> QED BY <1>1, <1>4, <3>2, <4>1, <4>2
    <3> QED BY <3>1, <3>2
  <2> QED BY <2>1, <2>2 DEF At
<1> QED BY <1>2, <1>3, <1>5, <1>6, <1>7 DEF m

-----------------------------------------------------------------------------
(* The steps move messages, keep the log and keep the channels. *)

Before == FlatTypes /\ Channels /\ Modes /\ LogInv /\ Apart /\ ChannelsSorted /\ Lined
After  == LogInv' /\ Channels' /\ ChannelsSorted' /\ Effect

(* buffer.size is a positive number. *)
LEMMA SizeIsNat == FlatTypes => cfg.size \in Nat \ {0}
<1>1. ASSUME FlatTypes PROVE cfg.size \in Sizes
  BY <1>1 DEF FlatTypes
<1> QED BY <1>1, EdgeAssumption

LEMMA AtIs ==
    /\ At("producer") = {m \in Msgs : m[2] > sent[m[1]]}
    /\ At("mem") = ToSet(mem) /\ At("disk") = Unread /\ At("drain") = {hold} \ {NoMsg}
    /\ At("out") = ToSet(out) /\ At("next") = ToSet(delivered) /\ At("gone") = gone
BY DEF At

LEMMA AtNext ==
    /\ sent' = sent => At("producer")' = At("producer")
    /\ At("mem")' = ToSet(mem') /\ At("disk")' = Unread' /\ At("drain")' = {hold'} \ {NoMsg}
    /\ At("out")' = ToSet(out') /\ At("next")' = ToSet(delivered') /\ At("gone")' = gone'
BY DEF At

LEMMA PlacesAre ==
    \A u : u \in Places <=> \/ u = "producer" \/ u = "mem" \/ u = "disk" \/ u = "drain"
                            \/ u = "out" \/ u = "next" \/ u = "gone"
BY DEF Places

(* The way of a message through the edge. *)
LEMMA Onward ==
    ASSUME NEW x \in Msgs, NEW v \in Places, NEW w \in Places, Move(x, v, w),
           cfg.type # "overflow" => Older({x}, At(v) \ {x}),
           \/ v = "producer" /\ w \in {"mem", "disk"}
           \/ v \in {"mem", "disk"} /\ w = "drain"
           \/ v = "drain" /\ w = "out"
           \/ v = "out" /\ w = "next"
    PROVE  Effect
<1>1. Rank[v] = Rank[w] + 1 /\ v # "gone"
  BY RankIs
<1>2. Hop(x, v, w)
  BY <1>1 DEF Hop
<1> QED BY <1>2 DEF Effect

LEMMA GivenUp ==
    ASSUME NEW x \in Msgs, NEW v \in Places, Move(x, v, "gone")
    PROVE  Effect
BY PlacesAre DEF Effect, Hop

LEMMA WALSame ==
    ASSUME LogInv, UNCHANGED wal
    PROVE  LogInv' /\ Unread' = Unread
<1>1. /\ files' = files /\ stored' = stored /\ writer' = writer /\ size' = size
      /\ reader' = reader /\ pos' = pos /\ total' = total /\ rpc' = rpc
  BY DEF wal
<1>2. Segments' = Segments
  BY <1>1 DEF Segments
<1>3. Cursor' = Cursor
  BY <1>1, <1>2 DEF Cursor, FirstSegment
<1>4. Shape' /\ Reading'
  BY <1>1, <1>2 DEF LogInv, Shape, Reading
<1>5. \A s, i \in Nat : Left(s, i)' <=> Left(s, i)
  BY <1>1, <1>2, <1>3 DEF Left
<1> QED BY <1>1, <1>4, <1>5, SameLeft

LEMMA ChannelsSame ==
    ASSUME Before, cfg' = cfg, mem' = mem, out' = out, delivered' = delivered
    PROVE  Channels' /\ ChannelsSorted'
BY DEF Before, Channels, ChannelsSorted

LEMMA NothingMoves ==
    ASSUME Before, UNCHANGED <<cfg, mem, out, hold, sent, delivered, gone>>,
           UNCHANGED wal \/ (LogInv' /\ Unread' = Unread)
    PROVE  After
<1>1. LogInv' /\ Unread' = Unread
  BY WALSame DEF Before
<1>2. /\ At("producer")' = At("producer") /\ At("mem")' = At("mem") /\ At("disk")' = At("disk")
      /\ At("drain")' = At("drain") /\ At("out")' = At("out") /\ At("next")' = At("next")
      /\ At("gone")' = At("gone")
  BY <1>1, AtIs, AtNext
<1>3. AtSame
  BY <1>2, PlacesAre DEF AtSame
<1> QED BY <1>1, <1>3, ChannelsSame DEF After, Effect

(* A producer's message is given up. *)
LEMMA CurGivenUp ==
    ASSUME Before, NEW p \in Producers, prod[p] \notin {"idle", "quit"}, Return(p),
           gone' = gone \cup {Cur(p)}, UNCHANGED <<wal, cfg, mem, out, hold, delivered>>
    PROVE  After
<1>1. sent[p] < Count[p]
  BY DEF Before, FlatTypes
<1>2. LogInv' /\ Unread' = Unread
  BY WALSame DEF Before
<1>3. /\ Cur(p) \in Msgs /\ Cur(p) \in At("producer")
      /\ At("producer")' = At("producer") \ {Cur(p)}
  BY <1>1, CurView DEF Before, Return
<1>4. Move(Cur(p), "producer", "gone")
  BY <1>2, <1>3, AtIs, AtNext, PlacesAre DEF Move
<1>5. Effect
  BY <1>3, <1>4, PlacesAre, GivenUp
<1> QED BY <1>2, <1>5, ChannelsSame DEF After

LEMMA SendMemEffect ==
    ASSUME Before, NEW p \in Producers, SendMem(p)
    PROVE  After
<1> DEFINE m == Cur(p)
<1>1. /\ prod[p] \notin {"idle", "quit"} /\ Return(p) /\ Len(mem) < cfg.size
      /\ mem' = Append(mem, m)
      /\ UNCHANGED <<wal, cfg, out, hold, delivered, gone>>
  BY DEF SendMem, HasRoom, acks, ends
<1>2. sent[p] < Count[p]
  BY <1>1 DEF Before, FlatTypes
<1>3. LogInv' /\ Unread' = Unread
  BY <1>1, WALSame DEF Before
<1>4. /\ m \in Msgs /\ m \in At("producer") /\ m \notin At("mem")
      /\ Older(At("mem"), {m}) /\ Older({m}, At("producer") \ {m})
      /\ At("producer")' = At("producer") \ {m}
  BY <1>1, <1>2, CurView, PlacesAre DEF Before, Return
<1> HIDE DEF m
<1>5. /\ mem' \in Seq(Msgs) /\ Len(mem') = Len(mem) + 1 /\ ToSet(mem') = ToSet(mem) \cup {m}
      /\ IsInjective(mem') /\ Sorted(mem')
  BY <1>1, <1>4, PutView, AtIs DEF Before, Channels, ChannelsSorted
<1>6. Channels' /\ ChannelsSorted'
  <2>1. Len(mem) \in Nat /\ cfg.size \in Nat
    BY SizeIsNat DEF Before, Channels
  <2>2. Len(mem') <= cfg.size
    BY <1>1, <1>5, <2>1
  <2> QED BY <1>1, <1>5, <2>2 DEF Before, Channels, ChannelsSorted
<1>7. Move(m, "producer", "mem")
  <2>1. /\ At("mem")' = At("mem") \cup {m} /\ At("disk")' = At("disk") /\ At("drain")' = At("drain")
        /\ At("out")' = At("out") /\ At("next")' = At("next") /\ At("gone")' = At("gone")
    BY <1>1, <1>3, <1>5, AtIs, AtNext
  <2> QED BY <1>4, <2>1, PlacesAre DEF Move
<1>8. Effect
  BY <1>4, <1>7, PlacesAre, Onward
<1> QED BY <1>3, <1>6, <1>8 DEF After

LEMMA DropOldestEffect ==
    ASSUME Before, NEW p \in Producers, DropOldest(p)
    PROVE  After
<1>1. UNCHANGED <<wal, cfg, out, hold, sent, delivered>>
  BY DEF DropOldest, Goto, ends
<1>2. CASE mem = <<>>
  <2>1. mem' = mem /\ gone' = gone
    BY <1>2 DEF DropOldest, acks
  <2> QED BY <1>1, <2>1, NothingMoves
<1>3. CASE mem # <<>>
  <2> DEFINE m == Head(mem)
  <2>1. mem' = Tail(mem) /\ gone' = gone \cup {m}
    BY <1>3 DEF DropOldest, Takes, Dismiss
  <2>2. /\ m \in Msgs /\ m \in ToSet(mem) /\ mem' \in Seq(Msgs) /\ Len(mem') = Len(mem) - 1
        /\ ToSet(mem') = ToSet(mem) \ {m} /\ IsInjective(mem') /\ Sorted(mem')
    BY <1>3, <2>1, TakeView DEF Before, Channels, ChannelsSorted
  <2> HIDE DEF m
  <2>3. LogInv' /\ Unread' = Unread
    BY <1>1, WALSame DEF Before
  <2>4. Channels' /\ ChannelsSorted'
    <3>1. Len(mem) \in Nat /\ Len(mem) <= cfg.size /\ cfg.size \in Nat
      BY SizeIsNat DEF Before, Channels
    <3>2. Len(mem') <= cfg.size
      BY <2>2, <3>1
    <3> QED BY <1>1, <2>2, <3>2 DEF Before, Channels, ChannelsSorted
  <2>5. Move(m, "mem", "gone")
    BY <1>1, <2>1, <2>2, <2>3, AtIs, AtNext, PlacesAre DEF Move
  <2>6. Effect
    BY <2>2, <2>5, PlacesAre, GivenUp
  <2> QED BY <2>3, <2>4, <2>6 DEF After
<1> QED BY <1>2, <1>3

LEMMA AppendDiskEffect ==
    ASSUME Before, NEW p \in Producers, AppendDisk(p)
    PROVE  After
<1> DEFINE m == Cur(p)
<1>1. /\ prod[p] \notin {"idle", "quit"} /\ Return(p) /\ AppendRecord(m)
      /\ UNCHANGED <<cfg, mem, out, hold, delivered, gone>>
  BY DEF AppendDisk, edge, acks, ends
<1>2. sent[p] < Count[p]
  BY <1>1 DEF Before, FlatTypes
<1>3. /\ m \in Msgs /\ m \in At("producer")
      /\ Older(At("disk"), {m}) /\ Older({m}, At("producer") \ {m})
      /\ At("producer")' = At("producer") \ {m}
  BY <1>1, <1>2, CurView, PlacesAre DEF Before, Return
<1> HIDE DEF m
<1>4. LogInv' /\ Unread' = Unread \cup {m}
  BY <1>1, <1>3, AppendView, AtIs DEF Before
<1>5. Move(m, "producer", "disk")
  BY <1>1, <1>3, <1>4, AtIs, AtNext, PlacesAre DEF Move
<1>6. Effect
  BY <1>3, <1>5, PlacesAre, Onward
<1> QED BY <1>1, <1>4, <1>6, ChannelsSame DEF After

LEMMA EvictDiskEffect ==
    ASSUME Before, NEW p \in Producers, EvictDisk(p)
    PROVE  After
<1>1. UNCHANGED <<cfg, mem, out, hold, sent, delivered>>
  BY DEF EvictDisk, Goto, edge, ends
<1>2. CASE ReadMessage /\ Dismiss(NextRecord, "nil")
  <2> DEFINE m == NextRecord
  <2>1. LogInv' /\ m \in Unread /\ m \in Msgs /\ Unread' = Unread \ {m}
    BY <1>2, ReadMessageView DEF Before
  <2>2. gone' = gone \cup {m}
    BY <1>2 DEF Dismiss
  <2> HIDE DEF m
  <2>3. Move(m, "disk", "gone")
    BY <1>1, <2>1, <2>2, AtIs, AtNext, PlacesAre DEF Move
  <2>4. Effect
    BY <2>1, <2>3, PlacesAre, GivenUp
  <2> QED BY <1>1, <2>1, <2>4, ChannelsSame DEF After
<1>3. CASE (ReadNothing \/ RemoveSegment \/ ResetOffset) /\ UNCHANGED acks
  BY <1>1, <1>3, NothingMoves, ReadNothingView, RemoveSegmentView, ResetOffsetView DEF Before, acks
<1> QED BY <1>2, <1>3 DEF EvictDisk

LEMMA DrainReadEffect ==
    ASSUME Before, DrainRead
    PROVE  After
<1>1. UNCHANGED <<cfg, mem, out, sent, delivered, gone>> /\ drain = "read"
  BY DEF DrainRead, acks, ends
<1>2. CASE ReadMessage /\ hold' = NextRecord
  <2> DEFINE m == NextRecord
  <2>1. /\ LogInv' /\ m \in Unread /\ m \in Msgs /\ Unread' = Unread \ {m}
        /\ Older({m}, Unread \ {m})
    BY <1>2, ReadMessageView DEF Before
  <2>2. hold' = m /\ hold = NoMsg /\ m # NoMsg
    BY <1>1, <1>2, <2>1, MsgParts DEF Before, FlatTypes
  <2> HIDE DEF m
  <2>3. Move(m, "disk", "drain")
    BY <1>1, <2>1, <2>2, AtIs, AtNext, PlacesAre DEF Move
  <2>4. Effect
    BY <2>1, <2>3, PlacesAre, AtIs, Onward
  <2> QED BY <1>1, <2>1, <2>4, ChannelsSame DEF After
<1>3. CASE (ReadNothing \/ RemoveSegment \/ ResetOffset) /\ UNCHANGED hold
  BY <1>1, <1>3, NothingMoves, ReadNothingView, RemoveSegmentView, ResetOffsetView DEF Before
<1> QED BY <1>2, <1>3 DEF DrainRead

LEMMA DrainMemEffect ==
    ASSUME Before, DrainMem
    PROVE  After
<1> DEFINE m == Head(mem)
<1>1. /\ UNCHANGED <<wal, cfg, out, sent, delivered, gone>>
      /\ mem # <<>> /\ mem' = Tail(mem) /\ hold' = m /\ drain = "select"
  BY DEF DrainMem, acks, ends
<1>2. /\ m \in Msgs /\ m \in ToSet(mem) /\ mem' \in Seq(Msgs) /\ Len(mem') = Len(mem) - 1
      /\ ToSet(mem') = ToSet(mem) \ {m} /\ IsInjective(mem') /\ Sorted(mem')
      /\ Older({m}, ToSet(mem) \ {m})
  BY <1>1, TakeView DEF Before, Channels, ChannelsSorted
<1> HIDE DEF m
<1>3. hold = NoMsg /\ m # NoMsg
  BY <1>1, <1>2, MsgParts DEF Before, FlatTypes
<1>4. LogInv' /\ Unread' = Unread
  BY <1>1, WALSame DEF Before
<1>5. Channels' /\ ChannelsSorted'
  <2>1. Len(mem) \in Nat /\ Len(mem) <= cfg.size /\ cfg.size \in Nat
    BY SizeIsNat DEF Before, Channels
  <2>2. Len(mem') <= cfg.size
    BY <1>2, <2>1
  <2> QED BY <1>1, <1>2, <2>2 DEF Before, Channels, ChannelsSorted
<1>6. Move(m, "mem", "drain")
  BY <1>1, <1>2, <1>3, <1>4, AtIs, AtNext, PlacesAre DEF Move
<1>7. Effect
  BY <1>2, <1>6, PlacesAre, AtIs, Onward
<1> QED BY <1>4, <1>5, <1>7 DEF After

LEMMA HoldIs ==
    ASSUME Before, drain = "emit"
    PROVE  /\ hold \in Msgs /\ hold # NoMsg /\ At("drain") = {hold}
           /\ \A u \in Places \ {"drain"} : hold \notin At(u)
<1>1. hold \in Msgs /\ hold # NoMsg /\ At("drain") = {hold}
  BY AtIs DEF Before, FlatTypes
<1> QED BY <1>1, PlacesAre DEF Before, Apart

LEMMA EmitEffect ==
    ASSUME Before, Emit
    PROVE  After
<1>1. /\ UNCHANGED <<wal, cfg, mem, sent, delivered, gone>>
      /\ drain = "emit" /\ Len(out) < cfg.size /\ out' = Append(out, hold) /\ hold' = NoMsg
  BY DEF Emit, acks, ends
<1>2. hold \in Msgs /\ hold # NoMsg /\ At("drain") = {hold} /\ hold \notin At("out")
  BY <1>1, HoldIs, PlacesAre
<1>3. cfg.type # "overflow" => Older(At("out"), {hold})
  BY <1>2, PlacesAre, RankIs DEF Before, Lined
<1>4. /\ out' \in Seq(Msgs) /\ Len(out') = Len(out) + 1 /\ ToSet(out') = ToSet(out) \cup {hold}
      /\ IsInjective(out') /\ (cfg.type # "overflow" => Sorted(out'))
  BY <1>1, <1>2, <1>3, PutView, AtIs DEF Before, Channels, ChannelsSorted
<1>5. LogInv' /\ Unread' = Unread
  BY <1>1, WALSame DEF Before
<1>6. Channels' /\ ChannelsSorted'
  <2>1. Len(out) \in Nat /\ cfg.size \in Nat
    BY SizeIsNat DEF Before, Channels
  <2>2. Len(out') <= cfg.size
    BY <1>1, <1>4, <2>1
  <2> QED BY <1>1, <1>4, <2>2 DEF Before, Channels, ChannelsSorted
<1>7. Move(hold, "drain", "out")
  BY <1>1, <1>2, <1>4, <1>5, AtIs, AtNext, PlacesAre DEF Move
<1>8. Older({hold}, At("drain") \ {hold})
  BY <1>2 DEF Older
<1>9. Effect
  BY <1>2, <1>7, <1>8, PlacesAre, Onward
<1> QED BY <1>5, <1>6, <1>9 DEF After

LEMMA EmitCancelledEffect ==
    ASSUME Before, EmitCancelled
    PROVE  After
<1>1. /\ UNCHANGED <<wal, cfg, mem, out, sent, delivered>>
      /\ drain = "emit" /\ gone' = gone \cup {hold} /\ hold' = NoMsg
  BY DEF EmitCancelled, Dismiss, ends
<1>2. hold \in Msgs /\ At("drain") = {hold}
  BY <1>1, HoldIs
<1>3. LogInv' /\ Unread' = Unread
  BY <1>1, WALSame DEF Before
<1>4. Move(hold, "drain", "gone")
  BY <1>1, <1>2, <1>3, AtIs, AtNext, PlacesAre DEF Move
<1>5. Effect
  BY <1>2, <1>4, PlacesAre, GivenUp
<1> QED BY <1>1, <1>3, <1>5, ChannelsSame DEF After

LEMMA TakenOut ==
    ASSUME Before, out # <<>>, out' = Tail(out)
    PROVE  /\ Head(out) \in Msgs /\ Head(out) \in At("out")
           /\ At("out")' = At("out") \ {Head(out)}
           /\ out' \in Seq(Msgs) /\ Len(out') <= cfg.size /\ IsInjective(out')
           /\ cfg.type # "overflow" => Sorted(out') /\ Older({Head(out)}, At("out") \ {Head(out)})
<1>1. /\ Head(out) \in Msgs /\ Head(out) \in ToSet(out)
      /\ out' \in Seq(Msgs) /\ Len(out') = Len(out) - 1 /\ ToSet(out') = ToSet(out) \ {Head(out)}
      /\ IsInjective(out')
      /\ cfg.type # "overflow" => Sorted(out') /\ Older({Head(out)}, ToSet(out) \ {Head(out)})
  BY TakeView DEF Before, Channels, ChannelsSorted
<1>2. Len(out) \in Nat /\ Len(out) <= cfg.size /\ cfg.size \in Nat
  BY SizeIsNat DEF Before, Channels
<1>3. Len(out') <= cfg.size
  BY <1>1, <1>2
<1> QED BY <1>1, <1>3, AtIs, AtNext

LEMMA DeliverEffect ==
    ASSUME Before, Deliver
    PROVE  After
<1> DEFINE m == Head(out)
<1>1. /\ UNCHANGED <<wal, cfg, mem, hold, sent, gone>>
      /\ out # <<>> /\ out' = Tail(out) /\ delivered' = Append(delivered, m)
  BY DEF Deliver, acks
<1>2. /\ m \in Msgs /\ m \in At("out") /\ At("out")' = At("out") \ {m}
      /\ out' \in Seq(Msgs) /\ Len(out') <= cfg.size /\ IsInjective(out')
      /\ cfg.type # "overflow" => Sorted(out') /\ Older({m}, At("out") \ {m})
  BY <1>1, TakenOut
<1> HIDE DEF m
<1>3. m \notin At("next") /\ (cfg.type # "overflow" => Older(At("next"), {m}))
  <2>1. m \notin At("next")
    BY <1>2, PlacesAre DEF Before, Apart
  <2>2. cfg.type # "overflow" => Older(At("next"), At("out"))
    BY PlacesAre, RankIs DEF Before, Lined
  <2> QED BY <1>2, <2>1, <2>2 DEF Older
<1>4. /\ delivered' \in Seq(Msgs) /\ ToSet(delivered') = ToSet(delivered) \cup {m}
      /\ IsInjective(delivered') /\ (cfg.type # "overflow" => Sorted(delivered'))
  BY <1>1, <1>2, <1>3, PutView, AtIs DEF Before, Channels, ChannelsSorted
<1>5. LogInv' /\ Unread' = Unread
  BY <1>1, WALSame DEF Before
<1>6. Channels' /\ ChannelsSorted'
  BY <1>1, <1>2, <1>4 DEF Before, Channels, ChannelsSorted
<1>7. Move(m, "out", "next")
  <2>1. /\ At("next")' = At("next") \cup {m} /\ At("producer")' = At("producer")
        /\ At("mem")' = At("mem") /\ At("disk")' = At("disk") /\ At("drain")' = At("drain")
        /\ At("gone")' = At("gone")
    BY <1>1, <1>4, <1>5, AtIs, AtNext
  <2> QED BY <1>2, <2>1, PlacesAre DEF Move
<1>8. Effect
  BY <1>2, <1>7, PlacesAre, Onward
<1> QED BY <1>5, <1>6, <1>8 DEF After

LEMMA RefuseEffect ==
    ASSUME Before, Refuse
    PROVE  After
<1> DEFINE m == Head(out)
<1>1. /\ UNCHANGED <<wal, cfg, mem, hold, sent, delivered>>
      /\ out # <<>> /\ out' = Tail(out) /\ gone' = gone \cup {m}
  BY DEF Refuse, Dismiss
<1>2. /\ m \in Msgs /\ m \in At("out") /\ At("out")' = At("out") \ {m}
      /\ out' \in Seq(Msgs) /\ Len(out') <= cfg.size /\ IsInjective(out')
      /\ cfg.type # "overflow" => Sorted(out')
  BY <1>1, TakenOut
<1> HIDE DEF m
<1>3. LogInv' /\ Unread' = Unread
  BY <1>1, WALSame DEF Before
<1>4. Channels' /\ ChannelsSorted'
  BY <1>1, <1>2 DEF Before, Channels, ChannelsSorted
<1>5. Move(m, "out", "gone")
  BY <1>1, <1>2, <1>3, AtIs, AtNext, PlacesAre DEF Move
<1>6. Effect
  BY <1>2, <1>5, PlacesAre, GivenUp
<1> QED BY <1>3, <1>4, <1>6 DEF After

LEMMA StepEffect ==
    ASSUME Before, [Next]_vars
    PROVE  After /\ cfg' = cfg
<1>1. ASSUME NEW p \in Producers, Enqueue(p) \/ TryFails(p) \/ PickVictim(p) \/ Quit(p)
      PROVE  After
  BY <1>1, NothingMoves
     DEF Enqueue, TryFails, PickVictim, Quit, Goto, edge, acks, ends
<1>2. ASSUME NEW p \in Producers, DropNewest(p) \/ StillFull(p) \/ GiveUp(p)
      PROVE  After
  BY <1>2, CurGivenUp DEF DropNewest, StillFull, GiveUp, Dismiss, edge, ends
<1>3. ASSUME NEW p \in Producers, DiskFull(p)
      PROVE  After
  <2>1. CASE KeepsOldest
    BY <1>3, <2>1, CurGivenUp DEF DiskFull, Dismiss, edge, ends
  <2>2. CASE ~KeepsOldest
    BY <1>3, <2>2, NothingMoves DEF DiskFull, Goto, edge, acks, ends
  <2> QED BY <2>1, <2>2
<1>4. ASSUME NEW p \in Producers, InEnqueue(p)
      PROVE  After
  BY <1>1, <1>2, <1>3, <1>4, SendMemEffect, DropOldestEffect, AppendDiskEffect, EvictDiskEffect
     DEF InEnqueue
<1>5. ASSUME DrainTop \/ DrainStop
      PROVE  After
  BY <1>5, NothingMoves DEF DrainTop, DrainStop, acks, ends
<1>6. ASSUME FanInStops \/ Finish \/ Cancel \/ Close
      PROVE  After
  BY <1>6, NothingMoves DEF FanInStops, Finish, Cancel, Close, edge, acks, ends
<1>7. ASSUME UNCHANGED vars
      PROVE  After
  BY <1>7, NothingMoves DEF vars, edge, acks, ends
<1>8. ASSUME Next
      PROVE  After
  <2>1. CASE \E p \in Producers : Enqueue(p) \/ InEnqueue(p) \/ Quit(p)
    BY <1>1, <1>4, <2>1
  <2>2. CASE Drain
    BY <1>5, <2>2, DrainReadEffect, DrainMemEffect, EmitEffect, EmitCancelledEffect DEF Drain
  <2>3. CASE FanIn
    BY <1>6, <2>3, DeliverEffect, RefuseEffect DEF FanIn
  <2> QED BY <1>6, <1>8, <2>1, <2>2, <2>3 DEF Next
<1>9. cfg' = cfg
  <2>1. ASSUME NEW p \in Producers, Enqueue(p) \/ InEnqueue(p) \/ Quit(p) PROVE cfg' = cfg
    BY <2>1 DEF Enqueue, Quit, InEnqueue, SendMem, TryFails, DropNewest, PickVictim, DropOldest,
                AppendDisk, DiskFull, EvictDisk, StillFull, GiveUp
  <2>2. ASSUME Drain \/ FanIn \/ Finish \/ Cancel \/ Close PROVE cfg' = cfg
    BY <2>2 DEF Drain, DrainTop, DrainRead, DrainMem, DrainStop, Emit, EmitCancelled,
                FanIn, Deliver, Refuse, FanInStops, Finish, Cancel, Close
  <2> QED BY <2>1, <2>2 DEF Next, vars
<1> QED BY <1>7, <1>8, <1>9

-----------------------------------------------------------------------------
(* Types, and which steps an edge comes to. *)

LEMMA DismissTypes ==
    ASSUME FlatTypes, NEW m \in Msgs, NEW r \in {"nil", "err"}, Dismiss(m, r)
    PROVE  gone' \subseteq Msgs /\ acked' \in [Msgs -> {"no", "nil", "err"}]
BY DEF FlatTypes, Dismiss

LEMMA InCall ==
    ASSUME FlatTypes, NEW p \in Producers, prod[p] \notin {"idle", "quit"}
    PROVE  /\ Cur(p) \in Msgs
           /\ Return(p) => /\ prod' \in [Producers -> Steps] /\ sent' \in [Producers -> Nat]
                           /\ \A q \in Producers : /\ sent'[q] <= Count[q]
                                                   /\ prod'[q] \notin {"idle", "quit"} => sent'[q] < Count[q]
           /\ \A s \in Steps : Goto(p, s) =>
                 /\ prod' \in [Producers -> Steps] /\ sent' = sent
                 /\ \A q \in Producers : prod'[q] \notin {"idle", "quit"} => sent'[q] < Count[q]
<1>1. sent[p] \in Nat /\ Count[p] \in Nat /\ sent[p] < Count[p]
  BY EdgeAssumption DEF FlatTypes
<1>2. Cur(p) \in Msgs
  BY <1>1, MsgIs DEF Cur
<1>3. ASSUME Return(p)
      PROVE  /\ prod' \in [Producers -> Steps] /\ sent' \in [Producers -> Nat]
             /\ \A q \in Producers : /\ sent'[q] <= Count[q]
                                     /\ prod'[q] \notin {"idle", "quit"} => sent'[q] < Count[q]
  <2>1. /\ prod' = [prod EXCEPT ![p] = "idle"] /\ sent' = [sent EXCEPT ![p] = sent[p] + 1]
        /\ prod' \in [Producers -> Steps] /\ sent' \in [Producers -> Nat]
    BY <1>1, <1>3 DEF Return, FlatTypes, Steps
  <2>2. ASSUME NEW q \in Producers
        PROVE  /\ sent'[q] <= Count[q]
               /\ prod'[q] \notin {"idle", "quit"} => sent'[q] < Count[q]
    <3>1. CASE q = p
      BY <1>1, <2>1, <3>1 DEF FlatTypes
    <3>2. CASE q # p
      BY <2>1, <3>2 DEF FlatTypes
    <3> QED BY <3>1, <3>2
  <2> QED BY <2>1, <2>2
<1>4. ASSUME NEW s \in Steps, Goto(p, s)
      PROVE  /\ prod' \in [Producers -> Steps] /\ sent' = sent
             /\ \A q \in Producers : prod'[q] \notin {"idle", "quit"} => sent'[q] < Count[q]
  BY <1>1, <1>4 DEF Goto, FlatTypes
<1> QED BY <1>2, <1>3, <1>4

LEMMA EnqueueTypes ==
    ASSUME FlatTypes, Channels, LogInv, NEW p \in Producers, InEnqueue(p)
    PROVE  FlatTypes'
<1>1. prod[p] \notin {"idle", "quit"}
  BY DEF InEnqueue, SendMem, TryFails, DropNewest, PickVictim, DropOldest, AppendDisk, DiskFull,
         EvictDisk, StillFull, GiveUp
<1>2. UNCHANGED <<cfg, closed, cancelled, drain, hold, fanin>>
  BY DEF InEnqueue, SendMem, TryFails, DropNewest, PickVictim, DropOldest, AppendDisk, DiskFull,
         EvictDisk, StillFull, GiveUp, edge, ends
<1>3. Cur(p) \in Msgs
  BY <1>1, InCall
<1>4. /\ prod' \in [Producers -> Steps] /\ sent' \in [Producers -> Nat]
      /\ \A q \in Producers : /\ sent'[q] <= Count[q]
                              /\ prod'[q] \notin {"idle", "quit"} => sent'[q] < Count[q]
  <2>1. \/ Return(p) \/ (\E s \in Steps : Goto(p, s)) \/ UNCHANGED <<prod, sent>>
    BY DEF InEnqueue, SendMem, TryFails, DropNewest, PickVictim, DropOldest, AppendDisk, DiskFull,
           EvictDisk, StillFull, GiveUp, Steps
  <2>2. CASE UNCHANGED <<prod, sent>>
    BY <2>2 DEF FlatTypes
  <2>3. CASE Return(p)
    BY <1>1, <2>3, InCall
  <2>4. CASE \E s \in Steps : Goto(p, s)
    BY <1>1, <2>4, InCall DEF FlatTypes
  <2> QED BY <2>1, <2>2, <2>3, <2>4
<1>5. spilled' \subseteq Msgs
  BY <1>3 DEF FlatTypes, InEnqueue, SendMem, TryFails, DropNewest, PickVictim, DropOldest,
              AppendDisk, DiskFull, EvictDisk, StillFull, GiveUp
<1>6. gone' \subseteq Msgs /\ acked' \in [Msgs -> {"no", "nil", "err"}]
  <2>1. CASE UNCHANGED <<gone, acked>>
    BY <2>1 DEF FlatTypes
  <2>2. CASE \E m \in Msgs, r \in {"nil", "err"} : Dismiss(m, r)
    BY <2>2, DismissTypes
  <2>3. CASE SendMem(p) \/ TryFails(p) \/ PickVictim(p) \/ AppendDisk(p)
    BY <2>1, <2>3 DEF SendMem, TryFails, PickVictim, AppendDisk, acks
  <2>4. CASE DropNewest(p) \/ StillFull(p) \/ GiveUp(p)
    BY <1>3, <2>2, <2>4 DEF DropNewest, StillFull, GiveUp
  <2>5. CASE DropOldest(p)
    <3>1. CASE mem = <<>>
      BY <2>1, <2>5, <3>1 DEF DropOldest, acks
    <3>2. CASE mem # <<>>
      <4>1. Head(mem) \in Msgs
        BY <3>2 DEF Channels
      <4> QED BY <2>2, <2>5, <3>2, <4>1 DEF DropOldest, Takes
    <3> QED BY <3>1, <3>2
  <2>6. CASE DiskFull(p)
    BY <1>3, <2>1, <2>2, <2>6 DEF DiskFull, acks
  <2>7. CASE EvictDisk(p)
    <3>1. ReadMessage => NextRecord \in Msgs
      BY ReadMessageView
    <3> QED BY <2>1, <2>2, <2>7, <3>1 DEF EvictDisk, acks
  <2> QED BY <2>3, <2>4, <2>5, <2>6, <2>7 DEF InEnqueue
<1> QED BY <1>2, <1>4, <1>5, <1>6 DEF FlatTypes

LEMMA NextTypes ==
    ASSUME FlatTypes, Channels, LogInv, [Next]_vars
    PROVE  FlatTypes'
<1>1. ASSUME NEW p \in Producers, Enqueue(p)
      PROVE  FlatTypes'
  <2>1. /\ UNCHANGED <<cfg, closed, cancelled, drain, hold, fanin, spilled, gone, acked, sent>>
        /\ sent[p] < Count[p] /\ prod' = [prod EXCEPT ![p] = Route] /\ Route \in Steps
    BY <1>1 DEF Enqueue, Goto, Route, Steps, edge, ends
  <2> QED BY <2>1 DEF FlatTypes
<1>2. ASSUME NEW p \in Producers, Quit(p)
      PROVE  FlatTypes'
  <2>1. /\ UNCHANGED <<cfg, closed, cancelled, drain, hold, fanin, spilled, gone, acked, sent>>
        /\ prod' = [prod EXCEPT ![p] = "quit"]
    BY <1>2 DEF Quit, Goto, edge, acks, ends
  <2> QED BY <2>1 DEF FlatTypes, Steps
<1>3. ASSUME DrainTop \/ DrainStop \/ FanInStops \/ Finish \/ Cancel \/ Close \/ Deliver \/ UNCHANGED vars
      PROVE  FlatTypes'
  <2>1. /\ UNCHANGED <<cfg, hold, spilled, gone, acked, prod, sent>>
        /\ drain' \in {"loop", "read", "select", "done", drain} /\ (drain' # drain => drain # "emit")
        /\ fanin' \in {"done", fanin} /\ closed' \in {TRUE, closed} /\ cancelled' \in {TRUE, cancelled}
    BY <1>3 DEF DrainTop, DrainStop, FanInStops, Finish, Cancel, Close, Deliver, vars, edge, acks, ends
  <2> QED BY <2>1 DEF FlatTypes
<1>4. ASSUME DrainRead
      PROVE  FlatTypes'
  <2>1. /\ UNCHANGED <<cfg, closed, cancelled, fanin, spilled, gone, acked, prod, sent>>
        /\ drain = "read"
        /\ \/ hold' = NextRecord /\ drain' = "emit" /\ ReadMessage
           \/ hold' = hold /\ drain' \in {"select", "read"}
    BY <1>4 DEF DrainRead, acks, ends
  <2>2. ReadMessage => NextRecord \in Msgs /\ NextRecord # NoMsg
    BY ReadMessageView, MsgParts
  <2> QED BY <2>1, <2>2 DEF FlatTypes
<1>5. ASSUME DrainMem
      PROVE  FlatTypes'
  <2>1. /\ UNCHANGED <<cfg, closed, cancelled, fanin, spilled, gone, acked, prod, sent>>
        /\ mem # <<>> /\ hold' = Head(mem) /\ drain' = "emit"
    BY <1>5 DEF DrainMem, acks, ends
  <2>2. Head(mem) \in Msgs
    BY <2>1 DEF Channels
  <2>3. Head(mem) # NoMsg
    BY <2>2, MsgParts
  <2> QED BY <2>1, <2>2, <2>3 DEF FlatTypes
<1>6. ASSUME Emit
      PROVE  FlatTypes'
  <2>1. /\ UNCHANGED <<cfg, closed, cancelled, fanin, spilled, gone, acked, prod, sent>>
        /\ hold' = NoMsg /\ drain' = "loop"
    BY <1>6 DEF Emit, acks, ends
  <2> QED BY <2>1 DEF FlatTypes
<1>7. ASSUME EmitCancelled
      PROVE  FlatTypes'
  <2>1. /\ UNCHANGED <<cfg, closed, cancelled, fanin, spilled, prod, sent>>
        /\ hold' = NoMsg /\ drain' = "done" /\ drain = "emit" /\ Dismiss(hold, "err")
    BY <1>7 DEF EmitCancelled, ends
  <2>2. hold \in Msgs
    BY <2>1 DEF FlatTypes
  <2>3. gone' \subseteq Msgs /\ acked' \in [Msgs -> {"no", "nil", "err"}]
    BY <2>1, <2>2, DismissTypes
  <2> QED BY <2>1, <2>3 DEF FlatTypes
<1>8. ASSUME Refuse
      PROVE  FlatTypes'
  <2>1. /\ UNCHANGED <<cfg, closed, cancelled, spilled, prod, sent, hold, drain>>
        /\ fanin' = "done" /\ out # <<>> /\ Dismiss(Head(out), "err")
    BY <1>8 DEF Refuse
  <2>2. Head(out) \in Msgs
    BY <2>1 DEF Channels
  <2>3. gone' \subseteq Msgs /\ acked' \in [Msgs -> {"no", "nil", "err"}]
    BY <2>1, <2>2, DismissTypes
  <2> QED BY <2>1, <2>3 DEF FlatTypes
<1> QED BY <1>1, <1>2, <1>3, <1>4, <1>5, <1>6, <1>7, <1>8, EnqueueTypes DEF Next, Drain, FanIn

LEMMA NextModes ==
    ASSUME FlatTypes, Modes, [Next]_vars
    PROVE  Modes'
<1>1. ASSUME NEW p \in Producers, NEW s \in Steps,
             prod' = [prod EXCEPT ![p] = s], UNCHANGED <<cfg, drain>>,
             s \in {"append", "evict", "retry", "poll"} => OnDisk,
             s \in {"send", "victim", "wait"} => cfg.type = "memory",
             s = "try" => cfg.type # "disk",
             s \in {"victim", "evict", "retry"} => cfg.strategy = "drop_oldest",
             mem' = mem \/ cfg.type # "disk",
             files' = files \/ OnDisk
      PROVE  Modes'
  BY <1>1 DEF Modes, OnDisk, FlatTypes
<1>2. ASSUME prod' = prod, cfg' = cfg, drain' = "read" => OnDisk \/ drain = "read",
             mem' = mem \/ cfg.type # "disk", files' = files \/ OnDisk
      PROVE  Modes'
  BY <1>2 DEF Modes, OnDisk
<1>3. ASSUME NEW p \in Producers
      PROVE  /\ prod[p] \in {"append", "evict", "retry", "poll"} => OnDisk
             /\ prod[p] \in {"send", "victim", "wait"} => cfg.type = "memory"
             /\ prod[p] = "try" => cfg.type # "disk"
             /\ prod[p] \in {"victim", "evict", "retry"} => cfg.strategy = "drop_oldest"
  BY DEF Modes
<1>4. cfg.type \in {"memory", "disk", "overflow"}
  BY EdgeAssumption DEF FlatTypes
<1>5. ASSUME NEW p \in Producers, Enqueue(p) \/ TryFails(p) \/ PickVictim(p) \/ Quit(p)
      PROVE  Modes'
  <2>1. UNCHANGED <<cfg, drain, mem, files>>
    BY <1>5 DEF Enqueue, TryFails, PickVictim, Quit, wal, edge
  <2>2. PICK s \in Steps : /\ prod' = [prod EXCEPT ![p] = s]
                           /\ \/ s = Route
                              \/ prod[p] = "try" /\ s = IF cfg.type = "overflow" THEN "append" ELSE "send"
                              \/ s = "victim" /\ prod[p] = "send" /\ cfg.strategy = "drop_oldest"
                              \/ s = "quit"
    BY <1>5 DEF Enqueue, TryFails, PickVictim, Quit, Goto, Route, Steps
  <2> QED BY <1>1, <1>3, <1>4, <2>1, <2>2 DEF Route, OnDisk
<1>6. ASSUME NEW p \in Producers, SendMem(p) \/ DropNewest(p) \/ AppendDisk(p) \/ StillFull(p) \/ GiveUp(p)
      PROVE  Modes'
  <2>1. /\ UNCHANGED <<cfg, drain>> /\ prod' = [prod EXCEPT ![p] = "idle"]
        /\ mem' = mem \/ prod[p] \in {"try", "send", "wait"}
        /\ files' = files \/ prod[p] \in {"append", "poll", "retry"}
    BY <1>6 DEF SendMem, DropNewest, AppendDisk, StillFull, GiveUp, Return, wal, edge
  <2>2. mem' = mem \/ cfg.type # "disk"
    BY <1>3, <2>1
  <2>3. files' = files \/ OnDisk
    BY <1>3, <2>1
  <2> QED BY <1>1, <2>1, <2>2, <2>3 DEF Steps
<1>7. ASSUME NEW p \in Producers, DropOldest(p)
      PROVE  Modes'
  <2>1. UNCHANGED <<cfg, drain, files>> /\ prod' = [prod EXCEPT ![p] = "wait"] /\ prod[p] = "victim"
    BY <1>7 DEF DropOldest, Goto, wal
  <2> QED BY <1>1, <1>3, <2>1 DEF Steps
<1>8. ASSUME NEW p \in Producers, DiskFull(p)
      PROVE  Modes'
  <2>1. /\ UNCHANGED <<cfg, drain, mem, files>> /\ prod[p] = "append"
        /\ \/ prod' = [prod EXCEPT ![p] = "idle"]
           \/ prod' = [prod EXCEPT ![p] = "poll"]
           \/ prod' = [prod EXCEPT ![p] = "evict"] /\ cfg.strategy = "drop_oldest"
    BY <1>8 DEF DiskFull, Goto, Return, wal, edge
  <2> QED BY <1>1, <1>3, <2>1 DEF Steps
<1>9. ASSUME NEW p \in Producers, EvictDisk(p)
      PROVE  Modes'
  <2>1. /\ UNCHANGED <<cfg, drain, mem>> /\ prod[p] = "evict"
        /\ prod' = [prod EXCEPT ![p] = "retry"] \/ prod' = prod
    BY <1>9 DEF EvictDisk, Goto, edge
  <2> QED BY <1>1, <1>2, <1>3, <2>1 DEF Steps
<1>10. ASSUME NEW p \in Producers, InEnqueue(p)
       PROVE  Modes'
  BY <1>5, <1>6, <1>7, <1>8, <1>9, <1>10 DEF InEnqueue
<1>11. ASSUME Drain
       PROVE  Modes'
  <2>1. CASE DrainTop \/ DrainStop \/ Emit \/ EmitCancelled
    <3>1. UNCHANGED <<cfg, prod, mem, files>> /\ (drain' = "read" => OnDisk)
      BY <2>1 DEF DrainTop, DrainStop, Emit, EmitCancelled, wal
    <3> QED BY <1>2, <3>1
  <2>2. CASE DrainRead
    <3>1. UNCHANGED <<cfg, prod, mem>> /\ drain = "read"
      BY <2>2 DEF DrainRead
    <3> QED BY <1>2, <3>1 DEF Modes
  <2>3. CASE DrainMem
    <3>1. UNCHANGED <<cfg, prod, files>> /\ drain' = "emit" /\ mem # <<>>
      BY <2>3 DEF DrainMem, wal
    <3> QED BY <1>2, <3>1 DEF Modes
  <2> QED BY <1>11, <2>1, <2>2, <2>3 DEF Drain
<1>12. ASSUME FanIn \/ Finish \/ Cancel \/ Close \/ UNCHANGED vars
       PROVE  Modes'
  <2>1. UNCHANGED <<cfg, prod, drain, mem, files>>
    BY <1>12 DEF FanIn, Deliver, Refuse, FanInStops, Finish, Cancel, Close, vars, wal, edge
  <2> QED BY <1>2, <2>1
<1>13. CASE Next
  BY <1>5, <1>10, <1>11, <1>12, <1>13 DEF Next
<1> QED BY <1>12, <1>13

-----------------------------------------------------------------------------
(* The slots, and what is said of the messages that are given up. *)

LEMMA SlotStep ==
    ASSUME SlotTypes, FlatTypes, cfg' = cfg,
           \/ slots' = slots
           \/ \E m : slots' = slots \ {m}
           \/ \E m \in Msgs : /\ cfg.limit # 0 /\ Cardinality(slots) < cfg.limit
                              /\ slots' = slots \cup {m}
    PROVE  SlotTypes'
<1>1. CASE slots' = slots
  BY <1>1 DEF SlotTypes
<1>2. ASSUME NEW m, slots' = slots \ {m}
      PROVE  SlotTypes'
  <2>1. CASE cfg.limit = 0
    <3>1. slots = {} /\ slots' = {}
      BY <1>2, <2>1 DEF SlotTypes
    <3>2. IsFiniteSet(slots')
      BY <3>1, FS_EmptySet
    <3> QED BY <2>1, <3>1, <3>2 DEF SlotTypes
  <2>2. CASE cfg.limit # 0
    <3>1. IsFiniteSet(slots) /\ Cardinality(slots) <= cfg.limit /\ slots \subseteq Msgs
      BY <2>2 DEF SlotTypes
    <3>2. /\ IsFiniteSet(slots') /\ Cardinality(slots) \in Nat
          /\ Cardinality(slots') = IF m \in slots THEN Cardinality(slots) - 1 ELSE Cardinality(slots)
      BY <1>2, <3>1, FS_RemoveElement, FS_CardinalityType
    <3>3. cfg.limit \in Nat
      BY EdgeAssumption DEF FlatTypes
    <3>4. Cardinality(slots') <= cfg.limit /\ slots' \subseteq Msgs
      BY <1>2, <3>1, <3>2, <3>3
    <3> QED BY <2>2, <3>2, <3>4 DEF SlotTypes
  <2> QED BY <2>1, <2>2
<1>3. ASSUME NEW m \in Msgs, cfg.limit # 0, Cardinality(slots) < cfg.limit, slots' = slots \cup {m}
      PROVE  SlotTypes'
  <2>1. IsFiniteSet(slots) /\ slots \subseteq Msgs
    BY DEF SlotTypes
  <2>2. /\ IsFiniteSet(slots') /\ Cardinality(slots) \in Nat
        /\ Cardinality(slots') = IF m \in slots THEN Cardinality(slots) ELSE Cardinality(slots) + 1
    BY <1>3, <2>1, FS_AddElement, FS_CardinalityType
  <2>3. cfg.limit \in Nat
    BY EdgeAssumption DEF FlatTypes
  <2>4. Cardinality(slots') <= cfg.limit /\ slots' \subseteq Msgs
    BY <1>3, <2>1, <2>2, <2>3
  <2> QED BY <1>3, <2>2, <2>4 DEF SlotTypes
<1> QED BY <1>1, <1>2, <1>3

LEMMA NextSlots ==
    ASSUME FlatTypes, SlotTypes, [Next]_vars, cfg' = cfg
    PROVE  SlotTypes'
<1>1. \A m, r : Dismiss(m, r) => slots' = slots \/ slots' = slots \ {m}
  BY DEF Dismiss
<1>2. ASSUME NEW p \in Producers, Enqueue(p)
      PROVE  SlotTypes'
  <2>1. Cur(p) \in Msgs
    <3>1. sent[p] \in Nat /\ Count[p] \in Nat /\ sent[p] < Count[p]
      BY <1>2, EdgeAssumption DEF Enqueue, FlatTypes
    <3> QED BY <3>1, MsgIs DEF Cur
  <2>2. \/ slots' = slots
        \/ cfg.limit # 0 /\ Cardinality(slots) < cfg.limit /\ slots' = slots \cup {Cur(p)}
    BY <1>2 DEF Enqueue, HasSlot
  <2> QED BY <2>1, <2>2, SlotStep
<1>3. ASSUME NEW p \in Producers, InEnqueue(p) \/ Quit(p)
      PROVE  slots' = slots \/ \E m : slots' = slots \ {m}
  BY <1>1, <1>3 DEF InEnqueue, Quit, SendMem, TryFails, DropNewest, PickVictim, DropOldest,
                    AppendDisk, DiskFull, EvictDisk, StillFull, GiveUp, acks
<1>4. ASSUME Drain \/ FanIn \/ Finish \/ Cancel \/ Close \/ UNCHANGED vars
      PROVE  slots' = slots \/ \E m : slots' = slots \ {m}
  BY <1>1, <1>4 DEF Drain, DrainTop, DrainRead, DrainMem, DrainStop, Emit, EmitCancelled, FanIn,
                    Deliver, Refuse, FanInStops, Finish, Cancel, Close, vars, acks
<1>5. CASE Next
  BY <1>2, <1>3, <1>4, <1>5, SlotStep DEF Next
<1> QED BY <1>4, <1>5, SlotStep

LEMMA SameAcks ==
    ASSUME AckedWhenGone, UNCHANGED <<cfg, acked, gone>>, spilled \subseteq spilled',
           cancelled => cancelled'
    PROVE  AckedWhenGone'
BY DEF AckedWhenGone

LEMMA DismissAcks ==
    ASSUME FlatTypes, AckedWhenGone, NEW m \in Msgs, NEW r \in {"nil", "err"}, Dismiss(m, r),
           UNCHANGED <<cfg, spilled, cancelled>>,
           r = "nil" => cfg.strategy # "block",
           r = "err" => cancelled \/ cfg.strategy = "drop_oldest"
    PROVE  AckedWhenGone'
<1>1. ASSUME NEW x \in Msgs
      PROVE  /\ acked'[x] # "no" => x \in gone'
             /\ x \in gone' \ spilled => acked'[x] # "no"
             /\ x \in gone' => cancelled \/ cfg.strategy # "block"
             /\ acked'[x] = "nil" => cfg.strategy # "block"
             /\ acked'[x] = "err" => cancelled \/ cfg.strategy = "drop_oldest"
  <2>1. CASE x = m /\ m \notin spilled
    <3>1. acked'[x] = r /\ x \in gone'
      BY <2>1 DEF Dismiss, FlatTypes
    <3> QED BY <3>1
  <2>2. CASE x # m \/ m \in spilled
    <3>1. acked'[x] = acked[x] /\ (x \in gone' <=> x \in gone \/ x = m)
      BY <2>2 DEF Dismiss, FlatTypes
    <3> QED BY <2>2, <3>1 DEF AckedWhenGone
  <2> QED BY <2>1, <2>2
<1> QED BY <1>1 DEF AckedWhenGone

LEMMA NextAcks ==
    ASSUME Before, AckedWhenGone, [Next]_vars
    PROVE  AckedWhenGone'
<1> USE DEF Before
<1>0. cfg.strategy \in {"block", "drop_newest", "drop_oldest"}
  BY EdgeAssumption DEF FlatTypes
<1>1. ASSUME NEW p \in Producers,
             Enqueue(p) \/ SendMem(p) \/ TryFails(p) \/ PickVictim(p) \/ AppendDisk(p) \/ Quit(p)
      PROVE  AckedWhenGone'
  <2>1. UNCHANGED <<cfg, acked, gone, cancelled>> /\ spilled \subseteq spilled'
    BY <1>1 DEF Enqueue, SendMem, TryFails, PickVictim, AppendDisk, Quit, acks, ends
  <2> QED BY <2>1, SameAcks
<1>2. ASSUME NEW p \in Producers, InEnqueue(p)
      PROVE  AckedWhenGone'
  <2>1. Cur(p) \in Msgs
    <3>1. prod[p] \notin {"idle", "quit"}
      BY <1>2 DEF InEnqueue, SendMem, TryFails, DropNewest, PickVictim, DropOldest, AppendDisk,
                  DiskFull, EvictDisk, StillFull, GiveUp
    <3> QED BY <3>1, InCall
  <2>2. CASE DropNewest(p)
    <3>1. Dismiss(Cur(p), "nil") /\ UNCHANGED <<cfg, spilled, cancelled>> /\ cfg.strategy # "block"
      BY <2>2 DEF DropNewest, KeepsOldest, ends
    <3> QED BY <2>1, <3>1, DismissAcks
  <2>3. CASE DropOldest(p)
    <3>1. UNCHANGED <<cfg, spilled, cancelled>> /\ cfg.strategy # "block"
      BY <2>3 DEF DropOldest, ends, Modes
    <3>2. CASE mem = <<>>
      BY <2>3, <3>1, <3>2, SameAcks DEF DropOldest, acks
    <3>3. CASE mem # <<>>
      <4>1. Head(mem) \in Msgs
        BY <3>3 DEF Channels
      <4>2. Dismiss(Head(mem), "nil")
        BY <2>3, <3>3 DEF DropOldest, Takes
      <4> QED BY <3>1, <4>1, <4>2, DismissAcks
    <3> QED BY <3>2, <3>3
  <2>4. CASE DiskFull(p)
    <3>1. UNCHANGED <<cfg, spilled, cancelled>>
      BY <2>4 DEF DiskFull, ends
    <3>2. CASE KeepsOldest
      <4>1. Dismiss(Cur(p), "nil") /\ cfg.strategy # "block"
        BY <2>4, <3>2 DEF DiskFull, KeepsOldest
      <4> QED BY <2>1, <3>1, <4>1, DismissAcks
    <3>3. CASE ~KeepsOldest
      BY <2>4, <3>1, <3>3, SameAcks DEF DiskFull, acks
    <3> QED BY <3>2, <3>3
  <2>5. CASE EvictDisk(p)
    <3>1. UNCHANGED <<cfg, spilled, cancelled>> /\ cfg.strategy # "block"
      BY <2>5 DEF EvictDisk, ends, Modes
    <3>2. CASE ReadMessage /\ Dismiss(NextRecord, "nil")
      <4>1. NextRecord \in Msgs
        BY <3>2, ReadMessageView
      <4> QED BY <3>1, <3>2, <4>1, DismissAcks
    <3>3. CASE UNCHANGED acks
      BY <3>1, <3>3, SameAcks DEF acks
    <3> QED BY <2>5, <3>2, <3>3 DEF EvictDisk
  <2>6. CASE StillFull(p) \/ GiveUp(p)
    <3>1. /\ Dismiss(Cur(p), "err") /\ UNCHANGED <<cfg, spilled, cancelled>>
          /\ cancelled \/ cfg.strategy = "drop_oldest"
      BY <2>6 DEF StillFull, GiveUp, ends, Modes
    <3> QED BY <2>1, <3>1, DismissAcks
  <2> QED BY <1>1, <1>2, <2>2, <2>3, <2>4, <2>5, <2>6 DEF InEnqueue
<1>3. ASSUME EmitCancelled \/ Refuse
      PROVE  AckedWhenGone'
  <2>1. PICK m \in Msgs : Dismiss(m, "err")
    <3>1. CASE EmitCancelled
      BY <3>1 DEF EmitCancelled, FlatTypes
    <3>2. CASE Refuse
      <4>1. Head(out) \in Msgs
        BY <3>2 DEF Refuse, Channels
      <4> QED BY <3>2, <4>1 DEF Refuse
    <3> QED BY <1>3, <3>1, <3>2
  <2>2. cancelled /\ UNCHANGED <<cfg, spilled, cancelled>>
    BY <1>3 DEF EmitCancelled, Refuse, ends
  <2> QED BY <2>1, <2>2, DismissAcks
<1>4. ASSUME DrainTop \/ DrainRead \/ DrainMem \/ DrainStop \/ Emit \/ Deliver \/ FanInStops
             \/ Finish \/ Cancel \/ Close \/ UNCHANGED vars
      PROVE  AckedWhenGone'
  <2>1. UNCHANGED <<cfg, acked, gone, spilled>> /\ (cancelled => cancelled')
    BY <1>4 DEF DrainTop, DrainRead, DrainMem, DrainStop, Emit, Deliver, FanInStops, Finish, Cancel,
                Close, vars, acks, ends
  <2> QED BY <2>1, SameAcks
<1>5. CASE Next
  BY <1>1, <1>2, <1>3, <1>4, <1>5 DEF Next, Drain, FanIn
<1> QED BY <1>4, <1>5

(* While the edge drops the oldest, what is given up is older than mem.    *)
LEMMA NextSurvive ==
    ASSUME Before, Survive, [Next]_vars, cfg' = cfg
    PROVE  Survive'
<1> USE DEF Before
<1> SUFFICES ASSUME cfg.type = "memory", cfg.strategy = "drop_oldest", ~cancelled'
             PROVE  Older(gone', ToSet(mem'))
  BY DEF Survive
<1>1. ~cancelled /\ Older(gone, ToSet(mem))
  <2>1. cancelled => cancelled'
    <3>1. ASSUME NEW p \in Producers, Enqueue(p) \/ InEnqueue(p) \/ Quit(p)
          PROVE  cancelled' = cancelled
      BY <3>1 DEF Enqueue, Quit, InEnqueue, SendMem, TryFails, DropNewest, PickVictim, DropOldest,
                  AppendDisk, DiskFull, EvictDisk, StillFull, GiveUp, ends
    <3>2. ASSUME Drain \/ FanIn \/ Finish \/ Cancel \/ Close
          PROVE  cancelled => cancelled'
      BY <3>2 DEF Drain, DrainTop, DrainRead, DrainMem, DrainStop, Emit, EmitCancelled,
                  FanIn, Deliver, Refuse, FanInStops, Finish, Cancel, Close, ends
    <3> QED BY <3>1, <3>2 DEF Next, vars, ends
  <2> QED BY <2>1 DEF Survive
<1>2. ~OnDisk
  BY DEF OnDisk
<1>3. ASSUME UNCHANGED <<mem, gone>>
      PROVE  Older(gone', ToSet(mem'))
  BY <1>1, <1>3
<1>4. ASSUME NEW p \in Producers, Enqueue(p) \/ TryFails(p) \/ PickVictim(p) \/ Quit(p)
      PROVE  UNCHANGED <<mem, gone>>
  BY <1>4 DEF Enqueue, TryFails, PickVictim, Quit, edge, acks
<1>5. ASSUME NEW p \in Producers, SendMem(p)
      PROVE  Older(gone', ToSet(mem'))
  <2>1. /\ sent[p] < Count[p] /\ mem' = Append(mem, Cur(p)) /\ gone' = gone
    BY <1>5 DEF SendMem, FlatTypes, acks
  <2>2. Cur(p) \in Msgs /\ Older(gone, {Cur(p)})
    BY <2>1, CurView, PlacesAre, AtIs
  <2>3. ToSet(mem') = ToSet(mem) \cup {Cur(p)}
    BY <2>1, <2>2, ToSetAppend DEF Channels
  <2> QED BY <1>1, <2>1, <2>2, <2>3 DEF Older
<1>6. ASSUME NEW p \in Producers, DropOldest(p)
      PROVE  Older(gone', ToSet(mem'))
  <2>1. CASE mem = <<>>
    BY <1>3, <1>6, <2>1 DEF DropOldest, acks
  <2>2. CASE mem # <<>>
    <3>1. mem' = Tail(mem) /\ gone' = gone \cup {Head(mem)}
      BY <1>6, <2>2 DEF DropOldest, Takes, Dismiss
    <3>2. ToSet(mem') = ToSet(mem) \ {Head(mem)} /\ Older({Head(mem)}, ToSet(mem) \ {Head(mem)})
      BY <2>2, <3>1, TakeView DEF Channels, ChannelsSorted
    <3> QED BY <1>1, <3>1, <3>2 DEF Older
  <2> QED BY <2>1, <2>2
<1>7. ASSUME NEW p \in Producers, DropNewest(p) \/ AppendDisk(p) \/ DiskFull(p) \/ EvictDisk(p)
                                  \/ StillFull(p) \/ GiveUp(p)
      PROVE  FALSE
  <2>1. prod[p] \notin {"append", "evict", "retry", "poll"}
    BY <1>2 DEF Modes
  <2> QED BY <1>1, <1>7, <2>1 DEF DropNewest, KeepsOldest, AppendDisk, DiskFull, EvictDisk, StillFull, GiveUp
<1>8. ASSUME NEW p \in Producers, InEnqueue(p)
      PROVE  Older(gone', ToSet(mem'))
  BY <1>3, <1>4, <1>5, <1>6, <1>7, <1>8 DEF InEnqueue
<1>9. ASSUME Drain
      PROVE  Older(gone', ToSet(mem'))
  <2>1. CASE DrainMem
    <3>1. mem # <<>> /\ mem' = Tail(mem) /\ gone' = gone
      BY <2>1 DEF DrainMem, acks
    <3>2. ToSet(mem') \subseteq ToSet(mem)
      BY <3>1, TakeView DEF Channels, ChannelsSorted
    <3> QED BY <1>1, <3>1, <3>2 DEF Older
  <2>2. CASE DrainTop \/ DrainRead \/ DrainStop \/ Emit
    BY <1>3, <2>2 DEF DrainTop, DrainRead, DrainStop, Emit, acks
  <2>3. CASE EmitCancelled
    BY <1>1, <2>3 DEF EmitCancelled
  <2> QED BY <1>9, <2>1, <2>2, <2>3 DEF Drain
<1>10. ASSUME FanIn \/ Finish \/ Cancel \/ Close \/ UNCHANGED vars
       PROVE  Older(gone', ToSet(mem'))
  <2>1. UNCHANGED <<mem, gone>>
    BY <1>1, <1>10 DEF FanIn, Deliver, Refuse, FanInStops, Finish, Cancel, Close, vars, edge, acks
  <2> QED BY <1>3, <2>1
<1> QED BY <1>3, <1>4, <1>8, <1>9, <1>10 DEF Next
-----------------------------------------------------------------------------
(* The invariant. *)

LEMMA InitLog ==
    ASSUME Init
    PROVE  Shape /\ Reading /\ LogSorted /\ Unread = {}
<1>1. /\ files = <<>> /\ Segments = {} /\ stored = NoOffset /\ writer = 0
      /\ reader = 0 /\ pos = 0 /\ total = 0 /\ rpc = "idle"
  BY DEF Init, WALInit, Segments
<1>2. files = [s \in Segments |-> files[s]]
  BY <1>1
<1>3. Shape
  <2>1. 1 \in Nat \ {0} /\ Segments = 1..writer
    BY <1>1
  <2> QED BY <1>1, <1>2, <2>1, WALAssumption DEF Shape
<1>4. Reading
  BY <1>1 DEF Reading, NoOffset
<1>5. LogSorted
  BY <1>1 DEF LogSorted, Left
<1>6. Unread = {}
  BY <1>1 DEF Unread
<1> QED BY <1>3, <1>4, <1>5, <1>6

LEMMA InitInvariant == Init => IInv
<1> SUFFICES ASSUME Init PROVE IInv
  OBVIOUS
<1>1. /\ mem = <<>> /\ out = <<>> /\ delivered = <<>>
      /\ prod = [p \in Producers |-> "idle"] /\ sent = [p \in Producers |-> 0]
      /\ hold = NoMsg /\ gone = {} /\ spilled = {} /\ slots = {} /\ files = <<>>
      /\ acked = [m \in Msgs |-> "no"] /\ closed = FALSE /\ cancelled = FALSE
      /\ drain = "loop" /\ fanin = "run"
      /\ cfg \in [type : Types, strategy : Strategies, kind : Kinds, size : Sizes, limit : Limits]
  BY DEF Init, WALInit
<1>2. FlatTypes
  <2>1. closed \in BOOLEAN /\ cancelled \in BOOLEAN
    BY <1>1
  <2>2. sent \in [Producers -> Nat] /\ \A p \in Producers : sent[p] <= Count[p]
    BY <1>1, EdgeAssumption
  <2>3. prod \in [Producers -> Steps] /\ \A p \in Producers : prod[p] \in {"idle", "quit"}
    BY <1>1 DEF Steps
  <2>4. acked \in [Msgs -> {"no", "nil", "err"}]
    BY <1>1
  <2> QED BY <1>1, <2>1, <2>2, <2>3, <2>4 DEF FlatTypes
<1>3. Channels
  <2>1. cfg.size \in Nat /\ Len(<<>>) = 0
    BY <1>1, EdgeAssumption
  <2> QED BY <1>1, <2>1, EdgeAssumption DEF Channels
<1>4. SlotTypes
  <2>1. IsFiniteSet({}) /\ Cardinality({}) = 0
    BY FS_EmptySet
  <2>2. cfg.limit \in Nat
    BY <1>1, EdgeAssumption
  <2> QED BY <1>1, <2>1, <2>2 DEF SlotTypes
<1>5. Modes
  BY <1>1 DEF Modes
<1>6. Shape /\ Reading /\ LogSorted /\ Unread = {}
  BY InitLog
<1>7. At("producer") = Msgs /\ \A w \in Places \ {"producer"} : At(w) = {}
  <2>1. \A m \in Msgs : m[2] > sent[m[1]]
    BY <1>1, MsgParts, EdgeAssumption
  <2> QED BY <1>1, <1>6, <2>1, AtIs, EmptyView DEF Places
<1>8. Apart
  <2>1. "producer" \in Places
    BY DEF Places
  <2>2. ASSUME NEW m \in Msgs
        PROVE  \A v \in Places : m \in At(v) <=> v = "producer"
    BY <1>7
  <2>3. \A w \in Places : At(w) \subseteq Msgs
    BY <1>7
  <2> QED BY <2>1, <2>2, <2>3 DEF Apart
<1>9. ChannelsSorted
  BY <1>1, EmptyView DEF ChannelsSorted
<1>10. Lined
  <2>1. ASSUME NEW v \in Places \ {"gone"}, NEW w \in Places \ {"gone"}, Rank[v] < Rank[w]
        PROVE  Older(At(v), At(w))
    <3>1. v # "producer" \/ w # "producer"
      BY <2>1, RankIs
    <3> QED BY <1>7, <3>1 DEF Older
  <2> QED BY <2>1 DEF Lined
<1>11. Survive
  BY <1>1 DEF Survive, Older
<1>12. AckedWhenGone
  BY <1>1 DEF AckedWhenGone
<1> QED BY <1>2, <1>3, <1>4, <1>5, <1>6, <1>8, <1>9, <1>10, <1>11, <1>12 DEF IInv

LEMMA StepInvariant == IInv /\ [Next]_vars => IInv'
<1> SUFFICES ASSUME IInv, [Next]_vars PROVE IInv'
  OBVIOUS
<1>1. Before /\ SlotTypes /\ Survive /\ AckedWhenGone
  BY DEF IInv, Before, LogInv
<1>2. After /\ cfg' = cfg
  BY <1>1, StepEffect
<1>3. FlatTypes'
  BY <1>1, NextTypes DEF Before
<1>4. Modes'
  BY <1>1, NextModes DEF Before
<1>5. SlotTypes'
  BY <1>1, <1>2, NextSlots DEF Before
<1>6. Apart'
  BY <1>1, <1>2, EffectKeepsApart DEF Before, After
<1>7. Lined'
  BY <1>1, <1>2, EffectKeepsLined DEF Before, After
<1>8. Survive'
  BY <1>1, <1>2, NextSurvive
<1>9. AckedWhenGone'
  BY <1>1, NextAcks
<1> QED BY <1>2, <1>3, <1>4, <1>5, <1>6, <1>7, <1>8, <1>9 DEF IInv, After, LogInv

(* The invariant of an edge: where Enqueue, drainLoop and the fan-in        *)
(* goroutine are, what the channels and the segments hold and in which     *)
(* order, and that every message is at one place.                          *)
THEOREM Invariance == Spec => []IInv
BY InitInvariant, StepInvariant, PTL DEF Spec

-----------------------------------------------------------------------------
(* The theorems. *)

(* No channel of an edge ever holds more than buffer.size messages, a      *)
(* source never holds more than max_inflight slots, the log never grows    *)
(* beyond disk_max_size, and the goroutines are only where their code can  *)
(* be: for every number of producers, every size and every configuration.  *)
THEOREM TypeCorrect == Spec => []TypeOK
<1>1. IInv => TypeOK
  <2> SUFFICES ASSUME IInv PROVE TypeOK
    OBVIOUS
  <2>1. \A p \in Producers : sent[p] \in 0..Count[p]
    BY EdgeAssumption DEF IInv, FlatTypes
  <2>2. SlotTypes /\ Channels /\ FlatTypes
    BY DEF IInv
  <2>3. total \in 0..MaxSize /\ (~OnDisk => files = <<>>)
    BY DEF IInv, Shape, Modes
  <2> QED BY <2>1, <2>2, <2>3 DEF TypeOK, SlotTypes, Channels, FlatTypes, Steps
<1> QED BY <1>1, Invariance, PTL

(* Enqueue, drainLoop, the log and the fan-in goroutine between them lose  *)
(* no message and duplicate none: at every moment each message is in       *)
(* exactly one place, and no channel holds one twice.                      *)
THEOREM NothingLostOrDoubled == Spec => []OnePlace
<1>1. IInv => OnePlace
  <2> SUFFICES ASSUME IInv PROVE OnePlace
    OBVIOUS
  <2>1. ASSUME NEW m \in Msgs
        PROVE  Cardinality(Place(m)) = 1
    <3>1. PICK w \in Places : \A v \in Places : m \in At(v) <=> v = w
      BY DEF IInv, Apart
    <3>2. \A v \in Places : v \in Place(m) <=> m \in At(v)
      BY MsgParts, AtIs DEF Place, Places
    <3>3. Place(m) \subseteq Places
      BY DEF Place, Places
    <3>4. Place(m) = {w}
      BY <3>1, <3>2, <3>3
    <3> QED BY <3>4, FS_Singleton
  <2>2. \A s \in {mem, out, delivered} : IsInjective(s)
    BY DEF IInv, ChannelsSorted
  <2> QED BY <2>1, <2>2 DEF OnePlace
<1> QED BY <1>1, Invariance, PTL

(* The edge acks what it gives up and only that; success it reports only   *)
(* for what a drop strategy gave up, and an edge with strategy block gives *)
(* nothing up while the pipeline runs.                                     *)
THEOREM AcksMeanGivenUp == Spec => []AckedWhenGone
<1>1. IInv => AckedWhenGone
  BY DEF IInv
<1> QED BY <1>1, Invariance, PTL

(* A memory or a disk edge hands the messages of one producer to the next  *)
(* stage in the order that producer sent them, whatever was dropped in     *)
(* between and whoever evicts from the log while the drain goroutine reads.*)
THEOREM OrderKept == Spec => []FIFO
<1>1. IInv => FIFO
  BY DEF IInv, ChannelsSorted, Sorted, FIFO
<1> QED BY <1>1, Invariance, PTL

(* Under drop_oldest a memory edge never gives up a message while an older *)
(* one of the same producer stays in the channel.                          *)
THEOREM OldestGoFirst == Spec => []NewestSurvive
<1>1. IInv => NewestSurvive
  BY DEF IInv, Survive, Older, NewestSurvive
<1> QED BY <1>1, Invariance, PTL
=============================================================================

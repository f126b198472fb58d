-------------------------- MODULE DiskWALCrashProofs --------------------------
(***************************************************************************)
(* The write-ahead log is a queue (FifoLog), however often and wherever    *)
(* the process stops, whatever writes fail and whatever a power failure    *)
(* takes of what was not synced: for any number of messages, stops and     *)
(* segments of any size.                                                   *)
(*                                                                         *)
(* What matters of the files and of a read position is which messages they *)
(* hold and where (Held); the stored offset may lag behind the open reader *)
(* by cut records only, so that a restart reads on with the same message.  *)
(*                                                                         *)
(* The end of the module is about sizes: what the counters of the log come *)
(* to, for which the segments need not even be numbered without gaps.      *)
(***************************************************************************)
EXTENDS DiskWALCrash, FiniteSetTheorems, WellFoundedInduction, TLAPS

-----------------------------------------------------------------------------
(* The records of a segment.                                               *)

(* Every element has a place. *)
LEMMA InSeq ==
    ASSUME NEW S, NEW s \in Seq(S), NEW x
    PROVE  x \in ToSet(s) <=> \E i \in 1..Len(s) : s[i] = x
BY DEF ToSet

LEMMA ToSetType ==
    ASSUME NEW S, NEW s \in Seq(S)
    PROVE  ToSet(s) \subseteq S
BY InSeq

LEMMA ToSetAppend ==
    ASSUME NEW S, NEW s \in Seq(S), NEW e \in S
    PROVE  ToSet(Append(s, e)) = ToSet(s) \cup {e}
<1> DEFINE t == Append(s, e)
<1>1. t \in Seq(S) /\ Len(t) = Len(s) + 1 /\ Len(s) \in Nat
  OBVIOUS
<1>2. /\ \A i \in 1..Len(s) : t[i] = s[i]
      /\ t[Len(s) + 1] = e
  OBVIOUS
<1> HIDE DEF t
<1>3. ASSUME NEW x PROVE x \in ToSet(t) <=> x \in ToSet(s) \/ x = e
  <2>1. x \in ToSet(t) <=> \E i \in 1..Len(s) + 1 : t[i] = x
    BY <1>1, InSeq
  <2>2. x \in ToSet(s) <=> \E i \in 1..Len(s) : s[i] = x
    BY InSeq
  <2> QED BY <1>1, <1>2, <2>1, <2>2
<1> QED BY <1>3 DEF t

LEMMA ToSetEmpty == ToSet(<<>>) = {}
BY DEF ToSet

-----------------------------------------------------------------------------
(* The log as a queue of messages.                                         *)

Items   == 1..Messages
Records == Items \cup {Cut, Torn}

(* The segments follow each other. *)
FilesOK(f) ==
    /\ f = [s \in DOMAIN f |-> f[s]]
    /\ \A s \in DOMAIN f : f[s] \in Seq(Records)
    /\ \E lo \in Nat \ {0}, hi \in Nat : DOMAIN f = lo..hi

(* Where a process that starts reads from. *)
StartOf(f, o) == IF o.seg \in DOMAIN f THEN o
                 ELSE IF DOMAIN f = {} THEN NoOffset ELSE [seg |-> Min(DOMAIN f), pos |-> 0]
Resume == StartOf(files, stored)

(* Message m is the i-th record of segment s and not read yet. *)
Held(f, c, s, i, m) == /\ s \in DOMAIN f /\ i \in 1..Len(f[s]) /\ f[s][i] = m /\ m \in Items
                       /\ (s = c.seg => i > c.pos)

InOrder(f, c) ==
    \A s, t, i, j \in Nat, m, n \in Items :
        Held(f, c, s, i, m) /\ Held(f, c, t, j, n) /\ (s < t \/ (s = t /\ i < j)) => m < n

Segmented == FilesOK(files) /\ (writer # 0 => writer \in Segments /\ \A s \in Segments : s <= writer)

(* Unless a deletion is under way, the stored offset is in the first       *)
(* segment, or there is none.                                              *)
OffsetOK ==
    /\ rpc \in {"idle", "reset", "again"}
    /\ stored \in [seg : Nat, pos : Nat]
    /\ IF stored.seg \in Segments THEN rpc # "reset" /\ \A s \in Segments : stored.seg <= s
                                  ELSE rpc = "reset" \/ stored = NoOffset

(* The reader is in the first segment, ahead of the stored offset by       *)
(* nothing but cut records.                                                *)
ReaderOK ==
    /\ pos \in Nat
    /\ reader # 0 => /\ reader \in Segments /\ \A s \in Segments : reader <= s
                     /\ rpc # "reset" /\ Resume.pos <= pos
                     /\ \A i \in Nat : Resume.pos < i /\ i <= pos =>
                           i \in 1..Len(files[reader]) /\ files[reader][i] = Cut
    /\ writer # 0 /\ writer = Cursor.seg => Cursor.pos <= Len(files[writer])
    /\ ~up => reader = 0 /\ writer = 0 /\ rpc = "idle"

Numbered ==
    /\ next \in Nat \ {0} /\ since \in Nat /\ got \in Seq(Items)
    /\ InOrder(files, Cursor)
    /\ \A m \in Unread : m < next
    /\ \A g \in ToSet(got) : g < next /\ \A m \in Unread : g < m

Safe ==
    /\ DOMAIN synced = Segments
    /\ \A s \in Segments : synced[s] \in Nat /\ synced[s] <= Len(files[s])
    /\ firm \subseteq Unread
    /\ \A s, i \in Nat, m \in Items : Held(files, Cursor, s, i, m) =>
          /\ m \in firm => i <= synced[s]
          /\ up /\ m >= since => i <= synced[s] \/ (s = writer /\ dirty)

LogOK == Segmented /\ OffsetOK /\ ReaderOK

Sound == LogOK /\ Numbered /\ Safe
IInv  == halts \in Nat /\ (OffsetSound => Sound)

-----------------------------------------------------------------------------
(* Files and read positions. *)

LEMMA IntervalEnds ==
    ASSUME NEW lo \in Nat, NEW hi \in Nat, lo <= hi
    PROVE  Min(lo..hi) = lo /\ Max(lo..hi) = hi
<1>1. \A x : x \in lo..hi /\ (\A y \in lo..hi : x <= y) => x = lo
  OBVIOUS
<1>2. \A x : x \in lo..hi /\ (\A y \in lo..hi : x >= y) => x = hi
  OBVIOUS
<1>3. Min(lo..hi) = lo
  BY <1>1 DEF Min
<1>4. Max(lo..hi) = hi
  BY <1>2 DEF Max
<1> QED BY <1>3, <1>4

LEMMA NotItems == Cut \notin Items /\ Torn \notin Items /\ Items \subseteq Nat \ {0}
BY CrashAssumption DEF Items

Offsets == [seg : Nat, pos : Nat]

LEMMA StartIs ==
    ASSUME NEW f, FilesOK(f), NEW o \in Offsets,
           o.seg \in DOMAIN f => \A s \in DOMAIN f : o.seg <= s
    PROVE  /\ StartOf(f, o) \in Offsets
           /\ DOMAIN f = {} => StartOf(f, o) = NoOffset
           /\ DOMAIN f # {} => /\ StartOf(f, o).seg \in DOMAIN f
                               /\ \A s \in DOMAIN f : StartOf(f, o).seg <= s
           /\ DOMAIN f # {} /\ o.seg \notin DOMAIN f => StartOf(f, o).pos = 0
<1>1. PICK lo \in Nat \ {0}, hi \in Nat : DOMAIN f = lo..hi
  BY DEF FilesOK
<1>2. CASE o.seg \in DOMAIN f
  BY <1>2 DEF StartOf
<1>3. CASE o.seg \notin DOMAIN f /\ DOMAIN f = {}
  BY <1>3 DEF StartOf, NoOffset, Offsets
<1>4. CASE o.seg \notin DOMAIN f /\ DOMAIN f # {}
  <2>1. lo <= hi
    BY <1>1, <1>4
  <2>2. StartOf(f, o) = [seg |-> lo, pos |-> 0]
    BY <1>1, <1>4, <2>1, IntervalEnds DEF StartOf
  <2> QED BY <1>1, <1>4, <2>1, <2>2 DEF Offsets
<1> QED BY <1>2, <1>3, <1>4

LEMMA LeastIsOne ==
    ASSUME NEW S \in SUBSET Nat, NEW a \in S, NEW b \in S,
           \A s \in S : a <= s, \A s \in S : b <= s
    PROVE  a = b
<1>1. a <= b /\ b <= a /\ a \in Nat /\ b \in Nat
  OBVIOUS
<1> QED BY <1>1

(* Where ReadNext goes on, and where it would after a restart. *)
LEMMA CursorIs ==
    LogOK =>
        /\ Cursor \in Offsets /\ Resume \in Offsets /\ Segments \subseteq Nat \ {0}
        /\ Segments = {} => Cursor = NoOffset /\ Resume = NoOffset /\ reader = 0
        /\ Segments # {} => Cursor.seg \in Segments /\ \A s \in Segments : Cursor.seg <= s
        /\ Cursor.seg = Resume.seg /\ Resume.pos <= Cursor.pos
        /\ \A i \in Nat : Resume.pos < i /\ i <= Cursor.pos =>
              i \in 1..Len(files[Cursor.seg]) /\ files[Cursor.seg][i] = Cut
        /\ IF reader # 0 THEN Cursor = [seg |-> reader, pos |-> pos] ELSE Cursor = Resume
<1> SUFFICES ASSUME LogOK
             PROVE  /\ Cursor \in Offsets /\ Resume \in Offsets /\ Segments \subseteq Nat \ {0}
                    /\ Segments = {} => Cursor = NoOffset /\ Resume = NoOffset /\ reader = 0
                    /\ Segments # {} => Cursor.seg \in Segments /\ \A s \in Segments : Cursor.seg <= s
                    /\ Cursor.seg = Resume.seg /\ Resume.pos <= Cursor.pos
                    /\ \A i \in Nat : Resume.pos < i /\ i <= Cursor.pos =>
                          i \in 1..Len(files[Cursor.seg]) /\ files[Cursor.seg][i] = Cut
                    /\ IF reader # 0 THEN Cursor = [seg |-> reader, pos |-> pos] ELSE Cursor = Resume
  OBVIOUS
<1>1. Segments \subseteq Nat \ {0}
  BY DEF Segmented, FilesOK, Segments, LogOK
<1>2. IF reader # 0 THEN Cursor = [seg |-> reader, pos |-> pos] ELSE Cursor = Resume
  BY DEF Cursor, Resume, StartOf, FirstSegment, Nowhere, Segments
<1>3. /\ Resume \in Offsets
      /\ Segments = {} => Resume = NoOffset
      /\ Segments # {} => Resume.seg \in Segments /\ \A s \in Segments : Resume.seg <= s
  BY StartIs DEF Segmented, OffsetOK, Offsets, Resume, Segments, LogOK
<1>4. CASE reader = 0
  <2>1. Cursor = Resume
    BY <1>2, <1>4
  <2>2. Resume.pos \in Nat
    BY <1>3 DEF Offsets
  <2> QED BY <1>1, <1>3, <1>4, <2>1, <2>2
<1>5. CASE reader # 0
  <2>1. /\ reader \in Segments /\ \A s \in Segments : reader <= s
        /\ Resume.pos <= pos /\ pos \in Nat
        /\ \A i \in Nat : Resume.pos < i /\ i <= pos =>
              i \in 1..Len(files[reader]) /\ files[reader][i] = Cut
    BY <1>5 DEF ReaderOK, LogOK
  <2>2. Cursor = [seg |-> reader, pos |-> pos] /\ Cursor.seg = reader /\ Cursor.pos = pos
    BY <1>2, <1>5
  <2>3. Resume.seg = reader
    BY <1>1, <1>3, <2>1, LeastIsOne
  <2>4. Cursor \in Offsets
    BY <1>1, <2>1, <2>2 DEF Offsets
  <2> QED BY <1>1, <1>2, <1>3, <1>5, <2>1, <2>2, <2>3, <2>4
<1> QED BY <1>4, <1>5

UnreadOf(f, c) == {m \in Items : \E s, i \in Nat : Held(f, c, s, i, m)}

LEMMA UnreadIs ==
    LogOK => Unread = UnreadOf(files, Cursor)
<1> SUFFICES ASSUME LogOK PROVE Unread = UnreadOf(files, Cursor)
  OBVIOUS
<1>1. Cursor.pos \in Nat /\ Segments \subseteq Nat
  BY CursorIs DEF Offsets
<1>2. \A s \in Segments : files[s] \in Seq(Records)
  BY DEF Segmented, FilesOK, Segments, LogOK
<1>3. ASSUME NEW s \in Segments, NEW x
      PROVE  x \in ToSet(Ahead(s)) <=>
                \E i \in Nat : i \in 1..Len(files[s]) /\ files[s][i] = x /\ (s = Cursor.seg => i > Cursor.pos)
  <2> DEFINE f == files[s]
             k == IF s = Cursor.seg THEN Cursor.pos ELSE 0
             r == SubSeq(f, k + 1, Len(f))
  <2>1. f \in Seq(Records) /\ k \in Nat /\ Len(f) \in Nat
    BY <1>1, <1>2
  <2>2. \A i \in Nat : i \in 1..Len(f) /\ (s = Cursor.seg => i > Cursor.pos) <=> i \in 1..Len(f) /\ i > k
    OBVIOUS
  <2>3. Ahead(s) = r
    BY DEF Ahead
  <2> HIDE DEF f, k
  <2>4. r \in Seq(Records) /\ Len(r) = (IF k + 1 <= Len(f) THEN Len(f) - k ELSE 0)
        /\ \A i \in 1..Len(r) : r[i] = f[i + k]
    BY <2>1
  <2> HIDE DEF r
  <2>5. x \in ToSet(r) <=> \E i \in 1..Len(r) : r[i] = x
    BY <2>4, InSeq
  <2>6. ASSUME NEW i \in 1..Len(r), r[i] = x
        PROVE  i + k \in Nat /\ i + k \in 1..Len(f) /\ i + k > k /\ f[i + k] = x
    BY <2>1, <2>4, <2>6
  <2>7. ASSUME NEW i \in Nat, i \in 1..Len(f), i > k, f[i] = x
        PROVE  i - k \in 1..Len(r) /\ r[i - k] = x
    BY <2>1, <2>4, <2>7
  <2>8. x \in ToSet(r) <=> \E i \in Nat : i \in 1..Len(f) /\ f[i] = x /\ i > k
    BY <2>5, <2>6, <2>7
  <2> QED BY <2>2, <2>3, <2>8 DEF f
<1>4. \A s \in Segments : ToSet(Ahead(s)) \subseteq Records
  <2>1. ASSUME NEW s \in Segments, NEW x \in ToSet(Ahead(s)) PROVE x \in Records
    <3>1. PICK i \in Nat : i \in 1..Len(files[s]) /\ files[s][i] = x
      BY <1>3, <2>1
    <3> QED BY <1>2, <3>1
  <2> QED BY <2>1
<1>5. ASSUME NEW x
      PROVE  x \in Unread <=> x \in UnreadOf(files, Cursor)
  <2>1. x \in Unread <=> x \in Items /\ \E s \in Segments : x \in ToSet(Ahead(s))
    BY <1>4, NotItems DEF Unread, Records
  <2> QED BY <1>1, <1>3, <2>1 DEF UnreadOf, Held, Segments
<1> QED BY <1>5

(* Cut records between two positions make no difference. *)
LEMMA GapHeld ==
    ASSUME NEW f, NEW c \in Offsets, NEW d \in Offsets, c.seg = d.seg, d.pos <= c.pos,
           \A i \in Nat : d.pos < i /\ i <= c.pos => f[c.seg][i] = Cut
    PROVE  \A s, i \in Nat, m \in Items : Held(f, c, s, i, m) <=> Held(f, d, s, i, m)
<1>1. c.pos \in Nat /\ d.pos \in Nat
  BY DEF Offsets
<1>2. ASSUME NEW s \in Nat, NEW i \in Nat, NEW m \in Items, Held(f, d, s, i, m), s = c.seg
      PROVE  i > c.pos
  <2>1. i > d.pos /\ f[c.seg][i] = m
    BY <1>2 DEF Held
  <2>2. CASE i <= c.pos
    BY <2>1, <2>2, NotItems
  <2> QED BY <1>1, <2>2
<1>3. \A s, i \in Nat, m \in Items : Held(f, c, s, i, m) => Held(f, d, s, i, m)
  BY <1>1 DEF Held
<1>4. \A s, i \in Nat, m \in Items : Held(f, d, s, i, m) => Held(f, c, s, i, m)
  BY <1>2 DEF Held
<1> QED BY <1>3, <1>4

LEMMA ResumeHeld ==
    LogOK =>
        \A s, i \in Nat, m \in Items : Held(files, Cursor, s, i, m) <=> Held(files, Resume, s, i, m)
<1> SUFFICES ASSUME LogOK
             PROVE  \A s, i \in Nat, m \in Items :
                       Held(files, Cursor, s, i, m) <=> Held(files, Resume, s, i, m)
  OBVIOUS
<1>1. PICK f, c, d : f = files /\ c = Cursor /\ d = Resume
  OBVIOUS
<1>2. /\ c \in Offsets /\ d \in Offsets /\ c.seg = d.seg /\ d.pos <= c.pos
      /\ \A i \in Nat : d.pos < i /\ i <= c.pos => f[c.seg][i] = Cut
  BY <1>1, CursorIs
<1> QED BY <1>1, <1>2, GapHeld

-----------------------------------------------------------------------------
(* Append, whole or torn. *)

LEMMA TargetIs ==
    ASSUME Segmented
    PROVE  \E T \in Nat \ {0} :
              /\ T = Target
              /\ \A s \in Segments : s <= T
              /\ T \in Segments => T = writer
              /\ \E lo \in Nat \ {0} : /\ Segments \cup {T} = lo..T
                                       /\ IF Segments = {} THEN lo = T
                                          ELSE lo \in Segments /\ \A s \in Segments : lo <= s
<1>1. PICK lo \in Nat \ {0}, hi \in Nat : Segments = lo..hi
  BY DEF Segmented, FilesOK, Segments
<1>2. writer # 0 => writer \in Segments /\ \A s \in Segments : s <= writer
  BY DEF Segmented
<1>3. CASE writer # 0 /\ size < SegCap
  <2>1. Target = writer
    BY <1>3 DEF Target
  <2>2. writer = hi /\ lo <= hi
    BY <1>1, <1>2, <1>3
  <2>3. Segments \cup {writer} = lo..writer /\ lo \in Segments /\ \A s \in Segments : lo <= s
    BY <1>1, <2>2
  <2> QED BY <1>1, <1>2, <1>3, <2>1, <2>2, <2>3
<1>4. CASE ~(writer # 0 /\ size < SegCap)
  <2>1. Target = NextSegment
    BY <1>4 DEF Target
  <2>2. CASE Segments = {}
    <3>1. Target = 1
      BY <2>1, <2>2 DEF NextSegment
    <3>2. Segments \cup {1} = 1..1
      BY <2>2
    <3> QED BY <2>2, <3>1, <3>2
  <2>3. CASE Segments # {}
    <3>1. lo <= hi
      BY <1>1, <2>3
    <3>2. Target = hi + 1
      BY <1>1, <2>1, <2>3, <3>1, IntervalEnds DEF NextSegment
    <3>3. Segments \cup {hi + 1} = lo..hi + 1 /\ lo \in Segments /\ \A s \in Segments : lo <= s /\ s <= hi
      BY <1>1, <3>1
    <3> QED BY <1>1, <2>3, <3>2, <3>3
  <2> QED BY <2>2, <2>3
<1> QED BY <1>3, <1>4

(* What is at the end of the target segment. *)
EndOf(f, T) == IF T \in DOMAIN f THEN Len(f[T]) ELSE 0

LEMMA EndIs ==
    ASSUME NEW f, NEW T
    PROVE  IF T \in DOMAIN f THEN EndOf(f, T) = Len(f[T]) ELSE EndOf(f, T) = 0
BY Zenon DEF EndOf

(* g is f with recs put at the end of T. *)
PutInto(f, T, recs, g) ==
    /\ DOMAIN g = DOMAIN f \cup {T}
    /\ \A s \in DOMAIN f : Len(f[s]) <= Len(g[s]) /\ \A i \in 1..Len(f[s]) : g[s][i] = f[s][i]
    /\ \A s \in DOMAIN g, i \in Nat :
          i \in 1..Len(g[s]) <=> \/ s \in DOMAIN f /\ i \in 1..Len(f[s])
                                 \/ s = T /\ i = EndOf(f, T) + 1 /\ recs # <<>>
    /\ \A x : recs = <<x>> => g[T][EndOf(f, T) + 1] = x

PutOf(f, T, recs) ==
    [s \in DOMAIN f \cup {T} |->
        IF s # T THEN f[s] ELSE IF s \in DOMAIN f THEN f[s] \o recs ELSE recs]

ShortRecs == {<<>>} \cup {<<x>> : x \in Records}

LEMMA PutIs ==
    ASSUME NEW f, FilesOK(f), NEW T \in Nat \ {0}, NEW lo \in Nat \ {0}, DOMAIN f \cup {T} = lo..T,
           NEW recs \in ShortRecs, NEW g, g = PutOf(f, T, recs)
    PROVE  FilesOK(g) /\ PutInto(f, T, recs, g) /\ EndOf(f, T) \in Nat
<1>1. /\ DOMAIN g = DOMAIN f \cup {T} /\ g = [s \in DOMAIN g |-> g[s]]
      /\ \A s \in DOMAIN f \ {T} : g[s] = f[s]
      /\ g[T] = IF T \in DOMAIN f THEN f[T] \o recs ELSE recs
  BY DEF PutOf
<1>2. \A s \in DOMAIN f : f[s] \in Seq(Records)
  BY DEF FilesOK
<1>3. /\ recs \in Seq(Records)
      /\ IF recs = <<>> THEN Len(recs) = 0 ELSE Len(recs) = 1
      /\ \A x : recs = <<x>> => recs[1] = x
  <2>1. CASE recs = <<>>
    BY <2>1
  <2>2. ASSUME NEW x \in Records, recs = <<x>>
        PROVE  /\ recs \in Seq(Records) /\ recs # <<>> /\ Len(recs) = 1
               /\ \A y : recs = <<y>> => recs[1] = y
    BY <2>2
  <2> QED BY <2>1, <2>2 DEF ShortRecs
<1> DEFINE k == EndOf(f, T)
<1>4. k \in Nat
  BY <1>2 DEF EndOf
<1>5. /\ g[T] \in Seq(Records) /\ Len(g[T]) = k + Len(recs)
      /\ T \in DOMAIN f => \A i \in 1..Len(f[T]) : g[T][i] = f[T][i]
      /\ \A x : recs = <<x>> => g[T][k + 1] = x
  <2>1. CASE T \in DOMAIN f
    <3>1. PICK b : b = f[T]
      OBVIOUS
    <3>2. b \in Seq(Records) /\ g[T] = b \o recs /\ k = Len(b)
      BY <1>1, <1>2, <2>1, <3>1 DEF EndOf
    <3>3. /\ b \o recs \in Seq(Records) /\ Len(b \o recs) = Len(b) + Len(recs)
          /\ \A i \in 1..Len(b) : (b \o recs)[i] = b[i]
      BY <1>3, <3>2
    <3>4. ASSUME NEW x, recs = <<x>> PROVE (b \o recs)[Len(b) + 1] = x
      <4>1. Len(recs) = 1 /\ recs[1] = x
        BY <1>3, <3>4
      <4> QED BY <1>3, <3>2, <4>1
    <3> QED BY <2>1, <3>1, <3>2, <3>3, <3>4
  <2>2. CASE T \notin DOMAIN f
    <3>1. g[T] = recs /\ k = 0
      BY <1>1, <2>2 DEF EndOf
    <3> QED BY <1>3, <2>2, <3>1
  <2> QED BY <2>1, <2>2
<1>6. FilesOK(g)
  <2>1. \A s \in DOMAIN g : g[s] \in Seq(Records)
    BY <1>1, <1>2, <1>5
  <2>2. DOMAIN g = lo..T
    BY <1>1
  <2>3. \E a \in Nat \ {0}, hi \in Nat : DOMAIN g = a..hi
    BY <2>2
  <2>4. g = [s \in DOMAIN g |-> g[s]]
    BY <1>1
  <2> QED BY <2>1, <2>3, <2>4 DEF FilesOK
<1>7. ASSUME NEW s \in DOMAIN f
      PROVE  Len(f[s]) <= Len(g[s]) /\ \A i \in 1..Len(f[s]) : g[s][i] = f[s][i]
  <2>1. CASE s = T
    <3>1. T \in DOMAIN f /\ k = Len(f[T])
      BY <1>7, <2>1, EndIs
    <3>2. Len(recs) \in Nat
      BY <1>3
    <3> QED BY <1>4, <1>5, <2>1, <3>1, <3>2
  <2>2. CASE s # T
    <3>1. g[s] = f[s] /\ f[s] \in Seq(Records)
      BY <1>1, <1>2, <1>7, <2>2
    <3> QED BY <3>1
  <2> QED BY <2>1, <2>2
<1>8. ASSUME NEW s \in DOMAIN g, NEW i \in Nat
      PROVE  i \in 1..Len(g[s]) <=> \/ s \in DOMAIN f /\ i \in 1..Len(f[s])
                                    \/ s = T /\ i = k + 1 /\ recs # <<>>
  <2>1. CASE s # T
    <3>1. s \in DOMAIN f /\ g[s] = f[s]
      BY <1>1, <1>8, <2>1
    <3> QED BY <2>1, <3>1
  <2>2. CASE s = T
    <3>1. IF T \in DOMAIN f THEN k = Len(f[T]) ELSE k = 0
      BY EndIs
    <3>3. Len(g[T]) \in Nat /\ Len(g[T]) = IF recs = <<>> THEN k ELSE k + 1
      <4>1. Len(recs) = IF recs = <<>> THEN 0 ELSE 1
        BY <1>3
      <4> QED BY <1>4, <1>5, <4>1
    <3>4. i \in 1..k + 1 <=> i \in 1..k \/ i = k + 1
      BY <1>4
    <3> HIDE DEF k
    <3>5. T \in DOMAIN f /\ i \in 1..Len(f[T]) <=> i \in 1..k
      <4>1. CASE T \in DOMAIN f
        <5>1. k = Len(f[T])
          BY <3>1, <4>1
        <5> QED BY <4>1, <5>1
      <4>2. CASE T \notin DOMAIN f
        <5>1. k = 0
          BY <3>1, <4>2
        <5> QED BY <4>2, <5>1
      <4> QED BY <4>1, <4>2
    <3> QED BY <2>2, <3>3, <3>4, <3>5
  <2> QED BY <2>1, <2>2
<1> QED BY <1>1, <1>4, <1>5, <1>6, <1>7, <1>8 DEF PutInto

(* Nothing is held but what was and the last of recs. *)
HeldToo(f, c, g, d, T, recs) ==
    \A s, i \in Nat, m \in Items :
       Held(g, d, s, i, m) <=> \/ Held(f, c, s, i, m)
                               \/ s = T /\ i = EndOf(f, T) + 1 /\ recs # <<>> /\ g[s][i] = m

LEMMA HeldAfterPut ==
    ASSUME NEW f, NEW g, NEW T \in Nat, NEW recs, PutInto(f, T, recs, g), EndOf(f, T) \in Nat,
           NEW c \in Offsets, NEW d \in Offsets, DOMAIN f # {} => d = c,
           T = d.seg => d.pos <= EndOf(f, T)
    PROVE  HeldToo(f, c, g, d, T, recs)
<1>0. d.pos \in Nat /\ c.pos \in Nat
  BY DEF Offsets
<1>1. ASSUME NEW s \in Nat, NEW i \in Nat, NEW m \in Items, Held(g, d, s, i, m)
      PROVE  \/ Held(f, c, s, i, m)
             \/ s = T /\ i = EndOf(f, T) + 1 /\ recs # <<>> /\ g[s][i] = m
  <2>1. s \in DOMAIN g /\ i \in 1..Len(g[s]) /\ g[s][i] = m /\ (s = d.seg => i > d.pos)
    BY <1>1 DEF Held
  <2>2. \/ s \in DOMAIN f /\ i \in 1..Len(f[s])
        \/ s = T /\ i = EndOf(f, T) + 1 /\ recs # <<>>
    BY <2>1 DEF PutInto
  <2>3. ASSUME s \in DOMAIN f, i \in 1..Len(f[s])
        PROVE  Held(f, c, s, i, m)
    <3>1. f[s][i] = m /\ d = c
      BY <2>1, <2>3 DEF PutInto
    <3> QED BY <2>1, <2>3, <3>1 DEF Held
  <2> QED BY <2>1, <2>2, <2>3
<1>2. ASSUME NEW s \in Nat, NEW i \in Nat, NEW m \in Items, Held(f, c, s, i, m)
      PROVE  Held(g, d, s, i, m)
  <2>1. s \in DOMAIN f /\ i \in 1..Len(f[s]) /\ f[s][i] = m /\ (s = c.seg => i > c.pos)
    BY <1>2 DEF Held
  <2>2. s \in DOMAIN g /\ i \in 1..Len(g[s]) /\ g[s][i] = m /\ d = c
    BY <2>1 DEF PutInto
  <2> QED BY <2>1, <2>2 DEF Held
<1>3. ASSUME NEW m \in Items, recs # <<>>, g[T][EndOf(f, T) + 1] = m
      PROVE  Held(g, d, T, EndOf(f, T) + 1, m)
  <2>1. T \in DOMAIN g /\ EndOf(f, T) + 1 \in 1..Len(g[T])
    BY <1>3 DEF PutInto
  <2>2. T = d.seg => EndOf(f, T) + 1 > d.pos
    BY <1>0
  <2> QED BY <1>3, <2>1, <2>2 DEF Held
<1> QED BY <1>1, <1>2, <1>3 DEF HeldToo

LEMMA PutStart ==
    ASSUME NEW f, FilesOK(f), NEW g, FilesOK(g), NEW T \in Nat \ {0},
           DOMAIN g = DOMAIN f \cup {T}, \A s \in DOMAIN f : s <= T,
           NEW o \in Offsets,
           IF o.seg \in DOMAIN f THEN \A s \in DOMAIN f : o.seg <= s ELSE o = NoOffset
    PROVE  IF DOMAIN f = {} THEN StartOf(g, o) = [seg |-> T, pos |-> 0]
                            ELSE StartOf(g, o) = StartOf(f, o)
<1>1. DOMAIN f \subseteq Nat \ {0} /\ DOMAIN g \subseteq Nat \ {0}
  BY DEF FilesOK
<1>2. CASE o.seg \in DOMAIN f
  BY <1>2 DEF StartOf
<1>3. CASE o.seg \notin DOMAIN f
  <2>1. o = NoOffset /\ o.seg \notin DOMAIN g
    BY <1>1, <1>3 DEF NoOffset
  <2>2. /\ StartOf(g, o) \in Offsets /\ StartOf(g, o).pos = 0
        /\ StartOf(g, o).seg \in DOMAIN g /\ \A s \in DOMAIN g : StartOf(g, o).seg <= s
    BY <2>1, StartIs
  <2>3. CASE DOMAIN f = {}
    <3>1. StartOf(g, o).seg = T
      BY <2>2, <2>3
    <3> QED BY <2>2, <2>3, <3>1 DEF Offsets
  <2>4. CASE DOMAIN f # {}
    <3>1. /\ StartOf(f, o) \in Offsets /\ StartOf(f, o).pos = 0
          /\ StartOf(f, o).seg \in DOMAIN f /\ \A s \in DOMAIN f : StartOf(f, o).seg <= s
      BY <1>3, <2>4, StartIs
    <3>2. StartOf(f, o).seg \in DOMAIN g /\ \A s \in DOMAIN g : StartOf(f, o).seg <= s
      BY <3>1
    <3>3. StartOf(f, o).seg = StartOf(g, o).seg
      BY <1>1, <2>2, <3>2, LeastIsOne
    <3> QED BY <2>2, <2>4, <3>1, <3>3 DEF Offsets
  <2> QED BY <2>3, <2>4
<1> QED BY <1>2, <1>3

LEMMA PutLog ==
    ASSUME LogOK, rpc = "idle", NEW recs \in ShortRecs, files' = Put(recs)
    PROVE  \E T \in Nat \ {0} :
              /\ T = Target /\ PutInto(files, T, recs, files') /\ FilesOK(files')
              /\ EndOf(files, T) \in Nat /\ Segments' = Segments \cup {T}
              /\ \A s \in Segments : s <= T
              /\ T \in Segments => T = writer
              /\ T \in Segments /\ T = Cursor.seg => Cursor.pos <= EndOf(files, T)
              /\ IF Segments = {} THEN StartOf(files', stored) = [seg |-> T, pos |-> 0]
                                  ELSE StartOf(files', stored) = Resume
<1>1. PICK T \in Nat \ {0} :
         /\ T = Target
         /\ \A s \in Segments : s <= T
         /\ T \in Segments => T = writer
         /\ \E lo \in Nat \ {0} : Segments \cup {T} = lo..T
  BY TargetIs DEF LogOK
<1>2. PICK f, g, o : f = files /\ g = files' /\ o = stored
  OBVIOUS
<1>3. Segments = DOMAIN f /\ FilesOK(f)
  BY <1>2 DEF Segments, Segmented, LogOK
<1>4. g = PutOf(f, T, recs)
  BY <1>1, <1>2 DEF Put, PutOf, Segments
<1>5. FilesOK(g) /\ PutInto(f, T, recs, g) /\ EndOf(f, T) \in Nat
  <2>1. PICK lo \in Nat \ {0} : DOMAIN f \cup {T} = lo..T
    BY <1>1, <1>3
  <2> QED BY <1>3, <1>4, <2>1, PutIs
<1>6. DOMAIN g = DOMAIN f \cup {T} /\ Segments' = DOMAIN g
  BY <1>2, <1>5 DEF PutInto, Segments
<1>7. T \in Segments /\ T = Cursor.seg => Cursor.pos <= EndOf(f, T)
  BY <1>1, <1>2, <1>3 DEF ReaderOK, EndOf, LogOK
<1>8. o \in Offsets /\ IF o.seg \in DOMAIN f THEN \A s \in DOMAIN f : o.seg <= s ELSE o = NoOffset
  BY <1>2, <1>3 DEF OffsetOK, Offsets, LogOK
<1>9. IF DOMAIN f = {} THEN StartOf(g, o) = [seg |-> T, pos |-> 0]
                       ELSE StartOf(g, o) = StartOf(f, o)
  BY <1>1, <1>3, <1>5, <1>6, <1>8, PutStart
<1> QED BY <1>1, <1>2, <1>3, <1>5, <1>6, <1>7, <1>9 DEF Resume

(* Append in a process that goes on. *)
LEMMA PutGoesOn ==
    ASSUME LogOK, rpc = "idle", up, up' = up,
           NEW recs \in ShortRecs, files' = Put(recs), writer' = Target,
           UNCHANGED <<stored, reader, pos, rpc>>
    PROVE  /\ LogOK'
           /\ \A s, i \in Nat, m \in Items :
                 Held(files', Cursor', s, i, m) <=>
                    \/ Held(files, Cursor, s, i, m)
                    \/ s = Target /\ i = EndOf(files, Target) + 1 /\ recs # <<>> /\ files'[s][i] = m
<1>1. PICK T \in Nat \ {0} :
         /\ T = Target /\ PutInto(files, T, recs, files') /\ FilesOK(files')
         /\ EndOf(files, T) \in Nat /\ Segments' = Segments \cup {T}
         /\ \A s \in Segments : s <= T
         /\ T \in Segments => T = writer
         /\ T \in Segments /\ T = Cursor.seg => Cursor.pos <= EndOf(files, T)
         /\ IF Segments = {} THEN StartOf(files', stored) = [seg |-> T, pos |-> 0]
                             ELSE StartOf(files', stored) = Resume
  BY PutLog
<1>2. /\ Cursor \in Offsets /\ Resume \in Offsets /\ Segments \subseteq Nat \ {0}
      /\ Segments = {} => Cursor = NoOffset /\ Resume = NoOffset /\ reader = 0
      /\ Segments # {} => Cursor.seg \in Segments /\ \A s \in Segments : Cursor.seg <= s
      /\ Cursor.seg = Resume.seg /\ Resume.pos <= Cursor.pos
      /\ \A i \in Nat : Resume.pos < i /\ i <= Cursor.pos =>
            i \in 1..Len(files[Cursor.seg]) /\ files[Cursor.seg][i] = Cut
      /\ IF reader # 0 THEN Cursor = [seg |-> reader, pos |-> pos] ELSE Cursor = Resume
  BY CursorIs
<1>3. Resume' = StartOf(files', stored)
  BY DEF Resume
<1>4. IF reader # 0 THEN Cursor' = [seg |-> reader, pos |-> pos] ELSE Cursor' = Resume'
  BY DEF Cursor, Resume, StartOf, FirstSegment, Nowhere, Segments
<1>5. IF Segments = {} THEN Cursor' = [seg |-> T, pos |-> 0] /\ Resume' = Cursor'
                       ELSE Cursor' = Cursor /\ Resume' = Resume
  BY <1>1, <1>2, <1>3, <1>4
<1>6. Cursor' \in Offsets /\ (T = Cursor'.seg => Cursor'.pos <= EndOf(files, T))
  <2>1. CASE Segments = {}
    BY <1>1, <1>5, <2>1 DEF Offsets
  <2>2. CASE Segments # {}
    BY <1>1, <1>2, <1>5, <2>2
  <2> QED BY <2>1, <2>2
<1>7. Segmented'
  BY <1>1 DEF Segmented, Segments
<1>8. OffsetOK'
  <2>1. CASE stored.seg \in Segments
    <3>1. stored.seg \in Segments' /\ \A s \in Segments' : stored.seg <= s
      BY <1>1, <2>1 DEF OffsetOK, LogOK
    <3> QED BY <3>1 DEF OffsetOK, LogOK
  <2>2. CASE stored.seg \notin Segments
    <3>1. stored = NoOffset /\ stored.seg \notin Segments'
      BY <1>1, <1>2, <2>2 DEF OffsetOK, NoOffset, LogOK
    <3> QED BY <3>1 DEF OffsetOK, LogOK
  <2> QED BY <2>1, <2>2
<1>9. \A s \in Segments : /\ Len(files[s]) <= Len(files'[s])
                          /\ \A i \in 1..Len(files[s]) : files'[s][i] = files[s][i]
  BY <1>1 DEF PutInto, Segments
<1>10. ReaderOK'
  <2>1. ASSUME reader # 0
        PROVE  /\ reader \in Segments' /\ \A s \in Segments' : reader <= s
               /\ rpc # "reset" /\ Resume'.pos <= pos
               /\ \A i \in Nat : Resume'.pos < i /\ i <= pos =>
                     i \in 1..Len(files'[reader]) /\ files'[reader][i] = Cut
    <3>1. reader \in Segments /\ (\A s \in Segments : reader <= s) /\ Segments # {}
      BY <2>1 DEF ReaderOK, LogOK
    <3>2. Resume' = Resume /\ Cursor.seg = reader /\ Cursor.pos = pos
      BY <1>2, <1>5, <2>1, <3>1
    <3>3. reader \in Segments' /\ \A s \in Segments' : reader <= s
      BY <1>1, <3>1
    <3>4. \A i \in Nat : Resume.pos < i /\ i <= pos => i \in 1..Len(files[reader]) /\ files[reader][i] = Cut
      BY <1>2, <3>2
    <3>5. Len(files[reader]) \in Nat /\ Len(files'[reader]) \in Nat
      <4>1. files[reader] \in Seq(Records) /\ files'[reader] \in Seq(Records)
        BY <1>1, <3>1, <3>3 DEF Segmented, FilesOK, Segments, LogOK
      <4> QED BY <4>1
    <3>6. \A i \in Nat : Resume.pos < i /\ i <= pos => i \in 1..Len(files'[reader]) /\ files'[reader][i] = Cut
      BY <1>9, <3>1, <3>4, <3>5
    <3> QED BY <1>2, <3>2, <3>3, <3>6 DEF OffsetOK, LogOK
  <2>2. ASSUME T = Cursor'.seg
        PROVE  Cursor'.pos <= Len(files'[T])
    <3>1. T \in Segments' /\ files'[T] \in Seq(Records) /\ Len(files'[T]) \in Nat
      BY <1>1 DEF FilesOK, Segments
    <3>2. EndOf(files, T) <= Len(files'[T])
      <4>1. CASE T \in Segments
        BY <1>9, <4>1 DEF EndOf, Segments
      <4>2. CASE T \notin Segments
        BY <3>1, <4>2 DEF EndOf, Segments
      <4> QED BY <4>1, <4>2
    <3>3. Cursor'.pos \in Nat
      BY <1>6 DEF Offsets
    <3> QED BY <1>1, <1>6, <2>2, <3>1, <3>2, <3>3
  <2>3. writer' = T /\ pos \in Nat
    BY <1>1 DEF ReaderOK, LogOK
  <2> QED BY <2>1, <2>2, <2>3 DEF ReaderOK
<1>11. PICK f, g, c, d : f = files /\ g = files' /\ c = Cursor /\ d = Cursor'
  OBVIOUS
<1>12. HeldToo(f, c, g, d, T, recs)
  <2>1. c \in Offsets /\ d \in Offsets /\ (DOMAIN f # {} => d = c)
    BY <1>2, <1>5, <1>6, <1>11 DEF Segments
  <2>2. PutInto(f, T, recs, g) /\ EndOf(f, T) \in Nat /\ (T = d.seg => d.pos <= EndOf(f, T))
    BY <1>1, <1>6, <1>11
  <2> QED BY <2>1, <2>2, HeldAfterPut
<1> QED BY <1>1, <1>7, <1>8, <1>10, <1>11, <1>12 DEF LogOK, HeldToo
-----------------------------------------------------------------------------
(* What the invariant says of the messages, when some of them leave. *)

LEMMA LessHeld ==
    ASSUME NEW f, NEW c, NEW g, NEW d,
           \A s, i \in Nat, m \in Items : Held(g, d, s, i, m) => Held(f, c, s, i, m)
    PROVE  UnreadOf(g, d) \subseteq UnreadOf(f, c) /\ (InOrder(f, c) => InOrder(g, d))
BY DEF UnreadOf, InOrder

LEMMA UnreadNext ==
    ASSUME LogOK'
    PROVE  Unread' = UnreadOf(files', Cursor')
<1>1. (LogOK => Unread = UnreadOf(files, Cursor))'
  BY UnreadIs, PTL
<1>2. UnreadOf(files, Cursor)' = UnreadOf(files', Cursor')
  BY DEF UnreadOf, Held, Items
<1> QED BY <1>1, <1>2

Remain  == \A s, i \in Nat, m \in Items : Held(files', Cursor', s, i, m) => Held(files, Cursor, s, i, m)
SameAll == \A s, i \in Nat, m \in Items : Held(files', Cursor', s, i, m) <=> Held(files, Cursor, s, i, m)

LEMMA RemainIs ==
    ASSUME LogOK, LogOK', Remain
    PROVE  Unread' \subseteq Unread /\ (InOrder(files, Cursor) => InOrder(files, Cursor)')
<1>1. PICK f, g, c, d : f = files /\ g = files' /\ c = Cursor /\ d = Cursor'
  OBVIOUS
<1>2. \A s, i \in Nat, m \in Items : Held(g, d, s, i, m) => Held(f, c, s, i, m)
  BY <1>1 DEF Remain
<1>3. UnreadOf(g, d) \subseteq UnreadOf(f, c) /\ (InOrder(f, c) => InOrder(g, d))
  BY <1>2, LessHeld
<1>4. Unread = UnreadOf(f, c) /\ Unread' = UnreadOf(g, d)
  BY <1>1, UnreadIs, UnreadNext
<1>5. InOrder(files, Cursor)' <=> InOrder(g, d)
  BY <1>1 DEF InOrder, Held, Items
<1> QED BY <1>1, <1>3, <1>4, <1>5

LEMMA SameAllIs ==
    ASSUME LogOK, LogOK', SameAll
    PROVE  Remain /\ Unread' = Unread
<1>1. UnreadOf(files', Cursor') = UnreadOf(files, Cursor)
  BY DEF UnreadOf, SameAll
<1> QED BY <1>1, UnreadIs, UnreadNext DEF Remain, SameAll

LEMMA NumbersRemain ==
    ASSUME LogOK, LogOK', Numbered, Remain, next' \in {next, next + 1}, since' \in Nat, got' = got
    PROVE  Numbered'
<1>1. Unread' \subseteq Unread /\ InOrder(files, Cursor)'
  BY RemainIs DEF Numbered
<1>2. Unread \subseteq Items /\ Items \subseteq Nat
  BY UnreadIs, NotItems DEF UnreadOf
<1>3. next \in Nat \ {0} /\ next' \in Nat \ {0} /\ next <= next'
  BY DEF Numbered
<1>4. ToSet(got) \subseteq Nat /\ got \in Seq(Items)
  BY <1>2, ToSetType DEF Numbered
<1>5. \A m \in Unread' : m < next'
  BY <1>1, <1>2, <1>3 DEF Numbered
<1>6. \A g \in ToSet(got) : g < next' /\ \A m \in Unread' : g < m
  BY <1>1, <1>3, <1>4 DEF Numbered
<1> QED BY <1>1, <1>3, <1>4, <1>5, <1>6 DEF Numbered, Items

(* Where the syncs of Append have come to. *)
LEMMA SyncFullIs ==
    ASSUME LogOK, Safe, NEW T \in Nat, T = Target, NEW recs, PutInto(files, T, recs, files'),
           FilesOK(files'), synced' = SyncFull(DOMAIN files')
    PROVE  /\ DOMAIN synced' = Segments'
           /\ \A s \in Segments' : synced'[s] \in Nat /\ synced'[s] <= Len(files'[s])
           /\ \A s \in Segments : synced[s] <= synced'[s] /\ synced[s] \in Nat
           /\ writer \in Segments /\ T # writer /\ dirty => synced'[writer] = Len(files[writer])
<1>1. /\ DOMAIN synced' = Segments'
      /\ \A s \in Segments' : synced'[s] = IF s \notin Segments THEN 0
                                           ELSE IF s = writer /\ T # writer /\ dirty THEN Len(files[s])
                                           ELSE synced[s]
  BY DEF SyncFull, Segments
<1>2. Segments \subseteq Segments' /\ \A s \in Segments : Len(files[s]) <= Len(files'[s])
  BY DEF PutInto, Segments
<1>3. \A s \in Segments : files[s] \in Seq(Records) /\ Len(files[s]) \in Nat
  BY DEF LogOK, Segmented, FilesOK, Segments
<1>4. \A s \in Segments' : files'[s] \in Seq(Records) /\ Len(files'[s]) \in Nat
  BY DEF FilesOK, Segments
<1>5. \A s \in Segments : synced[s] \in Nat /\ synced[s] <= Len(files[s])
  BY DEF Safe
<1>6. ASSUME NEW s \in Segments'
      PROVE  synced'[s] \in Nat /\ synced'[s] <= Len(files'[s])
  <2>1. CASE s \notin Segments
    BY <1>1, <1>4, <2>1
  <2>2. CASE s \in Segments
    BY <1>1, <1>2, <1>3, <1>4, <1>5, <2>2
  <2> QED BY <2>1, <2>2
<1>7. \A s \in Segments : synced[s] <= synced'[s] /\ synced[s] \in Nat
  BY <1>1, <1>2, <1>3, <1>5
<1> QED BY <1>1, <1>2, <1>6, <1>7

(* What the process appended since it started is synced, but for what is   *)
(* in the segment it writes.                                               *)
LEMMA SafeAfterPut ==
    ASSUME LogOK, LogOK', Safe, NEW T \in Nat, T = Target, NEW recs, PutInto(files, T, recs, files'),
           FilesOK(files'), synced' = SyncFull(DOMAIN files'),
           T \in Segments => T = writer,
           firm' = firm, since' \in {since, next} \/ ~up',
           firm \subseteq Unread',
           up' => up /\ writer' = T /\ since' = since /\ (T = writer /\ dirty => dirty'),
           \A s, i \in Nat, m \in Items : Held(files', Cursor', s, i, m) =>
              \/ Held(files, Cursor, s, i, m)
              \/ s = T /\ m \notin firm /\ (up' => dirty')
    PROVE  Safe'
<1>1. /\ DOMAIN synced' = Segments'
      /\ \A s \in Segments' : synced'[s] \in Nat /\ synced'[s] <= Len(files'[s])
      /\ \A s \in Segments : synced[s] <= synced'[s] /\ synced[s] \in Nat
      /\ writer \in Segments /\ T # writer /\ dirty => synced'[writer] = Len(files[writer])
  BY SyncFullIs
<1>2. ASSUME NEW s \in Nat, NEW i \in Nat, NEW m \in Items, Held(files, Cursor, s, i, m)
      PROVE  /\ m \in firm => i <= synced'[s]
             /\ up' /\ m >= since' => i <= synced'[s] \/ (s = writer' /\ dirty')
  <2>1. s \in Segments /\ i \in 1..Len(files[s])
    BY <1>2 DEF Held, Segments
  <2>2. synced[s] <= synced'[s] /\ synced[s] \in Nat /\ synced'[s] \in Nat
    <3>1. s \in Segments'
      BY <2>1 DEF PutInto, Segments
    <3> QED BY <1>1, <2>1, <3>1
  <2>3. m \in firm => i <= synced[s]
    BY <1>2 DEF Safe
  <2>4. ASSUME up', m >= since', ~(i <= synced[s])
        PROVE  i <= synced'[s] \/ (s = writer' /\ dirty')
    <3>1. s = writer /\ dirty
      BY <1>2, <2>4 DEF Safe
    <3>2. CASE T = writer
      BY <2>4, <3>1, <3>2
    <3>3. CASE T # writer
      <4>1. synced'[s] = Len(files[s]) /\ Len(files[s]) \in Nat
        BY <1>1, <2>1, <2>2, <3>1, <3>3
      <4> QED BY <2>1, <4>1
    <3> QED BY <3>2, <3>3
  <2> QED BY <2>2, <2>3, <2>4
<1>3. ASSUME NEW s \in Nat, NEW i \in Nat, NEW m \in Items, Held(files', Cursor', s, i, m)
      PROVE  /\ m \in firm' => i <= synced'[s]
             /\ up' /\ m >= since' => i <= synced'[s] \/ (s = writer' /\ dirty')
  <2>1. CASE Held(files, Cursor, s, i, m)
    BY <1>2, <2>1
  <2>2. CASE s = T /\ m \notin firm /\ (up' => dirty')
    BY <2>2
  <2> QED BY <1>3, <2>1, <2>2
<1>4. firm' \subseteq Unread'
  OBVIOUS
<1>5. \A s, i \in Nat, m \in Items : Held(files, Cursor, s, i, m)' =>
          /\ m \in firm' => i <= synced'[s]
          /\ up' /\ m >= since' => i <= synced'[s] \/ (s = writer' /\ dirty')
  BY <1>3 DEF Held, Items
<1> QED BY <1>1, <1>4, <1>5 DEF Safe, Items

-----------------------------------------------------------------------------
(* Each step keeps the invariant and is a step of the queue: something is  *)
(* put, the first is taken, or the power fails and some are lost that were *)
(* not safe.                                                               *)

Puts  == \E m \in Items : /\ \A x \in Unread \cup ToSet(got) : x < m
                          /\ Unread' = Unread \cup {m} /\ firm' = firm /\ got' = got
                          /\ halts' = halts /\ torn' = torn
Takes == \E m \in Unread : /\ \A x \in Unread : m <= x
                           /\ got' = Append(got, m)
                           /\ Unread' = Unread \ {m} /\ firm' = firm \ {m}
                           /\ halts' = halts /\ torn' = torn
Stays == got' = got /\ Unread' = Unread /\ firm \subseteq firm'
Loses == /\ halts' = halts + 1 /\ "power" \in torn'
         /\ got' = got /\ Unread' \subseteq Unread /\ firm \subseteq firm'

QueueStep == Puts \/ Takes \/ Stays \/ Loses

LEMMA AppendNextStep ==
    ASSUME Sound, AppendNext
    PROVE  Sound' /\ QueueStep
<1>0. LogOK /\ Numbered /\ Safe
  BY DEF Sound
<1>1. /\ next \in Items /\ next \in Nat \ {0} /\ up /\ up' = up /\ rpc = "idle"
      /\ files' = Put(<<next>>) /\ writer' = Target /\ UNCHANGED <<stored, reader, pos, rpc>>
      /\ synced' = SyncFull(DOMAIN files') /\ dirty' = TRUE /\ next' = next + 1
      /\ since' = since /\ firm' = firm /\ got' = got /\ halts' = halts /\ torn' = torn
  BY <1>0, CrashAssumption DEF AppendNext, AppendRecord, Numbered, Items
<1>2. <<next>> \in ShortRecs /\ <<next>> # <<>>
  BY <1>1 DEF ShortRecs, Records
<1>3. PICK T \in Nat \ {0} :
         /\ T = Target /\ PutInto(files, T, <<next>>, files') /\ FilesOK(files')
         /\ EndOf(files, T) \in Nat /\ Segments' = Segments \cup {T}
         /\ \A s \in Segments : s <= T
         /\ T \in Segments => T = writer
  BY <1>0, <1>1, <1>2, PutLog
<1> DEFINE k == EndOf(files, T) + 1
<1>4. /\ LogOK'
      /\ \A s, i \in Nat, m \in Items :
            Held(files', Cursor', s, i, m) <=>
               Held(files, Cursor, s, i, m) \/ (s = T /\ i = k /\ files'[s][i] = m)
  BY <1>0, <1>1, <1>2, <1>3, PutGoesOn
<1>5. files'[T][k] = next /\ k \in Nat
  BY <1>3 DEF PutInto
<1>6. \A s, i \in Nat, m \in Items :
         Held(files', Cursor', s, i, m) <=>
            Held(files, Cursor, s, i, m) \/ (s = T /\ i = k /\ m = next)
  BY <1>4, <1>5
<1>7. \A s, i \in Nat, m \in Items : Held(files, Cursor, s, i, m) =>
         s <= T /\ (s = T => i < k) /\ m \in Unread /\ m < next
  <2>1. ASSUME NEW s \in Nat, NEW i \in Nat, NEW m \in Items, Held(files, Cursor, s, i, m)
        PROVE  s <= T /\ (s = T => i < k) /\ m \in Unread /\ m < next
    <3>1. s \in Segments /\ i \in 1..Len(files[s])
      BY <2>1 DEF Held, Segments
    <3>2. s = T => i < k
      <4>1. CASE s = T
        <5>1. EndOf(files, T) = Len(files[T])
          <6>1. T \in DOMAIN files
            BY <3>1, <4>1 DEF Segments
          <6> QED BY <6>1, EndIs
        <5> QED BY <1>3, <3>1, <4>1, <5>1
      <4> QED BY <4>1
    <3>3. m \in Unread
      BY <1>0, <2>1, UnreadIs DEF UnreadOf
    <3> QED BY <1>0, <1>3, <3>1, <3>2, <3>3 DEF Numbered
  <2> QED BY <2>1
<1> HIDE DEF k
<1>8. Unread' = Unread \cup {next}
  <2>1. UnreadOf(files', Cursor') = UnreadOf(files, Cursor) \cup {next}
    <3>1. \A m \in Items : (\E s, i \in Nat : Held(files', Cursor', s, i, m)) <=>
                              (\E s, i \in Nat : Held(files, Cursor, s, i, m)) \/ m = next
      BY <1>3, <1>5, <1>6
    <3> QED BY <1>1, <3>1 DEF UnreadOf
  <2> QED BY <1>0, <1>4, <2>1, UnreadIs, UnreadNext
<1>9. /\ Unread \subseteq Nat /\ ToSet(got) \subseteq Nat
      /\ \A x \in Unread \cup ToSet(got) : x < next
  <2>1. Unread \subseteq Nat
    BY <1>0, UnreadIs, NotItems DEF UnreadOf
  <2>2. ToSet(got) \subseteq Nat
    BY <1>0, ToSetType, NotItems DEF Numbered
  <2> QED BY <1>0, <2>1, <2>2 DEF Numbered
<1>10. Numbered'
  <2>1. InOrder(files, Cursor)'
    <3>0. InOrder(files', Cursor') => InOrder(files, Cursor)'
      BY DEF InOrder, Held, Items
    <3>1. SUFFICES ASSUME NEW s \in Nat, NEW t \in Nat, NEW i \in Nat, NEW j \in Nat,
                          NEW m \in Items, NEW n \in Items,
                          Held(files', Cursor', s, i, m), Held(files', Cursor', t, j, n),
                          s < t \/ (s = t /\ i < j)
                   PROVE  m < n
      BY <3>0 DEF InOrder
    <3>2. CASE Held(files, Cursor, s, i, m) /\ Held(files, Cursor, t, j, n)
      BY <1>0, <3>1, <3>2 DEF Numbered, InOrder
    <3>3. CASE Held(files, Cursor, s, i, m) /\ t = T /\ j = k /\ n = next
      BY <1>7, <3>3
    <3>4. CASE s = T /\ i = k /\ Held(files, Cursor, t, j, n)
      <4>1. t <= T /\ (t = T => j < k)
        BY <1>7, <3>4
      <4> QED BY <1>3, <1>5, <3>1, <3>4, <4>1
    <3>5. CASE s = T /\ i = k /\ t = T /\ j = k
      BY <1>3, <1>5, <3>1, <3>5
    <3> QED BY <1>6, <3>1, <3>2, <3>3, <3>4, <3>5
  <2>2. \A m \in Unread' : m < next'
    BY <1>1, <1>8, <1>9
  <2>3. \A g \in ToSet(got) : g < next' /\ \A m \in Unread' : g < m
    BY <1>0, <1>1, <1>8, <1>9 DEF Numbered
  <2>4. next' \in Nat \ {0} /\ since' \in Nat /\ got' \in Seq(Items)
    BY <1>0, <1>1 DEF Numbered
  <2> QED BY <1>1, <2>1, <2>2, <2>3, <2>4 DEF Numbered, Items
<1>11. Safe'
  <2>1. next \notin firm
    BY <1>0, <1>1, <1>9 DEF Safe
  <2>2. firm \subseteq Unread'
    BY <1>0, <1>8 DEF Safe
  <2>3. \A s, i \in Nat, m \in Items : Held(files', Cursor', s, i, m) =>
           Held(files, Cursor, s, i, m) \/ (s = T /\ m \notin firm /\ (up' => dirty'))
    BY <1>1, <1>6, <2>1
  <2> QED BY <1>0, <1>1, <1>3, <1>4, <2>2, <2>3, SafeAfterPut
<1>12. Puts
  BY <1>1, <1>8, <1>9 DEF Puts
<1> QED BY <1>4, <1>10, <1>11, <1>12 DEF Sound, QueueStep

LEMMA TornRecs ==
    ASSUME NEW recs \in {<<>>, <<Cut>>, <<Torn>>}
    PROVE  recs \in ShortRecs
<1>1. Cut \in Records /\ Torn \in Records
  BY DEF Records
<1> QED BY <1>1 DEF ShortRecs

(* Nothing that can be read was written. *)
LEMMA TornPut ==
    ASSUME NEW T, NEW recs \in {<<>>, <<Cut>>, <<Torn>>}, NEW f, NEW g, PutInto(f, T, recs, g),
           NEW m \in Items, recs # <<>>, g[T][EndOf(f, T) + 1] = m
    PROVE  FALSE
<1>1. g[T][EndOf(f, T) + 1] \in {Cut, Torn}
  BY DEF PutInto
<1> QED BY <1>1, NotItems

LEMMA WriteFailsStep ==
    ASSUME Sound, WriteFails
    PROVE  Sound' /\ QueueStep
<1>0. LogOK /\ Numbered /\ Safe
  BY DEF Sound
<1>1. PICK recs \in {<<>>, <<Cut>>, <<Torn>>} : AppendFails(recs)
  BY DEF WriteFails
<1>2. /\ up /\ up' = up /\ rpc = "idle"
      /\ files' = Put(recs) /\ writer' = Target /\ UNCHANGED <<stored, reader, pos, rpc>>
      /\ synced' = SyncFull(DOMAIN files') /\ next' \in {next, next + 1}
      /\ since' = since /\ firm' = firm /\ got' = got
  BY <1>1 DEF WriteFails, AppendFails
<1>3. dirty' = (dirty /\ Target = writer)
  BY DEF WriteFails
<1>4. recs \in ShortRecs
  BY TornRecs
<1>5. PICK T \in Nat \ {0} :
         /\ T = Target /\ PutInto(files, T, recs, files') /\ FilesOK(files')
         /\ EndOf(files, T) \in Nat /\ Segments' = Segments \cup {T}
         /\ T \in Segments => T = writer
  BY <1>0, <1>2, <1>4, PutLog
<1>6. /\ LogOK'
      /\ \A s, i \in Nat, m \in Items :
            Held(files', Cursor', s, i, m) <=>
               \/ Held(files, Cursor, s, i, m)
               \/ s = T /\ i = EndOf(files, T) + 1 /\ recs # <<>> /\ files'[s][i] = m
  BY <1>0, <1>2, <1>4, <1>5, PutGoesOn
<1>7. SameAll
  BY <1>5, <1>6, TornPut DEF SameAll
<1>8. Remain /\ Unread' = Unread
  BY <1>0, <1>6, <1>7, SameAllIs
<1>9. Numbered'
  <2>1. since' \in Nat
    BY <1>0, <1>2 DEF Numbered
  <2> QED BY <1>0, <1>2, <1>6, <1>8, <2>1, NumbersRemain
<1>10. Safe'
  <2>1. firm \subseteq Unread'
    BY <1>0, <1>8 DEF Safe
  <2>2. T = writer /\ dirty => dirty'
    BY <1>3, <1>5
  <2> QED BY <1>0, <1>2, <1>5, <1>6, <1>8, <2>1, <2>2, SafeAfterPut DEF Remain
<1>11. Stays
  BY <1>2, <1>8 DEF Stays
<1> QED BY <1>6, <1>9, <1>10, <1>11 DEF Sound, QueueStep

-----------------------------------------------------------------------------
(* ReadNext. *)

LEMMA Opened ==
    /\ reader' # 0 => Cursor' = [seg |-> reader', pos |-> pos']
    /\ reader' = 0 => Cursor' = Resume'
BY DEF Cursor, Resume, StartOf, FirstSegment, Nowhere, Segments

LEMMA ReceiveStep ==
    ASSUME Sound, Receive
    PROVE  Sound' /\ QueueStep
<1>0. LogOK /\ Numbered /\ Safe
  BY DEF Sound
<1>1. /\ Cursor \in Offsets /\ Segments \subseteq Nat \ {0}
      /\ Segments # {} => Cursor.seg \in Segments /\ \A s \in Segments : Cursor.seg <= s
  BY <1>0, CursorIs
<1>2. PICK lo, p, m : lo = Cursor.seg /\ p = Cursor.pos /\ m = NextRecord
  OBVIOUS
<1>3. /\ lo \in Segments /\ p < Len(files[lo]) /\ m = files[lo][p + 1] /\ m \notin {Cut, Torn}
      /\ p \in Nat /\ lo \in Nat \ {0} /\ Cursor = [seg |-> lo, pos |-> p]
      /\ \A s \in Segments : lo <= s
  BY <1>1, <1>2 DEF Receive, ReadMessage, HasRecord, Follows, NextRecord, Offsets
<1>4. files[lo] \in Seq(Records) /\ Len(files[lo]) \in Nat /\ p + 1 \in 1..Len(files[lo])
  BY <1>0, <1>3 DEF LogOK, Segmented, FilesOK, Segments
<1>5. m \in Items
  BY <1>3, <1>4 DEF Records
<1>6. /\ reader' = lo /\ pos' = p + 1 /\ stored' = [seg |-> lo, pos |-> p + 1] /\ rpc' = "idle"
      /\ files' = files /\ writer' = writer /\ Segments' = Segments
      /\ got' = Append(got, m) /\ firm' = firm \ {m}
      /\ synced' = synced /\ dirty' = dirty /\ since' = since /\ up' = up /\ up /\ next' = next
      /\ halts' = halts /\ torn' = torn
  BY <1>2, <1>3 DEF Receive, ReadMessage, SeekTo, Progress, process, Segments
<1>7. Cursor' = [seg |-> lo, pos |-> p + 1] /\ Resume' = Cursor'
  <2>1. Cursor' = [seg |-> lo, pos |-> p + 1]
    BY <1>3, <1>6, Opened
  <2>2. Resume' = [seg |-> lo, pos |-> p + 1]
    BY <1>3, <1>6 DEF Resume, StartOf, Segments
  <2> QED BY <2>1, <2>2
<1>8. LogOK'
  <2>1. Segmented'
    BY <1>0, <1>6 DEF LogOK, Segmented
  <2>2. OffsetOK'
    BY <1>3, <1>6 DEF OffsetOK
  <2>3. ReaderOK'
    BY <1>3, <1>4, <1>6, <1>7 DEF ReaderOK
  <2> QED BY <2>1, <2>2, <2>3 DEF LogOK
<1>9. \A s, i \in Nat, n \in Items :
         Held(files', Cursor', s, i, n) <=> Held(files, Cursor, s, i, n) /\ ~(s = lo /\ i = p + 1)
  BY <1>3, <1>6, <1>7 DEF Held
<1>10. Held(files, Cursor, lo, p + 1, m)
  BY <1>3, <1>4, <1>5 DEF Held, Segments
<1>11. \A s, i \in Nat, n \in Items :
          Held(files, Cursor, s, i, n) /\ ~(s = lo /\ i = p + 1) => m < n
  <2>1. ASSUME NEW s \in Nat, NEW i \in Nat, NEW n \in Items,
               Held(files, Cursor, s, i, n), ~(s = lo /\ i = p + 1)
        PROVE  m < n
    <3>1. s \in Segments /\ (s = lo => i > p)
      BY <1>3, <2>1 DEF Held, Segments
    <3>2. lo < s \/ (lo = s /\ p + 1 < i)
      BY <1>1, <1>3, <2>1, <3>1
    <3>3. InOrder(files, Cursor) /\ lo \in Nat /\ p + 1 \in Nat
      BY <1>0, <1>3 DEF Numbered
    <3>4. \A k \in Nat : Held(files, Cursor, lo, k, m) /\ (lo < s \/ (lo = s /\ k < i)) => m < n
      BY <1>5, <2>1, <3>3 DEF InOrder
    <3> QED BY <1>10, <3>2, <3>3, <3>4
  <2> QED BY <2>1
<1>12. m \in Nat
  BY <1>5, NotItems
<1>13. /\ m \in Unread /\ Unread' = Unread \ {m}
       /\ \A n \in Unread' : m < n
  <2>1. UnreadOf(files', Cursor') = UnreadOf(files, Cursor) \ {m}
    <3>1. ASSUME NEW n \in Items, n # m
          PROVE  (\E s, i \in Nat : Held(files', Cursor', s, i, n)) <=>
                    (\E s, i \in Nat : Held(files, Cursor, s, i, n))
      <4>1. \A s, i \in Nat : Held(files, Cursor, s, i, n) => ~(s = lo /\ i = p + 1)
        BY <1>3, <3>1 DEF Held
      <4> QED BY <1>9, <4>1
    <3>2. \A s, i \in Nat : ~Held(files', Cursor', s, i, m)
      BY <1>5, <1>9, <1>11, <1>12
    <3> QED BY <3>1, <3>2 DEF UnreadOf
  <2>2. Unread = UnreadOf(files, Cursor) /\ Unread' = UnreadOf(files', Cursor')
    BY <1>0, <1>8, UnreadIs, UnreadNext
  <2>3. m \in UnreadOf(files, Cursor)
    BY <1>3, <1>5, <1>10 DEF UnreadOf
  <2>4. \A n \in UnreadOf(files', Cursor') : m < n
    BY <1>9, <1>11 DEF UnreadOf
  <2> QED BY <2>1, <2>2, <2>3, <2>4
<1>14. Remain
  BY <1>9 DEF Remain
<1>15. Numbered'
  <2>1. InOrder(files, Cursor)'
    BY <1>0, <1>8, <1>14, RemainIs DEF Numbered
  <2>2. got' \in Seq(Items) /\ ToSet(got') = ToSet(got) \cup {m}
    <3>1. got \in Seq(Items)
      BY <1>0 DEF Numbered
    <3> QED BY <1>5, <1>6, <3>1, ToSetAppend
  <2>3. \A n \in Unread' : n < next'
    BY <1>0, <1>6, <1>13 DEF Numbered
  <2>4. \A g \in ToSet(got') : g < next' /\ \A n \in Unread' : g < n
    BY <1>0, <1>6, <1>13, <2>2 DEF Numbered
  <2>5. next' \in Nat \ {0} /\ since' \in Nat
    BY <1>0, <1>6 DEF Numbered
  <2> QED BY <2>1, <2>2, <2>3, <2>4, <2>5 DEF Numbered, Items
<1>16. Safe'
  <2>1. firm' \subseteq Unread'
    BY <1>0, <1>6, <1>13 DEF Safe
  <2>2. \A s, i \in Nat, n \in Items : Held(files, Cursor, s, i, n)' =>
          /\ n \in firm' => i <= synced'[s]
          /\ up' /\ n >= since' => i <= synced'[s] \/ (s = writer' /\ dirty')
    <3>1. ASSUME NEW s \in Nat, NEW i \in Nat, NEW n \in Items, Held(files', Cursor', s, i, n)
          PROVE  /\ n \in firm' => i <= synced'[s]
                 /\ up' /\ n >= since' => i <= synced'[s] \/ (s = writer' /\ dirty')
      <4>1. Held(files, Cursor, s, i, n)
        BY <1>9, <3>1
      <4> QED BY <1>0, <1>6, <4>1 DEF Safe
    <3> QED BY <3>1 DEF Held, Items
  <2> QED BY <1>0, <1>6, <2>1, <2>2 DEF Safe, Items
<1>17. Takes
  <2>1. \A x \in Unread : m <= x
    BY <1>12, <1>13
  <2> QED BY <1>6, <1>13, <2>1 DEF Takes
<1> QED BY <1>8, <1>15, <1>16, <1>17 DEF Sound, QueueStep

(* A step after which the same messages are left, and nothing was          *)
(* appended, read or synced.                                               *)
LEMMA NothingNew ==
    ASSUME Sound, LogOK', SameAll,
           got' = got, next' \in {next, next + 1}, firm' = firm,
           DOMAIN synced' = Segments', \A s \in Segments' : synced'[s] = synced[s] /\ s \in Segments,
           \A s \in Segments' : files'[s] = files[s],
           IF up' THEN up /\ since' = since /\ writer' = writer /\ (dirty => dirty') ELSE since' \in Nat
    PROVE  Sound' /\ QueueStep
<1>0. LogOK /\ Numbered /\ Safe
  BY DEF Sound
<1>1. Remain /\ Unread' = Unread
  BY <1>0, SameAllIs
<1>2. Numbered'
  <2>1. since' \in Nat
    BY <1>0 DEF Numbered
  <2> QED BY <1>0, <1>1, <2>1, NumbersRemain
<1>3. Safe'
  <2>1. firm' \subseteq Unread'
    BY <1>0, <1>1 DEF Safe
  <2>2. ASSUME NEW s \in Nat, NEW i \in Nat, NEW n \in Items, Held(files', Cursor', s, i, n)
        PROVE  /\ n \in firm' => i <= synced'[s]
               /\ up' /\ n >= since' => i <= synced'[s] \/ (s = writer' /\ dirty')
    <3>1. Held(files, Cursor, s, i, n)
      BY <1>1, <2>2 DEF Remain
    <3>2. s \in Segments'
      BY <2>2 DEF Held, Segments
    <3> QED BY <1>0, <3>1, <3>2 DEF Safe
  <2>3. \A s, i \in Nat, n \in Items : Held(files, Cursor, s, i, n)' =>
          /\ n \in firm' => i <= synced'[s]
          /\ up' /\ n >= since' => i <= synced'[s] \/ (s = writer' /\ dirty')
    BY <2>2 DEF Held, Items
  <2>4. \A s \in Segments' : synced'[s] \in Nat /\ synced'[s] <= Len(files'[s])
    BY <1>0 DEF Safe
  <2> QED BY <2>1, <2>3, <2>4 DEF Safe, Items
<1>4. Stays
  BY <1>1 DEF Stays
<1> QED BY <1>2, <1>3, <1>4 DEF Sound, QueueStep

(* The end is read, and what there was of a cut record skipped. *)
LEMMA ReadNothingStep ==
    ASSUME Sound, up, ReadNothing, synced' = [s \in DOMAIN files' |-> synced[s]],
           UNCHANGED <<dirty, since, firm, process, got>>
    PROVE  Sound' /\ QueueStep
<1>0. LogOK /\ Safe
  BY DEF Sound
<1>1. /\ Cursor \in Offsets /\ Resume \in Offsets /\ Segments \subseteq Nat \ {0}
      /\ Segments = {} => Cursor = NoOffset /\ Resume = NoOffset /\ reader = 0
      /\ Segments # {} => Cursor.seg \in Segments /\ \A s \in Segments : Cursor.seg <= s
      /\ Cursor.seg = Resume.seg /\ Resume.pos <= Cursor.pos
      /\ \A i \in Nat : Resume.pos < i /\ i <= Cursor.pos =>
            i \in 1..Len(files[Cursor.seg]) /\ files[Cursor.seg][i] = Cut
  BY <1>0, CursorIs
<1>2. PICK lo, p, q : lo = Cursor.seg /\ p = Cursor.pos /\ q = IF AtCut(Cursor) THEN p + 1 ELSE p
  OBVIOUS
<1>3. p \in Nat /\ q \in Nat /\ p <= q /\ q <= p + 1 /\ lo \in Nat /\ Resume.pos \in Nat
      /\ Cursor = [seg |-> lo, pos |-> p]
  BY <1>1, <1>2 DEF Offsets
<1>4. /\ files' = files /\ stored' = stored /\ writer' = writer /\ Segments' = Segments
      /\ reader' = lo /\ pos' = q /\ rpc \in {"idle", "again"} /\ rpc' = "idle"
      /\ up' = up /\ since' = since /\ dirty' = dirty /\ firm' = firm /\ got' = got /\ next' = next
  BY <1>2, <1>3 DEF ReadNothing, SeekTo, Progress, disk, process, Segments
<1>5. q # p => /\ lo \in Segments /\ p + 1 \in 1..Len(files[lo]) /\ files[lo][p + 1] = Cut
               /\ q <= Len(files[lo])
  <2>1. SUFFICES ASSUME q # p
                 PROVE  /\ lo \in Segments /\ p + 1 \in 1..Len(files[lo]) /\ files[lo][p + 1] = Cut
                        /\ q <= Len(files[lo])
    OBVIOUS
  <2>2. lo \in Segments /\ p < Len(files[lo]) /\ files[lo][p + 1] = Cut /\ q = p + 1
    BY <1>2, <2>1 DEF AtCut, Follows
  <2>3. Len(files[lo]) \in Nat
    <3>1. files[lo] \in Seq(Records)
      BY <1>0, <2>2 DEF LogOK, Segmented, FilesOK, Segments
    <3> QED BY <3>1
  <2> QED BY <1>3, <2>2, <2>3
<1>6. Resume' = Resume /\ Cursor' = [seg |-> lo, pos |-> q]
  <2>1. Resume' = Resume
    BY <1>4 DEF Resume
  <2>2. CASE Segments = {}
    <3>1. lo = 0 /\ p = 0 /\ q = 0 /\ Resume = [seg |-> 0, pos |-> 0]
      BY <1>1, <1>2, <1>5, <2>2 DEF NoOffset
    <3> QED BY <1>4, <2>1, <3>1, Opened
  <2>3. CASE Segments # {}
    <3>1. lo # 0
      BY <1>1, <1>2, <2>3
    <3> QED BY <1>4, <2>1, <3>1, Opened
  <2> QED BY <2>1, <2>2, <2>3
<1>7. \A i \in Nat : p < i /\ i <= q => i = p + 1 /\ i \in 1..Len(files[lo]) /\ files[lo][i] = Cut
  BY <1>3, <1>5
<1>8. LogOK'
  <2>1. Segmented'
    BY <1>0, <1>4 DEF LogOK, Segmented
  <2>2. OffsetOK'
    BY <1>0, <1>4 DEF LogOK, OffsetOK
  <2>3. ReaderOK'
    <3>1. reader' # 0 => /\ reader' \in Segments' /\ \A s \in Segments' : reader' <= s
                         /\ Resume'.pos <= pos'
      <4>1. lo # 0 => Segments # {}
        BY <1>1, <1>2 DEF NoOffset
      <4> QED BY <1>1, <1>2, <1>3, <1>4, <1>6, <4>1
    <3>2. \A i \in Nat : Resume'.pos < i /\ i <= pos' =>
             i \in 1..Len(files[lo]) /\ files[lo][i] = Cut
      <4>1. ASSUME NEW i \in Nat, Resume.pos < i, i <= q
            PROVE  i \in 1..Len(files[lo]) /\ files[lo][i] = Cut
        <5>1. CASE i <= p
          BY <1>1, <1>2, <4>1, <5>1
        <5>2. CASE p < i
          BY <1>7, <4>1, <5>2
        <5> QED BY <1>3, <5>1, <5>2
      <4> QED BY <1>4, <1>6, <4>1
    <3>3. writer' # 0 /\ writer' = Cursor'.seg => Cursor'.pos <= Len(files'[writer'])
      <4>1. writer # 0 /\ writer = lo => p <= Len(files[lo])
        BY <1>0, <1>2 DEF LogOK, ReaderOK
      <4> QED BY <1>4, <1>5, <1>6, <4>1
    <3> QED BY <1>3, <1>4, <3>1, <3>2, <3>3 DEF ReaderOK
  <2> QED BY <2>1, <2>2, <2>3 DEF LogOK
<1>9. SameAll
  <2>1. PICK f, c, d : f = files /\ c = Cursor' /\ d = Cursor
    OBVIOUS
  <2>2. /\ c \in Offsets /\ d \in Offsets /\ c.seg = d.seg /\ d.pos <= c.pos
        /\ \A i \in Nat : d.pos < i /\ i <= c.pos => f[c.seg][i] = Cut
    BY <1>3, <1>6, <1>7, <2>1 DEF Offsets
  <2>3. \A s, i \in Nat, m \in Items : Held(f, c, s, i, m) <=> Held(f, d, s, i, m)
    BY <2>2, GapHeld
  <2> QED BY <1>4, <2>1, <2>3 DEF SameAll
<1>10. DOMAIN synced' = Segments' /\ \A s \in Segments' : synced'[s] = synced[s] /\ s \in Segments
  BY <1>4 DEF Segments
<1> QED BY <1>4, <1>8, <1>9, <1>10, NothingNew

(* A segment is deleted when nothing is left in it. *)
LEMMA RemoveSegmentStep ==
    ASSUME Sound, up, RemoveSegment, synced' = [s \in DOMAIN files' |-> synced[s]],
           UNCHANGED <<dirty, since, firm, process, got>>
    PROVE  Sound' /\ QueueStep
<1>0. LogOK /\ Safe
  BY DEF Sound
<1>1. /\ Cursor \in Offsets /\ Segments \subseteq Nat \ {0}
      /\ Segments # {} => Cursor.seg \in Segments /\ \A s \in Segments : Cursor.seg <= s
  BY <1>0, CursorIs
<1>2. PICK lo, p : lo = Cursor.seg /\ p = Cursor.pos
  OBVIOUS
<1>3. /\ lo \in Segments /\ lo # writer /\ ~HasRecord(Cursor) /\ ~Blocked(Cursor)
      /\ p \in Nat /\ lo \in Nat \ {0} /\ \A s \in Segments : lo <= s
  BY <1>1, <1>2 DEF RemoveSegment, Exhausted, AtEnd, Offsets
<1>4. /\ files' = [s \in Segments \ {lo} |-> files[s]] /\ stored' = stored /\ writer' = writer
      /\ reader' = 0 /\ pos' = 0 /\ rpc' = "reset"
      /\ up' = up /\ since' = since /\ dirty' = dirty /\ firm' = firm /\ got' = got /\ next' = next
  BY <1>2 DEF RemoveSegment, SeekTo, Nowhere, NoOffset, process
<1>5. Segments' = Segments \ {lo} /\ \A s \in Segments' : files'[s] = files[s]
  BY <1>4 DEF Segments
<1>6. ASSUME NEW i \in Nat, NEW m \in Items
      PROVE  ~Held(files, Cursor, lo, i, m)
  <2>1. SUFFICES ASSUME Held(files, Cursor, lo, i, m) PROVE FALSE
    OBVIOUS
  <2>2. i \in 1..Len(files[lo]) /\ files[lo][i] = m /\ i > p
    BY <1>2, <2>1 DEF Held
  <2>3. Len(files[lo]) \in Nat
    <3>1. files[lo] \in Seq(Records)
      BY <1>0, <1>3 DEF LogOK, Segmented, FilesOK, Segments
    <3> QED BY <3>1
  <2>4. p < Len(files[lo])
    BY <1>3, <2>2, <2>3
  <2>5. files[lo][p + 1] = Cut /\ p + 1 >= Len(files[lo])
    BY <1>2, <1>3, <2>3, <2>4 DEF HasRecord, Blocked, AtCut, Follows
  <2>6. i = p + 1
    BY <1>3, <2>2, <2>3, <2>5
  <2> QED BY <2>2, <2>5, <2>6, NotItems
<1>7. stored \in Offsets /\ stored.seg \notin Segments'
  <2>1. stored.seg \in Segments => stored.seg = lo
    <3>1. SUFFICES ASSUME stored.seg \in Segments PROVE stored.seg = lo
      OBVIOUS
    <3>2. \A s \in Segments : stored.seg <= s
      BY <1>0, <3>1 DEF LogOK, OffsetOK
    <3> QED BY <1>1, <1>3, <3>1, <3>2, LeastIsOne
  <2> QED BY <1>0, <1>5, <2>1 DEF LogOK, OffsetOK, Offsets
<1>8. FilesOK(files')
  <2>1. PICK a \in Nat \ {0}, hi \in Nat : Segments = a..hi
    BY <1>0 DEF LogOK, Segmented, FilesOK, Segments
  <2>2. lo = a /\ Segments' = a + 1..hi /\ a + 1 \in Nat \ {0}
    BY <1>3, <1>5, <2>1
  <2>3. \A s \in Segments : files[s] \in Seq(Records)
    BY <1>0 DEF LogOK, Segmented, FilesOK, Segments
  <2>4. \A s \in DOMAIN files' : files'[s] \in Seq(Records)
    BY <1>5, <2>3 DEF Segments
  <2>5. files' = [s \in DOMAIN files' |-> files'[s]]
    BY <1>4
  <2> QED BY <2>2, <2>4, <2>5 DEF FilesOK, Segments
<1>9. Cursor' \in Offsets /\ Cursor'.pos = 0
  <2>1. PICK f : f = files'
    OBVIOUS
  <2>2. /\ StartOf(f, stored) \in Offsets
        /\ DOMAIN f = {} => StartOf(f, stored) = NoOffset
        /\ DOMAIN f # {} => StartOf(f, stored).pos = 0
    BY <1>7, <1>8, <2>1, StartIs DEF Segments
  <2>3. Cursor' = StartOf(f, stored)
    BY <1>4, <2>1, Opened DEF Resume
  <2>4. NoOffset.pos = 0
    BY DEF NoOffset
  <2> QED BY <2>2, <2>3, <2>4
<1>10. LogOK'
  <2>1. Segmented'
    BY <1>0, <1>3, <1>4, <1>5, <1>8 DEF LogOK, Segmented
  <2>2. OffsetOK'
    BY <1>4, <1>7 DEF OffsetOK, Offsets
  <2>3. ReaderOK'
    <3>1. writer # 0 => writer \in Segments' /\ Len(files'[writer]) \in Nat
      <4>1. writer # 0 => writer \in Segments'
        BY <1>0, <1>3, <1>5 DEF LogOK, Segmented
      <4>2. writer # 0 => files'[writer] \in Seq(Records)
        BY <1>8, <4>1 DEF FilesOK, Segments
      <4> QED BY <4>1, <4>2
    <3> QED BY <1>4, <1>9, <3>1 DEF ReaderOK
  <2> QED BY <2>1, <2>2, <2>3 DEF LogOK
<1>11. SameAll
  <2>1. ASSUME NEW s \in Nat, NEW i \in Nat, NEW m \in Items, Held(files', Cursor', s, i, m)
        PROVE  Held(files, Cursor, s, i, m)
    BY <1>2, <1>5, <2>1 DEF Held, Segments
  <2>2. ASSUME NEW s \in Nat, NEW i \in Nat, NEW m \in Items, Held(files, Cursor, s, i, m)
        PROVE  Held(files', Cursor', s, i, m)
    <3>1. s # lo
      BY <1>6, <2>2
    <3>2. s \in Segments' /\ i > 0
      BY <1>5, <2>2, <3>1 DEF Held, Segments
    <3> QED BY <1>5, <1>9, <2>2, <3>2 DEF Held, Segments
  <2> QED BY <2>1, <2>2 DEF SameAll
<1>12. DOMAIN synced' = Segments' /\ \A s \in Segments' : synced'[s] = synced[s] /\ s \in Segments
  BY <1>5 DEF Segments
<1> QED BY <1>4, <1>5, <1>10, <1>11, <1>12, NothingNew

(* The stored offset named no segment any more. *)
LEMMA ResetOffsetStep ==
    ASSUME Sound, up, ResetOffset, synced' = [s \in DOMAIN files' |-> synced[s]],
           UNCHANGED <<dirty, since, firm, process, got>>
    PROVE  Sound' /\ QueueStep
<1>0. LogOK /\ Safe
  BY DEF Sound
<1>1. Segments \subseteq Nat \ {0}
  BY <1>0, CursorIs
<1>2. rpc = "reset" /\ reader = 0 /\ stored.seg \notin Segments
  BY <1>0 DEF ResetOffset, LogOK, OffsetOK, ReaderOK
<1>3. /\ stored' = NoOffset /\ rpc' = "again" /\ files' = files /\ writer' = writer
      /\ reader' = 0 /\ pos' = pos /\ Segments' = Segments
      /\ up' = up /\ since' = since /\ dirty' = dirty /\ firm' = firm /\ got' = got /\ next' = next
  BY <1>2 DEF ResetOffset, OffsetReset, process, Segments
<1>4. Cursor' = Cursor
  BY <1>1, <1>2, <1>3 DEF Cursor, FirstSegment, NoOffset, Nowhere, Segments
<1>5. LogOK'
  <2>1. Segmented'
    BY <1>0, <1>3 DEF LogOK, Segmented
  <2>2. OffsetOK'
    BY <1>1, <1>3 DEF OffsetOK, NoOffset
  <2>3. ReaderOK'
    BY <1>0, <1>3, <1>4 DEF LogOK, ReaderOK
  <2> QED BY <2>1, <2>2, <2>3 DEF LogOK
<1>6. SameAll
  BY <1>3, <1>4 DEF SameAll
<1>7. DOMAIN synced' = Segments' /\ \A s \in Segments' : synced'[s] = synced[s] /\ s \in Segments
  BY <1>3 DEF Segments
<1> QED BY <1>3, <1>5, <1>6, <1>7, NothingNew

LEMMA SeekStep ==
    ASSUME Sound, Seek
    PROVE  Sound' /\ QueueStep
<1>1. /\ up /\ synced' = [s \in DOMAIN files' |-> synced[s]]
      /\ UNCHANGED <<dirty, since, firm, process, got>>
      /\ ReadNothing \/ RemoveSegment \/ ResetOffset
  BY DEF Seek
<1> QED BY <1>1, ReadNothingStep, RemoveSegmentStep, ResetOffsetStep

-----------------------------------------------------------------------------
(* Syncs. *)

LEMMA SyncWriterIs ==
    ASSUME Sound, SyncWriter
    PROVE  /\ DOMAIN synced' = Segments
           /\ \A s \in Segments : synced'[s] \in Nat /\ synced'[s] <= Len(files[s])
           /\ firm \subseteq firm' /\ firm' \subseteq Unread
           /\ \A s, i \in Nat, m \in Items : Held(files, Cursor, s, i, m) =>
                 /\ m \in firm' => i <= synced'[s]
                 /\ m >= since => i <= synced'[s]
<1>0. LogOK /\ Numbered /\ Safe
  BY DEF Sound
<1>1. /\ writer # 0 /\ writer \in Segments /\ dirty /\ up
      /\ firm' = firm \cup ((since..next - 1) \cap Unread)
  BY <1>0 DEF SyncWriter, LogOK, Segmented, ReaderOK
<1>2. /\ DOMAIN synced' = Segments
      /\ \A s \in Segments : synced'[s] = IF s = writer THEN Len(files[s]) ELSE synced[s]
  <2>1. DOMAIN synced = Segments
    BY <1>0 DEF Safe
  <2>2. synced' = [synced EXCEPT ![writer] = Len(files[writer])]
    BY DEF SyncWriter
  <2> QED BY <1>1, <2>1, <2>2
<1>3. \A s \in Segments : /\ Len(files[s]) \in Nat
                          /\ synced[s] \in Nat /\ synced[s] <= Len(files[s])
  <2>1. \A s \in Segments : files[s] \in Seq(Records)
    BY <1>0 DEF LogOK, Segmented, FilesOK, Segments
  <2> QED BY <1>0, <2>1 DEF Safe
<1>4. ASSUME NEW s \in Segments
      PROVE  synced'[s] \in Nat /\ synced'[s] <= Len(files[s]) /\ synced[s] <= synced'[s]
  <2>1. CASE s = writer
    <3>1. synced'[s] = Len(files[s])
      BY <1>2, <1>4, <2>1
    <3> QED BY <1>3, <1>4, <3>1
  <2>2. CASE s # writer
    <3>1. synced'[s] = synced[s]
      BY <1>2, <1>4, <2>2
    <3> QED BY <1>3, <1>4, <3>1
  <2> QED BY <2>1, <2>2
<1>5. ASSUME NEW s \in Nat, NEW i \in Nat, NEW m \in Items, Held(files, Cursor, s, i, m)
      PROVE  /\ m \in firm => i <= synced'[s]
             /\ m >= since => i <= synced'[s]
  <2>1. s \in Segments /\ i \in 1..Len(files[s])
    BY <1>5 DEF Held, Segments
  <2>2. /\ m \in firm => i <= synced[s]
        /\ m >= since => i <= synced[s] \/ (s = writer /\ dirty)
    BY <1>0, <1>1, <1>5 DEF Safe
  <2>3. CASE i <= synced[s]
    BY <1>3, <1>4, <2>1, <2>3
  <2>4. CASE s = writer
    <3>1. synced'[s] = Len(files[s])
      BY <1>1, <1>2, <2>4
    <3> QED BY <2>1, <3>1
  <2> QED BY <2>2, <2>3, <2>4
<1>6. \A m \in firm' : m \in firm \/ m >= since
  BY <1>0, <1>1 DEF Numbered
<1>7. firm \subseteq firm' /\ firm' \subseteq Unread
  BY <1>0, <1>1 DEF Safe
<1> QED BY <1>2, <1>4, <1>5, <1>6, <1>7

LEMMA SyncKeeps ==
    ASSUME Sound, SyncWriter, LogOK', SameAll, files' = files, got' = got, next' = next,
           since' \in Nat, up' => since' = since
    PROVE  Sound' /\ QueueStep
<1>0. LogOK /\ Numbered /\ Safe
  BY DEF Sound
<1>1. /\ DOMAIN synced' = Segments
      /\ \A s \in Segments : synced'[s] \in Nat /\ synced'[s] <= Len(files[s])
      /\ firm \subseteq firm' /\ firm' \subseteq Unread
      /\ \A s, i \in Nat, m \in Items : Held(files, Cursor, s, i, m) =>
            /\ m \in firm' => i <= synced'[s]
            /\ m >= since => i <= synced'[s]
  BY SyncWriterIs
<1>2. Remain /\ Unread' = Unread
  BY <1>0, SameAllIs
<1>3. Numbered'
  BY <1>0, <1>2, NumbersRemain
<1>4. Segments' = Segments
  BY DEF Segments
<1>5. \A s, i \in Nat, m \in Items : Held(files, Cursor, s, i, m)' =>
         /\ m \in firm' => i <= synced'[s]
         /\ up' /\ m >= since' => i <= synced'[s] \/ (s = writer' /\ dirty')
  <2>1. ASSUME NEW s \in Nat, NEW i \in Nat, NEW m \in Items, Held(files', Cursor', s, i, m)
        PROVE  /\ m \in firm' => i <= synced'[s]
               /\ up' /\ m >= since' => i <= synced'[s] \/ (s = writer' /\ dirty')
    <3>1. Held(files, Cursor, s, i, m)
      BY <1>2, <2>1 DEF Remain
    <3> QED BY <1>1, <3>1
  <2> QED BY <2>1 DEF Held, Items
<1>6. Safe'
  BY <1>1, <1>2, <1>4, <1>5 DEF Safe, Items
<1>7. Stays
  BY <1>1, <1>2 DEF Stays
<1> QED BY <1>3, <1>6, <1>7 DEF Sound, QueueStep

LEMMA FsyncStep ==
    ASSUME Sound, Fsync
    PROVE  Sound' /\ QueueStep
<1>0. LogOK /\ Numbered
  BY DEF Sound
<1>1. /\ SyncWriter /\ files' = files /\ stored' = stored /\ writer' = writer
      /\ reader' = reader /\ pos' = pos /\ rpc' = rpc
      /\ since' = since /\ up' = up /\ got' = got /\ next' = next
  BY DEF Fsync, wal, process
<1>2. Cursor' = Cursor /\ Resume' = Resume /\ Segments' = Segments
  BY <1>1 DEF Cursor, Resume, FirstSegment, Segments
<1>3. LogOK'
  <2>1. Segmented'
    BY <1>0, <1>1, <1>2 DEF LogOK, Segmented
  <2>2. OffsetOK'
    BY <1>0, <1>1, <1>2 DEF LogOK, OffsetOK
  <2>3. ReaderOK'
    BY <1>0, <1>1, <1>2 DEF LogOK, ReaderOK
  <2> QED BY <2>1, <2>2, <2>3 DEF LogOK
<1>4. SameAll
  BY <1>1, <1>2 DEF SameAll
<1>5. since' \in Nat
  BY <1>0, <1>1 DEF Numbered
<1> QED BY <1>1, <1>3, <1>4, <1>5, SyncKeeps

-----------------------------------------------------------------------------
(* Stops.  What the stored offset names is read on from: nothing is        *)
(* forgotten and nothing read twice.                                       *)

LEMMA DownIs ==
    ASSUME Down
    PROVE  /\ up' = FALSE /\ rpc' = "idle" /\ writer' = 0 /\ reader' = 0 /\ pos' = 0
           /\ since' = 1 /\ got' = got /\ Cursor' = Resume'
<1>1. up' = FALSE /\ rpc' = "idle" /\ writer' = 0 /\ reader' = 0 /\ pos' = 0 /\ since' = 1 /\ got' = got
  BY DEF Down
<1> QED BY <1>1, Opened

LEMMA Stops ==
    ASSUME LogOK, rpc # "reset", Down, files' = files, stored' = stored
    PROVE  LogOK' /\ SameAll
<1>1. /\ up' = FALSE /\ rpc' = "idle" /\ writer' = 0 /\ reader' = 0 /\ pos' = 0
      /\ Cursor' = Resume' /\ Resume' = Resume /\ Segments' = Segments
  BY DownIs DEF Resume, Segments
<1>2. Segmented'
  BY <1>1 DEF LogOK, Segmented
<1>3. OffsetOK'
  BY <1>1 DEF LogOK, OffsetOK
<1>4. ReaderOK'
  BY <1>1 DEF ReaderOK
<1>5. SameAll
  BY <1>1, ResumeHeld DEF SameAll
<1> QED BY <1>2, <1>3, <1>4, <1>5 DEF LogOK

LEMMA HaltStep ==
    ASSUME Sound, Halt, OffsetSound'
    PROVE  Sound' /\ QueueStep
<1>0. LogOK /\ Safe
  BY DEF Sound
<1>1. /\ Down /\ files' = files /\ stored' = stored /\ synced' = synced /\ firm' = firm /\ next' = next
  BY DEF Halt, disk
<1>2. rpc # "reset"
  <2>1. rpc = "reset" => "remove" \in torn'
    BY DEF Halt, Tear
  <2> QED BY <2>1 DEF OffsetSound
<1>3. up' = FALSE /\ since' = 1 /\ got' = got
  BY <1>1, DownIs
<1>4. LogOK' /\ SameAll
  BY <1>0, <1>1, <1>2, Stops
<1>5. DOMAIN synced' = Segments' /\ \A s \in Segments' : synced'[s] = synced[s] /\ s \in Segments
  BY <1>0, <1>1 DEF Safe, Segments
<1> QED BY <1>1, <1>3, <1>4, <1>5, NothingNew

LEMMA CloseStep ==
    ASSUME Sound, Close
    PROVE  Sound' /\ QueueStep
<1>0. LogOK
  BY DEF Sound
<1>1. SyncWriter /\ Down /\ files' = files /\ stored' = stored /\ next' = next /\ rpc # "reset"
  BY DEF Close, disk, SyncWriter
<1>2. up' = FALSE /\ since' = 1 /\ got' = got
  BY <1>1, DownIs
<1>3. LogOK' /\ SameAll
  BY <1>0, <1>1, Stops
<1> QED BY <1>1, <1>2, <1>3, SyncKeeps

LEMMA HaltInAppendStep ==
    ASSUME Sound, HaltInAppend
    PROVE  Sound' /\ QueueStep
<1>0. LogOK /\ Numbered /\ Safe
  BY DEF Sound
<1>1. PICK recs : recs \in {<<>>, <<Cut>>, <<Torn>>} /\ files' = Put(recs)
  BY DEF HaltInAppend
<1>2. /\ Down /\ rpc = "idle" /\ stored' = stored /\ firm' = firm /\ next' = next + 1
      /\ synced' = SyncFull(DOMAIN files')
  BY DEF HaltInAppend
<1>3. /\ up' = FALSE /\ rpc' = "idle" /\ writer' = 0 /\ reader' = 0 /\ pos' = 0
      /\ since' = 1 /\ got' = got /\ Cursor' = Resume' /\ Resume' = StartOf(files', stored)
  BY <1>2, DownIs DEF Resume
<1>4. recs \in ShortRecs
  BY <1>1, TornRecs
<1>5. PICK T \in Nat \ {0} :
         /\ T = Target /\ PutInto(files, T, recs, files') /\ FilesOK(files')
         /\ EndOf(files, T) \in Nat /\ Segments' = Segments \cup {T}
         /\ \A s \in Segments : s <= T
         /\ T \in Segments => T = writer
         /\ T \in Segments /\ T = Cursor.seg => Cursor.pos <= EndOf(files, T)
         /\ IF Segments = {} THEN StartOf(files', stored) = [seg |-> T, pos |-> 0]
                             ELSE StartOf(files', stored) = Resume
  BY <1>0, <1>1, <1>2, <1>4, PutLog
<1>6. /\ Cursor \in Offsets /\ Resume \in Offsets /\ Segments \subseteq Nat \ {0}
      /\ Segments # {} => Cursor.seg \in Segments
      /\ Cursor.seg = Resume.seg /\ Resume.pos <= Cursor.pos
  BY <1>0, CursorIs
<1>7. Cursor' \in Offsets /\ (T = Cursor'.seg => Cursor'.pos <= EndOf(files, T))
  <2>1. CASE Segments = {}
    BY <1>3, <1>5, <2>1 DEF Offsets
  <2>2. CASE Segments # {}
    <3>1. Cursor' = Resume
      BY <1>3, <1>5, <2>2
    <3>2. T = Resume.seg => Cursor.pos <= EndOf(files, T)
      BY <1>5, <1>6, <2>2
    <3>3. Resume.pos \in Nat /\ Cursor.pos \in Nat
      BY <1>6 DEF Offsets
    <3> QED BY <1>5, <1>6, <3>1, <3>2, <3>3
  <2> QED BY <2>1, <2>2
<1>8. LogOK'
  <2>1. Segmented'
    BY <1>3, <1>5 DEF Segmented
  <2>2. OffsetOK'
    <3>1. CASE stored.seg \in Segments
      <4>1. stored.seg \in Segments' /\ \A s \in Segments' : stored.seg <= s
        BY <1>0, <1>5, <3>1 DEF OffsetOK, LogOK
      <4> QED BY <1>0, <1>2, <1>3, <4>1 DEF OffsetOK, LogOK
    <3>2. CASE stored.seg \notin Segments
      <4>1. stored = NoOffset /\ stored.seg \notin Segments'
        BY <1>0, <1>2, <1>5, <1>6, <3>2 DEF OffsetOK, NoOffset, LogOK
      <4> QED BY <1>0, <1>2, <1>3, <4>1 DEF OffsetOK, LogOK
    <3> QED BY <3>1, <3>2
  <2>3. ReaderOK'
    BY <1>3 DEF ReaderOK
  <2> QED BY <2>1, <2>2, <2>3 DEF LogOK
<1>9. SameAll
  <2>1. PICK f, g, c, d : f = files /\ g = files' /\ c = Resume /\ d = Cursor'
    OBVIOUS
  <2>2. c \in Offsets /\ d \in Offsets /\ (DOMAIN f # {} => d = c)
    BY <1>3, <1>5, <1>6, <1>7, <2>1 DEF Segments
  <2>3. PutInto(f, T, recs, g) /\ EndOf(f, T) \in Nat /\ (T = d.seg => d.pos <= EndOf(f, T))
    BY <1>5, <1>7, <2>1
  <2>4. HeldToo(f, c, g, d, T, recs)
    BY <2>2, <2>3, HeldAfterPut
  <2>5. \A s, i \in Nat, m \in Items : Held(g, d, s, i, m) <=> Held(f, c, s, i, m)
    BY <1>1, <2>3, <2>4, TornPut DEF HeldToo
  <2> QED BY <1>0, <2>1, <2>5, ResumeHeld DEF SameAll
<1>10. Remain /\ Unread' = Unread
  BY <1>0, <1>8, <1>9, SameAllIs
<1>11. Numbered'
  BY <1>0, <1>2, <1>3, <1>8, <1>10, NumbersRemain
<1>12. Safe'
  <2>1. firm \subseteq Unread'
    BY <1>0, <1>10 DEF Safe
  <2> QED BY <1>0, <1>2, <1>3, <1>5, <1>8, <1>10, <2>1, SafeAfterPut DEF Remain
<1>13. Stays
  BY <1>2, <1>3, <1>10 DEF Stays
<1> QED BY <1>8, <1>11, <1>12, <1>13 DEF Sound, QueueStep

Joined(s, t, u) ==
    /\ Len(u) = Len(s) + Len(t)
    /\ \A i \in 1..Len(s) : u[i] = s[i]
    /\ \A i \in Len(s) + 1..Len(u) : u[i] = t[i - Len(s)] /\ i - Len(s) \in 1..Len(t)

LEMMA ConcatIs ==
    ASSUME NEW S, NEW s \in Seq(S), NEW t \in Seq(S)
    PROVE  s \o t \in Seq(S) /\ Joined(s, t, s \o t)
<1> DEFINE u == s \o t
<1>1. /\ u \in Seq(S) /\ Len(u) = Len(s) + Len(t) /\ Len(s) \in Nat /\ Len(t) \in Nat
      /\ \A i \in 1..Len(s) : u[i] = s[i]
      /\ \A i \in Len(s) + 1..Len(u) : u[i] = t[i - Len(s)] /\ i - Len(s) \in 1..Len(t)
  OBVIOUS
<1> QED BY <1>1 DEF Joined

(* What is left of a segment whose end was not synced: its beginning, and  *)
(* nothing else that can be read.                                          *)
Beginning(f, k, tail) == IF k = Len(f) THEN f ELSE SubSeq(f, 1, k) \o tail

Left(f, k, g) ==
    /\ g \in Seq(Records) /\ Len(g) \in Nat
    /\ \A i \in 1..k : i \in 1..Len(g) /\ g[i] = f[i]
    /\ \A i \in 1..Len(g) : g[i] \in Items => i \in 1..Len(f) /\ g[i] = f[i]

LEMMA CutOff ==
    ASSUME NEW f \in Seq(Records), NEW k \in Nat, k <= Len(f),
           NEW tail \in {<<>>, <<Cut>>, <<Torn>>}, NEW g, g = Beginning(f, k, tail)
    PROVE  Left(f, k, g)
<1>0. g = IF k = Len(f) THEN f ELSE SubSeq(f, 1, k) \o tail
  BY DEF Beginning
<1>1. CASE k = Len(f)
  <2>1. g = f
    BY <1>0, <1>1
  <2> QED BY <1>1, <2>1 DEF Left
<1>2. CASE k # Len(f)
  <2>1. PICK b : b = SubSeq(f, 1, k)
    OBVIOUS
  <2>2. b \in Seq(Records) /\ Len(b) = k /\ \A i \in 1..k : b[i] = f[i] /\ i \in 1..Len(f)
    BY <2>1
  <2>3. /\ tail \in Seq({Cut, Torn}) /\ tail \in Seq(Records) /\ Len(tail) \in Nat
        /\ \A i \in 1..Len(tail) : tail[i] \in {Cut, Torn}
    <3>1. <<>> \in Seq({Cut, Torn}) /\ <<Cut>> \in Seq({Cut, Torn}) /\ <<Torn>> \in Seq({Cut, Torn})
      OBVIOUS
    <3>2. {Cut, Torn} \subseteq Records
      BY DEF Records
    <3>3. tail \in Seq({Cut, Torn})
      BY <3>1
    <3> QED BY <3>2, <3>3
  <2>4. g = b \o tail
    BY <1>0, <1>2, <2>1
  <2>5. /\ g \in Seq(Records) /\ Len(g) = k + Len(tail)
        /\ \A i \in 1..k : g[i] = b[i]
        /\ \A i \in k + 1..Len(g) : g[i] = tail[i - k] /\ i - k \in 1..Len(tail)
    <3>1. g \in Seq(Records) /\ Joined(b, tail, g)
      BY <2>2, <2>3, <2>4, ConcatIs
    <3> QED BY <2>2, <3>1 DEF Joined
  <2>6. ASSUME NEW i \in 1..Len(g), g[i] \in Items
        PROVE  i \in 1..k
    <3>1. CASE i \in k + 1..Len(g)
      <4>1. g[i] \in {Cut, Torn}
        BY <2>3, <2>5, <3>1
      <4> QED BY <2>6, <4>1, NotItems
    <3>2. CASE i \notin k + 1..Len(g)
      BY <2>5, <2>6, <3>2
    <3> QED BY <3>1, <3>2
  <2>7. \A i \in 1..k : i \in 1..Len(g)
    BY <2>3, <2>5
  <2>8. Len(g) \in Nat
    BY <2>5
  <2>9. \A i \in 1..k : g[i] = f[i]
    BY <2>2, <2>5
  <2> QED BY <2>2, <2>5, <2>6, <2>7, <2>8, <2>9 DEF Left
<1> QED BY <1>1, <1>2

LEMMA PowerFailsStep ==
    ASSUME Sound, PowerFails
    PROVE  Sound' /\ QueueStep
<1>0. LogOK /\ Numbered /\ Safe
  BY DEF Sound
<1>1. PICK n, tail :
         /\ n \in [Segments -> 0..SegCap + 1] /\ tail \in {<<>>, <<Cut>>, <<Torn>>}
         /\ \A s \in Segments : n[s] \in Keep(s)
         /\ files' = [s \in Segments |->
               IF n[s] = Len(files[s]) THEN files[s] ELSE SubSeq(files[s], 1, n[s]) \o tail]
  BY DEF PowerFails
<1>2. /\ Down /\ rpc = "idle" /\ stored' = stored /\ firm' = firm /\ next' = next
      /\ synced' = [s \in Segments |-> Len(files'[s])]
  BY DEF PowerFails
<1>3. /\ up' = FALSE /\ rpc' = "idle" /\ writer' = 0 /\ reader' = 0 /\ pos' = 0
      /\ since' = 1 /\ got' = got /\ Cursor' = Resume'
  BY <1>2, DownIs
<1>4. Segments' = Segments /\ DOMAIN files' = Segments /\ DOMAIN synced' = Segments
  BY <1>1, <1>2 DEF Segments
<1>5. ASSUME NEW s \in Segments
      PROVE  /\ files'[s] \in Seq(Records) /\ Len(files'[s]) \in Nat
             /\ \A i \in 1..synced[s] : i \in 1..Len(files'[s]) /\ files'[s][i] = files[s][i]
             /\ \A i \in 1..Len(files'[s]) : files'[s][i] \in Items =>
                   i \in 1..Len(files[s]) /\ files'[s][i] = files[s][i]
  <2>1. PICK f, g, k, y : f = files[s] /\ g = files'[s] /\ k = n[s] /\ y = synced[s]
    OBVIOUS
  <2>2. f \in Seq(Records)
    BY <1>0, <1>5, <2>1 DEF LogOK, Segmented, FilesOK, Segments
  <2>3. y \in Nat /\ k \in y..Len(f)
    BY <1>0, <1>1, <1>5, <2>1 DEF Safe, Keep
  <2>4. k \in Nat /\ k <= Len(f) /\ y <= k
    BY <2>2, <2>3
  <2>5. g = Beginning(f, k, tail)
    BY <1>1, <1>5, <2>1 DEF Beginning
  <2>6. Left(f, k, g)
    BY <1>1, <2>2, <2>4, <2>5, CutOff
  <2>7. \A i \in 1..y : i \in 1..k
    BY <2>3, <2>4
  <2> QED BY <2>1, <2>6, <2>7 DEF Left
<1>6. Resume' = Resume
  BY <1>2, <1>4 DEF Resume, StartOf, Segments
<1>7. LogOK'
  <2>1. Segmented'
    <3>1. FilesOK(files')
      <4>1. \E lo \in Nat \ {0}, hi \in Nat : DOMAIN files' = lo..hi
        BY <1>0, <1>4 DEF LogOK, Segmented, FilesOK, Segments
      <4>2. files' = [s \in DOMAIN files' |-> files'[s]]
        BY <1>1
      <4> QED BY <1>4, <1>5, <4>1, <4>2 DEF FilesOK
    <3> QED BY <1>3, <3>1 DEF Segmented
  <2>2. OffsetOK'
    BY <1>0, <1>2, <1>3, <1>4 DEF LogOK, OffsetOK
  <2>3. ReaderOK'
    BY <1>3 DEF ReaderOK
  <2> QED BY <2>1, <2>2, <2>3 DEF LogOK
<1>8. Remain
  <2>1. ASSUME NEW s \in Nat, NEW i \in Nat, NEW m \in Items, Held(files', Resume, s, i, m)
        PROVE  Held(files, Resume, s, i, m)
    <3>1. s \in Segments /\ i \in 1..Len(files'[s]) /\ files'[s][i] = m /\ (s = Resume.seg => i > Resume.pos)
      BY <1>4, <2>1 DEF Held
    <3>2. i \in 1..Len(files[s]) /\ files[s][i] = m
      BY <1>5, <3>1
    <3> QED BY <3>1, <3>2 DEF Held, Segments
  <2> QED BY <1>0, <1>3, <1>6, <2>1, ResumeHeld DEF Remain
<1>9. firm \subseteq Unread'
  <2>1. SUFFICES ASSUME NEW m \in firm PROVE m \in Unread'
    OBVIOUS
  <2>2. m \in Items
    BY <1>0, UnreadIs DEF Safe, UnreadOf
  <2>3. PICK s \in Nat, i \in Nat : Held(files, Cursor, s, i, m)
    BY <1>0, UnreadIs DEF Safe, UnreadOf
  <2>4. i <= synced[s] /\ Held(files, Resume, s, i, m)
    BY <1>0, <2>2, <2>3, ResumeHeld DEF Safe
  <2>5. s \in Segments /\ i \in 1..Len(files[s]) /\ files[s][i] = m /\ (s = Resume.seg => i > Resume.pos)
    BY <2>4 DEF Held, Segments
  <2>6. synced[s] \in Nat /\ i \in 1..synced[s]
    BY <1>0, <2>4, <2>5 DEF Safe
  <2>7. i \in 1..Len(files'[s]) /\ files'[s][i] = m
    BY <1>5, <2>5, <2>6
  <2>8. Held(files', Cursor', s, i, m)
    BY <1>3, <1>4, <1>6, <2>2, <2>5, <2>7 DEF Held
  <2> QED BY <1>7, <2>2, <2>8, UnreadNext DEF UnreadOf
<1>10. Numbered'
  BY <1>0, <1>2, <1>3, <1>7, <1>8, NumbersRemain
<1>11. Safe'
  <2>1. \A s \in Segments : synced'[s] = Len(files'[s])
    BY <1>2
  <2>2. ASSUME NEW s \in Nat, NEW i \in Nat, NEW m \in Items, Held(files', Cursor', s, i, m)
        PROVE  i <= synced'[s]
    <3>1. s \in Segments /\ i \in 1..Len(files'[s])
      BY <1>4, <2>2 DEF Held
    <3> QED BY <1>5, <2>1, <3>1
  <2>3. \A s, i \in Nat, m \in Items : Held(files, Cursor, s, i, m)' => i <= synced'[s]
    BY <2>2 DEF Held, Items
  <2>4. \A s \in Segments : synced'[s] \in Nat /\ synced'[s] <= Len(files'[s])
    BY <1>5, <2>1
  <2> QED BY <1>2, <1>4, <1>9, <2>3, <2>4 DEF Safe, Items
<1>12. Loses
  <2>1. halts' = halts + 1 /\ "power" \in torn'
    BY DEF PowerFails, Down, Tear
  <2> QED BY <1>0, <1>2, <1>3, <1>7, <1>8, <2>1, RemainIs DEF Loses
<1> QED BY <1>7, <1>10, <1>11, <1>12 DEF Sound, QueueStep

-----------------------------------------------------------------------------
(* NewDiskWAL on what is left. *)

LEMMA RestartStep ==
    ASSUME Sound, Restart
    PROVE  Sound' /\ QueueStep
<1>0. LogOK /\ Numbered /\ Safe
  BY DEF Sound
<1>1. /\ Cursor \in Offsets /\ Resume \in Offsets /\ Segments \subseteq Nat \ {0}
      /\ Segments = {} => Cursor = NoOffset
      /\ Segments # {} => Cursor.seg \in Segments /\ \A s \in Segments : Cursor.seg <= s
  BY <1>0, CursorIs
<1>2. /\ ~up /\ reader = 0 /\ writer = 0 /\ rpc = "idle"
      /\ files' = files /\ stored' = stored /\ synced' = synced /\ firm' = firm /\ writer' = writer
      /\ rpc' = rpc /\ next' = next /\ got' = got /\ since' = next /\ up' = TRUE
      /\ reader' = Cursor.seg /\ pos' = Cursor.pos /\ Segments' = Segments
  BY <1>0 DEF Restart, SeekTo, disk, LogOK, ReaderOK, Segments
<1>3. Cursor = Resume /\ Resume' = Resume
  BY <1>0, <1>2, CursorIs DEF Resume
<1>4. Cursor' = Cursor
  <2>1. CASE Segments = {}
    <3>1. Cursor.seg = 0
      BY <1>1, <2>1 DEF NoOffset
    <3> QED BY <1>2, <1>3, <3>1, Opened
  <2>2. CASE Segments # {}
    <3>1. Cursor.seg # 0
      BY <1>1, <2>2
    <3> QED BY <1>1, <1>2, <3>1, Opened DEF Offsets
  <2> QED BY <2>1, <2>2
<1>5. LogOK'
  <2>1. Segmented'
    BY <1>0, <1>2 DEF LogOK, Segmented
  <2>2. OffsetOK'
    BY <1>0, <1>2 DEF LogOK, OffsetOK
  <2>3. ReaderOK'
    <3>1. Cursor.seg # 0 => Segments # {}
      BY <1>1 DEF NoOffset
    <3>2. Resume.pos \in Nat /\ Cursor.pos \in Nat /\ Resume.pos = Cursor.pos
      BY <1>1, <1>3 DEF Offsets
    <3>3. \A i \in Nat : ~(Resume.pos < i /\ i <= Cursor.pos)
      BY <3>2
    <3> QED BY <1>1, <1>2, <1>3, <3>1, <3>2, <3>3 DEF ReaderOK
  <2> QED BY <2>1, <2>2, <2>3 DEF LogOK
<1>6. SameAll
  BY <1>2, <1>4 DEF SameAll
<1>7. Remain /\ Unread' = Unread
  BY <1>0, <1>5, <1>6, SameAllIs
<1>8. Numbered'
  <2>1. since' \in Nat
    BY <1>0, <1>2 DEF Numbered
  <2> QED BY <1>0, <1>2, <1>5, <1>7, <2>1, NumbersRemain
<1>9. Safe'
  <2>1. ASSUME NEW s \in Nat, NEW i \in Nat, NEW m \in Items, Held(files', Cursor', s, i, m)
        PROVE  (m \in firm => i <= synced[s]) /\ ~(m >= since')
    <3>1. Held(files, Cursor, s, i, m)
      BY <1>7, <2>1 DEF Remain
    <3>2. m \in Unread
      BY <1>0, <3>1, UnreadIs DEF UnreadOf
    <3>3. m < next /\ m \in Nat /\ next \in Nat
      BY <1>0, <3>2, NotItems DEF Numbered
    <3> QED BY <1>0, <1>2, <3>1, <3>3 DEF Safe
  <2>2. \A s, i \in Nat, m \in Items : Held(files, Cursor, s, i, m)' =>
           (m \in firm => i <= synced[s]) /\ ~(m >= since')
    BY <2>1 DEF Held, Items
  <2> QED BY <1>0, <1>2, <1>7, <2>2 DEF Safe, Items
<1>10. Stays
  BY <1>2, <1>7 DEF Stays
<1> QED BY <1>5, <1>8, <1>9, <1>10 DEF Sound, QueueStep

(* A step that leaves the log alone: a stutter, or drainLoop wakes up. *)
LEMMA StutterStep ==
    ASSUME Sound, UNCHANGED <<wal, durable, process, got>>
    PROVE  Sound' /\ QueueStep
<1>0. LogOK /\ Numbered /\ Safe
  BY DEF Sound
<1>1. /\ files' = files /\ stored' = stored /\ writer' = writer /\ reader' = reader /\ pos' = pos
      /\ rpc' = rpc /\ synced' = synced /\ dirty' = dirty /\ since' = since /\ firm' = firm
      /\ up' = up /\ next' = next /\ got' = got
  BY DEF wal, durable, process
<1>2. Cursor' = Cursor /\ Resume' = Resume /\ Segments' = Segments
  BY <1>1 DEF Cursor, Resume, FirstSegment, Segments
<1>3. LogOK'
  <2>1. Segmented'
    BY <1>0, <1>1, <1>2 DEF LogOK, Segmented
  <2>2. OffsetOK'
    BY <1>0, <1>1, <1>2 DEF LogOK, OffsetOK
  <2>3. ReaderOK'
    BY <1>0, <1>1, <1>2 DEF LogOK, ReaderOK
  <2> QED BY <2>1, <2>2, <2>3 DEF LogOK
<1>4. SameAll
  BY <1>1, <1>2 DEF SameAll
<1>5. DOMAIN synced' = Segments' /\ \A s \in Segments' : synced'[s] = synced[s] /\ s \in Segments
  BY <1>0, <1>1, <1>2 DEF Safe
<1>6. since' \in Nat
  BY <1>0, <1>1 DEF Numbered
<1> QED BY <1>1, <1>3, <1>4, <1>5, <1>6, NothingNew

-----------------------------------------------------------------------------
(* The invariant, and the queue. *)

LEMMA InitInvariant == Init => IInv
<1> SUFFICES ASSUME Init PROVE Sound
  <2>1. Init => halts \in Nat
    BY DEF Init
  <2> QED BY <2>1 DEF IInv
<1>1. /\ files = <<>> /\ stored = NoOffset /\ writer = 0 /\ reader = 0 /\ pos = 0 /\ rpc = "idle"
      /\ synced = <<>> /\ up = TRUE /\ next = 1 /\ since = 1 /\ firm = {} /\ got = <<>>
  BY DEF Init, WALInit
<1>2. Segments = {} /\ DOMAIN synced = {}
  BY <1>1 DEF Segments
<1>3. Segmented
  <2>1. files = [s \in DOMAIN files |-> files[s]]
    BY <1>1
  <2>2. {} = 1..0
    OBVIOUS
  <2> QED BY <1>1, <1>2, <2>1, <2>2 DEF Segmented, FilesOK, Segments
<1>4. OffsetOK
  BY <1>1, <1>2 DEF OffsetOK, NoOffset
<1>5. ReaderOK
  BY <1>1 DEF ReaderOK
<1>6. LogOK
  BY <1>3, <1>4, <1>5 DEF LogOK
<1>7. \A s, i \in Nat, m \in Items : ~Held(files, Cursor, s, i, m)
  BY <1>2 DEF Held, Segments
<1>8. Unread = {}
  BY <1>6, <1>7, UnreadIs DEF UnreadOf
<1>9. Numbered
  <2>1. ToSet(got) = {} /\ got \in Seq(Items)
    BY <1>1, ToSetEmpty
  <2> QED BY <1>1, <1>7, <1>8, <2>1 DEF Numbered, InOrder
<1>10. Safe
  BY <1>1, <1>2, <1>7 DEF Safe
<1> QED BY <1>6, <1>9, <1>10 DEF Sound

LEMMA Counted ==
    ASSUME [Next]_vars
    PROVE  torn \subseteq torn' /\ halts' \in {halts, halts + 1}
<1>1. torn \subseteq torn'
  BY DEF Next, AppendNext, WriteFails, Receive, Seek, Wake, Fsync, Halt, Close, PowerFails, HaltInAppend,
         HaltInOffset, Restart, Tear, vars, process
<1>2. halts' \in {halts, halts + 1}
  BY DEF Next, AppendNext, WriteFails, Receive, Seek, Wake, Fsync, Halt, Close, PowerFails, HaltInAppend,
         HaltInOffset, Restart, Down, vars, process
<1> QED BY <1>1, <1>2

(* Once the offset is wrong nothing is claimed any more. *)
LEMMA OffsetStaysWrong == [Next]_vars /\ OffsetSound' => OffsetSound
BY Counted DEF OffsetSound

LEMMA SoundStep == Sound /\ [Next]_vars /\ OffsetSound' => Sound' /\ QueueStep
<1> SUFFICES ASSUME Sound, [Next]_vars, OffsetSound' PROVE Sound' /\ QueueStep
  OBVIOUS
<1>1. ~HaltInOffset
  BY DEF HaltInOffset, Tear, OffsetSound
<1>2. Wake \/ UNCHANGED vars => UNCHANGED <<wal, durable, process, got>>
  BY DEF Wake, vars
<1> QED BY <1>1, <1>2, AppendNextStep, WriteFailsStep, ReceiveStep, SeekStep, FsyncStep, HaltStep, CloseStep,
           PowerFailsStep, HaltInAppendStep, RestartStep, StutterStep DEF Next

LEMMA StepInvariant == IInv /\ [Next]_vars => IInv'
<1>1. Sound /\ [Next]_vars /\ OffsetSound' => Sound'
  BY SoundStep
<1>2. (IInv <=> halts \in Nat /\ (OffsetSound => Sound))'
  <2>1. IInv <=> halts \in Nat /\ (OffsetSound => Sound)
    BY DEF IInv
  <2> QED BY <2>1, PTL
<1>3. halts \in Nat /\ [Next]_vars => halts' \in Nat
  BY Counted
<1> QED BY <1>1, <1>2, <1>3, OffsetStaysWrong DEF IInv

(* As long as no stop fell inside a deletion or a write of the offset file *)
(* (NewDiskWAL, ReadNext, Append): segments follow each other, the reader  *)
(* and the stored offset are in the first and nothing but cut records is   *)
(* between them, the messages left are in the order of their Appends and   *)
(* later than those read, and those that must survive a power failure are  *)
(* on the disk.                                                            *)
THEOREM Invariance == Spec => []IInv
BY InitInvariant, StepInvariant, PTL DEF Spec

LEMMA InitRefines == Init => Log!LogInit
<1> SUFFICES ASSUME Init PROVE Log!LogInit
  OBVIOUS
<1>1. OffsetSound /\ firm = {} /\ got = <<>> /\ files = <<>> /\ halts = 0
  BY DEF Init, WALInit, OffsetSound
<1>2. Unread = {}
  <2>1. Segments = {}
    BY <1>1 DEF Segments
  <2> QED BY <2>1 DEF Unread
<1> QED BY <1>1, <1>2 DEF Log!LogInit

(* What the queue of FifoLog is in the files. *)
LEMMA SoundRefines ==
    ASSUME Sound, Sound', OffsetSound, OffsetSound', QueueStep, [Next]_vars, halts \in Nat
    PROVE  Log!LogNext
<1> DEFINE q == IF OffsetSound THEN Unread ELSE {}
           f == IF OffsetSound THEN firm ELSE {}
           t == IF OffsetSound THEN got ELSE <<>>
           o == IF OffsetSound /\ "power" \in torn THEN halts ELSE 0
<1>1. q = Unread /\ q' = Unread' /\ f = firm /\ f' = firm' /\ t = got /\ t' = got'
  OBVIOUS
<1>2. firm' \subseteq Unread'
  BY DEF Sound, Safe
<1>3. ~(~OffsetSound) /\ (~OffsetSound)' = ~OffsetSound
  OBVIOUS
<1>4. /\ o' >= o
      /\ halts' = halts /\ torn' = torn => o' = o
      /\ halts' = halts + 1 /\ "power" \in torn' => o' > o
  <2>1. torn \subseteq torn' /\ halts' \in {halts, halts + 1}
    BY Counted
  <2> QED BY <2>1
<1> HIDE DEF q, f, t, o
<1>5. CASE Puts
  <2>1. PICK m \in Items : /\ \A x \in Unread \cup ToSet(got) : x < m
                           /\ Unread' = Unread \cup {m} /\ firm' = firm /\ got' = got
                           /\ halts' = halts /\ torn' = torn
    BY <1>5 DEF Puts
  <2>2. m \in 1..Messages
    BY DEF Items
  <2>3. \A x \in q \cup ToSet(t) : x < m
    BY <1>1, <2>1
  <2>4. q' = q \cup {m} /\ f \subseteq f' /\ f' \subseteq q' /\ t' = t /\ o' = o
    BY <1>1, <1>2, <1>4, <2>1
  <2>5. Log!Put(m)
    BY <1>3, <2>3, <2>4 DEF Log!Put, Log!Safer, Log!ToSet, ToSet, q, f, t, o
  <2> QED BY <1>3, <2>2, <2>5 DEF Log!LogNext
<1>6. CASE Takes
  <2>1. PICK m \in Unread : /\ \A x \in Unread : m <= x
                            /\ got' = Append(got, m)
                            /\ Unread' = Unread \ {m} /\ firm' = firm \ {m}
                            /\ halts' = halts /\ torn' = torn
    BY <1>6 DEF Takes
  <2>2. m \in q /\ \A x \in q : m <= x
    BY <1>1, <2>1
  <2>3. t' = Append(t, m) /\ q' = q \ {m} /\ f' = f \ {m} /\ o' = o
    BY <1>1, <1>4, <2>1
  <2>4. Log!Take
    BY <1>3, <2>2, <2>3 DEF Log!Take, q, f, t, o
  <2> QED BY <1>3, <2>4 DEF Log!LogNext
<1>7. CASE Stays
  <2>1. q' = q /\ f \subseteq f' /\ f' \subseteq q' /\ t' = t
    BY <1>1, <1>2, <1>7 DEF Stays
  <2>2. Log!Stay
    BY <1>3, <1>4, <2>1 DEF Log!Stay, Log!Safer, q, f, t, o
  <2> QED BY <1>3, <2>2 DEF Log!LogNext
<1>8. CASE Loses
  <2>1. q' \subseteq q /\ f \subseteq f' /\ f' \subseteq q' /\ t' = t /\ o' > o
    BY <1>1, <1>2, <1>8, <1>4 DEF Loses
  <2>2. Log!Lose
    BY <1>3, <2>1 DEF Log!Lose, Log!Safer, q, f, t, o
  <2> QED BY <1>3, <2>2 DEF Log!LogNext
<1> QED BY <1>5, <1>6, <1>8, <1>7 DEF QueueStep

LEMMA StepRefines == IInv /\ IInv' /\ [Next]_vars => [Log!LogNext]_Log!logVars
<1> SUFFICES ASSUME IInv, IInv', [Next]_vars PROVE [Log!LogNext]_Log!logVars
  OBVIOUS
<1>1. OffsetSound' => OffsetSound
  BY OffsetStaysWrong
<1>2. CASE OffsetSound'
  <2>1. Sound /\ Sound' /\ QueueStep /\ halts \in Nat
    BY <1>1, <1>2, SoundStep DEF IInv
  <2> QED BY <1>1, <1>2, <2>1, SoundRefines
<1>3. CASE OffsetSound /\ ~OffsetSound'
  <2>1. Log!Break
    BY <1>3 DEF Log!Break
  <2> QED BY <1>3, <2>1 DEF Log!LogNext
<1>4. CASE ~OffsetSound
  BY <1>1, <1>4 DEF Log!logVars
<1> QED BY <1>2, <1>3, <1>4

(* The log is a queue (Append, ReadNext, NewDiskWAL), however often and    *)
(* wherever the process stops: no record is skipped, taken twice or out of *)
(* order, and only a power failure takes any, none of them one that a sync *)
(* of the process that appended it came after.                             *)
THEOREM ImplementsQueue == Spec => IsQueue
<1>1. IInv /\ IInv' /\ [Next]_vars => [Log!LogNext]_Log!logVars
  BY StepRefines
<1> QED BY Invariance, InitRefines, <1>1, PTL DEF Spec, IsQueue, Log!LogSpec

-----------------------------------------------------------------------------
(* Sizes: what the counters of the log come to, also after a stop that     *)
(* tore the offset file.                                                   *)

Recs(f)     == UNION {{s} \X DOMAIN f[s] : s \in DOMAIN f}
WholeOf(b)  == {i \in DOMAIN b : b[i] \notin {Cut, Torn}}
Listed(f)   == \E hi \in Nat : DOMAIN f \subseteq 1..hi

Filed(f) ==
    /\ Listed(f) /\ IsFiniteSet(Recs(f))
    /\ \A s \in DOMAIN f : f[s] \in Seq(Records) /\ Cardinality(WholeOf(f[s])) <= SegCap

(* Only the log of the first process can slip, once.                       *)
Counts ==
    /\ total \in 0..MaxSize + Slip
    /\ FileSize <= MaxSize + Slip
    /\ up => total <= FileSize /\ FileSize <= total + Slip

(* The segment being written holds what currentSize says, or the rest of   *)
(* the failed write too.                                                   *)
Writes ==
    /\ writer = 0 \/ writer \in Segments
    /\ size \in Nat /\ size <= SegCap + Slip /\ (writer = 0 => size = 0)
    /\ writer # 0 => /\ Cardinality(WholeOf(files[writer])) <= size
                     /\ size <= Len(files[writer]) /\ Len(files[writer]) <= size + Slip

Reads ==
    /\ stored \in [seg : Nat \cup {-1}, pos : Nat]
    /\ reader = 0 \/ reader \in Segments
    /\ pos \in Nat /\ rpc \in {"idle", "reset", "again"}

Syncs == DOMAIN synced = Segments /\ \A s \in Segments : synced[s] \in 0..Len(files[s])

Plain ==
    /\ up \in BOOLEAN /\ dirty \in BOOLEAN
    /\ next \in 1..Messages + 1 /\ halts \in 0..Halts /\ torn \subseteq Tears
    /\ since \in 1..next /\ firm \subseteq 1..Messages
    /\ got \in Seq(1..Messages)

TInv == Filed(files) /\ Counts /\ Writes /\ Reads /\ Syncs /\ Plain

LEMMA MaxNat == MaxSize \in Nat /\ SegCap \in Nat \ {0} /\ Slip \in {0, 1}
BY WALAssumption DEF Slip

LEMMA InRecs ==
    ASSUME NEW f
    PROVE  \A x : x \in Recs(f) <=> \E s, i : s \in DOMAIN f /\ i \in DOMAIN f[s] /\ x = <<s, i>>
BY DEF Recs

LEMMA FileSizeIs == FileSize = Cardinality(Recs(files))
BY DEF FileSize, Recs, Segments

(* Min and Max of segments that need not follow each other.                *)
LEMMA Least ==
    ASSUME NEW T, T \subseteq Nat, T # {}
    PROVE  \E n \in T : \A m \in T : n <= m
<1> DEFINE R == OpToRel(<, Nat)
<1>1. \A m, n \in Nat : <<m, n>> \in R <=> m < n
  BY DEF OpToRel
<1>2. IsWellFoundedOn(R, Nat)
  BY NatLessThanWellFounded
<1> HIDE DEF R
<1>3. PICK n \in T : \A m \in T : ~ (<<m, n>> \in R)
  BY <1>2, WFMin
<1>4. ASSUME NEW m \in T PROVE n <= m
  <2>1. m \in Nat /\ n \in Nat
    OBVIOUS
  <2>2. ~ (m < n)
    BY <1>1, <1>3, <2>1
  <2> QED BY <2>1, <2>2
<1> QED BY <1>4

LEMMA MinIn ==
    ASSUME NEW T, T \subseteq Nat, T # {}
    PROVE  Min(T) \in T
<1>1. \E x \in T : \A y \in T : x <= y
  BY Least
<1> QED BY <1>1 DEF Min

LEMMA MaxIn ==
    ASSUME NEW T, T # {}, NEW hi \in Nat, T \subseteq 1..hi
    PROVE  Max(T) \in T /\ \A y \in T : y <= Max(T)
<1> DEFINE D == {hi - x : x \in T}
<1>1. D \subseteq Nat /\ D # {}
  <2>1. \A x \in T : x \in 1..hi
    OBVIOUS
  <2>2. \A x \in T : hi - x \in Nat
    BY <2>1
  <2> QED BY <2>2
<1>2. PICK d \in D : \A e \in D : d <= e
  BY <1>1, Least
<1>3. PICK x \in T : d = hi - x
  BY <1>2
<1>4. ASSUME NEW y \in T PROVE x >= y
  <2>1. hi - x <= hi - y /\ x \in Nat /\ y \in Nat
    BY <1>2, <1>3
  <2> QED BY <2>1
<1>5. \E z \in T : \A y \in T : z >= y
  BY <1>4
<1>6. Max(T) \in T /\ \A y \in T : Max(T) >= y
  BY <1>5 DEF Max
<1> QED BY <1>6

LEMMA TypesFollow == TInv /\ asleep \in BOOLEAN => TypeOK
<1> SUFFICES ASSUME TInv, asleep \in BOOLEAN PROVE TypeOK
  OBVIOUS
<1>1. Segments \subseteq Nat \ {0}
  BY DEF TInv, Filed, Listed, Segments
<1>2. \A s \in Segments : /\ files[s] \in Seq(1..Messages \cup {Cut, Torn})
                          /\ Cardinality(Whole(s)) <= SegCap
  BY DEF TInv, Filed, Segments, WholeOf, Whole, Records, Items
<1>3. up => total \in FileSize - Slip..FileSize
  <2> SUFFICES ASSUME up PROVE total \in FileSize - Slip..FileSize
    OBVIOUS
  <2>1. FileSize \in Nat
    BY FS_CardinalityType DEF FileSize, Segments, TInv, Filed, Recs
  <2>2. Slip \in {0, 1}
    BY DEF Slip
  <2>3. total \in Nat /\ total <= FileSize /\ FileSize <= total + Slip
    BY <2>2, MaxNat DEF TInv, Counts
  <2> QED BY <2>1, <2>2, <2>3
<1>4. size = 0 \/ (writer # 0 /\ size <= SegCap + Slip)
  BY DEF TInv, Writes
<1> QED BY <1>1, <1>2, <1>3, <1>4 DEF TypeOK, TInv, Counts, Writes, Reads, Syncs, Plain

(* Where Append writes.                                                    *)
LEMMA TargetTyped ==
    ASSUME Filed(files), writer = 0 \/ writer \in Segments
    PROVE  /\ Target \in Nat \ {0}
           /\ Target \in Segments => Target = writer /\ writer # 0 /\ size < SegCap
           /\ \E hi \in Nat : Segments \cup {Target} \subseteq 1..hi
<1>1. PICK hi \in Nat : Segments \subseteq 1..hi
  BY DEF Filed, Listed, Segments
<1>2. CASE writer # 0 /\ size < SegCap
  <2>1. Target = writer /\ writer \in Segments /\ Segments \cup {writer} = Segments
    BY <1>2 DEF Target
  <2>2. writer \in Nat \ {0}
    BY <1>1, <2>1
  <2> QED BY <1>1, <1>2, <2>1, <2>2
<1>3. CASE ~(writer # 0 /\ size < SegCap) /\ Segments = {}
  <2>1. Target = 1
    BY <1>3 DEF Target, NextSegment
  <2>2. Segments \cup {Target} \subseteq 1..1
    BY <1>3, <2>1
  <2> QED BY <1>3, <2>1, <2>2
<1>4. CASE ~(writer # 0 /\ size < SegCap) /\ Segments # {}
  <2> DEFINE M == Max(Segments)
  <2>1. M \in Segments /\ \A y \in Segments : y <= M
    BY <1>1, <1>4, MaxIn
  <2>2. Target = M + 1
    BY <1>4 DEF Target, NextSegment
  <2> HIDE DEF M
  <2>3. M \in Nat /\ Segments \subseteq Nat \ {0}
    BY <1>1, <2>1
  <2>4. Segments \cup {M + 1} \subseteq 1..M + 1
    BY <2>1, <2>3
  <2>5. M + 1 \notin Segments
    BY <2>1, <2>3
  <2> QED BY <2>2, <2>3, <2>4, <2>5
<1> QED BY <1>2, <1>3, <1>4

LEMMA ShortSeq ==
    ASSUME NEW S, NEW recs \in Seq(S), Len(recs) <= 1
    PROVE  Len(recs) \in {0, 1}
<1>1. PICK k : k = Len(recs)
  OBVIOUS
<1>2. k \in Nat /\ k <= 1
  BY <1>1
<1>3. k \in {0, 1}
  BY <1>2
<1> QED BY <1>1, <1>3

(* What Put adds: recs, at the end of the target.                          *)
Added(recs, t, n, g) ==
    /\ t = Target /\ n \in Nat
    /\ IF t \in Segments THEN n = Len(files[t]) ELSE n = 0
    /\ DOMAIN g = Segments \cup {t} /\ \A s \in Segments : s # t => g[s] = files[s]
    /\ g[t] \in Seq(Records) /\ Len(g[t]) = n + Len(recs)
    /\ \A i \in 1..n : g[t][i] = files[t][i]
    /\ \A i \in 1..Len(recs) : g[t][n + i] = recs[i]

LEMMA PutAdds ==
    ASSUME Filed(files), NEW recs \in Seq(Records)
    PROVE  \E t, n, g : g = Put(recs) /\ Added(recs, t, n, g)
<1> DEFINE t == Target
           g == Put(recs)
           n == IF t \in Segments THEN Len(files[t]) ELSE 0
<1>1. \A s \in Segments : files[s] \in Seq(Records)
  BY DEF Filed, Segments
<1> HIDE DEF t
<1>2. /\ DOMAIN g = Segments \cup {t} /\ \A s \in Segments : s # t => g[s] = files[s]
      /\ g[t] = IF t \in Segments THEN files[t] \o recs ELSE recs
  BY DEF Put, t
<1>3. CASE t \in Segments
  <2>1. files[t] \in Seq(Records)
    BY <1>1, <1>3
  <2>2. PICK f, u : f = files[t] /\ u = g[t]
    OBVIOUS
  <2>3. /\ f \in Seq(Records) /\ u = f \o recs /\ n = Len(f)
    BY <1>2, <1>3, <2>1, <2>2
  <2> HIDE DEF n, g
  <2>4. /\ u \in Seq(Records) /\ Len(u) = n + Len(recs) /\ n \in Nat
        /\ \A i \in 1..n : u[i] = f[i]
        /\ \A i \in 1..Len(recs) : u[n + i] = recs[i]
    BY <2>3
  <2>5. Added(recs, t, n, g)
    BY <1>2, <1>3, <2>2, <2>3, <2>4 DEF Added, t
  <2> QED BY <2>5 DEF g
<1>4. CASE t \notin Segments
  <2>1. n = 0 /\ g[t] = recs
    BY <1>2, <1>4
  <2> HIDE DEF n, g
  <2>2. \A i \in 1..Len(recs) : g[t][n + i] = recs[i]
    BY <2>1
  <2>3. Added(recs, t, n, g)
    BY <1>2, <1>4, <2>1, <2>2 DEF Added, t
  <2> QED BY <2>3 DEF g
<1> QED BY <1>3, <1>4

LEMMA AddedRecs ==
    ASSUME Filed(files), NEW recs \in Seq(Records), Len(recs) <= 1, NEW t, NEW n, NEW g, Added(recs, t, n, g)
    PROVE  /\ IsFiniteSet(Recs(g))
           /\ Cardinality(Recs(g)) = Cardinality(Recs(files)) + Len(recs)
<1>1. /\ \A s \in Segments : files[s] \in Seq(Records) /\ DOMAIN files[s] = 1..Len(files[s])
      /\ DOMAIN files = Segments /\ IsFiniteSet(Recs(files))
  BY DEF Filed, Segments
<1>2. /\ n \in Nat /\ DOMAIN g = Segments \cup {t} /\ \A s \in Segments : s # t => g[s] = files[s]
      /\ DOMAIN g[t] = 1..n + Len(recs) /\ Len(recs) \in Nat
      /\ t \in Segments => DOMAIN files[t] = 1..n
      /\ t \notin Segments => n = 0
  BY <1>1 DEF Added
<1>3. CASE Len(recs) = 0
  <2>1. DOMAIN g[t] = 1..n
    BY <1>2, <1>3
  <2>2. ASSUME NEW s, NEW i
        PROVE  s \in DOMAIN g /\ i \in DOMAIN g[s] <=> s \in DOMAIN files /\ i \in DOMAIN files[s]
    BY <1>1, <1>2, <2>1
  <2>3. Recs(g) = Recs(files)
    <3>1. ASSUME NEW x PROVE x \in Recs(g) <=> x \in Recs(files)
      BY <2>2, InRecs
    <3> QED BY <3>1
  <2>4. Cardinality(Recs(files)) \in Nat
    BY <1>1, FS_CardinalityType
  <2> QED BY <1>1, <1>3, <2>3, <2>4
<1>4. CASE Len(recs) = 1
  <2>1. DOMAIN g[t] = 1..n + 1 /\ n + 1 \notin 1..n /\ (1..n + 1) = (1..n) \cup {n + 1}
    BY <1>2, <1>4
  <2>2. ASSUME NEW s, NEW i
        PROVE  s \in DOMAIN g /\ i \in DOMAIN g[s] <=>
                  (s \in DOMAIN files /\ i \in DOMAIN files[s]) \/ (s = t /\ i = n + 1)
    <3>1. CASE s # t
      BY <1>1, <1>2, <3>1
    <3>2. CASE s = t /\ t \in Segments
      BY <1>1, <1>2, <2>1, <3>2
    <3>3. CASE s = t /\ t \notin Segments
      <4>1. n = 0 /\ 1..n + 1 = {n + 1}
        BY <1>2, <3>3
      <4>2. DOMAIN g = Segments \cup {t} /\ DOMAIN files = Segments
        BY <1>1, <1>2
      <4> QED BY <2>1, <3>3, <4>1, <4>2
    <3> QED BY <3>1, <3>2, <3>3
  <2>3. ~ (t \in DOMAIN files /\ n + 1 \in DOMAIN files[t])
    BY <1>1, <1>2, <2>1
  <2>4. Recs(g) = Recs(files) \cup {<<t, n + 1>>}
    <3>1. ASSUME NEW x PROVE x \in Recs(g) <=> x \in Recs(files) \/ x = <<t, n + 1>>
      BY <2>2, InRecs
    <3> QED BY <3>1
  <2>5. <<t, n + 1>> \notin Recs(files)
    BY <2>3, InRecs
  <2>6. Cardinality(Recs(g)) = Cardinality(Recs(files)) + 1 /\ IsFiniteSet(Recs(g))
    BY <1>1, <2>4, <2>5, FS_AddElement
  <2> QED BY <1>4, <2>6
<1>5. Len(recs) \in {0, 1}
  BY ShortSeq
<1> QED BY <1>3, <1>4, <1>5

(* Whole records come one at a time, and where there is room.              *)
LEMMA AddedWhole ==
    ASSUME Filed(files), Writes, NEW recs \in Seq(Records), Len(recs) <= 1,
           NEW t, NEW n, NEW g, Added(recs, t, n, g)
    PROVE  /\ Filed(g)
           /\ t \in Segments => /\ t = writer /\ writer # 0 /\ size < SegCap
                                /\ Cardinality(WholeOf(g[t])) <= size + Len(recs)
                                /\ size <= n /\ n <= size + Slip
           /\ WholeOf(recs) = {} => Cardinality(WholeOf(g[t])) <= (IF t \in Segments THEN size ELSE 0)
           /\ t \notin Segments => n = 0 /\ Cardinality(WholeOf(g[t])) <= Len(recs)
<1>1. /\ t \in Nat \ {0} /\ t \in Segments => t = writer /\ writer # 0 /\ size < SegCap
      /\ \E hi \in Nat : Segments \cup {t} \subseteq 1..hi
  BY TargetTyped DEF Writes, Added
<1>2. /\ n \in Nat /\ DOMAIN g = Segments \cup {t} /\ \A s \in Segments : s # t => g[s] = files[s]
      /\ g[t] \in Seq(Records) /\ DOMAIN g[t] = 1..n + Len(recs) /\ Len(recs) \in {0, 1}
      /\ \A i \in 1..n : g[t][i] = files[t][i]
      /\ \A i \in 1..Len(recs) : g[t][n + i] = recs[i]
      /\ t \in Segments => n = Len(files[t])
      /\ t \notin Segments => n = 0
  <2>1. g[t] \in Seq(Records) /\ Len(g[t]) = n + Len(recs)
    BY DEF Added
  <2>2. DOMAIN g[t] = 1..n + Len(recs) /\ Len(recs) \in {0, 1}
    BY <2>1, ShortSeq
  <2> QED BY <2>1, <2>2 DEF Added
<1>3. t \in Segments => /\ files[t] \in Seq(Records) /\ DOMAIN files[t] = 1..n
                        /\ Cardinality(WholeOf(files[t])) <= size
                        /\ size <= n /\ n <= size + Slip
  BY <1>1, <1>2 DEF Filed, Segments, Writes
<1> DEFINE W == IF t \in Segments THEN WholeOf(files[t]) ELSE {}
           k == IF t \in Segments THEN size ELSE 0
<1>4. IsFiniteSet(W) /\ Cardinality(W) \in Nat /\ Cardinality(W) <= k /\ k \in Nat
  <2>1. IsFiniteSet(1..n)
    BY <1>2, FS_Interval
  <2>2. W \subseteq 1..n
    BY <1>3 DEF WholeOf
  <2>3. IsFiniteSet(W) /\ Cardinality(W) \in Nat
    BY <2>1, <2>2, FS_Subset, FS_CardinalityType
  <2>4. k \in Nat
    BY DEF Writes
  <2> QED BY <1>3, <2>3, <2>4, FS_EmptySet
<1>5. WholeOf(g[t]) \subseteq W \cup {n + 1}
  <2>1. ASSUME NEW i \in WholeOf(g[t]), i # n + 1 PROVE i \in W
    <3>1. i \in 1..n /\ g[t][i] \notin {Cut, Torn}
      BY <1>2, <2>1 DEF WholeOf
    <3>2. t \in Segments
      BY <1>2, <3>1
    <3> QED BY <1>2, <1>3, <3>1, <3>2 DEF WholeOf
  <2> QED BY <2>1
<1>6. Len(recs) = 0 \/ WholeOf(recs) = {} => WholeOf(g[t]) \subseteq W
  <2> SUFFICES ASSUME Len(recs) = 0 \/ WholeOf(recs) = {}, n + 1 \in WholeOf(g[t]) PROVE FALSE
    BY <1>5
  <2>1. n + 1 \in 1..n + Len(recs) /\ g[t][n + 1] \notin {Cut, Torn}
    BY <1>2 DEF WholeOf
  <2>2. Len(recs) = 1
    BY <1>2, <2>1
  <2>3. g[t][n + 1] = recs[1] /\ 1 \in DOMAIN recs
    BY <1>2, <2>2
  <2> QED BY <2>1, <2>2, <2>3 DEF WholeOf
<1> HIDE DEF W, k
<1>7. Cardinality(WholeOf(g[t])) <= k + Len(recs)
      /\ (WholeOf(recs) = {} => Cardinality(WholeOf(g[t])) <= k)
  <2>1. \A T \in SUBSET W : Cardinality(T) <= k
    <3>1. ASSUME NEW T \in SUBSET W PROVE Cardinality(T) <= k
      <4>1. Cardinality(T) <= Cardinality(W) /\ Cardinality(T) \in Nat
        BY <1>4, FS_Subset, FS_CardinalityType
      <4> QED BY <1>4, <4>1
    <3> QED BY <3>1
  <2>2. Cardinality(WholeOf(g[t])) <= k + 1 /\ Cardinality(WholeOf(g[t])) \in Nat
    <3>1. IsFiniteSet(W \cup {n + 1}) /\ Cardinality(W \cup {n + 1}) <= Cardinality(W) + 1
          /\ Cardinality(W \cup {n + 1}) \in Nat
      <4>1. /\ IsFiniteSet(W \cup {n + 1})
            /\ Cardinality(W \cup {n + 1}) = IF n + 1 \in W THEN Cardinality(W) ELSE Cardinality(W) + 1
        BY <1>4, FS_AddElement
      <4> QED BY <1>4, <4>1
    <3>2. Cardinality(WholeOf(g[t])) <= Cardinality(W \cup {n + 1}) /\ IsFiniteSet(WholeOf(g[t]))
      BY <1>5, <3>1, FS_Subset
    <3>3. Cardinality(WholeOf(g[t])) \in Nat
      BY <3>2, FS_CardinalityType
    <3> QED BY <1>4, <3>1, <3>2, <3>3
  <2> QED BY <1>2, <1>4, <1>6, <2>1, <2>2
<1>8. k + Len(recs) <= SegCap
  <2>1. SegCap \in Nat \ {0} /\ size \in Nat
    BY MaxNat DEF Writes
  <2> QED BY <1>1, <1>2, <2>1 DEF k
<1>9. Filed(g)
  <2>1. Listed(g)
    BY <1>1, <1>2 DEF Listed
  <2>2. IsFiniteSet(Recs(g))
    BY AddedRecs
  <2>3. Cardinality(WholeOf(g[t])) <= SegCap
    <3>1. IsFiniteSet(WholeOf(g[t]))
      <4>1. IsFiniteSet(W \cup {n + 1})
        BY <1>4, FS_AddElement
      <4> QED BY <1>5, <4>1, FS_Subset
    <3>2. Cardinality(WholeOf(g[t])) \in Nat
      BY <3>1, FS_CardinalityType
    <3> QED BY <1>2, <1>4, <1>7, <1>8, <3>2, MaxNat
  <2>4. ASSUME NEW s \in DOMAIN g
        PROVE  g[s] \in Seq(Records) /\ Cardinality(WholeOf(g[s])) <= SegCap
    BY <1>2, <2>3 DEF Filed, Segments
  <2> QED BY <2>1, <2>2, <2>4 DEF Filed
<1> QED BY <1>1, <1>2, <1>3, <1>7, <1>9 DEF k

LEMMA WholeCount ==
    ASSUME NEW S, NEW b \in Seq(S)
    PROVE  IsFiniteSet(WholeOf(b)) /\ Cardinality(WholeOf(b)) \in Nat
<1>1. DOMAIN b = 1..Len(b) /\ Len(b) \in Nat
  OBVIOUS
<1>2. IsFiniteSet(1..Len(b)) /\ WholeOf(b) \subseteq 1..Len(b)
  BY <1>1, FS_Interval DEF WholeOf
<1> QED BY <1>2, FS_Subset, FS_CardinalityType

LEMMA FileSizeNext == FileSize' = Cardinality(Recs(files'))
BY DEF FileSize, Recs, Segments

LEMMA MaxOfTwo == ASSUME NEW k \in Int PROVE Max({k, 0}) = IF k > 0 THEN k ELSE 0
<1> DEFINE m == IF k > 0 THEN k ELSE 0
<1>1. m \in {k, 0} /\ \A y \in {k, 0} : m >= y
  OBVIOUS
<1>2. \A x \in {k, 0} : (\A y \in {k, 0} : x >= y) => x = m
  OBVIOUS
<1> HIDE DEF m
<1>3. Max({k, 0}) = m
  BY <1>1, <1>2 DEF Max
<1> QED BY <1>3 DEF m

LEMMA CursorTyped ==
    ASSUME Filed(files), Reads
    PROVE  /\ Cursor.seg \in Nat /\ Cursor.pos \in Nat
           /\ Cursor = [seg |-> Cursor.seg, pos |-> Cursor.pos]
           /\ Cursor.seg \in Segments \/ Cursor.seg = 0
<1>1. Segments \subseteq Nat \ {0}
  BY DEF Filed, Listed, Segments
<1>2. CASE reader # 0
  <2>1. Cursor = [seg |-> reader, pos |-> pos] /\ reader \in Segments /\ pos \in Nat
    BY <1>2 DEF Cursor, Reads
  <2> QED BY <1>1, <2>1
<1>3. CASE reader = 0 /\ stored.seg \in Segments
  <2>1. Cursor = stored /\ stored \in [seg : Nat \cup {-1}, pos : Nat]
    BY <1>3 DEF Cursor, Reads
  <2> QED BY <1>1, <1>3, <2>1
<1>4. CASE reader = 0 /\ stored.seg \notin Segments /\ Segments = {}
  <2>1. Cursor = [seg |-> 0, pos |-> 0]
    BY <1>4 DEF Cursor, FirstSegment, Nowhere, NoOffset
  <2> QED BY <2>1
<1>5. CASE reader = 0 /\ stored.seg \notin Segments /\ Segments # {}
  <2>1. Cursor = [seg |-> Min(Segments), pos |-> 0]
    BY <1>5 DEF Cursor, FirstSegment
  <2>2. Min(Segments) \in Segments
    BY <1>1, <1>5, MinIn
  <2> QED BY <1>1, <2>1, <2>2
<1> QED BY <1>2, <1>3, <1>4, <1>5

LEMMA AddedSyncs ==
    ASSUME Filed(files), Syncs, NEW recs \in Seq(Records),
           NEW t, NEW n, NEW g, Added(recs, t, n, g), files' = g, synced' = SyncFull(DOMAIN g)
    PROVE  Syncs'
<1>1. /\ DOMAIN g = Segments \cup {t} /\ \A s \in Segments : s # t => g[s] = files[s]
      /\ n \in Nat /\ Len(g[t]) = n + Len(recs) /\ (t \in Segments => n = Len(files[t]))
  BY DEF Added
<1>2. Len(recs) \in Nat
  OBVIOUS
<1>3. \A s \in Segments : Len(files[s]) \in Nat /\ synced[s] \in 0..Len(files[s])
  <2>1. ASSUME NEW s \in Segments PROVE Len(files[s]) \in Nat
    <3>1. files[s] \in Seq(Records)
      BY DEF Filed, Segments
    <3> QED BY <3>1
  <2> QED BY <2>1 DEF Syncs
<1>4. /\ DOMAIN synced' = DOMAIN g
      /\ \A s \in DOMAIN g : synced'[s] = IF s \notin Segments THEN 0
                                 ELSE IF s = writer /\ Target # writer /\ dirty THEN Len(files[s])
                                 ELSE synced[s]
  BY DEF SyncFull
<1>5. ASSUME NEW s \in DOMAIN g PROVE synced'[s] \in 0..Len(g[s])
  <2>1. CASE s \notin Segments
    <3>1. s = t /\ synced'[s] = 0
      BY <1>1, <1>4, <2>1
    <3>2. Len(g[s]) \in Nat
      BY <1>1, <1>2, <3>1
    <3> QED BY <3>1, <3>2
  <2>2. CASE s \in Segments
    <3>1. synced'[s] \in 0..Len(files[s])
      BY <1>3, <1>4, <2>2
    <3>2. Len(files[s]) <= Len(g[s]) /\ Len(g[s]) \in Nat /\ Len(files[s]) \in Nat
      <4>1. CASE s = t
        <5>1. Len(g[s]) = Len(files[s]) + Len(recs) /\ Len(files[s]) \in Nat
          BY <1>1, <1>3, <2>2, <4>1
        <5> QED BY <1>2, <5>1
      <4>2. CASE s # t
        BY <1>1, <1>3, <2>2, <4>2
      <4> QED BY <4>1, <4>2
    <3> QED BY <3>1, <3>2
  <2> QED BY <2>1, <2>2
<1> QED BY <1>4, <1>5 DEF Syncs, Segments

LEMMA SlipStays ==
    ASSUME NEW w, w # "write", torn' = torn \cup {w} \/ torn' = torn
    PROVE  Slip' = Slip
BY DEF Slip

LEMMA SizeTyped == ASSUME Filed(files) PROVE FileSize \in Nat /\ FileSize = Cardinality(Recs(files))
BY FileSizeIs, FS_CardinalityType DEF Filed

LEMMA AppendNextSize == ASSUME TInv, AppendNext PROVE TInv'
<1>1. /\ Filed(files) /\ Writes /\ Counts /\ Reads /\ Syncs /\ Plain
      /\ up /\ next \in Items /\ total < MaxSize /\ total \in Nat
  BY MaxNat DEF TInv, AppendNext, AppendRecord, Full, Plain, Counts, Items
<1> DEFINE recs == <<next>>
<1>2. recs \in Seq(Records) /\ Len(recs) = 1 /\ Len(recs) <= 1
  <2>1. next \in Records
    BY <1>1 DEF Records
  <2> QED BY <2>1
<1>3. /\ files' = Put(recs) /\ writer' = Target /\ size' = Len(files'[Target]) /\ total' = total + 1
      /\ UNCHANGED <<stored, reader, pos, rpc>>
      /\ synced' = SyncFull(DOMAIN files') /\ dirty' = TRUE /\ next' = next + 1
      /\ UNCHANGED <<since, firm, up, halts, torn, got>>
  BY DEF AppendNext, AppendRecord
<1> HIDE DEF recs
<1>4. PICK t, n, g : g = Put(recs) /\ Added(recs, t, n, g)
  BY <1>1, <1>2, PutAdds
<1>5. t = Target /\ n \in Nat /\ Len(g[t]) = n + 1 /\ DOMAIN g = Segments \cup {t}
  BY <1>2, <1>4 DEF Added
<1>6. Filed(files')
  BY <1>1, <1>2, <1>3, <1>4, AddedWhole
<1>7. Slip' = Slip
  BY <1>3 DEF Slip
<1>8. FileSize' = FileSize + 1 /\ FileSize \in Nat
  <2>1. Cardinality(Recs(g)) = Cardinality(Recs(files)) + 1
    BY <1>1, <1>2, <1>4, AddedRecs
  <2> QED BY <1>1, <1>3, <1>4, <2>1, SizeTyped, FileSizeIs, FileSizeNext
<1>9. Counts'
  BY <1>1, <1>3, <1>7, <1>8, MaxNat DEF Counts
<1>10. Writes'
  <2>1. /\ t \in Segments => /\ size < SegCap /\ Cardinality(WholeOf(g[t])) <= size + 1
                             /\ size <= n /\ n <= size + Slip /\ size \in Nat
        /\ t \notin Segments => n = 0 /\ Cardinality(WholeOf(g[t])) <= 1
    BY <1>1, <1>2, <1>4, AddedWhole DEF Writes
  <2>2. Cardinality(WholeOf(g[t])) \in Nat
    BY <1>4, WholeCount, <1>2 DEF Added
  <2>3. size' = n + 1 /\ writer' = t /\ files'[t] = g[t]
    BY <1>3, <1>4, <1>5
  <2>4. size' <= SegCap + Slip /\ Cardinality(WholeOf(g[t])) <= size'
    BY <1>5, <2>1, <2>2, <2>3, MaxNat
  <2>5. t \in Segments' /\ t # 0
    BY <1>1, <1>3, <1>4, <1>5, TargetTyped DEF Segments, Writes
  <2>6. size' \in Nat /\ size' <= Len(g[t]) /\ Len(g[t]) <= size' + Slip
    BY <1>5, <2>3, MaxNat
  <2> QED BY <1>7, <2>3, <2>4, <2>5, <2>6 DEF Writes
<1>11. Reads'
  BY <1>1, <1>3, <1>4, <1>5 DEF Reads, Segments
<1>12. Syncs'
  BY <1>1, <1>2, <1>3, <1>4, AddedSyncs
<1>13. Plain'
  <2>1. Messages \in Nat /\ next \in Nat /\ since \in 1..next /\ next <= Messages /\ 1 <= next
    BY <1>1, CrashAssumption DEF Plain, Items
  <2>2. since' \in 1..next' /\ next' \in 1..Messages + 1
    BY <1>3, <2>1
  <2> QED BY <1>1, <1>3, <2>2 DEF Plain
<1> QED BY <1>6, <1>9, <1>10, <1>11, <1>12, <1>13 DEF TInv

(* The failed write is the only one that no counter knows of.              *)
LEMMA WriteFailsSize == ASSUME TInv, WriteFails PROVE TInv'
<1>1. /\ Filed(files) /\ Writes /\ Counts /\ Reads /\ Syncs /\ Plain
      /\ up /\ next \in Items /\ total < MaxSize /\ total \in Nat
  BY MaxNat DEF TInv, WriteFails, AppendFails, Full, Plain, Counts, Items
<1>2. PICK recs \in {<<>>, <<Cut>>, <<Torn>>} : AppendFails(recs)
  BY DEF WriteFails
<1>3. recs \in Seq(Records) /\ Len(recs) <= 1 /\ Len(recs) \in {0, 1} /\ WholeOf(recs) = {}
  <2>1. CASE recs = <<>>
    BY <2>1 DEF WholeOf
  <2>2. CASE recs = <<Cut>>
    BY <2>2 DEF WholeOf, Records
  <2>3. CASE recs = <<Torn>>
    BY <2>3 DEF WholeOf, Records
  <2> QED BY <1>2, <2>1, <2>2, <2>3
<1>4. /\ files' = Put(recs) /\ writer' = Target /\ size' = IF Target = writer THEN size ELSE 0
      /\ UNCHANGED <<stored, reader, pos, total, rpc>>
      /\ synced' = SyncFull(DOMAIN files') /\ dirty' = (dirty /\ Target = writer)
      /\ next' \in {next, next + 1}
      /\ UNCHANGED <<since, firm, up, halts, got>>
      /\ "write" \in Tears /\ torn' = torn \cup {"write"} /\ torn' # torn
  BY <1>2 DEF WriteFails, AppendFails, Tear
<1>5. Slip = 0 /\ Slip' = 1
  BY <1>4 DEF Slip
<1>6. PICK t, n, g : g = Put(recs) /\ Added(recs, t, n, g)
  BY <1>1, <1>3, PutAdds
<1>7. t = Target /\ n \in Nat /\ Len(g[t]) = n + Len(recs) /\ DOMAIN g = Segments \cup {t}
  BY <1>6 DEF Added
<1>8. /\ Filed(g)
      /\ t \in Segments => t = writer /\ writer # 0 /\ size <= n /\ n <= size
      /\ Cardinality(WholeOf(g[t])) <= (IF t \in Segments THEN size ELSE 0)
      /\ t \notin Segments => n = 0
  <2>1. /\ Filed(g)
        /\ t \in Segments => t = writer /\ writer # 0 /\ size <= n /\ n <= size + Slip
        /\ Cardinality(WholeOf(g[t])) <= (IF t \in Segments THEN size ELSE 0)
        /\ t \notin Segments => n = 0
    BY <1>1, <1>3, <1>6, AddedWhole
  <2>2. size + Slip = size
    BY <1>1, <1>5 DEF Writes
  <2> QED BY <2>1, <2>2
<1>9. FileSize' = FileSize + Len(recs) /\ FileSize \in Nat
  <2>1. Cardinality(Recs(g)) = Cardinality(Recs(files)) + Len(recs)
    BY <1>1, <1>3, <1>6, AddedRecs
  <2> QED BY <1>1, <1>4, <1>6, <2>1, SizeTyped, FileSizeIs, FileSizeNext
<1>10. Counts'
  <2>1. total <= FileSize /\ FileSize <= total
    BY <1>1, <1>5 DEF Counts
  <2> QED BY <1>1, <1>3, <1>4, <1>5, <1>9, <2>1, MaxNat DEF Counts
<1>11. Writes'
  <2>1. writer' = t /\ t # 0 /\ t \in Segments' /\ files'[t] = g[t]
    BY <1>1, <1>4, <1>6, <1>7, TargetTyped DEF Segments, Writes
  <2>2. size \in Nat /\ size <= SegCap
    BY <1>1, <1>5, MaxNat DEF Writes
  <2>3. CASE t \in Segments
    <3>1. size' = size /\ n = size
      BY <1>4, <1>7, <1>8, <2>2, <2>3
    <3> QED BY <1>3, <1>5, <1>7, <1>8, <2>1, <2>2, <2>3, <3>1, MaxNat DEF Writes
  <2>4. CASE t \notin Segments
    <3>1. size' = 0 /\ n = 0
      <4>1. Target = writer => writer = 0
        BY <1>1, <1>7, <2>4 DEF Writes
      <4> QED BY <1>4, <1>7, <1>8, <2>1, <2>4, <4>1
    <3> QED BY <1>3, <1>5, <1>7, <1>8, <2>1, <2>4, <3>1, MaxNat DEF Writes
  <2> QED BY <2>3, <2>4
<1>12. Reads'
  BY <1>1, <1>4, <1>6, <1>7 DEF Reads, Segments
<1>13. Syncs'
  BY <1>1, <1>3, <1>4, <1>6, AddedSyncs
<1>14. Plain'
  <2>1. /\ Messages \in Nat /\ next \in Nat /\ since \in 1..next /\ next <= Messages /\ 1 <= next
        /\ dirty' \in BOOLEAN /\ torn' \subseteq Tears
    BY <1>1, <1>4, CrashAssumption DEF Plain, Items
  <2>2. since' \in 1..next' /\ next' \in 1..Messages + 1
    BY <1>4, <2>1
  <2> QED BY <1>1, <1>4, <2>1, <2>2 DEF Plain
<1> QED BY <1>4, <1>6, <1>8, <1>10, <1>11, <1>12, <1>13, <1>14 DEF TInv

(* Steps that leave the files and the counters alone.                      *)
LEMMA FilesStay ==
    ASSUME TInv, UNCHANGED <<files, writer, size, total, up>>, Slip' = Slip, Reads', Syncs', Plain'
    PROVE  TInv'
<1>1. Filed(files') /\ FileSize' = FileSize
  BY FileSizeIs, FileSizeNext DEF TInv
<1>2. Counts'
  BY <1>1 DEF TInv, Counts
<1>3. Writes'
  BY DEF TInv, Writes, Segments
<1> QED BY <1>1, <1>2, <1>3 DEF TInv

LEMMA SyncsStay == ASSUME Syncs, UNCHANGED <<files, synced>> PROVE Syncs'
BY DEF Syncs, Segments

LEMMA ReceiveSize == ASSUME TInv, Receive PROVE TInv'
<1>1. Filed(files) /\ Reads /\ Syncs /\ Plain /\ HasRecord(Cursor)
  BY DEF TInv, Receive, ReadMessage
<1>2. /\ reader' = Progress(Cursor).seg /\ pos' = Progress(Cursor).pos
      /\ stored' = Progress(Cursor) /\ rpc' = "idle" /\ UNCHANGED <<files, writer, size, total>>
      /\ got' = Append(got, NextRecord) /\ firm' = firm \ {NextRecord}
      /\ UNCHANGED <<synced, dirty, since, up, next, halts, torn>>
  BY DEF Receive, ReadMessage, SeekTo, process
<1>3. /\ Cursor.seg \in Nat /\ Cursor.pos \in Nat /\ Cursor = [seg |-> Cursor.seg, pos |-> Cursor.pos]
      /\ Cursor.seg \in Segments
  BY <1>1, CursorTyped DEF HasRecord, Follows
<1>4. Progress(Cursor) = [seg |-> Cursor.seg, pos |-> Cursor.pos + 1]
  BY <1>3 DEF Progress
<1>5. Reads'
  BY <1>2, <1>3, <1>4 DEF Reads, Segments
<1>6. NextRecord \in 1..Messages
  <2>1. PICK f : f = files[Cursor.seg]
    OBVIOUS
  <2>2. f \in Seq(Records) /\ Cursor.pos < Len(f) /\ f[Cursor.pos + 1] \notin {Cut, Torn}
    BY <1>1, <1>3, <2>1 DEF Filed, Segments, HasRecord, Follows
  <2>3. f[Cursor.pos + 1] \in Records
    BY <1>3, <2>2
  <2> QED BY <2>1, <2>2, <2>3 DEF NextRecord, Records, Items
<1>7. Plain'
  BY <1>1, <1>2, <1>6 DEF Plain
<1>8. Syncs'
  BY <1>1, <1>2, SyncsStay
<1> QED BY <1>2, <1>5, <1>7, <1>8, SlipStays, FilesStay DEF Slip

LEMMA ReadNothingSize ==
    ASSUME TInv, ReadNothing, synced' = [s \in DOMAIN files' |-> synced[s]],
           UNCHANGED <<dirty, since, firm, process, got>>
    PROVE  TInv'
<1>1. Filed(files) /\ Reads /\ Syncs /\ Plain
  BY DEF TInv
<1>2. /\ UNCHANGED <<files, stored, writer, size, total>> /\ rpc' = "idle"
      /\ UNCHANGED <<up, next, halts, torn>>
  BY DEF ReadNothing, disk, process
<1>3. /\ Cursor.seg \in Nat /\ Cursor.pos \in Nat /\ Cursor = [seg |-> Cursor.seg, pos |-> Cursor.pos]
      /\ Cursor.seg \in Segments \/ Cursor.seg = 0
  BY <1>1, CursorTyped
<1>4. Progress(Cursor) = [seg |-> Cursor.seg, pos |-> Cursor.pos + 1]
  BY <1>3 DEF Progress
<1>5. reader' = Cursor.seg /\ pos' \in Nat
  BY <1>3, <1>4 DEF ReadNothing, SeekTo
<1>6. Reads'
  BY <1>1, <1>2, <1>3, <1>5 DEF Reads, Segments
<1>7. Syncs'
  BY <1>1, <1>2 DEF Syncs, Segments
<1>8. Plain'
  BY <1>1, <1>2 DEF Plain
<1> QED BY <1>2, <1>6, <1>7, <1>8, FilesStay DEF Slip

LEMMA ResetOffsetSize ==
    ASSUME TInv, ResetOffset, synced' = [s \in DOMAIN files' |-> synced[s]],
           UNCHANGED <<dirty, since, firm, process, got>>
    PROVE  TInv'
<1>1. Filed(files) /\ Reads /\ Syncs /\ Plain
  BY DEF TInv
<1>2. /\ UNCHANGED <<files, reader, pos, writer, size, total>> /\ rpc' = "again"
      /\ stored' = [seg |-> 0, pos |-> 0]
      /\ UNCHANGED <<up, next, halts, torn>>
  BY DEF ResetOffset, OffsetReset, NoOffset, process
<1>3. Reads'
  BY <1>1, <1>2 DEF Reads, Segments
<1>4. Syncs'
  BY <1>1, <1>2 DEF Syncs, Segments
<1>5. Plain'
  BY <1>1, <1>2 DEF Plain
<1> QED BY <1>2, <1>3, <1>4, <1>5, FilesStay DEF Slip

(* A segment that is removed takes what it held from both counts.          *)
LEMMA RemoveSegmentSize ==
    ASSUME TInv, RemoveSegment, synced' = [s \in DOMAIN files' |-> synced[s]],
           UNCHANGED <<dirty, since, firm, process, got>>
    PROVE  TInv'
<1>1. Filed(files) /\ Writes /\ Counts /\ Reads /\ Syncs /\ Plain
  BY DEF TInv
<1> DEFINE c == Cursor.seg
           n == Len(files[c])
           X == {c} \X DOMAIN files[c]
<1>2. /\ c \in Segments /\ c # writer
      /\ total' = Max({total - n, 0})
      /\ files' = [s \in Segments \ {c} |-> files[s]]
      /\ reader' = 0 /\ pos' = 0 /\ rpc' = "reset" /\ UNCHANGED <<stored, writer, size>>
      /\ UNCHANGED <<up, next, halts, torn>>
  BY DEF RemoveSegment, Exhausted, AtEnd, SizeWithout, SeekTo, Nowhere, NoOffset, process
<1>3. files[c] \in Seq(Records) /\ DOMAIN files[c] = 1..n /\ n \in Nat
  BY <1>1, <1>2 DEF Filed, Segments
<1>4. IsFiniteSet(X) /\ Cardinality(X) = n
  <2>1. IsFiniteSet({c}) /\ Cardinality({c}) = 1
    BY FS_Singleton
  <2>2. IsFiniteSet(1..n) /\ Cardinality(1..n) = n
    BY <1>3, FS_Interval
  <2>3. Cardinality(X) = 1 * n /\ IsFiniteSet(X)
    BY <1>3, <2>1, <2>2, FS_Product
  <2> QED BY <1>3, <2>3
<1> HIDE DEF c, n
<1>5. DOMAIN files' = Segments \ {c} /\ \A s \in Segments \ {c} : files'[s] = files[s]
  BY <1>2
<1>6. X \subseteq Recs(files) /\ Recs(files') = Recs(files) \ X
  <2>1. \A s, i : <<s, i>> \in X <=> s = c /\ i \in DOMAIN files[c]
    OBVIOUS
  <2>2. ASSUME NEW x PROVE x \in Recs(files') <=> x \in Recs(files) /\ x \notin X
    <3>1. x \in Recs(files) <=> \E s, i : s \in Segments /\ i \in DOMAIN files[s] /\ x = <<s, i>>
      BY InRecs DEF Segments
    <3>2. x \in Recs(files') <=> \E s, i : s \in Segments \ {c} /\ i \in DOMAIN files[s] /\ x = <<s, i>>
      BY <1>5, InRecs
    <3> HIDE DEF X
    <3> QED BY <2>1, <3>1, <3>2
  <2>3. X \subseteq Recs(files)
    BY <1>2, InRecs DEF Segments
  <2> QED BY <2>2, <2>3
<1> HIDE DEF X
<1>7. IsFiniteSet(Recs(files')) /\ FileSize' = FileSize - n /\ FileSize' \in Nat /\ FileSize \in Nat
  <2>1. IsFiniteSet(Recs(files)) /\ Recs(files) \cap X = X
    BY <1>1, <1>6 DEF Filed
  <2>2. /\ IsFiniteSet(Recs(files) \ X)
        /\ Cardinality(Recs(files) \ X) = Cardinality(Recs(files)) - Cardinality(X)
    BY <2>1, FS_Difference
  <2>3. Cardinality(Recs(files) \ X) \in Nat
    BY <2>2, FS_CardinalityType
  <2> QED BY <1>1, <1>4, <1>6, <2>2, <2>3, SizeTyped, FileSizeIs, FileSizeNext
<1>8. Filed(files')
  BY <1>1, <1>5, <1>7 DEF Filed, Listed, Segments
<1>9. Slip' = Slip
  BY <1>2 DEF Slip
<1>10. total' = IF total > n THEN total - n ELSE 0
  <2>1. total \in Nat
    BY <1>1, MaxNat DEF Counts
  <2>2. \A k \in Int : Max({k, 0}) = IF k > 0 THEN k ELSE 0
    BY MaxOfTwo
  <2> QED BY <1>2, <1>3, <2>1, <2>2
<1>11. Counts'
  BY <1>1, <1>2, <1>3, <1>7, <1>9, <1>10, MaxNat DEF Counts
<1>12. Writes'
  BY <1>1, <1>2, <1>5, <1>9 DEF Writes, Segments
<1>13. Reads'
  BY <1>1, <1>2 DEF Reads
<1>14. Syncs'
  BY <1>1, <1>5 DEF Syncs, Segments
<1>15. Plain'
  BY <1>1, <1>2 DEF Plain
<1> QED BY <1>8, <1>11, <1>12, <1>13, <1>14, <1>15 DEF TInv

(* A sync changes what is on the disk only.                                *)
LEMMA SyncWriterTyped ==
    ASSUME TInv, SyncWriter, files' = files
    PROVE  Syncs' /\ firm' \subseteq 1..Messages
<1>1. Filed(files) /\ Writes /\ Syncs /\ Plain
  BY DEF TInv
<1>2. /\ writer # 0 /\ synced' = [synced EXCEPT ![writer] = Len(files[writer])]
      /\ firm' = firm \cup ((since..next - 1) \cap Unread)
  BY DEF SyncWriter
<1>3. writer \in Segments /\ DOMAIN synced = Segments
  BY <1>1, <1>2 DEF Writes, Syncs
<1>4. Len(files[writer]) \in Nat
  <2>1. files[writer] \in Seq(Records)
    BY <1>1, <1>3 DEF Filed, Segments
  <2> QED BY <2>1
<1>5. Syncs'
  <2>1. Len(files[writer]) \in 0..Len(files[writer])
    BY <1>4
  <2>2. DOMAIN synced' = Segments
    BY <1>2, <1>3
  <2>3. \A s \in Segments : synced'[s] = IF s = writer THEN Len(files[writer]) ELSE synced[s]
    BY <1>2, <1>3
  <2> QED BY <1>1, <2>1, <2>2, <2>3 DEF Syncs, Segments
<1>6. since..next - 1 \subseteq 1..Messages
  <2>1. next \in 1..Messages + 1 /\ since \in 1..next /\ Messages \in Nat
    BY <1>1, CrashAssumption DEF Plain
  <2> QED BY <2>1
<1> QED BY <1>1, <1>2, <1>5, <1>6 DEF Plain

LEMMA FsyncSize == ASSUME TInv, Fsync PROVE TInv'
<1>1. UNCHANGED <<files, stored, writer, size, reader, pos, total, rpc, since, up, next, halts, torn, got>>
  BY DEF Fsync, wal, process
<1>2. Syncs' /\ firm' \subseteq 1..Messages
  BY <1>1, SyncWriterTyped DEF Fsync
<1>3. Reads'
  BY <1>1 DEF TInv, Reads, Segments
<1>4. Plain'
  BY <1>1, <1>2 DEF TInv, Plain, Fsync
<1> QED BY <1>1, <1>2, <1>3, <1>4, FilesStay DEF Slip

(* A stop forgets the counters; what it leaves of the files is not more    *)
(* than they allow.                                                        *)
LEMMA DownSize ==
    ASSUME TInv, Down, Filed(files'), Cardinality(Recs(files')) <= MaxSize + Slip, Syncs',
           stored' \in [seg : Nat \cup {-1}, pos : Nat], next' \in 1..Messages + 1,
           firm' \subseteq 1..Messages, torn' \subseteq Tears, Slip' = Slip
    PROVE  TInv'
<1>1. /\ halts < Halts /\ halts' = halts + 1 /\ up' = FALSE /\ rpc' = "idle"
      /\ writer' = 0 /\ size' = 0 /\ reader' = 0 /\ pos' = 0 /\ total' = 0
      /\ since' = 1 /\ dirty' = FALSE /\ got' = got
  BY DEF Down
<1>2. Slip' = Slip
  OBVIOUS
<1>3. Counts'
  BY <1>1, <1>2, FileSizeNext, MaxNat DEF Counts
<1>4. Writes'
  BY <1>1, <1>2, MaxNat DEF Writes
<1>5. Reads'
  BY <1>1 DEF Reads
<1>6. Plain'
  <2>1. halts' \in 0..Halts
    BY <1>1, CrashAssumption DEF TInv, Plain
  <2>2. since' \in 1..next'
    BY <1>1, CrashAssumption
  <2>3. torn' \subseteq Tears /\ got' \in Seq(1..Messages)
    BY <1>1 DEF TInv, Plain
  <2> QED BY <1>1, <2>1, <2>2, <2>3 DEF Plain
<1> QED BY <1>3, <1>4, <1>5, <1>6 DEF TInv

LEMMA HaltSize == ASSUME TInv, Halt PROVE TInv'
<1>1. Filed(files) /\ Counts /\ Reads /\ Syncs /\ Plain
  BY DEF TInv
<1>2. Down /\ UNCHANGED <<files, stored, synced, firm, next>>
  BY DEF Halt, disk
<1>3. torn' \subseteq Tears /\ Slip' = Slip
  <2>1. torn' = torn \/ ("remove" \in Tears /\ torn' = torn \cup {"remove"})
    BY DEF Halt, Tear
  <2>2. torn' \subseteq Tears
    BY <1>1, <2>1 DEF Plain
  <2>3. "remove" # "write"
    OBVIOUS
  <2> QED BY <2>1, <2>2, <2>3 DEF Slip
<1>4. Filed(files') /\ Syncs' /\ Cardinality(Recs(files')) <= MaxSize + Slip
  BY <1>1, <1>2, SyncsStay, FileSizeIs DEF Counts
<1> QED BY <1>1, <1>2, <1>3, <1>4, DownSize DEF Reads, Plain

LEMMA CloseSize == ASSUME TInv, Close PROVE TInv'
<1>1. Filed(files) /\ Counts /\ Reads /\ Plain
  BY DEF TInv
<1>2. Down /\ UNCHANGED <<files, stored, torn, next>>
  BY DEF Close, disk
<1>3. Syncs' /\ firm' \subseteq 1..Messages
  BY <1>2, SyncWriterTyped DEF Close
<1>4. Filed(files') /\ Cardinality(Recs(files')) <= MaxSize + Slip
  BY <1>1, <1>2, FileSizeIs DEF Counts
<1>5. Slip' = Slip /\ torn' \subseteq Tears
  BY <1>1, <1>2 DEF Slip, Plain
<1> QED BY <1>1, <1>2, <1>3, <1>4, <1>5, DownSize DEF Reads, Plain

(* The end of a segment that a power failure leaves is not longer.         *)
LEMMA CutOffShrinks ==
    ASSUME NEW f \in Seq(Records), NEW k \in Nat, k <= Len(f),
           NEW tail \in {<<>>, <<Cut>>, <<Torn>>}, NEW g, g = Beginning(f, k, tail)
    PROVE  g \in Seq(Records) /\ Len(g) <= Len(f) /\ WholeOf(g) \subseteq WholeOf(f)
<1>1. Left(f, k, g)
  BY CutOff
<1>2. g \in Seq(Records)
  BY <1>1 DEF Left
<1>3. Len(g) <= Len(f)
  <2>1. CASE k = Len(f)
    <3>1. g = f
      BY <2>1 DEF Beginning
    <3> QED BY <3>1
  <2>2. CASE k # Len(f)
    <3>1. PICK b : b = SubSeq(f, 1, k)
      OBVIOUS
    <3>2. b \in Seq(Records) /\ Len(b) = k
      BY <3>1
    <3>3. tail \in Seq({Cut, Torn}) /\ Len(tail) <= 1
      <4>1. CASE tail = <<>>
        BY <4>1
      <4>2. CASE tail = <<Cut>>
        BY <4>2
      <4>3. CASE tail = <<Torn>>
        BY <4>3
      <4> QED BY <4>1, <4>2, <4>3
    <3>4. PICK j : j = Len(tail)
      OBVIOUS
    <3>5. j \in Nat /\ j <= 1
      BY <3>3, <3>4
    <3>6. g = b \o tail
      BY <2>2, <3>1 DEF Beginning
    <3>7. Len(g) = k + j
      <4>1. b \in Seq(Records \cup {Cut, Torn}) /\ tail \in Seq(Records \cup {Cut, Torn})
        BY <3>2, <3>3
      <4>2. Joined(b, tail, g)
        BY <3>6, <4>1, ConcatIs
      <4> QED BY <3>2, <3>4, <4>2 DEF Joined
    <3>8. Len(f) \in Nat
      OBVIOUS
    <3> QED BY <2>2, <3>5, <3>7, <3>8
  <2> QED BY <2>1, <2>2
<1>4. ASSUME NEW i \in WholeOf(g) PROVE i \in WholeOf(f)
  <2>1. i \in 1..Len(g) /\ g[i] \notin {Cut, Torn}
    BY <1>2, <1>4 DEF WholeOf
  <2>2. g[i] \in Records
    BY <1>2, <2>1
  <2>3. g[i] \in Items
    BY <2>1, <2>2 DEF Records
  <2>4. i \in 1..Len(f) /\ g[i] = f[i]
    BY <1>1, <2>1, <2>3 DEF Left
  <2> QED BY <2>1, <2>4 DEF WholeOf
<1> QED BY <1>2, <1>3, <1>4

LEMMA PowerFailsSize == ASSUME TInv, PowerFails PROVE TInv'
<1>0. Filed(files) /\ Counts /\ Reads /\ Syncs /\ Plain
  BY DEF TInv
<1>1. PICK n, tail :
         /\ n \in [Segments -> 0..SegCap + 1] /\ tail \in {<<>>, <<Cut>>, <<Torn>>}
         /\ \A s \in Segments : n[s] \in Keep(s)
         /\ files' = [s \in Segments |->
               IF n[s] = Len(files[s]) THEN files[s] ELSE SubSeq(files[s], 1, n[s]) \o tail]
  BY DEF PowerFails
<1>2. /\ Down /\ UNCHANGED <<stored, firm, next>> /\ "power" \in Tears /\ torn' = torn \cup {"power"}
      /\ synced' = [s \in Segments |-> Len(files'[s])]
  BY DEF PowerFails, Tear
<1>3. DOMAIN files' = Segments /\ DOMAIN files = Segments
  BY <1>1 DEF Segments
<1>4. ASSUME NEW s \in Segments
      PROVE  /\ files[s] \in Seq(Records) /\ files'[s] \in Seq(Records)
             /\ Len(files'[s]) <= Len(files[s]) /\ WholeOf(files'[s]) \subseteq WholeOf(files[s])
  <2>1. PICK f, g, k, y : f = files[s] /\ g = files'[s] /\ k = n[s] /\ y = synced[s]
    OBVIOUS
  <2>2. f \in Seq(Records)
    BY <1>0, <1>3, <1>4, <2>1 DEF Filed
  <2>3. y \in 0..Len(f) /\ k \in y..Len(f)
    BY <1>0, <1>1, <1>4, <2>1 DEF Syncs, Keep
  <2>4. k \in Nat /\ k <= Len(f)
    BY <2>2, <2>3
  <2>5. g = Beginning(f, k, tail)
    BY <1>1, <1>4, <2>1 DEF Beginning
  <2> QED BY <1>1, <2>1, <2>2, <2>4, <2>5, CutOffShrinks
<1>5. Filed(files') /\ Cardinality(Recs(files')) <= MaxSize + Slip
  <2>1. Recs(files') \subseteq Recs(files)
    <3>1. ASSUME NEW x \in Recs(files') PROVE x \in Recs(files)
      <4>1. PICK s, i : s \in Segments /\ i \in DOMAIN files'[s] /\ x = <<s, i>>
        BY <1>3, <3>1, InRecs
      <4>2. PICK f, g : f = files[s] /\ g = files'[s]
        OBVIOUS
      <4>3. f \in Seq(Records) /\ g \in Seq(Records) /\ Len(g) <= Len(f) /\ i \in DOMAIN g
        BY <1>4, <4>1, <4>2
      <4>4. i \in DOMAIN f
        BY <4>3
      <4> QED BY <1>3, <4>1, <4>2, <4>4, InRecs
    <3> QED BY <3>1
  <2>2. /\ IsFiniteSet(Recs(files)) /\ Cardinality(Recs(files)) \in Nat
        /\ Cardinality(Recs(files)) <= MaxSize + Slip
    BY <1>0, FileSizeIs, FS_CardinalityType DEF Filed, Counts
  <2>3. IsFiniteSet(Recs(files')) /\ Cardinality(Recs(files')) <= Cardinality(Recs(files))
    BY <2>1, <2>2, FS_Subset
  <2>4. Cardinality(Recs(files')) \in Nat
    BY <2>3, FS_CardinalityType
  <2>5. ASSUME NEW s \in Segments PROVE Cardinality(WholeOf(files'[s])) <= SegCap
    <3>1. IsFiniteSet(WholeOf(files[s])) /\ Cardinality(WholeOf(files[s])) \in Nat
      BY <1>4, WholeCount
    <3>2. Cardinality(WholeOf(files'[s])) <= Cardinality(WholeOf(files[s]))
          /\ Cardinality(WholeOf(files'[s])) \in Nat
      BY <1>4, <3>1, WholeCount, FS_Subset
    <3>3. Cardinality(WholeOf(files[s])) <= SegCap
      BY <1>0, <1>3 DEF Filed
    <3> QED BY <3>1, <3>2, <3>3, MaxNat
  <2>6. Listed(files')
    BY <1>0, <1>3 DEF Filed, Listed
  <2> QED BY <1>3, <1>4, <2>2, <2>3, <2>4, <2>5, <2>6, MaxNat DEF Filed
<1>6. Syncs'
  <2>1. ASSUME NEW s \in Segments PROVE synced'[s] \in 0..Len(files'[s])
    <3>1. synced'[s] = Len(files'[s]) /\ Len(files'[s]) \in Nat
      BY <1>2, <1>4
    <3> QED BY <3>1
  <2> QED BY <1>2, <1>3, <2>1 DEF Syncs, Segments
<1>7. torn' \subseteq Tears /\ Slip' = Slip
  BY <1>0, <1>2, SlipStays DEF Plain
<1> QED BY <1>0, <1>2, <1>5, <1>6, <1>7, DownSize DEF Reads, Plain

LEMMA HaltInAppendSize == ASSUME TInv, HaltInAppend PROVE TInv'
<1>1. /\ Filed(files) /\ Writes /\ Counts /\ Reads /\ Syncs /\ Plain
      /\ up /\ next <= Messages /\ total < MaxSize /\ total \in Nat
  BY MaxNat DEF TInv, HaltInAppend, Down, Full, Counts
<1>2. PICK recs \in {<<>>, <<Cut>>} : files' = Put(recs)
  BY DEF HaltInAppend
<1>3. recs \in Seq(Records) /\ Len(recs) <= 1 /\ Len(recs) \in {0, 1}
  <2>1. CASE recs = <<>>
    BY <2>1
  <2>2. CASE recs = <<Cut>>
    BY <2>2 DEF Records
  <2> QED BY <1>2, <2>1, <2>2
<1>4. /\ Down /\ synced' = SyncFull(DOMAIN files') /\ next' = next + 1 /\ UNCHANGED <<stored, firm>>
      /\ "append" \in Tears /\ torn' = torn \cup {"append"}
  BY DEF HaltInAppend, Tear
<1>5. PICK t, n, g : g = Put(recs) /\ Added(recs, t, n, g)
  BY <1>1, <1>3, PutAdds
<1>6. Filed(files')
  BY <1>1, <1>2, <1>3, <1>5, AddedWhole
<1>7. Cardinality(Recs(files')) <= MaxSize + Slip
  <2>1. Cardinality(Recs(g)) = FileSize + Len(recs) /\ FileSize \in Nat
    BY <1>1, <1>3, <1>5, AddedRecs, FileSizeIs, SizeTyped
  <2>2. FileSize <= total + Slip
    BY <1>1 DEF Counts
  <2> QED BY <1>1, <1>2, <1>3, <1>5, <2>1, <2>2, MaxNat
<1>8. Syncs'
  BY <1>1, <1>2, <1>3, <1>4, <1>5, AddedSyncs
<1>9. next' \in 1..Messages + 1
  BY <1>1, <1>4, CrashAssumption DEF Plain
<1>10. torn' \subseteq Tears /\ Slip' = Slip
  BY <1>1, <1>4, SlipStays DEF Plain
<1> QED BY <1>1, <1>4, <1>6, <1>7, <1>8, <1>9, <1>10, DownSize DEF Reads, Plain

LEMMA HaltInOffsetSize == ASSUME TInv, HaltInOffset PROVE TInv'
<1>1. Filed(files) /\ Counts /\ Syncs /\ Plain
  BY DEF TInv
<1>2. /\ Down /\ UNCHANGED <<files, synced, firm, next>> /\ stored' = [seg |-> -1, pos |-> 0]
      /\ "offset" \in Tears /\ torn' = torn \cup {"offset"}
  BY DEF HaltInOffset, Damaged, Tear
<1>3. Filed(files') /\ Syncs' /\ Cardinality(Recs(files')) <= MaxSize + Slip
  BY <1>1, <1>2, SyncsStay, FileSizeIs DEF Counts
<1>4. torn' \subseteq Tears /\ Slip' = Slip
  BY <1>1, <1>2, SlipStays DEF Plain
<1> QED BY <1>1, <1>2, <1>3, <1>4, DownSize DEF Plain

(* The next process scans the files: its count is right again.             *)
LEMMA RestartSize == ASSUME TInv, Restart PROVE TInv'
<1>1. Filed(files) /\ Counts /\ Writes /\ Reads /\ Syncs /\ Plain
  BY DEF TInv
<1>2. /\ up' = TRUE /\ total' = FileSize /\ reader' = Cursor.seg /\ pos' = Cursor.pos /\ since' = next
      /\ UNCHANGED <<files, stored, synced, dirty, firm, writer, size, rpc, next, halts, torn, got>>
  BY DEF Restart, SeekTo, disk
<1>3. Filed(files') /\ FileSize' = FileSize /\ FileSize \in Nat /\ Slip' = Slip
  BY <1>1, <1>2, FileSizeIs, FileSizeNext, SizeTyped DEF Slip
<1>4. Counts'
  BY <1>1, <1>2, <1>3, MaxNat DEF Counts
<1>5. Writes'
  BY <1>1, <1>2, <1>3 DEF Writes, Segments
<1>6. Reads'
  BY <1>1, <1>2, CursorTyped DEF Reads, Segments
<1>7. Syncs'
  BY <1>1, <1>2, SyncsStay
<1>8. Plain'
  <2>1. next \in 1..next
    BY <1>1, CrashAssumption DEF Plain
  <2> QED BY <1>1, <1>2, <2>1 DEF Plain
<1> QED BY <1>3, <1>4, <1>5, <1>6, <1>7, <1>8 DEF TInv

LEMMA InitTyped == Init => TInv
<1> SUFFICES ASSUME Init PROVE TInv
  OBVIOUS
<1>1. /\ files = <<>> /\ stored = [seg |-> 0, pos |-> 0]
      /\ writer = 0 /\ size = 0 /\ reader = 0 /\ pos = 0 /\ total = 0 /\ rpc = "idle"
      /\ synced = <<>> /\ dirty = FALSE /\ up = TRUE /\ next = 1 /\ halts = 0 /\ torn = {}
      /\ since = 1 /\ firm = {} /\ got = <<>>
  BY DEF Init, WALInit, NoOffset
<1>2. DOMAIN files = {} /\ DOMAIN synced = {} /\ Segments = {}
  BY <1>1 DEF Segments
<1>3. Recs(files) = {}
  BY <1>2 DEF Recs
<1>4. IsFiniteSet(Recs(files)) /\ FileSize = 0
  BY <1>3, FileSizeIs, FS_EmptySet
<1>5. Filed(files)
  <2>1. DOMAIN files \subseteq 1..0
    BY <1>2
  <2> QED BY <1>2, <1>4, <2>1 DEF Filed, Listed
<1>6. Counts
  BY <1>1, <1>4, MaxNat DEF Counts
<1>7. Writes /\ Reads /\ Syncs
  BY <1>1, <1>2, MaxNat DEF Writes, Reads, Syncs
<1>8. Plain
  <2>1. Messages \in Nat /\ Halts \in Nat
    BY CrashAssumption
  <2>2. next \in 1..Messages + 1 /\ halts \in 0..Halts /\ since \in 1..next
    BY <1>1, <2>1
  <2>3. got \in Seq(1..Messages)
    BY <1>1
  <2> QED BY <1>1, <2>2, <2>3 DEF Plain
<1> QED BY <1>5, <1>6, <1>7, <1>8 DEF TInv

LEMMA StepTyped == TInv /\ [Next]_vars => TInv'
<1> SUFFICES ASSUME TInv, [Next]_vars PROVE TInv'
  OBVIOUS
<1>1. CASE Seek
  <2>1. /\ ReadNothing \/ RemoveSegment \/ ResetOffset
        /\ synced' = [s \in DOMAIN files' |-> synced[s]]
        /\ UNCHANGED <<dirty, since, firm, process, got>>
    BY <1>1 DEF Seek
  <2> QED BY <2>1, ReadNothingSize, RemoveSegmentSize, ResetOffsetSize
<1>2. CASE Wake \/ UNCHANGED vars
  <2>1. /\ UNCHANGED <<files, stored, writer, size, reader, pos, total, rpc>>
        /\ UNCHANGED <<synced, dirty, since, firm, up, next, halts, torn, got>>
    BY <1>2 DEF Wake, vars, wal, durable, process
  <2>2. Reads' /\ Syncs' /\ Plain' /\ Slip' = Slip
    BY <2>1, SyncsStay DEF TInv, Reads, Plain, Slip, Segments
  <2> QED BY <2>1, <2>2, FilesStay
<1> QED BY <1>1, <1>2, AppendNextSize, WriteFailsSize, ReceiveSize, FsyncSize, HaltSize, CloseSize,
           PowerFailsSize, HaltInAppendSize, HaltInOffsetSize, RestartSize DEF Next

AsleepTyped == asleep \in BOOLEAN

LEMMA AsleepStep == AsleepTyped /\ [Next]_vars => AsleepTyped'
BY DEF AsleepTyped, Next, AppendNext, WriteFails, Receive, Seek, Wake, Fsync, Halt, Close, PowerFails,
       HaltInAppend, HaltInOffset, Restart, Down, vars

(* The shape of the log (disk.go, wal.go) at every step, also after a stop *)
(* that left a wrong offset: the counter that Append and ReadNext keep by  *)
(* hand and NewDiskWAL scans is the size of the files, but for what one    *)
(* failed write left; no segment gets more messages than segmentSize, and  *)
(* the log never more than disk_max_size.                                  *)
THEOREM TypeCorrect == Spec => []TypeOK
<1>1. TInv /\ [Next]_vars => TInv'
  BY StepTyped
<1>2. Spec => []TInv
  BY InitTyped, <1>1, PTL DEF Spec
<1>3. Spec => []AsleepTyped
  <2>1. Init => AsleepTyped
    BY DEF Init, AsleepTyped
  <2> QED BY <2>1, AsleepStep, PTL DEF Spec
<1>4. TInv /\ AsleepTyped => TypeOK
  BY TypesFollow DEF AsleepTyped
<1> QED BY <1>2, <1>3, <1>4, PTL
=============================================================================

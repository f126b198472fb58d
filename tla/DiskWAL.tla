------------------------------- MODULE DiskWAL -------------------------------
(***************************************************************************)
(* The write-ahead log of a disk-backed edge (internal/buffer disk.go and  *)
(* wal.go): segment files seg-000001.wal, ... that Append writes and       *)
(* ReadNext consumes and deletes, and the file consumer.offset.            *)
(*                                                                         *)
(* A segment is the sequence of its records, all of size one; Cut stands   *)
(* for a record whose Write calls (header, id, payload, metadata) were not *)
(* all made, Torn for one that was torn inside a Write.  At the end of a   *)
(* segment the first decodes as end of file; the second, and the first     *)
(* when more has been written after it, is an error, on which drainLoop    *)
(* returns: nobody reads on, in this process and, the offset being what it *)
(* was, in any later one.  The methods run under w.mu, so each is one      *)
(* step; only ReadNext is cut where a stop of the process can tear it,     *)
(* between os.Remove and the new offset, and keeps the mutex (rpc) across  *)
(* its steps.                                                              *)
(*                                                                         *)
(* The operations only; DiskWALCrash puts a process that stops and starts  *)
(* around them, EdgeInbound the edge that uses them.                       *)
(***************************************************************************)
EXTENDS Integers, Sequences, FiniteSets, FiniteSetsExt, SequencesExt

CONSTANTS SegCap,    \* segmentSize, in records
          MaxSize,   \* disk_max_size, in records
          Cut, Torn

ASSUME WALAssumption ==
    SegCap \in Nat \ {0} /\ MaxSize \in Nat \ {0} /\ Cut # Torn

VARIABLES files,    \* segment number -> its records
          stored,   \* consumer.offset: [seg, pos]; seg 0 is "", -1 unreadable
          writer,   \* currentSegment, 0 if none was opened since the start
          size,     \* currentSize
          reader,   \* readSegment, 0 if readFile is nil
          pos,      \* readOffset
          total,    \* totalSize
          rpc       \* where ReadNext is, holding w.mu: idle, reset, again

disk == <<files, stored>>
wal  == <<files, stored, writer, size, reader, pos, total, rpc>>

NoOffset == [seg |-> 0, pos |-> 0]
Nowhere  == NoOffset

Segments == DOMAIN files
FileSize == Cardinality(UNION {{s} \X DOMAIN files[s] : s \in Segments})

WALInit ==
    /\ files = <<>> /\ stored = NoOffset
    /\ writer = 0 /\ size = 0 /\ reader = 0 /\ pos = 0 /\ total = 0 /\ rpc = "idle"

-----------------------------------------------------------------------------
(* Append: into the current segment, or a new one when that is full. *)

Full == total >= MaxSize

NextSegment == IF Segments = {} THEN 1 ELSE Max(Segments) + 1

TargetLate == IF writer # 0 /\ size <= SegCap THEN writer ELSE NextSegment
Target     == IF writer # 0 /\ size < SegCap THEN writer ELSE NextSegment

Put(recs) == [s \in Segments \cup {Target} |->
                IF s # Target THEN files[s]
                ELSE IF s \in Segments THEN files[s] \o recs ELSE recs]

AppendRecord(m) ==
    /\ rpc = "idle" /\ ~Full
    /\ files' = Put(<<m>>)
    /\ writer' = Target /\ size' = Len(files'[Target])
    /\ total' = total + 1
    /\ UNCHANGED <<stored, reader, pos, rpc>>

(* encodeWALRecord fails: some of its writes were made, and neither        *)
(* currentSize nor totalSize knows.                                        *)
AppendFails(recs) ==
    /\ rpc = "idle" /\ ~Full
    /\ files' = Put(recs)
    /\ writer' = Target /\ size' = IF Target = writer THEN size ELSE 0
    /\ UNCHANGED <<stored, reader, pos, total, rpc>>

-----------------------------------------------------------------------------
(* ReadNext.  Where it reads: the open file, or the one openReadSegment    *)
(* would open.                                                             *)

FirstSegment == IF Segments = {} THEN Nowhere ELSE [seg |-> Min(Segments), pos |-> 0]

CursorNamed  == IF reader # 0 THEN [seg |-> reader, pos |-> pos] ELSE stored
Cursor       == IF reader # 0 THEN [seg |-> reader, pos |-> pos]
                ELSE IF stored.seg \in Segments THEN stored
                ELSE FirstSegment

(* What follows the read position: a whole record, an error, or the end,   *)
(* before which a cut record may stand.                                    *)
Follows(c)   == c.seg \in Segments /\ c.pos < Len(files[c.seg])
HasRecord(c) == Follows(c) /\ files[c.seg][c.pos + 1] \notin {Cut, Torn}
AtCut(c)     == Follows(c) /\ files[c.seg][c.pos + 1] = Cut
Blocked(c)   == Follows(c) /\ \/ files[c.seg][c.pos + 1] = Torn
                              \/ AtCut(c) /\ c.pos + 1 < Len(files[c.seg])
AtEnd(c)     == c.seg \in Segments /\ ~HasRecord(c) /\ ~Blocked(c)

NextRecord == files[Cursor.seg][Cursor.pos + 1]

SeekTo(c)   == reader' = c.seg /\ pos' = c.pos
Progress(c) == [c EXCEPT !.pos = @ + 1]

(* The segment has been read to its end (or to a cut record, which decodes *)
(* as end of file) and is not the one being written.                       *)
Exhausted(c)    == AtEnd(c) /\ c.seg # writer

(* A record is there: it is returned, its offset persisted. *)
ReadMessage ==
    /\ rpc \in {"idle", "again"}
    /\ HasRecord(Cursor)
    /\ SeekTo(Progress(Cursor))
    /\ stored' = Progress(Cursor)
    /\ rpc' = "idle"
    /\ UNCHANGED <<files, writer, size, total>>

(* Nothing to read: no segment, or the end of the one being written.  What *)
(* was read of a cut record is not read again.                             *)
ReadNothing ==
    /\ rpc \in {"idle", "again"}
    /\ ~HasRecord(Cursor) /\ ~Blocked(Cursor) /\ ~Exhausted(Cursor)
    /\ SeekTo(IF AtCut(Cursor) THEN Progress(Cursor) ELSE Cursor)
    /\ rpc' = "idle"
    /\ UNCHANGED <<disk, writer, size, total>>

SizeForgotten(seg) == total
SizeWithout(seg)   == Max({total - Len(files[seg]), 0})

(* readFile is closed, the file removed ... *)
RemoveSegment ==
    /\ rpc \in {"idle", "again"}
    /\ Exhausted(Cursor)
    /\ total' = SizeWithout(Cursor.seg)
    /\ files' = [s \in Segments \ {Cursor.seg} |-> files[s]]
    /\ SeekTo(Nowhere)
    /\ rpc' = "reset"
    /\ UNCHANGED <<stored, writer, size>>

OffsetReset == NoOffset

(* ... and the empty offset persisted; then the loop goes on. *)
ResetOffset ==
    /\ rpc = "reset"
    /\ stored' = OffsetReset
    /\ rpc' = "again"
    /\ UNCHANGED <<files, writer, size, reader, pos, total>>

(* The records from the read position on, and those of the segments that   *)
(* are opened later.                                                       *)
Ahead(s) == SubSeq(files[s], (IF s = Cursor.seg THEN Cursor.pos ELSE 0) + 1, Len(files[s]))
Unread   == (UNION {ToSet(Ahead(s)) : s \in Segments}) \ {Cut, Torn}

(* EdgeInbound.shouldStop asks whether there is anything to read: an open  *)
(* read file counts, whatever is left in it.                               *)
Pending == reader # 0 \/ Segments # {}
=============================================================================

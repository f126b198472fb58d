----------------------------- MODULE DiskWALCrash -----------------------------
(***************************************************************************)
(* The write-ahead log across stops of the process: Close or a kill at any *)
(* point, inside Append, ReadNext or the write of the offset file too, and *)
(* NewDiskWAL on what is left.  A power failure also takes the ends of     *)
(* segments that were not synced; the offset file and the directory are    *)
(* taken to survive it, unless the stop tears the offset file.  A write    *)
(* may also fail in a process that goes on.  Messages are numbered in the  *)
(* order of their Appends.                                                 *)
(***************************************************************************)
EXTENDS DiskWAL

CONSTANTS Messages,  \* how many messages are appended (bounds the model)
          Halts,     \* how often the process stops (bounds the model)
          Tears      \* the faults that happen: a stop that tears a method,
                     \* a power failure, one failed write

ASSUME CrashAssumption ==
    /\ Messages \in Nat /\ Halts \in Nat
    /\ Tears \subseteq {"append", "remove", "offset", "power", "write"}
    /\ Cut \notin Nat /\ Torn \notin Nat

VARIABLES up,       \* the process runs and NewDiskWAL returned the log
          next,     \* the next message to append
          halts,    \* stops so far
          torn,     \* which of Tears have happened
          synced,   \* segment -> how many of its records are on the disk
          dirty,    \* Append has written since the last sync
          since,    \* the first message this process appends
          firm,     \* unread messages a sync came after, by the process that appended them
          got,      \* messages ReadNext returned, in order
          asleep    \* drainLoop found nothing and waits for mem

durable  == <<synced, dirty, since, firm>>
process  == <<up, next, halts, torn>>
vars     == <<wal, durable, process, got, asleep>>

Damaged == [seg |-> -1, pos |-> 0]

Init ==
    /\ WALInit
    /\ synced = <<>> /\ dirty = FALSE
    /\ up = TRUE /\ next = 1 /\ halts = 0 /\ torn = {}
    /\ since = 1 /\ firm = {} /\ got = <<>> /\ asleep = FALSE

-----------------------------------------------------------------------------

(* The end of the segment that is full is synced before it is closed. *)
SyncNone(segs) == [s \in segs |-> IF s \in Segments THEN synced[s] ELSE 0]
SyncFull(segs) == [s \in segs |-> IF s \notin Segments THEN 0
                                 ELSE IF s = writer /\ Target # writer /\ dirty THEN Len(files[s])
                                 ELSE synced[s]]

AppendNext ==
    /\ up /\ next <= Messages
    /\ AppendRecord(next)
    /\ synced' = SyncFull(DOMAIN files') /\ dirty' = TRUE
    /\ next' = next + 1
    /\ UNCHANGED <<since, firm, up, halts, torn, got, asleep>>

Tear(where) == where \in Tears /\ torn' = torn \cup {where}

(* A write of Append fails, nothing, some or part of its record is there;  *)
(* the caller tries the message again or drops it.                         *)
WriteFails ==
    /\ up /\ next <= Messages
    /\ Tear("write") /\ torn' # torn
    /\ \E recs \in {<<>>, <<Cut>>, <<Torn>>} : AppendFails(recs)
    /\ synced' = SyncFull(DOMAIN files') /\ dirty' = (dirty /\ Target = writer)
    /\ next' \in {next, next + 1}
    /\ UNCHANGED <<since, firm, up, halts, got, asleep>>

(* ReadNext is called by drainLoop, in a loop while it is not asleep, and  *)
(* by handleDiskFull (drop_oldest) after an Append that failed, once, at   *)
(* any time.  It returns a message ...                                     *)
Receive ==
    /\ up
    /\ ReadMessage
    /\ got' = Append(got, NextRecord)
    /\ firm' = firm \ {NextRecord}
    /\ UNCHANGED <<synced, dirty, since, process, asleep>>

(* ... or goes one step towards one, or finds none: a drainLoop that finds *)
(* none then waits for a message in mem, whatever is appended meanwhile.   *)
Seek ==
    /\ up
    /\ \/ ReadNothing /\ asleep' \in {asleep, TRUE}
       \/ (RemoveSegment \/ ResetOffset) /\ UNCHANGED asleep
    /\ synced' = [s \in DOMAIN files' |-> synced[s]]
    /\ UNCHANGED <<dirty, since, firm, process, got>>

(* On an overflow edge a message may come through mem; on a disk edge none *)
(* ever does.                                                              *)
Wake ==
    /\ up /\ asleep
    /\ asleep' = FALSE
    /\ UNCHANGED <<wal, durable, process, got>>

(* fsyncLocked, which also writes the offset file again. *)
SyncWriter ==
    /\ rpc = "idle" /\ writer # 0 /\ dirty
    /\ synced' = [synced EXCEPT ![writer] = Len(files[writer])]
    /\ firm' = firm \cup ((since..next - 1) \cap Unread)

(* Every disk_sync_interval. *)
Fsync ==
    /\ up
    /\ SyncWriter
    /\ dirty' = FALSE
    /\ UNCHANGED <<wal, since, process, got, asleep>>

(* The process stops: what it had in memory is gone. *)
Down ==
    /\ up /\ halts < Halts
    /\ halts' = halts + 1
    /\ up' = FALSE /\ rpc' = "idle"
    /\ writer' = 0 /\ size' = 0 /\ reader' = 0 /\ pos' = 0 /\ total' = 0
    /\ since' = 1 /\ dirty' = FALSE /\ asleep' = FALSE
    /\ UNCHANGED got

(* Between two calls, or between the two halves of a deletion. *)
Halt ==
    /\ IF rpc = "reset" THEN Tear("remove") ELSE UNCHANGED torn
    /\ Down
    /\ UNCHANGED <<disk, synced, firm, next>>

(* Close syncs what it wrote. *)
Close ==
    /\ SyncWriter
    /\ Down
    /\ UNCHANGED <<disk, torn, next>>

(* Each segment keeps what was synced and some of the rest, whole records  *)
(* and perhaps a torn one.                                                 *)
Keep(s)    == synced[s]..Len(files[s])

PowerFails ==
    /\ Tear("power")
    /\ rpc = "idle"
    /\ \E n \in [Segments -> 0..SegCap + 1], tail \in {<<>>, <<Cut>>, <<Torn>>} :
          /\ \A s \in Segments : n[s] \in Keep(s)
          /\ \E s \in Segments : n[s] < Len(files[s])
          /\ files' = [s \in Segments |->
                IF n[s] = Len(files[s]) THEN files[s] ELSE SubSeq(files[s], 1, n[s]) \o tail]
    /\ synced' = [s \in Segments |-> Len(files'[s])]
    /\ Down
    /\ UNCHANGED <<stored, firm, next>>

(* In Append, after some of the record's writes. *)
HaltInAppend ==
    /\ Tear("append")
    /\ rpc = "idle" /\ ~Full /\ next <= Messages
    /\ \E recs \in {<<>>, <<Cut>>} : files' = Put(recs)
    /\ synced' = SyncFull(DOMAIN files')
    /\ next' = next + 1
    /\ Down
    /\ UNCHANGED <<stored, firm>>

(* In persistOffset, called by ReadNext and by the periodic fsync. *)
HaltInOffset ==
    /\ Tear("offset")
    /\ HasRecord(Cursor) \/ rpc = "reset" \/ writer # 0
    /\ stored' = Damaged
    /\ Down
    /\ UNCHANGED <<files, synced, firm, next>>

(* NewDiskWAL: loadOffset, scanTotalSize, openReadSegment. *)
Restart ==
    /\ ~up
    /\ stored # Damaged
    /\ up' = TRUE
    /\ total' = FileSize
    /\ SeekTo(Cursor)
    /\ since' = next
    /\ UNCHANGED <<disk, synced, dirty, firm, writer, size, rpc, next, halts, torn, got, asleep>>

Next == AppendNext \/ WriteFails \/ Receive \/ Seek \/ Wake \/ Fsync
        \/ Halt \/ Close \/ PowerFails \/ HaltInAppend \/ HaltInOffset \/ Restart

(* drainLoop keeps calling ReadNext until it finds nothing: the edge and   *)
(* the stages behind it take what it emits (EdgeInbound, Dispatch), and a  *)
(* pipeline that is cancelled is closed, which is a stop here.  A call     *)
(* that was begun returns, and a process that was stopped is started       *)
(* again.  Nobody has to wake drainLoop.                                   *)
Reading  == (~asleep \/ rpc # "idle") /\ (Receive \/ Seek)
Fairness == WF_vars(Reading) /\ WF_vars(Restart)

Spec     == Init /\ [][Next]_vars
FairSpec == Spec /\ Fairness

-----------------------------------------------------------------------------

(* A stop inside the deletion of a segment, or inside the write of the     *)
(* offset file, leaves an offset that is wrong or unreadable; at a record  *)
(* torn inside a Write, or left unfinished by a failed one, ReadNext fails.*)
OffsetSound == torn \cap {"remove", "offset"} = {}
Stuck       == Blocked(Cursor)

(* The shape of the state.  totalSize, which Append and ReadNext keep by   *)
(* hand and a restart scans, is the size of the files, whatever stops came *)
(* before; only a failed write makes it too small, by what that write left.*)
(* No segment gets more messages than it should, and nothing is synced     *)
(* that is not there.                                                      *)
Whole(s) == {i \in DOMAIN files[s] : files[s][i] \notin {Cut, Torn}}
Slip     == IF "write" \in torn THEN 1 ELSE 0

TypeOK ==
    /\ Segments \subseteq Nat \ {0}
    /\ \A s \in Segments : /\ files[s] \in Seq(1..Messages \cup {Cut, Torn})
                          /\ Cardinality(Whole(s)) <= SegCap
    /\ stored \in [seg : Nat \cup {-1}, pos : Nat]
    /\ writer = 0 \/ writer \in Segments
    /\ reader = 0 \/ reader \in Segments
    /\ pos \in Nat
    /\ up => total \in FileSize - Slip..FileSize
    /\ total \in 0..MaxSize + Slip
    /\ size = 0 \/ (writer # 0 /\ size <= SegCap + Slip)
    /\ rpc \in {"idle", "reset", "again"}
    /\ DOMAIN synced = Segments /\ \A s \in Segments : synced[s] \in 0..Len(files[s])
    /\ up \in BOOLEAN /\ dirty \in BOOLEAN
    /\ next \in 1..Messages + 1 /\ halts \in 0..Halts /\ torn \subseteq Tears
    /\ since \in 1..next /\ firm \subseteq 1..Messages
    /\ got \in Seq(1..Messages)
    /\ asleep \in BOOLEAN

(* The queue is what ReadNext has still to return.                         *)
Log == INSTANCE FifoLog
         WITH Items   <- 1..Messages,
              queue   <- IF OffsetSound THEN Unread ELSE {},
              safe    <- IF OffsetSound THEN firm ELSE {},
              taken   <- IF OffsetSound THEN got ELSE <<>>,
              outages <- IF OffsetSound /\ "power" \in torn THEN halts ELSE 0,
              broken  <- ~OffsetSound

(* Across appends, rotations, deletions, restarts and torn appends the log *)
(* is a queue (Append, ReadNext, NewDiskWAL): no record is skipped, taken  *)
(* twice or out of order, and only a power failure takes any, none of them *)
(* appended before a sync of the same process.                             *)
IsQueue == Log!LogSpec

(* What is in the log while drainLoop is awake, or the process down, is    *)
(* read some day, however the process stops: drainLoop never falls asleep  *)
(* over a message (drainLoop, ReadNext, NewDiskWAL).  A message that is    *)
(* appended after it fell asleep has no such promise before a restart.     *)
AllRead == \A m \in 1..Messages :
    (m \in Unread /\ ~asleep) ~> (m \notin Unread \/ Stuck \/ ~OffsetSound)

(* A full log that drainLoop reads has room again: what the polling loop   *)
(* of handleDiskFull waits for.                                            *)
RoomAgain == (Full /\ ~asleep) ~> (~Full \/ Stuck)
=============================================================================

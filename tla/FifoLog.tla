-------------------------------- MODULE FifoLog --------------------------------
(***************************************************************************)
(* What a disk-backed edge promises whoever appends to it and reads from   *)
(* it (internal/buffer disk.go), with segments, offsets and restarts left  *)
(* out: a queue.  What was appended is taken once, in order; a power       *)
(* failure may take away what is not safe yet, and nothing else does.      *)
(* The stops after which the log itself no longer knows how far it was     *)
(* read end the promise (Break).                                           *)
(*                                                                         *)
(* Items are numbered in the order in which they are put, so the queue is  *)
(* the set of those that wait and its head the least of them.              *)
(***************************************************************************)
EXTENDS Integers, Sequences, SequencesExt

CONSTANT Items

VARIABLES queue,    \* appended and not taken
          safe,     \* those of them that survive a power failure
          taken,    \* in the order they were taken
          outages,  \* stops of the process since the power first failed
          broken

logVars == <<queue, safe, taken, outages, broken>>

LogInit == queue = {} /\ safe = {} /\ taken = <<>> /\ outages = 0 /\ broken = FALSE

(* Things get safe at any time. *)
Safer == safe \subseteq safe' /\ safe' \subseteq queue'

Put(m) ==
    /\ \A x \in queue \cup ToSet(taken) : x < m
    /\ queue' = queue \cup {m}
    /\ Safer
    /\ UNCHANGED <<taken, outages, broken>>

Take ==
    /\ \E m \in queue :
          /\ \A x \in queue : m <= x
          /\ taken' = Append(taken, m)
          /\ queue' = queue \ {m}
          /\ safe' = safe \ {m}
    /\ UNCHANGED <<outages, broken>>

(* A sync, or a stop that takes nothing. *)
Stay ==
    /\ Safer
    /\ outages' >= outages
    /\ UNCHANGED <<queue, taken, broken>>

Lose ==
    /\ outages' > outages
    /\ queue' \subseteq queue /\ Safer
    /\ UNCHANGED <<taken, broken>>

Break == queue' = {} /\ safe' = {} /\ taken' = <<>> /\ outages' = 0 /\ broken' = TRUE

LogNext == ~broken /\ ((\E m \in Items : Put(m)) \/ Take \/ Stay \/ Lose \/ Break)

LogSpec == LogInit /\ [][LogNext]_logVars
=============================================================================

----------------------------- MODULE MessageData -----------------------------
(***************************************************************************)
(* What the branches of one message share: internal/message message.go     *)
(* (ShallowCopy, EnsureWritable), internal/eql eql.go (assignments), the   *)
(* map, filter and route transforms, and pipeline.go ensureParsed and      *)
(* reserializeIfDirty.                                                     *)
(*                                                                         *)
(* A message leaves a stage over several edges.  The copies have their own *)
(* fields, but parsedData is one Go map, and so is a map inside Metadata.  *)
(* Each branch has goroutines of its own, a path of transforms and a sink. *)
(* A payload is the set of the writers whose values are in it; which way a *)
(* predicate goes is left open.  A transform makes one assignment, and a   *)
(* field of the payload gets a value that is no map.  The edges buffer in  *)
(* memory: a record of a disk edge keeps neither parsed data nor backup.   *)
(*                                                                         *)
(* An access to a map of Go is a phase with a beginning and an end.  When  *)
(* a write overlaps another access, the runtime may end the process        *)
(* ("concurrent map writes") or not notice.                                *)
(***************************************************************************)
EXTENDS Naturals, Sequences, SequencesExt, FiniteSets

CONSTANTS Branches,  \* the edges the message leaves over
          Paths,     \* the paths of transforms a branch may have
          Root       \* the stage before the fan-out, as a writer

(* The transforms: map with payload.x = .., with payload = metadata, with  *)
(* metadata.a.b = ..; route; filter, or one whose predicate is false.      *)
Kinds == {"set", "whole", "tag", "route", "filter"}

(* The stage before the fan-out: a source with plain edges; a filter, or   *)
(* any stage with a conditional edge; a map with one of two assignments.   *)
(* (A cron source, whose messages come parsed, is as a filter and a        *)
(* decoder.)                                                               *)
Roots == {"plain", "reads", "set", "tag"}

ASSUME DataAssumption == Paths \subseteq Seq(Kinds) /\ Root \notin Branches

VARIABLES root,     \* one of Roots
          decoder,  \* the source has a decoder
          empty,    \* the source delivered no payload: nil
          encoder,  \* encoder[b]: the sink of b has an encoder
          path,     \* path[b]: the transforms of b
          looks,    \* the branches whose expressions use metadata.a.b
          shared,   \* the map all copies point to
          tags,     \* the map inside Metadata, if root made it
          msg,      \* msg[b]: the copy of branch b; see Copy
          at,       \* at[b]: the transform b is at
          pc,       \* pc[b]: idle; read, write, tagging, marshal in a
                    \* transform; encode in the sink; done, gone
          crashed

config == <<root, decoder, empty, encoder, path, looks>>
vars   == <<config, shared, tags, msg, at, pc, crashed>>

-----------------------------------------------------------------------------
(* The fan-out.  parsedData is there if a stage or a condition has looked  *)
(* at the message (ensureParsed) or a map has assigned to it; it counts as *)
(* changed (parsedDirty) as soon as it is there, for SetParsedData says so.*)

ParsedEarly == decoder \/ root = "set"
Parsed      == root = "set" \/ (decoder /\ root # "plain")

(* data: nil, the shared map, one of its own, or Metadata, with the map    *)
(* inside it; local: the map of the evaluation context, value: of its      *)
(* expression; blank: the payload is nil; original: {} for nil.            *)
Copy == [data     |-> IF Parsed THEN "shared" ELSE "nil",
         own      |-> {},
         local    |-> "own",
         value    |-> {},
         dirty    |-> Parsed,
         payload  |-> IF root = "set" THEN {Root} ELSE {},
         blank    |-> empty /\ root # "set",
         original |-> IF Parsed /\ root \in {"set", "tag"} /\ ~empty THEN {{}} ELSE {},
         route    |-> {}]

Init ==
    /\ root \in Roots /\ decoder \in BOOLEAN /\ empty \in BOOLEAN
    /\ empty /\ decoder => root = "plain"
    /\ encoder \in [Branches -> BOOLEAN] /\ path \in [Branches -> Paths]
    /\ looks \in IF root = "tag" THEN SUBSET Branches ELSE {{}}
    /\ shared = IF root = "set" THEN {Root} ELSE {}
    /\ tags = IF root = "tag" THEN {Root} ELSE {}
    /\ msg = [b \in Branches |-> Copy]
    /\ at = [b \in Branches |-> 1]
    /\ pc = [b \in Branches |-> "idle"]
    /\ crashed = FALSE

-----------------------------------------------------------------------------
(* A transform. *)

Kind(b)    == path[b][at[b]]
In(b, m)   == CASE m = "shared" -> shared
                [] m = "meta"   -> msg[b].own \cup tags
                [] OTHER        -> msg[b].own
Content(b) == In(b, msg[b].local)

Goto(b, s) == pc' = [pc EXCEPT ![b] = s] /\ UNCHANGED at
Leave(b)   == pc' = [pc EXCEPT ![b] = "idle"] /\ at' = [at EXCEPT ![b] = @ + 1]

(* A decoder refuses a payload of no bytes (JSON). *)
Undecodable(b) == decoder /\ msg[b].data = "nil" /\ msg[b].blank

Due(b) == pc[b] = "idle" /\ at[b] <= Len(path[b])

(* ensureParsed, and the payload the transform works on: parsedData if     *)
(* there is one, else the decoded bytes.                                   *)
Begin(b) ==
    /\ Due(b) /\ ~Undecodable(b)
    /\ msg' = IF msg[b].data = "nil"
              THEN [msg EXCEPT ![b].own = msg[b].payload, ![b].local = "own",
                               ![b].data = IF decoder THEN "own" ELSE "nil",
                               ![b].dirty = decoder \/ @]
              ELSE [msg EXCEPT ![b].local = msg[b].data]
    /\ Goto(b, "read")
    /\ UNCHANGED <<config, shared, tags, crashed>>

(* A predicate is false, or the decoder or an expression fails: the        *)
(* message ends here and what was assigned before stays assigned.          *)
Ends(b) ==
    /\ pc[b] \in {"read", "marshal"} \/ (Due(b) /\ Undecodable(b))
    /\ Goto(b, "gone")
    /\ UNCHANGED <<config, shared, tags, msg, crashed>>

Passes(b) ==
    /\ pc[b] = "read" /\ Kind(b) = "filter"
    /\ Leave(b)
    /\ UNCHANGED <<config, shared, tags, msg, crashed>>

Routes(b) ==
    /\ pc[b] = "read" /\ Kind(b) = "route"
    /\ msg' = [msg EXCEPT ![b].route = {b}]
    /\ Leave(b)
    /\ UNCHANGED <<config, shared, tags, crashed>>

(* The expression is evaluated.  EnsureWritable copies parsedData, but the *)
(* assignment goes to the map that was read before, ctx.Payload, and       *)
(* SetParsedData drops the copy again.  If that map is Metadata, the path  *)
(* may lead into the map inside it.                                        *)
Assigns(b) ==
    /\ pc[b] = "read" /\ Kind(b) = "set"
    /\ msg' = [msg EXCEPT ![b].value = {b} \cup (IF b \in looks THEN tags ELSE {})]
    /\ \/ Goto(b, "write")
       \/ msg[b].local = "meta" /\ root = "tag" /\ Goto(b, "tagging")
    /\ UNCHANGED <<config, shared, tags, crashed>>

(* setPath and SetParsedData(root). *)
Assigned(b) == [msg[b] EXCEPT !.data = msg[b].local, !.value = {}, !.dirty = TRUE]

Writes(b) ==
    /\ pc[b] = "write"
    /\ IF msg[b].local = "shared"
       THEN shared' = shared \cup msg[b].value /\ msg' = [msg EXCEPT ![b] = Assigned(b)]
       ELSE /\ msg' = [msg EXCEPT ![b] = [Assigned(b) EXCEPT !.own = @ \cup msg[b].value]]
            /\ UNCHANGED shared
    /\ Goto(b, "marshal")
    /\ UNCHANGED <<config, tags, crashed>>

(* payload = metadata: from now on parsedData is the map Metadata was.     *)
Replaces(b) ==
    /\ pc[b] = "read" /\ Kind(b) = "whole"
    /\ msg' = [msg EXCEPT ![b].own = {b}, ![b].data = "meta", ![b].local = "meta", ![b].dirty = TRUE]
    /\ Goto(b, "marshal")
    /\ UNCHANGED <<config, shared, tags, crashed>>

(* A path in metadata: what EnsureWritable copied, maps inside it and all, *)
(* remains.                                                                *)
Tags(b) ==
    /\ pc[b] = "read" /\ Kind(b) = "tag"
    /\ msg' = IF msg[b].data \in {"shared", "meta"}
              THEN [msg EXCEPT ![b].data = "own", ![b].own = In(b, msg[b].data)]
              ELSE msg
    /\ Goto(b, "tagging")
    /\ UNCHANGED <<config, shared, tags, crashed>>

(* Copies of Metadata share the maps inside it; a path that is not there   *)
(* yet is made in the map of the branch.                                   *)
Tagged(b) ==
    /\ pc[b] = "tagging"
    /\ tags' = IF root = "tag" THEN tags \cup {b} ELSE tags
    /\ msg' = IF Kind(b) = "set" THEN [msg EXCEPT ![b] = Assigned(b)] ELSE msg
    /\ IF msg[b].dirty THEN Goto(b, "marshal") ELSE Leave(b)
    /\ UNCHANGED <<config, shared, crashed>>

(* A payload that is nil leaves the backup nil, and the next one counts.   *)
BackupAlways(b) == {msg[b].payload}
Backup(b) == IF msg[b].original # {} THEN msg[b].original
             ELSE IF msg[b].blank THEN {} ELSE {msg[b].payload}

Rewritten(b) ==
    [msg[b] EXCEPT !.original = Backup(b), !.payload = Content(b), !.blank = FALSE]

Marshals(b) ==
    /\ pc[b] = "marshal"
    /\ msg' = [msg EXCEPT ![b] = Rewritten(b)]
    /\ Leave(b)
    /\ UNCHANGED <<config, shared, tags, crashed>>

-----------------------------------------------------------------------------
(* The sink: reserializeIfDirty, then Write. *)

Arrived(b)      == pc[b] = "idle" /\ at[b] > Len(path[b])
Reserializes(b) == msg[b].dirty /\ encoder[b] /\ msg[b].data # "nil"

Encode(b) ==
    /\ Arrived(b) /\ Reserializes(b)
    /\ msg' = [msg EXCEPT ![b].local = msg[b].data]
    /\ Goto(b, "encode")
    /\ UNCHANGED <<config, shared, tags, crashed>>

Encoded(b) ==
    /\ pc[b] = "encode"
    /\ msg' = [msg EXCEPT ![b] = Rewritten(b)]
    /\ Goto(b, "done")
    /\ UNCHANGED <<config, shared, tags, crashed>>

Sent(b) ==
    /\ Arrived(b) /\ ~Reserializes(b)
    /\ Goto(b, "done")
    /\ UNCHANGED <<config, shared, tags, msg, crashed>>

-----------------------------------------------------------------------------
Reading(b) == /\ pc[b] \in {"read", "marshal", "encode"}
              /\ msg[b].local = "shared"
Writing(b) == pc[b] = "write" /\ msg[b].local = "shared"

(* The map inside Metadata is read by expressions and, where the payload   *)
(* is Metadata, by copying, marshalling and encoding it.                   *)
Looking(b) == /\ root = "tag"
              /\ \/ pc[b] = "read" /\ b \in looks
                 \/ pc[b] \in {"read", "marshal", "encode"} /\ msg[b].local = "meta"
Tagging(b) == pc[b] = "tagging" /\ root = "tag"

Race == \E b, c \in Branches : /\ b # c
                               /\ \/ Writing(b) /\ (Reading(c) \/ Writing(c))
                                  \/ Tagging(b) /\ (Looking(c) \/ Tagging(c))

Fatal ==
    /\ Race
    /\ crashed' = TRUE
    /\ pc' = [b \in Branches |-> "gone"]
    /\ UNCHANGED <<config, shared, tags, msg, at>>

Over == (\A b \in Branches : pc[b] \in {"done", "gone"}) /\ UNCHANGED vars

Transform(b) == \/ Begin(b) \/ Ends(b) \/ Passes(b) \/ Routes(b) \/ Assigns(b) \/ Writes(b)
                \/ Replaces(b) \/ Tags(b) \/ Tagged(b) \/ Marshals(b)
Flush(b)     == Encode(b) \/ Encoded(b) \/ Sent(b)

Next == (\E b \in Branches : Transform(b) \/ Flush(b)) \/ Fatal \/ Over

Spec == Init /\ [][Next]_vars

-----------------------------------------------------------------------------
(* What a branch sends when it has the message to itself. *)
Inherited == IF root = "set" THEN {Root} ELSE {}
Inside    == IF root = "tag" THEN {Root} ELSE {}
Has(b, k) == k \in ToSet(path[b])

Alone(b) == CASE Has(b, "whole") -> {b} \cup Inside
              [] Has(b, "set") /\ ~Has(b, "whole") ->
                     Inherited \cup {b} \cup (IF b \in looks THEN Inside ELSE {})
              [] OTHER -> Inherited

(* A branch writes into the map of the others when it assigns to a field   *)
(* before anything has given it a map of its own.                          *)
Intrudes(b) == \E i \in DOMAIN path[b] :
                  path[b][i] = "set" /\ \A j \in 1..i - 1 : path[b][j] \notin {"whole", "tag"}

(* A branch sends what is in that map if it goes through parsedData.       *)
Relies(b) == /\ ~Has(b, "whole")
             /\ Has(b, "set") \/ encoder[b] \/ Has(b, "tag")

AtFanOut == root = "set" \/ (decoder /\ root \in {"reads", "tag"})

(* A branch writes into the map inside Metadata by a path in metadata, or  *)
(* by one in the payload once that is Metadata.                            *)
Marks(b) == \/ Has(b, "tag")
            \/ \E i, j \in DOMAIN path[b] : i < j /\ path[b][i] = "whole" /\ path[b][j] = "set"

(* It sends what is in there if it copies it to the payload; and it has to *)
(* do with that map if it only looks.                                      *)
Borrows(b) == Has(b, "whole") \/ (b \in looks /\ Has(b, "set"))
Touches(b) == Has(b, "tag") \/ Has(b, "whole") \/ (b \in looks /\ path[b] # <<>>)

(* No branch sees what another one writes, and no two of them meet in a    *)
(* map, unless the message was parsed before it was copied and one of them *)
(* assigns to a field of the payload, or a map inside Metadata was there   *)
(* and one of them assigns into it while another one uses it (ShallowCopy, *)
(* AssignStmt.Execute, reserializeIfDirty).  eventr-design.md:164 has no   *)
(* such exception: the first write is to clone the shared data.            *)
Isolated ==
    /\ \A b \in Branches : pc[b] = "done" =>
          \/ msg[b].payload = Alone(b)
          \/ AtFanOut /\ Relies(b) /\ \E c \in Branches \ {b} : Intrudes(c)
          \/ root = "tag" /\ Borrows(b) /\ \E c \in Branches \ {b} : Marks(c)
    /\ crashed => \/ AtFanOut /\ \E c \in Branches : Intrudes(c)
                  \/ root = "tag" /\ \E b, c \in Branches : b # c /\ Marks(b) /\ Touches(c)

(* A branch keeps the fields of its own: the route it chose, and for the   *)
(* dead letter queue the payload the source gave it, unless that is nil    *)
(* (OriginalPayload, BackupOriginalPayload), however often it was          *)
(* rewritten on the way.  For a nil one the queue gets what a map made of  *)
(* it, although eventr-design.md:610 promises the bytes that came in.      *)
OriginalPayload(b) == IF msg[b].original = {} THEN {msg[b].payload} ELSE msg[b].original

OwnFields ==
    \A b \in Branches :
       /\ pc[b] = "done" => (msg[b].route = {b} <=> Has(b, "route"))
       /\ ~empty => OriginalPayload(b) = {{}}
=============================================================================

------------------------- MODULE MessageDataProofs -------------------------
(***************************************************************************)
(* Theorems about MessageData.tla, for any number of branches and any      *)
(* paths of transforms.                                                    *)
(*                                                                         *)
(* IInv is the inductive invariant.  A branch that still points to the     *)
(* shared map has not met a map payload = .. or metadata.. = .., and one   *)
(* whose payload is Metadata has met payload = metadata (Mine); while no   *)
(* other branch intrudes or marks, what it has in hand is what its         *)
(* transforms so far make of the message (Intact), else what it was given  *)
(* if it changes nothing (Untouched).                                      *)
(*                                                                         *)
(* Len occurs in the steps at the ends of a path only, where PathDomain    *)
(* replaces it: the encoding of Len for the SMT solver is safe for         *)
(* sequences, not for the other functions of a state.                      *)
(***************************************************************************)
EXTENDS MessageData, TLAPS

Rewrites   == {"set", "whole", "tag"}
Transforms == {"read", "write", "tagging", "marshal"}
Working    == Transforms \cup {"encode"}
Writers    == Branches \cup {Root}

MsgType == [data : {"nil", "own", "shared", "meta"}, own : SUBSET Writers,
            local : {"own", "shared", "meta"}, value : SUBSET Writers, dirty : BOOLEAN,
            payload : SUBSET Writers, blank : BOOLEAN,
            original : SUBSET SUBSET Writers, route : SUBSET Branches]

TypeOK ==
    /\ root \in Roots /\ decoder \in BOOLEAN /\ empty \in BOOLEAN
    /\ encoder \in [Branches -> BOOLEAN] /\ path \in [Branches -> Paths]
    /\ looks \subseteq Branches
    /\ shared \subseteq Writers /\ tags \subseteq Writers
    /\ msg \in [Branches -> MsgType]
    /\ at \in [Branches -> Nat \ {0}]
    /\ pc \in [Branches -> {"idle", "done", "gone"} \cup Working]

(* The map inside Metadata is there if the stage before the fan-out made   *)
(* it, and only then an expression can look into it.                       *)
MetadataInv == IF root = "tag" THEN Root \in tags ELSE tags = {} /\ looks = {}

(* Where a branch is on its path.                                          *)
Placed(b) ==
    /\ pc[b] \in Transforms => at[b] \in DOMAIN path[b]
    /\ pc[b] \in {"encode", "done"} => \A j \in DOMAIN path[b] : j < at[b]
    /\ pc[b] = "encode" => encoder[b]
    /\ pc[b] = "write" => Kind(b) = "set"
    /\ pc[b] = "tagging" => Kind(b) = "tag" \/ (Kind(b) = "set" /\ msg[b].local = "meta")
    /\ pc[b] = "marshal" => Kind(b) \in Rewrites

(* Branch b has been through a transform of kind k.                        *)
Did(b, k) ==
    \E j \in DOMAIN path[b] : path[b][j] = k /\ (j < at[b] \/ (j = at[b] /\ pc[b] = "marshal"))

(* The shared map is left for good with the first whole or tag; Metadata   *)
(* is the payload after a whole only.                                      *)
Mine(b) ==
    /\ msg[b].data = "shared" \/ msg[b].local = "shared" => AtFanOut
    /\ msg[b].data = "shared" => ~Did(b, "whole") /\ ~Did(b, "tag")
    /\ pc[b] \in Working /\ msg[b].local = "shared" =>
          \A j \in DOMAIN path[b] : j < at[b] => path[b][j] \notin {"whole", "tag"}
    /\ pc[b] = "marshal" /\ msg[b].local = "shared" => Kind(b) # "whole"
    /\ pc[b] = "tagging" => msg[b].data # "shared"
    /\ msg[b].data = "meta" /\ pc[b] # "gone" => Did(b, "whole")
    /\ pc[b] \in Working /\ msg[b].local = "meta" => Did(b, "whole")
    /\ Did(b, "whole") /\ pc[b] # "gone" =>
          /\ msg[b].data \in {"own", "meta"} /\ msg[b].dirty
          /\ pc[b] \in Working => msg[b].local \in {"own", "meta"}

(* What an assignment adds, and what the transforms so far make of the     *)
(* message.                                                                *)
Gain(b)  == {b} \cup (IF b \in looks THEN Inside ELSE {})
SoFar(b) == IF Did(b, "whole") THEN {b} \cup Inside
            ELSE IF Did(b, "set") THEN Inherited \cup Gain(b) ELSE Inherited

NobodyIntrudes(b) == AtFanOut => \A c \in Branches \ {b} : ~Intrudes(c)
NobodyMarks(b)    == root = "tag" => \A c \in Branches \ {b} : ~Marks(c)

TagsKnown(b) == NobodyMarks(b) => tags \subseteq {Root, b}

Intact(b) ==
    /\ pc[b] # "marshal" => msg[b].payload = SoFar(b)
    /\ msg[b].data # "nil" => In(b, msg[b].data) = SoFar(b)
    /\ pc[b] \in Working => Content(b) = SoFar(b)
    /\ pc[b] = "write" => msg[b].value = Gain(b)

Undisturbed(b) ==
    /\ pc[b] # "gone"
    /\ Did(b, "whole") \/ NobodyIntrudes(b)
    /\ Borrows(b) => NobodyMarks(b)
    => Intact(b)

Untouched(b) ==
    ~encoder[b] /\ (\A j \in DOMAIN path[b] : path[b][j] \notin Rewrites) =>
        msg[b].payload = Inherited

Routed(b) == pc[b] # "gone" => msg[b].route = IF Did(b, "route") THEN {b} ELSE {}

BackedUp(b) == ~empty => OriginalPayload(b) = {{}} /\ ~msg[b].blank

BranchInv(b) == /\ Placed(b) /\ Mine(b) /\ Undisturbed(b)
                /\ Untouched(b) /\ Routed(b) /\ BackedUp(b)

(* Why two branches met in a map.                                          *)
Crash ==
    crashed => \/ AtFanOut /\ \E c \in Branches : Intrudes(c)
               \/ root = "tag" /\ \E b, c \in Branches : b # c /\ Marks(b) /\ Touches(c)

IInv == TypeOK /\ MetadataInv /\ Crash /\ \A b \in Branches : TagsKnown(b) /\ BranchInv(b)

-----------------------------------------------------------------------------
LEMMA PathDomain ==
    ASSUME NEW p \in Seq(Kinds)
    PROVE  DOMAIN p = 1..Len(p) /\ Len(p) \in Nat /\ \A j \in DOMAIN p : p[j] \in Kinds
OBVIOUS

(* A path, without its length.                                             *)
LEMMA PathFacts ==
    ASSUME TypeOK, NEW b \in Branches
    PROVE  /\ DOMAIN path[b] \subseteq Nat \ {0}
           /\ \A j \in DOMAIN path[b] : path[b][j] \in Kinds /\ 1..j - 1 \subseteq DOMAIN path[b]
           /\ at[b] <= Len(path[b]) <=> at[b] \in DOMAIN path[b]
           /\ at[b] > Len(path[b]) => \A j \in DOMAIN path[b] : j < at[b]
           /\ path[b] = <<>> => DOMAIN path[b] = {}
<1>1. path[b] \in Seq(Kinds) /\ at[b] \in Nat \ {0}
  BY DataAssumption DEF TypeOK
<1> DEFINE p == path[b]
<1>2. DOMAIN p = 1..Len(p) /\ Len(p) \in Nat /\ \A j \in DOMAIN p : p[j] \in Kinds
  BY <1>1, PathDomain
<1>5. p = <<>> => DOMAIN p = {}
  OBVIOUS
<1> HIDE DEF p
<1>3. DOMAIN p \subseteq Nat \ {0} /\ \A j \in DOMAIN p : 1..j - 1 \subseteq DOMAIN p
  BY <1>2
<1>4. /\ at[b] <= Len(p) <=> at[b] \in DOMAIN p
      /\ at[b] > Len(p) => \A j \in DOMAIN p : j < at[b]
  BY <1>1, <1>2
<1> QED
  BY <1>2, <1>3, <1>4, <1>5 DEF p

LEMMA HasPath == \A b \in Branches : \A k : Has(b, k) <=> \E j \in DOMAIN path[b] : path[b][j] = k
BY DEF Has, ToSet

LEMMA DidHas == \A b \in Branches : \A k : Did(b, k) => Has(b, k)
BY HasPath DEF Did

(* A branch that writes to the shared map is named by the property.        *)
LEMMA WriterIntrudes ==
    ASSUME IInv, NEW b \in Branches, Writing(b)
    PROVE  AtFanOut /\ Intrudes(b)
<1>1. pc[b] = "write" /\ msg[b].local = "shared"
  BY DEF Writing
<1>2. AtFanOut /\ \A j \in DOMAIN path[b] : j < at[b] => path[b][j] \notin {"whole", "tag"}
  BY <1>1 DEF IInv, BranchInv, Mine, Working, Transforms
<1>3. at[b] \in DOMAIN path[b] /\ path[b][at[b]] = "set"
  BY <1>1 DEF IInv, BranchInv, Placed, Transforms, Kind
<1>4. at[b] \in Nat /\ 1..at[b] - 1 \subseteq DOMAIN path[b]
  BY <1>3, PathFacts DEF IInv
<1>5. \A j \in 1..at[b] - 1 : path[b][j] \notin {"whole", "tag"}
  BY <1>2, <1>4
<1> QED
  BY <1>2, <1>3, <1>5 DEF Intrudes

(* And so is one that writes into Metadata, and one that looks there.      *)
LEMMA TaggerMarks ==
    ASSUME IInv, NEW b \in Branches, pc[b] = "tagging"
    PROVE  Marks(b)
<1>1. at[b] \in DOMAIN path[b] /\ Placed(b) /\ Mine(b)
  BY DEF IInv, BranchInv, Placed, Transforms
<1>2. CASE Kind(b) = "tag"
  BY <1>1, <1>2, HasPath DEF Kind, Marks
<1>3. CASE Kind(b) = "set" /\ msg[b].local = "meta"
  <2>1. Did(b, "whole")
    BY <1>1, <1>3 DEF Mine, Working, Transforms
  <2>2. PICK i \in DOMAIN path[b] : path[b][i] = "whole" /\ i < at[b]
    BY <2>1 DEF Did
  <2> QED
    BY <1>1, <1>3, <2>2 DEF Kind, Marks
<1> QED
  BY <1>1, <1>2, <1>3 DEF Placed

LEMMA LookerTouches ==
    ASSUME IInv, NEW c \in Branches, Looking(c) \/ pc[c] = "tagging"
    PROVE  Touches(c)
<1>1. BranchInv(c)
  BY DEF IInv
<1>2. CASE pc[c] = "read" /\ c \in looks
  <2>1. at[c] \in DOMAIN path[c]
    BY <1>1, <1>2 DEF BranchInv, Placed, Transforms
  <2> QED
    BY <1>2, <2>1, PathFacts DEF Touches, IInv
<1>3. CASE pc[c] \in {"read", "marshal", "encode"} /\ msg[c].local = "meta"
  <2>1. Did(c, "whole")
    BY <1>1, <1>3 DEF BranchInv, Mine, Working, Transforms
  <2> QED
    BY <2>1, DidHas DEF Touches
<1>4. CASE pc[c] = "tagging"
  <2>1. CASE Kind(c) = "tag"
    <3>1. at[c] \in DOMAIN path[c]
      BY <1>1, <1>4 DEF BranchInv, Placed, Transforms
    <3> QED
      BY <2>1, <3>1, HasPath DEF Kind, Touches
  <2>2. CASE msg[c].local = "meta"
    <3>1. Did(c, "whole")
      BY <1>1, <1>4, <2>2 DEF BranchInv, Mine, Working, Transforms
    <3> QED
      BY <3>1, DidHas DEF Touches
  <2> QED
    BY <1>1, <1>4, <2>1, <2>2 DEF BranchInv, Placed
<1> QED
  BY <1>2, <1>3, <1>4 DEF Looking

-----------------------------------------------------------------------------
(* What a step makes of the transforms a branch has been through.          *)
LEMMA DidStays ==
    ASSUME IInv, NEW b \in Branches, path' = path, at'[b] = at[b], pc[b] # "marshal", pc'[b] # "marshal"
    PROVE  \A k : Did(b, k)' <=> Did(b, k)
BY DEF Did

LEMMA DidMore ==
    ASSUME IInv, NEW b \in Branches, path' = path, pc[b] \in Transforms \ {"marshal"},
           \/ at'[b] = at[b] /\ pc'[b] = "marshal"
           \/ at'[b] = at[b] + 1 /\ pc'[b] = "idle"
    PROVE  \A k : Did(b, k)' <=> Did(b, k) \/ Kind(b) = k
<1>1. at[b] \in DOMAIN path[b] /\ at[b] \in Nat /\ DOMAIN path[b] \subseteq Nat
  BY PathFacts DEF IInv, TypeOK, BranchInv, Placed, Transforms
<1>2. \A j \in DOMAIN path[b] : j < at[b] + 1 <=> j < at[b] \/ j = at[b]
  BY <1>1
<1>3. \A k : Did(b, k) <=> \E j \in DOMAIN path[b] : path[b][j] = k /\ j < at[b]
  BY DEF Did
<1>4. \A k : Did(b, k)' <=> \E j \in DOMAIN path[b] : path[b][j] = k /\ (j < at[b] \/ j = at[b])
  BY <1>1, <1>2 DEF Did
<1> QED
  BY <1>1, <1>3, <1>4 DEF Kind

LEMMA DidMarshal ==
    ASSUME IInv, NEW b \in Branches, path' = path, pc[b] = "marshal",
           at'[b] = at[b] + 1, pc'[b] = "idle"
    PROVE  \A k : Did(b, k)' <=> Did(b, k)
<1>1. at[b] \in DOMAIN path[b] /\ at[b] \in Nat /\ DOMAIN path[b] \subseteq Nat
  BY PathFacts DEF IInv, TypeOK, BranchInv, Placed, Transforms
<1>2. \A j \in DOMAIN path[b] : j < at[b] + 1 <=> j < at[b] \/ j = at[b]
  BY <1>1
<1> QED
  BY <1>2 DEF Did

LEMMA ConfigFixed ==
    ASSUME UNCHANGED config
    PROVE  /\ root' = root /\ decoder' = decoder /\ empty' = empty /\ encoder' = encoder
           /\ path' = path /\ looks' = looks
           /\ Inherited' = Inherited /\ Inside' = Inside /\ (AtFanOut' <=> AtFanOut)
           /\ \A b \in Branches : /\ NobodyIntrudes(b)' <=> NobodyIntrudes(b)
                                  /\ NobodyMarks(b)' <=> NobodyMarks(b)
                                  /\ Marks(b)' <=> Marks(b)
                                  /\ Touches(b)' <=> Touches(b)
                                  /\ Borrows(b)' <=> Borrows(b)
                                  /\ Gain(b)' = Gain(b)
<1>1. /\ root' = root /\ decoder' = decoder /\ empty' = empty /\ encoder' = encoder
      /\ path' = path /\ looks' = looks
  BY DEF config
<1>2. Inherited' = Inherited /\ Inside' = Inside /\ (AtFanOut' <=> AtFanOut)
  BY <1>1 DEF Inherited, Inside, AtFanOut
<1>3. \A b \in Branches : /\ NobodyIntrudes(b)' <=> NobodyIntrudes(b)
                          /\ Marks(b)' <=> Marks(b)
                          /\ Touches(b)' <=> Touches(b)
                          /\ Borrows(b)' <=> Borrows(b)
                          /\ Gain(b)' = Gain(b)
  BY <1>1, <1>2 DEF NobodyIntrudes, Intrudes, Marks, Touches, Borrows, Gain, Has
<1>4. \A b \in Branches : NobodyMarks(b)' <=> NobodyMarks(b)
  BY <1>1, <1>3 DEF NobodyMarks
<1> QED
  BY <1>1, <1>2, <1>3, <1>4

(* What the transforms so far make of a message depends on which kinds     *)
(* they are of.                                                            *)
LEMMA SoFarFixed ==
    ASSUME NEW b \in Branches, UNCHANGED config, \A k : Did(b, k)' <=> Did(b, k)
    PROVE  SoFar(b)' = SoFar(b)
BY ConfigFixed DEF SoFar

LEMMA SoFarMore ==
    ASSUME NEW b \in Branches, UNCHANGED config, NEW kind \in Kinds,
           \A k : Did(b, k)' <=> Did(b, k) \/ kind = k
    PROVE  SoFar(b)' = CASE kind = "whole" -> {b} \cup Inside
                         [] kind = "set"   -> SoFar(b) \cup Gain(b)
                         [] OTHER          -> SoFar(b)
<1>1. CASE kind = "whole"
  BY <1>1, ConfigFixed DEF SoFar
<1>2. CASE kind = "set"
  BY <1>2, ConfigFixed DEF SoFar, Gain
<1>3. CASE kind \notin {"whole", "set"}
  BY <1>3, ConfigFixed DEF SoFar
<1> QED
  BY <1>1, <1>2, <1>3

(* What a branch finds inside Metadata while no other one writes there.    *)
LEMMA InsideKnown ==
    ASSUME IInv, NEW b \in Branches, NobodyMarks(b)
    PROVE  /\ {b} \cup tags = {b} \cup Inside
           /\ Gain(b) = {b} \cup (IF b \in looks THEN tags ELSE {})
BY DEF IInv, MetadataInv, TagsKnown, Inside, Gain

(* A step of one branch disturbs no other: one that writes to the shared   *)
(* map intrudes, one that writes into Metadata marks.                      *)
LEMMA BranchStep ==
    ASSUME IInv, NEW b \in Branches, UNCHANGED <<config, crashed>>,
           \A c \in Branches \ {b} : msg'[c] = msg[c] /\ at'[c] = at[c] /\ pc'[c] = pc[c],
           shared' = shared \/ Writing(b),
           tags' = tags \/ (root = "tag" /\ Marks(b) /\ tags' = tags \cup {b}),
           TypeOK', BranchInv(b)'
    PROVE  IInv'
<1>0. UNCHANGED config /\ crashed' = crashed
  OBVIOUS
<1>1. Crash'
  BY <1>0, ConfigFixed DEF IInv, Crash, Intrudes
<1>2. MetadataInv'
  BY <1>0, ConfigFixed DEF IInv, MetadataInv
<1>3. ASSUME NEW c \in Branches
      PROVE  TagsKnown(c)'
  BY <1>0, ConfigFixed DEF IInv, TagsKnown, NobodyMarks
<1>4. ASSUME NEW c \in Branches, c # b
      PROVE  BranchInv(c)'
  <2>1. msg'[c] = msg[c] /\ at'[c] = at[c] /\ pc'[c] = pc[c] /\ BranchInv(c)
    BY <1>4 DEF IInv
  <2>2. (\A k : Did(c, k)' <=> Did(c, k)) /\ Kind(c)' = Kind(c)
    BY <1>0, <2>1, ConfigFixed DEF Did, Kind
  <2>3. SoFar(c)' = SoFar(c)
    BY <1>0, <2>2, SoFarFixed
  <2>4. Placed(c)' /\ Mine(c)'
    BY <1>0, <2>1, <2>2, ConfigFixed DEF BranchInv, Placed, Mine
  <2>5. ASSUME pc[c] # "gone", Did(c, "whole") \/ NobodyIntrudes(c), Borrows(c) => NobodyMarks(c)
        PROVE  Intact(c)'
    <3>1. Intact(c)
      BY <2>1, <2>5 DEF BranchInv, Undisturbed
    <3>2. Did(c, "whole") => tags' = tags
      BY <2>5, <1>4, DidHas DEF Borrows, NobodyMarks
    <3>3. NobodyIntrudes(c) => shared' = shared
      BY <1>4, WriterIntrudes DEF NobodyIntrudes
    <3>4. ASSUME NEW m \in {"own", "shared", "meta"}, m = "meta" => Did(c, "whole"),
                 m = "shared" => ~Did(c, "whole")
          PROVE  In(c, m)' = In(c, m)
      BY <2>1, <2>5, <3>2, <3>3, <3>4 DEF In
    <3>5. msg[c] \in MsgType
      BY DEF IInv, TypeOK
    <3>6. msg[c].data # "nil" => In(c, msg[c].data)' = In(c, msg[c].data)
      BY <2>1, <2>5, <3>4, <3>5 DEF BranchInv, Mine, MsgType
    <3>7. pc[c] \in Working => In(c, msg[c].local)' = In(c, msg[c].local)
      BY <2>1, <2>5, <3>4, <3>5 DEF BranchInv, Mine, MsgType
    <3> QED
      BY <1>0, <2>1, <2>3, <3>1, <3>6, <3>7, ConfigFixed DEF Intact, Content
  <2>6. Undisturbed(c)'
    BY <1>0, <2>1, <2>2, <2>5, ConfigFixed DEF Undisturbed
  <2>7. Untouched(c)' /\ Routed(c)' /\ BackedUp(c)'
    BY <1>0, <2>1, <2>2, ConfigFixed DEF BranchInv, Untouched, Routed, BackedUp, OriginalPayload
  <2> QED
    BY <2>4, <2>6, <2>7 DEF BranchInv
<1> QED
  BY <1>1, <1>2, <1>3, <1>4 DEF IInv

(* A step changes the message of its branch.                               *)
LEMMA MessageStep ==
    ASSUME IInv, NEW b \in Branches, NEW m \in MsgType, msg' = [msg EXCEPT ![b] = m]
    PROVE  /\ msg' \in [Branches -> MsgType] /\ msg'[b] = m
           /\ \A c \in Branches \ {b} : msg'[c] = msg[c]
BY DEF IInv, TypeOK

LEMMA GotoStep ==
    ASSUME IInv, NEW b \in Branches, NEW s \in {"idle", "done", "gone"} \cup Working, Goto(b, s),
           UNCHANGED config, msg' \in [Branches -> MsgType], shared' \subseteq Writers, tags' \subseteq Writers
    PROVE  /\ TypeOK' /\ pc'[b] = s /\ at' = at
           /\ \A c \in Branches \ {b} : at'[c] = at[c] /\ pc'[c] = pc[c]
BY DEF IInv, TypeOK, Goto, config

LEMMA LeaveStep ==
    ASSUME IInv, NEW b \in Branches, Leave(b), UNCHANGED <<config, shared>>,
           msg' \in [Branches -> MsgType], tags' \subseteq Writers
    PROVE  /\ TypeOK' /\ pc'[b] = "idle" /\ at'[b] = at[b] + 1
           /\ \A c \in Branches \ {b} : at'[c] = at[c] /\ pc'[c] = pc[c]
<1>1. at \in [Branches -> Nat \ {0}] /\ pc \in [Branches -> {"idle", "done", "gone"} \cup Working]
  BY DEF IInv, TypeOK
<1>2. at[b] + 1 \in Nat \ {0}
  BY <1>1
<1>3. /\ pc'[b] = "idle" /\ at'[b] = at[b] + 1
      /\ \A c \in Branches \ {b} : at'[c] = at[c] /\ pc'[c] = pc[c]
  BY <1>1 DEF Leave
<1>4. TypeOK'
  BY <1>1, <1>2 DEF IInv, TypeOK, Leave, config
<1> QED
  BY <1>3, <1>4

-----------------------------------------------------------------------------
(* The beginning of a transform, and the steps that end in nothing.        *)
LEMMA BeginInv ==
    ASSUME IInv, NEW b \in Branches, Begin(b)
    PROVE  IInv'
<1>1. /\ pc[b] = "idle" /\ Goto(b, "read") /\ UNCHANGED <<config, shared, tags, crashed>>
      /\ at[b] \in DOMAIN path[b] /\ msg \in [Branches -> MsgType] /\ decoder \in BOOLEAN
      /\ shared \subseteq Writers /\ tags \subseteq Writers
  BY PathFacts DEF Begin, Due, IInv, TypeOK
<1>2. /\ msg' \in [Branches -> MsgType] /\ \A c \in Branches \ {b} : msg'[c] = msg[c]
      /\ msg'[b].payload = msg[b].payload /\ msg'[b].original = msg[b].original
      /\ msg'[b].route = msg[b].route /\ msg'[b].blank = msg[b].blank
      /\ msg[b].dirty => msg'[b].dirty
      /\ \/ /\ msg[b].data = "nil" /\ msg'[b].data \in {"own", "nil"}
            /\ msg'[b].own = msg'[b].payload /\ msg'[b].local = "own"
         \/ /\ msg[b].data # "nil" /\ msg'[b].data = msg[b].data
            /\ msg'[b].local = msg[b].data /\ msg'[b].own = msg[b].own
  <2>1. CASE msg[b].data = "nil"
    <3> DEFINE m == [msg[b] EXCEPT !.own = msg[b].payload, !.local = "own",
                                   !.data = IF decoder THEN "own" ELSE "nil",
                                   !.dirty = decoder \/ @]
    <3>1. msg' = [msg EXCEPT ![b] = m]
      BY <1>1, <2>1 DEF Begin
    <3>2. msg[b] \in MsgType
      BY <1>1
    <3>3. m \in MsgType
      BY <1>1, <3>2 DEF MsgType
    <3>4. /\ m.payload = msg[b].payload /\ m.original = msg[b].original /\ m.route = msg[b].route
          /\ m.blank = msg[b].blank /\ (msg[b].dirty => m.dirty)
          /\ m.data \in {"own", "nil"} /\ m.own = m.payload /\ m.local = "own"
      BY <3>2 DEF MsgType
    <3> HIDE DEF m
    <3> QED
      BY <2>1, <3>1, <3>3, <3>4, MessageStep
  <2>2. CASE msg[b].data # "nil"
    <3> DEFINE m == [msg[b] EXCEPT !.local = msg[b].data]
    <3>1. msg' = [msg EXCEPT ![b] = m]
      BY <1>1, <2>2 DEF Begin
    <3>2. msg[b] \in MsgType
      BY <1>1
    <3>3. m \in MsgType
      BY <2>2, <3>2 DEF MsgType
    <3>4. /\ m.payload = msg[b].payload /\ m.original = msg[b].original /\ m.route = msg[b].route
          /\ m.blank = msg[b].blank /\ (msg[b].dirty => m.dirty)
          /\ m.data = msg[b].data /\ m.local = m.data /\ m.own = msg[b].own
      BY <3>2 DEF MsgType
    <3> HIDE DEF m
    <3> QED
      BY <2>2, <3>1, <3>3, <3>4, MessageStep
  <2> QED
    BY <2>1, <2>2
<1>3. /\ TypeOK' /\ pc'[b] = "read" /\ at' = at
      /\ \A c \in Branches \ {b} : at'[c] = at[c] /\ pc'[c] = pc[c]
  BY <1>1, <1>2, GotoStep DEF Working, Transforms
<1>4. (\A k : Did(b, k)' <=> Did(b, k)) /\ BranchInv(b)
  BY <1>1, <1>3, DidStays, ConfigFixed DEF IInv
<1>5. SoFar(b)' = SoFar(b)
  BY <1>1, <1>4, SoFarFixed
<1>6. Placed(b)'
  BY <1>1, <1>3, ConfigFixed DEF Placed, Working
<1>7. Mine(b)'
  BY <1>1, <1>2, <1>3, <1>4, ConfigFixed DEF BranchInv, Mine, Did, MsgType
<1>8. Undisturbed(b)'
  BY <1>1, <1>2, <1>3, <1>4, <1>5, ConfigFixed DEF BranchInv, Undisturbed, Intact, Content, In
<1>9. Untouched(b)' /\ Routed(b)' /\ BackedUp(b)'
  BY <1>1, <1>2, <1>3, <1>4, ConfigFixed DEF BranchInv, Untouched, Routed, BackedUp, OriginalPayload
<1> QED
  BY <1>1, <1>2, <1>3, <1>6, <1>7, <1>8, <1>9, BranchStep DEF BranchInv

LEMMA EndsInv ==
    ASSUME IInv, NEW b \in Branches, Ends(b)
    PROVE  IInv'
<1>1. Goto(b, "gone") /\ UNCHANGED <<config, shared, tags, msg, crashed>>
  BY DEF Ends
<1>2. /\ TypeOK' /\ pc'[b] = "gone" /\ at' = at
      /\ \A c \in Branches \ {b} : at'[c] = at[c] /\ pc'[c] = pc[c]
  BY <1>1, GotoStep DEF IInv, TypeOK
<1>3. (\A k : Did(b, k)' => Did(b, k)) /\ BranchInv(b)
  BY <1>1, <1>2, ConfigFixed DEF Did, IInv
<1>4. Placed(b)' /\ Mine(b)'
  BY <1>1, <1>2, <1>3, ConfigFixed DEF BranchInv, Placed, Mine, Transforms, Working
<1>5. Undisturbed(b)' /\ Routed(b)'
  BY <1>2 DEF Undisturbed, Routed
<1>6. Untouched(b)' /\ BackedUp(b)'
  BY <1>1, <1>3, ConfigFixed DEF BranchInv, Untouched, BackedUp, OriginalPayload
<1> QED
  BY <1>1, <1>2, <1>4, <1>5, <1>6, BranchStep DEF BranchInv

(* A transform ends that has not changed the payload.                      *)
LEMMA PassInv ==
    ASSUME IInv, NEW b \in Branches, pc[b] \in {"read", "tagging"}, Kind(b) \in {"filter", "tag", "route"},
           Leave(b), UNCHANGED <<config, shared, crashed>>,
           Kind(b) = "tag" => pc[b] = "tagging",
           tags' = tags \/ (root = "tag" /\ pc[b] = "tagging" /\ tags' = tags \cup {b}),
           \/ msg' = msg /\ Kind(b) # "route"
           \/ msg' = [msg EXCEPT ![b].route = {b}] /\ Kind(b) = "route"
    PROVE  IInv'
<1>1. /\ msg' \in [Branches -> MsgType]
      /\ \A c \in Branches \ {b} : msg'[c] = msg[c]
      /\ msg'[b].payload = msg[b].payload /\ msg'[b].original = msg[b].original
      /\ msg'[b].blank = msg[b].blank /\ msg'[b].data = msg[b].data /\ msg'[b].own = msg[b].own
      /\ msg'[b].dirty = msg[b].dirty
      /\ msg'[b].local = msg[b].local /\ msg'[b].value = msg[b].value
      /\ msg'[b].route = IF Kind(b) = "route" THEN {b} ELSE msg[b].route
  <2> DEFINE m == [msg[b] EXCEPT !.route = {b}]
  <2>1. msg \in [Branches -> MsgType] /\ msg[b] \in MsgType
    BY DEF IInv, TypeOK
  <2>2. m \in MsgType
    BY <2>1 DEF MsgType
  <2>3. /\ m.payload = msg[b].payload /\ m.original = msg[b].original
        /\ m.blank = msg[b].blank /\ m.data = msg[b].data /\ m.own = msg[b].own
        /\ m.local = msg[b].local /\ m.value = msg[b].value /\ m.route = {b}
        /\ m.dirty = msg[b].dirty
    BY <2>1 DEF MsgType
  <2>4. (msg' = msg /\ Kind(b) # "route") \/ (msg' = [msg EXCEPT ![b] = m] /\ Kind(b) = "route")
    BY <2>1
  <2> HIDE DEF m
  <2> QED
    BY <2>1, <2>2, <2>3, <2>4, MessageStep
<1>2. tags \subseteq tags' /\ tags' \subseteq tags \cup {b} /\ tags' \subseteq Writers
  BY DEF IInv, TypeOK, Writers
<1>3. /\ TypeOK' /\ pc'[b] = "idle" /\ at'[b] = at[b] + 1
      /\ \A c \in Branches \ {b} : at'[c] = at[c] /\ pc'[c] = pc[c]
  BY <1>1, <1>2, LeaveStep
<1>4. (\A k : Did(b, k)' <=> Did(b, k) \/ Kind(b) = k) /\ BranchInv(b)
  BY <1>3, DidMore, ConfigFixed DEF IInv, Transforms
<1>5. SoFar(b)' = SoFar(b)
  BY <1>4, SoFarMore DEF Kinds
<1>6. Placed(b)'
  BY <1>3 DEF Placed, Transforms
<1>7. Mine(b)'
  BY <1>1, <1>3, <1>4, ConfigFixed DEF BranchInv, Mine, Working, Transforms
<1>8. Undisturbed(b)'
  <2>1. ASSUME pc[b] # "gone", Did(b, "whole") \/ NobodyIntrudes(b), Borrows(b) => NobodyMarks(b)
        PROVE  Intact(b)'
    <3>1. Intact(b)
      BY <1>4, <2>1 DEF BranchInv, Undisturbed
    <3>2. msg[b].data = "meta" => b \in SoFar(b)
      BY <1>3, <1>4, <2>1 DEF BranchInv, Mine, SoFar
    <3> QED
      BY <1>1, <1>2, <1>3, <1>5, <3>1, <3>2 DEF Intact, In, Working, Transforms
  <2> QED
    BY <1>3, <1>4, <2>1, ConfigFixed DEF Undisturbed
<1>9. Untouched(b)' /\ Routed(b)' /\ BackedUp(b)'
  BY <1>1, <1>3, <1>4, ConfigFixed DEF BranchInv, Untouched, Routed, BackedUp, OriginalPayload
<1>10. tags' = tags \/ (root = "tag" /\ Marks(b) /\ tags' = tags \cup {b})
  BY TaggerMarks
<1> QED
  BY <1>1, <1>3, <1>6, <1>7, <1>8, <1>9, <1>10, BranchStep DEF BranchInv

(* The expression of an assignment is evaluated: the value is known while  *)
(* nobody else writes inside Metadata.                                     *)
LEMMA AssignsInv ==
    ASSUME IInv, NEW b \in Branches, Assigns(b)
    PROVE  IInv'
<1> DEFINE v == {b} \cup (IF b \in looks THEN tags ELSE {})
           m == [msg[b] EXCEPT !.value = v]
<1>1. /\ pc[b] = "read" /\ Kind(b) = "set" /\ UNCHANGED <<config, shared, tags, crashed>>
      /\ msg' = [msg EXCEPT ![b] = m]
      /\ Goto(b, "write") \/ (Goto(b, "tagging") /\ msg[b].local = "meta")
      /\ msg \in [Branches -> MsgType] /\ shared \subseteq Writers /\ tags \subseteq Writers
  BY DEF Assigns, IInv, TypeOK
<1>2. msg[b] \in MsgType /\ v \in SUBSET Writers
  BY <1>1 DEF Writers
<1>3. m \in MsgType
  <2> HIDE DEF v
  <2> QED
    BY <1>2 DEF MsgType
<1>4. /\ m.payload = msg[b].payload /\ m.original = msg[b].original /\ m.route = msg[b].route
      /\ m.blank = msg[b].blank /\ m.data = msg[b].data /\ m.own = msg[b].own
      /\ m.local = msg[b].local /\ m.value = v /\ m.dirty = msg[b].dirty
  BY <1>2 DEF MsgType
<1> HIDE DEF m
<1>5. msg' \in [Branches -> MsgType] /\ msg'[b] = m /\ \A c \in Branches \ {b} : msg'[c] = msg[c]
  BY <1>1, <1>3, MessageStep
<1>6. /\ TypeOK' /\ pc'[b] \in {"write", "tagging"} /\ at' = at
      /\ pc'[b] = "tagging" => msg[b].local = "meta"
      /\ \A c \in Branches \ {b} : at'[c] = at[c] /\ pc'[c] = pc[c]
  BY <1>1, <1>5, GotoStep DEF Working, Transforms
<1>7. (\A k : Did(b, k)' <=> Did(b, k)) /\ BranchInv(b)
  BY <1>1, <1>6, DidStays, ConfigFixed DEF IInv
<1>8. SoFar(b)' = SoFar(b)
  BY <1>1, <1>7, SoFarFixed
<1>9. at[b] \in DOMAIN path[b]
  BY <1>1, <1>7 DEF BranchInv, Placed, Transforms
<1>10. Placed(b)'
  BY <1>1, <1>4, <1>5, <1>6, <1>9, ConfigFixed DEF Placed, Kind
<1>11. Mine(b)'
  BY <1>1, <1>4, <1>5, <1>6, <1>7, ConfigFixed DEF BranchInv, Mine, Working, Transforms
<1>12. Undisturbed(b)'
  <2>1. ASSUME pc[b] # "gone", Did(b, "whole") \/ NobodyIntrudes(b), Borrows(b) => NobodyMarks(b)
        PROVE  Intact(b)'
    <3>1. Intact(b)
      BY <1>7, <2>1 DEF BranchInv, Undisturbed
    <3>2. Has(b, "set")
      BY <1>1, <1>9, HasPath DEF Kind
    <3>3. v = Gain(b)
      BY <2>1, <3>2, InsideKnown DEF Borrows, Gain
    <3> QED
      BY <1>1, <1>4, <1>5, <1>6, <1>8, <3>1, <3>3, ConfigFixed DEF Intact, Content, In, Working, Transforms
  <2> QED
    BY <1>1, <1>7, <2>1, ConfigFixed DEF Undisturbed
<1>13. Untouched(b)' /\ Routed(b)' /\ BackedUp(b)'
  BY <1>1, <1>4, <1>5, <1>6, <1>7, ConfigFixed DEF BranchInv, Untouched, Routed, BackedUp, OriginalPayload
<1> QED
  BY <1>1, <1>5, <1>6, <1>10, <1>11, <1>12, <1>13, BranchStep DEF BranchInv

(* EnsureWritable: the copy has what the map has.                          *)
LEMMA TagsInv ==
    ASSUME IInv, NEW b \in Branches, Tags(b)
    PROVE  IInv'
<1>1. /\ pc[b] = "read" /\ Kind(b) = "tag" /\ UNCHANGED <<config, shared, tags, crashed>>
      /\ Goto(b, "tagging")
      /\ msg \in [Branches -> MsgType] /\ shared \subseteq Writers /\ tags \subseteq Writers
  BY DEF Tags, IInv, TypeOK
<1>2. /\ msg' \in [Branches -> MsgType] /\ \A c \in Branches \ {b} : msg'[c] = msg[c]
      /\ msg'[b].payload = msg[b].payload /\ msg'[b].original = msg[b].original
      /\ msg'[b].route = msg[b].route /\ msg'[b].local = msg[b].local
      /\ msg'[b].blank = msg[b].blank /\ msg'[b].dirty = msg[b].dirty
      /\ \/ msg[b].data \in {"shared", "meta"} /\ msg'[b].data = "own" /\ msg'[b].own = In(b, msg[b].data)
         \/ msg[b].data \in {"nil", "own"} /\ msg'[b].data = msg[b].data /\ msg'[b].own = msg[b].own
  <2>1. CASE msg[b].data \in {"shared", "meta"}
    <3> DEFINE o == In(b, msg[b].data)
               m == [msg[b] EXCEPT !.data = "own", !.own = o]
    <3>1. msg' = [msg EXCEPT ![b] = m]
      BY <1>1, <2>1 DEF Tags
    <3>2. msg[b] \in MsgType
      BY <1>1
    <3>3. o \in SUBSET Writers
      BY <1>1, <3>2 DEF In, MsgType
    <3>4. m \in MsgType
      <4> HIDE DEF o
      <4> QED
        BY <3>2, <3>3 DEF MsgType
    <3>5. /\ m.payload = msg[b].payload /\ m.original = msg[b].original /\ m.route = msg[b].route
          /\ m.local = msg[b].local /\ m.blank = msg[b].blank /\ m.data = "own" /\ m.own = o
          /\ m.dirty = msg[b].dirty
      BY <3>2 DEF MsgType
    <3> HIDE DEF m
    <3> QED
      BY <2>1, <3>1, <3>4, <3>5, MessageStep
  <2>2. CASE msg[b].data \notin {"shared", "meta"}
    BY <1>1, <2>2 DEF Tags, MsgType
  <2> QED
    BY <2>1, <2>2
<1>3. /\ TypeOK' /\ pc'[b] = "tagging" /\ at' = at
      /\ \A c \in Branches \ {b} : at'[c] = at[c] /\ pc'[c] = pc[c]
  BY <1>1, <1>2, GotoStep DEF Working, Transforms
<1>4. (\A k : Did(b, k)' <=> Did(b, k)) /\ BranchInv(b)
  BY <1>1, <1>3, DidStays, ConfigFixed DEF IInv
<1>5. SoFar(b)' = SoFar(b)
  BY <1>1, <1>4, SoFarFixed
<1>6. Placed(b)'
  BY <1>1, <1>3, <1>4, ConfigFixed DEF BranchInv, Placed, Kind, Transforms
<1>7. Mine(b)'
  BY <1>1, <1>2, <1>3, <1>4, ConfigFixed DEF BranchInv, Mine, Working, Transforms
<1>8. Undisturbed(b)'
  BY <1>1, <1>2, <1>3, <1>4, <1>5, ConfigFixed
     DEF BranchInv, Undisturbed, Intact, Content, In, Working, Transforms
<1>9. Untouched(b)' /\ Routed(b)' /\ BackedUp(b)'
  BY <1>1, <1>2, <1>3, <1>4, ConfigFixed DEF BranchInv, Untouched, Routed, BackedUp, OriginalPayload
<1> QED
  BY <1>1, <1>2, <1>3, <1>6, <1>7, <1>8, <1>9, BranchStep DEF BranchInv

(* setPath, or payload = metadata, or a path in metadata of a message that *)
(* has changed: json.Marshal comes next.                                   *)
LEMMA ChangedInv ==
    ASSUME IInv, NEW b \in Branches, pc[b] \in {"read", "write", "tagging"}, Kind(b) \in Rewrites,
           Goto(b, "marshal"), UNCHANGED <<config, crashed>>,
           msg' \in [Branches -> MsgType], \A c \in Branches \ {b} : msg'[c] = msg[c],
           /\ msg'[b].payload = msg[b].payload /\ msg'[b].original = msg[b].original
           /\ msg'[b].route = msg[b].route /\ msg'[b].blank = msg[b].blank,
           msg'[b].dirty,
           shared' \subseteq Writers, shared' = shared \/ Writing(b),
           tags' = tags \/ (root = "tag" /\ pc[b] = "tagging" /\ tags' = tags \cup {b}),
           \/ /\ Kind(b) = "set" /\ pc[b] = "write" /\ msg[b].local = "shared" /\ tags' = tags
              /\ shared' = shared \cup msg[b].value
              /\ msg'[b].data = "shared" /\ msg'[b].local = "shared"
           \/ /\ Kind(b) = "set" /\ pc[b] = "write" /\ msg[b].local # "shared" /\ tags' = tags
              /\ shared' = shared /\ msg'[b].own = msg[b].own \cup msg[b].value
              /\ msg'[b].data = msg[b].local /\ msg'[b].local = msg[b].local
           \/ /\ Kind(b) = "whole" /\ shared' = shared /\ tags' = tags /\ msg'[b].own = {b}
              /\ msg'[b].data = "meta" /\ msg'[b].local = "meta"
           \/ Kind(b) = "tag" /\ pc[b] = "tagging" /\ shared' = shared /\ msg' = msg
           \/ /\ Kind(b) = "set" /\ pc[b] = "tagging" /\ msg[b].local = "meta" /\ shared' = shared
              /\ msg'[b].own = msg[b].own /\ msg'[b].data = "meta" /\ msg'[b].local = "meta"
    PROVE  IInv'
<1>0. tags \subseteq tags' /\ tags' \subseteq tags \cup {b} /\ tags' \subseteq Writers /\ msg[b] \in MsgType
  BY DEF IInv, TypeOK, Writers
<1>1. /\ TypeOK' /\ pc'[b] = "marshal" /\ at' = at
      /\ \A c \in Branches \ {b} : at'[c] = at[c] /\ pc'[c] = pc[c]
  BY <1>0, GotoStep DEF Working, Transforms
<1>2. (\A k : Did(b, k)' <=> Did(b, k) \/ Kind(b) = k) /\ BranchInv(b) /\ pc[b] \in Working
  BY <1>1, DidMore, ConfigFixed DEF IInv, Transforms, Working
<1>3. SoFar(b)' = CASE Kind(b) = "whole" -> {b} \cup Inside
                    [] Kind(b) = "set"   -> SoFar(b) \cup Gain(b)
                    [] OTHER             -> SoFar(b)
  BY <1>2, SoFarMore DEF Rewrites, Kinds
<1>4. Placed(b)' /\ at[b] \in DOMAIN path[b]
  BY <1>1, <1>2, ConfigFixed DEF BranchInv, Placed, Kind, Transforms, Rewrites
<1>5. Mine(b)'
  <2>1. msg[b].local = "shared" => ~Did(b, "whole") /\ ~Did(b, "tag")
    BY <1>2 DEF BranchInv, Mine, Did
  <2> QED
    BY <1>0, <1>1, <1>2, <2>1, ConfigFixed DEF BranchInv, Mine, Kind, MsgType
<1>6. Undisturbed(b)'
  <2> SUFFICES ASSUME Did(b, "whole") \/ Kind(b) = "whole" \/ NobodyIntrudes(b),
                      Borrows(b) => NobodyMarks(b)
               PROVE  Intact(b)'
    BY <1>1, <1>2, ConfigFixed DEF Undisturbed
  <2>1. CASE Kind(b) = "whole"
    <3>1. Has(b, "whole")
      BY <1>4, <2>1, HasPath DEF Kind
    <3>2. {b} \cup tags = {b} \cup Inside
      BY <3>1, InsideKnown DEF Borrows
    <3> QED
      BY <1>1, <1>3, <2>1, <3>2 DEF Intact, Content, In
  <2>2. CASE Kind(b) # "whole"
    <3>1. Intact(b)
      BY <1>1, <1>2, <2>2 DEF BranchInv, Undisturbed, Working, Transforms
    <3>2. msg[b].local = "meta" \/ msg[b].data = "meta" => b \in SoFar(b) /\ Did(b, "whole")
      BY <1>2 DEF BranchInv, Mine, SoFar, Working, Transforms
    <3>3. Did(b, "whole") => Gain(b) \subseteq SoFar(b)
      BY DEF SoFar, Gain
    <3>4. SoFar(b)' = IF Kind(b) = "set" THEN SoFar(b) \cup Gain(b) ELSE SoFar(b)
      BY <1>3, <2>2
    <3>5. CASE pc[b] = "tagging"
      <4>1. /\ msg'[b].own = msg[b].own /\ msg'[b].local = msg[b].local /\ shared' = shared
            /\ msg'[b].data = msg[b].data \/ msg'[b].data = msg'[b].local
            /\ Kind(b) = "set" => msg[b].local = "meta"
        BY <2>2, <3>5
      <4>2. SoFar(b)' = SoFar(b)
        BY <1>2, <3>2, <3>3, <3>4, <4>1
      <4>3. In(b, msg[b].local)' = SoFar(b)
        BY <1>0, <1>2, <3>1, <3>2, <4>1 DEF Intact, Content, In
      <4>4. msg[b].data # "nil" => In(b, msg[b].data)' = SoFar(b)
        BY <1>0, <1>2, <3>1, <3>2, <4>1, <4>3 DEF Intact, In
      <4> QED
        BY <1>1, <4>1, <4>2, <4>3, <4>4 DEF Intact, Content
    <3>6. CASE pc[b] = "write"
      <4>1. Kind(b) = "set"
        BY <1>2, <3>6 DEF BranchInv, Placed
      <4>2. /\ msg[b].local = "shared" => shared' = shared \cup msg[b].value
            /\ msg[b].local # "shared" => msg'[b].own = msg[b].own \cup msg[b].value
            /\ msg'[b].data = msg[b].local /\ msg'[b].local = msg[b].local /\ tags' = tags
        BY <3>6, <4>1
      <4>3. In(b, msg[b].local)' = In(b, msg[b].local) \cup msg[b].value
        BY <1>0, <4>2 DEF In, MsgType
      <4> QED
        BY <1>1, <1>2, <3>1, <3>4, <3>6, <4>1, <4>2, <4>3 DEF Intact, Content
    <3> QED
      BY <2>2, <3>5, <3>6
  <2> QED
    BY <2>1, <2>2
<1>7. Untouched(b)' /\ Routed(b)' /\ BackedUp(b)'
  BY <1>1, <1>2, <1>4, ConfigFixed
     DEF BranchInv, Untouched, Routed, BackedUp, OriginalPayload, Kind, Rewrites
<1>8. tags' = tags \/ (root = "tag" /\ Marks(b) /\ tags' = tags \cup {b})
  BY TaggerMarks
<1> QED
  BY <1>1, <1>4, <1>5, <1>6, <1>7, <1>8, BranchStep DEF BranchInv

(* SetParsedData: what was written to becomes the message's data.          *)
LEMMA AssignedFields ==
    ASSUME IInv, NEW b \in Branches
    PROVE  /\ Assigned(b) \in MsgType /\ msg[b] \in MsgType
           /\ Assigned(b).payload = msg[b].payload /\ Assigned(b).original = msg[b].original
           /\ Assigned(b).route = msg[b].route /\ Assigned(b).blank = msg[b].blank
           /\ Assigned(b).own = msg[b].own /\ Assigned(b).dirty
           /\ Assigned(b).data = msg[b].local /\ Assigned(b).local = msg[b].local
<1>1. msg[b] \in MsgType
  BY DEF IInv, TypeOK
<1>2. {} \in SUBSET Writers
  OBVIOUS
<1> QED
  BY <1>1, <1>2 DEF MsgType, Assigned

LEMMA WritesInv ==
    ASSUME IInv, NEW b \in Branches, Writes(b)
    PROVE  IInv'
<1>1. /\ pc[b] = "write" /\ Goto(b, "marshal") /\ UNCHANGED <<config, tags, crashed>>
      /\ Kind(b) = "set" /\ msg[b].value \subseteq Writers /\ msg[b].own \subseteq Writers
      /\ shared \subseteq Writers
  BY AssignedFields DEF Writes, IInv, BranchInv, Placed, TypeOK, MsgType
<1>2. CASE msg[b].local = "shared"
  <2>1. msg' = [msg EXCEPT ![b] = Assigned(b)] /\ shared' = shared \cup msg[b].value
    BY <1>2 DEF Writes
  <2>2. /\ msg' \in [Branches -> MsgType] /\ msg'[b] = Assigned(b)
        /\ \A c \in Branches \ {b} : msg'[c] = msg[c]
    BY <2>1, AssignedFields, MessageStep
  <2> QED
    BY <1>1, <1>2, <2>1, <2>2, AssignedFields, ChangedInv DEF Rewrites, Writing
<1>3. CASE msg[b].local # "shared"
  <2> DEFINE o == msg[b].own \cup msg[b].value
             m == [Assigned(b) EXCEPT !.own = o]
  <2>1. msg' = [msg EXCEPT ![b] = m] /\ shared' = shared
    BY <1>3, AssignedFields DEF Writes, MsgType
  <2>2. m \in MsgType
    BY <1>1, AssignedFields DEF MsgType
  <2>3. /\ m.payload = msg[b].payload /\ m.original = msg[b].original
        /\ m.route = msg[b].route /\ m.blank = msg[b].blank
        /\ m.own = o /\ m.data = msg[b].local /\ m.local = msg[b].local /\ m.dirty
    BY AssignedFields DEF MsgType
  <2> HIDE DEF m
  <2>4. /\ msg' \in [Branches -> MsgType] /\ msg'[b] = m
        /\ \A c \in Branches \ {b} : msg'[c] = msg[c]
    BY <2>1, <2>2, MessageStep
  <2> QED
    BY <1>1, <1>3, <2>1, <2>3, <2>4, ChangedInv DEF Rewrites
<1> QED
  BY <1>2, <1>3

LEMMA ReplacesInv ==
    ASSUME IInv, NEW b \in Branches, Replaces(b)
    PROVE  IInv'
<1>1. /\ pc[b] = "read" /\ Goto(b, "marshal") /\ UNCHANGED <<config, shared, tags, crashed>>
      /\ Kind(b) = "whole" /\ msg \in [Branches -> MsgType] /\ shared \subseteq Writers
  BY DEF Replaces, IInv, TypeOK
<1> DEFINE m == [msg[b] EXCEPT !.own = {b}, !.data = "meta", !.local = "meta", !.dirty = TRUE]
<1>2. msg' = [msg EXCEPT ![b] = m]
  BY <1>1 DEF Replaces
<1>3. msg[b] \in MsgType
  BY <1>1
<1>4. m \in MsgType
  BY <1>3 DEF MsgType, Writers
<1>5. /\ m.payload = msg[b].payload /\ m.original = msg[b].original /\ m.blank = msg[b].blank
      /\ m.route = msg[b].route /\ m.data = "meta" /\ m.local = "meta" /\ m.own = {b}
      /\ m.dirty
  BY <1>3 DEF MsgType
<1> HIDE DEF m
<1>6. /\ msg' \in [Branches -> MsgType] /\ msg'[b] = m
      /\ \A c \in Branches \ {b} : msg'[c] = msg[c]
  BY <1>2, <1>4, MessageStep
<1>7. /\ msg'[b].payload = msg[b].payload /\ msg'[b].original = msg[b].original
      /\ msg'[b].blank = msg[b].blank /\ msg'[b].route = msg[b].route /\ msg'[b].dirty
      /\ msg'[b].data = "meta" /\ msg'[b].local = "meta" /\ msg'[b].own = {b}
  BY <1>5, <1>6
<1>8. shared' = shared /\ tags' = tags /\ crashed' = crashed /\ UNCHANGED config
  BY <1>1
<1> QED
  BY <1>1, <1>6, <1>7, <1>8, ChangedInv DEF Rewrites

LEMMA TaggedInv ==
    ASSUME IInv, NEW b \in Branches, Tagged(b)
    PROVE  IInv'
<1>1. /\ pc[b] = "tagging" /\ UNCHANGED <<config, shared, crashed>>
      /\ tags' = tags \/ (root = "tag" /\ tags' = tags \cup {b})
      /\ (Goto(b, "marshal") /\ msg[b].dirty) \/ (Leave(b) /\ ~msg[b].dirty)
      /\ msg' = IF Kind(b) = "set" THEN [msg EXCEPT ![b] = Assigned(b)] ELSE msg
      /\ shared \subseteq Writers /\ msg \in [Branches -> MsgType]
  BY DEF Tagged, IInv, TypeOK
<1>2. Kind(b) = "tag" \/ (Kind(b) = "set" /\ msg[b].local = "meta")
  BY <1>1 DEF IInv, BranchInv, Placed
<1>3. CASE Kind(b) = "tag" /\ Goto(b, "marshal") /\ msg[b].dirty
  BY <1>1, <1>3, ChangedInv DEF Rewrites
<1>4. CASE Kind(b) = "tag" /\ Leave(b)
  BY <1>1, <1>4, PassInv
<1>5. CASE Kind(b) = "set" /\ msg[b].local = "meta"
  <2>1. /\ msg' \in [Branches -> MsgType] /\ msg'[b] = Assigned(b)
        /\ \A c \in Branches \ {b} : msg'[c] = msg[c]
    BY <1>1, <1>5, AssignedFields, MessageStep
  <2>2. msg[b].dirty
    BY <1>1, <1>5 DEF IInv, BranchInv, Mine, Working, Transforms
  <2> QED
    BY <1>1, <1>5, <2>1, <2>2, AssignedFields, ChangedInv DEF Rewrites
<1> QED
  BY <1>1, <1>2, <1>3, <1>4, <1>5

(* Marshals and Encoded put the content of the map in the payload and keep *)
(* the first payload that is not nil; Encode takes the map up.             *)
LEMMA RewrittenFields ==
    ASSUME IInv, NEW b \in Branches, msg' = [msg EXCEPT ![b] = Rewritten(b)]
    PROVE  /\ msg' \in [Branches -> MsgType] /\ \A c \in Branches \ {b} : msg'[c] = msg[c]
           /\ msg'[b].payload = Content(b) /\ msg'[b].original = Backup(b) /\ ~msg'[b].blank
           /\ msg'[b].data = msg[b].data /\ msg'[b].own = msg[b].own /\ msg'[b].dirty = msg[b].dirty
           /\ msg'[b].local = msg[b].local /\ msg'[b].route = msg[b].route
           /\ ~empty => msg'[b].original = {{}}
<1>1. msg[b] \in MsgType /\ shared \subseteq Writers /\ tags \subseteq Writers
  BY DEF IInv, TypeOK
<1>2. Content(b) \in SUBSET Writers
  BY <1>1 DEF Content, In, MsgType
<1>3. Backup(b) \in SUBSET SUBSET Writers
  BY <1>1 DEF Backup, MsgType
<1>4. ~empty => Backup(b) = {{}}
  BY DEF IInv, BranchInv, BackedUp, OriginalPayload, Backup
<1>5. Rewritten(b) \in MsgType
  BY <1>1, <1>2, <1>3 DEF MsgType, Rewritten
<1>6. /\ Rewritten(b).payload = Content(b) /\ Rewritten(b).original = Backup(b)
      /\ ~Rewritten(b).blank
      /\ Rewritten(b).data = msg[b].data /\ Rewritten(b).own = msg[b].own
      /\ Rewritten(b).dirty = msg[b].dirty
      /\ Rewritten(b).local = msg[b].local /\ Rewritten(b).route = msg[b].route
  BY <1>1 DEF MsgType, Rewritten
<1> QED
  BY <1>4, <1>5, <1>6, MessageStep

LEMMA MarshalsInv ==
    ASSUME IInv, NEW b \in Branches, Marshals(b)
    PROVE  IInv'
<1>1. /\ pc[b] = "marshal" /\ UNCHANGED <<config, shared, tags, crashed>> /\ Leave(b)
      /\ msg' \in [Branches -> MsgType] /\ \A c \in Branches \ {b} : msg'[c] = msg[c]
      /\ msg'[b].payload = Content(b) /\ ~msg'[b].blank
      /\ msg'[b].data = msg[b].data /\ msg'[b].own = msg[b].own /\ msg'[b].dirty = msg[b].dirty
      /\ msg'[b].local = msg[b].local /\ msg'[b].route = msg[b].route
      /\ ~empty => msg'[b].original = {{}}
      /\ tags \subseteq Writers
  BY RewrittenFields DEF Marshals, IInv, TypeOK
<1>2. /\ TypeOK' /\ pc'[b] = "idle" /\ at'[b] = at[b] + 1
      /\ \A c \in Branches \ {b} : at'[c] = at[c] /\ pc'[c] = pc[c]
  BY <1>1, LeaveStep
<1>3. (\A k : Did(b, k)' <=> Did(b, k)) /\ BranchInv(b)
  BY <1>1, <1>2, DidMarshal, ConfigFixed DEF IInv
<1>4. SoFar(b)' = SoFar(b)
  BY <1>1, <1>3, SoFarFixed
<1>5. Placed(b)' /\ Mine(b)'
  BY <1>1, <1>2, <1>3, ConfigFixed DEF BranchInv, Placed, Mine, Working, Transforms
<1>6. Undisturbed(b)'
  <2>1. ASSUME pc[b] # "gone", Did(b, "whole") \/ NobodyIntrudes(b), Borrows(b) => NobodyMarks(b)
        PROVE  Intact(b)'
    <3>1. Intact(b)
      BY <1>3, <2>1 DEF BranchInv, Undisturbed
    <3> QED
      BY <1>1, <1>2, <1>4, <3>1 DEF Intact, In, Working, Transforms
  <2> QED
    BY <1>1, <1>2, <1>3, <2>1, ConfigFixed DEF Undisturbed
<1>7. Untouched(b)'
  BY <1>1, <1>3, ConfigFixed DEF BranchInv, Placed, Transforms, Kind, Untouched
<1>8. Routed(b)' /\ BackedUp(b)'
  BY <1>1, <1>2, <1>3, ConfigFixed DEF BranchInv, Routed, BackedUp, OriginalPayload
<1> QED
  BY <1>1, <1>2, <1>5, <1>6, <1>7, <1>8, BranchStep DEF BranchInv

-----------------------------------------------------------------------------
(* The sink.                                                               *)
LEMMA EncodeInv ==
    ASSUME IInv, NEW b \in Branches, Encode(b)
    PROVE  IInv'
<1>1. /\ pc[b] = "idle" /\ Goto(b, "encode") /\ UNCHANGED <<config, shared, tags, crashed>>
      /\ msg[b].data # "nil" /\ encoder[b] /\ \A j \in DOMAIN path[b] : j < at[b]
      /\ msg \in [Branches -> MsgType] /\ shared \subseteq Writers /\ tags \subseteq Writers
  BY PathFacts DEF Encode, Arrived, Reserializes, IInv, TypeOK
<1> DEFINE m == [msg[b] EXCEPT !.local = msg[b].data]
<1>2. msg' = [msg EXCEPT ![b] = m] /\ msg[b] \in MsgType
  BY <1>1 DEF Encode
<1>3. m \in MsgType
  BY <1>1, <1>2 DEF MsgType
<1>4. /\ m.payload = msg[b].payload /\ m.original = msg[b].original /\ m.route = msg[b].route
      /\ m.blank = msg[b].blank /\ m.dirty = msg[b].dirty
      /\ m.data = msg[b].data /\ m.local = msg[b].data /\ m.own = msg[b].own
      /\ msg[b].data \in {"own", "shared", "meta"}
  BY <1>1, <1>2 DEF MsgType
<1> HIDE DEF m
<1>5. /\ msg' \in [Branches -> MsgType] /\ msg'[b] = m
      /\ \A c \in Branches \ {b} : msg'[c] = msg[c]
  BY <1>2, <1>3, MessageStep
<1>6. /\ TypeOK' /\ pc'[b] = "encode" /\ at' = at
      /\ \A c \in Branches \ {b} : at'[c] = at[c] /\ pc'[c] = pc[c]
  BY <1>1, <1>5, GotoStep DEF Working
<1>7. (\A k : Did(b, k)' <=> Did(b, k)) /\ BranchInv(b)
  BY <1>1, <1>6, DidStays, ConfigFixed DEF IInv
<1>8. SoFar(b)' = SoFar(b)
  BY <1>1, <1>7, SoFarFixed
<1>9. Placed(b)'
  BY <1>1, <1>6, ConfigFixed DEF Placed, Transforms
<1>10. Mine(b)'
  <2>1. msg[b].data = "shared" =>
           \A j \in DOMAIN path[b] : j < at[b] => path[b][j] \notin {"whole", "tag"}
    BY <1>7 DEF BranchInv, Mine, Did
  <2> QED
    BY <1>1, <1>4, <1>5, <1>6, <1>7, <2>1, ConfigFixed DEF BranchInv, Mine
<1>11. Undisturbed(b)'
  BY <1>1, <1>4, <1>5, <1>6, <1>7, <1>8, ConfigFixed DEF BranchInv, Undisturbed, Intact, Content, In
<1>12. Untouched(b)' /\ Routed(b)' /\ BackedUp(b)'
  BY <1>1, <1>4, <1>5, <1>6, <1>7, ConfigFixed DEF BranchInv, Untouched, Routed, BackedUp, OriginalPayload
<1> QED
  BY <1>1, <1>5, <1>6, <1>9, <1>10, <1>11, <1>12, BranchStep DEF BranchInv

LEMMA DoneInv ==
    ASSUME IInv, NEW b \in Branches, Encoded(b) \/ Sent(b)
    PROVE  IInv'
<1>1. /\ Goto(b, "done") /\ UNCHANGED <<config, shared, tags, crashed>> /\ pc[b] \in {"idle", "encode"}
      /\ \A j \in DOMAIN path[b] : j < at[b]
      /\ msg \in [Branches -> MsgType] /\ shared \subseteq Writers /\ tags \subseteq Writers
  BY PathFacts DEF Encoded, Sent, Arrived, IInv, BranchInv, Placed, TypeOK
<1>2. /\ msg' \in [Branches -> MsgType] /\ \A c \in Branches \ {b} : msg'[c] = msg[c]
      /\ msg'[b].data = msg[b].data /\ msg'[b].own = msg[b].own /\ msg'[b].dirty = msg[b].dirty
      /\ msg'[b].local = msg[b].local /\ msg'[b].route = msg[b].route
      /\ \/ /\ msg'[b].payload = msg[b].payload /\ msg'[b].original = msg[b].original
            /\ msg'[b].blank = msg[b].blank /\ pc[b] = "idle"
         \/ /\ msg'[b].payload = Content(b) /\ (~empty => msg'[b].original = {{}})
            /\ ~msg'[b].blank /\ pc[b] = "encode"
  BY <1>1, RewrittenFields DEF Encoded, Sent, Arrived
<1>3. /\ TypeOK' /\ pc'[b] = "done" /\ at' = at
      /\ \A c \in Branches \ {b} : at'[c] = at[c] /\ pc'[c] = pc[c]
  BY <1>1, <1>2, GotoStep
<1>4. (\A k : Did(b, k)' <=> Did(b, k)) /\ BranchInv(b)
  BY <1>1, <1>3, DidStays, ConfigFixed DEF IInv
<1>5. SoFar(b)' = SoFar(b)
  BY <1>1, <1>4, SoFarFixed
<1>6. Placed(b)' /\ Mine(b)'
  BY <1>1, <1>2, <1>3, <1>4, ConfigFixed DEF BranchInv, Placed, Mine, Working, Transforms
<1>7. Undisturbed(b)'
  <2>1. ASSUME Did(b, "whole") \/ NobodyIntrudes(b), Borrows(b) => NobodyMarks(b)
        PROVE  Intact(b)'
    <3>1. Intact(b)
      BY <1>1, <1>4, <2>1 DEF BranchInv, Undisturbed
    <3>2. msg'[b].payload = SoFar(b)
      BY <1>2, <3>1 DEF Intact, Working, Transforms
    <3> QED
      BY <1>1, <1>2, <1>3, <1>5, <3>1, <3>2 DEF Intact, In, Working, Transforms
  <2> QED
    BY <1>1, <1>4, <2>1, ConfigFixed DEF Undisturbed
<1>8. Untouched(b)'
  BY <1>1, <1>2, <1>4, ConfigFixed DEF BranchInv, Placed, Untouched
<1>9. Routed(b)' /\ BackedUp(b)'
  BY <1>1, <1>2, <1>3, <1>4, ConfigFixed DEF BranchInv, Routed, BackedUp, OriginalPayload
<1> QED
  BY <1>1, <1>2, <1>3, <1>6, <1>7, <1>8, <1>9, BranchStep DEF BranchInv

-----------------------------------------------------------------------------
(* Two branches meet in a map, and the runtime notices.                    *)
LEMMA FatalInv ==
    ASSUME IInv, Fatal
    PROVE  IInv'
<1>1. /\ crashed' = TRUE /\ pc' = [b \in Branches |-> "gone"] /\ Race
      /\ UNCHANGED config /\ UNCHANGED <<shared, tags, msg, at>>
  BY DEF Fatal
<1>2. TypeOK' /\ MetadataInv'
  BY <1>1, ConfigFixed DEF IInv, TypeOK, MetadataInv
<1>3. PICK b \in Branches, c \in Branches :
         b # c /\ (Writing(b) \/ (Tagging(b) /\ (Looking(c) \/ Tagging(c))))
  BY <1>1 DEF Race
<1>4. Crash'
  <2>1. CASE Writing(b)
    <3>1. AtFanOut /\ Intrudes(b)
      BY <2>1, WriterIntrudes
    <3> QED
      BY <1>1, <3>1, ConfigFixed DEF Crash, Intrudes
  <2>2. CASE Tagging(b) /\ (Looking(c) \/ Tagging(c))
    <3>1. Marks(b) /\ Touches(c) /\ root = "tag"
      BY <2>2, TaggerMarks, LookerTouches DEF Tagging
    <3> QED
      BY <1>1, <1>3, <3>1, ConfigFixed DEF Crash
  <2> QED
    BY <1>3, <2>1, <2>2
<1>5. ASSUME NEW d \in Branches
      PROVE  TagsKnown(d)' /\ BranchInv(d)'
  <2>1. pc'[d] = "gone" /\ (\A k : Did(d, k)' => Did(d, k)) /\ BranchInv(d)
    BY <1>1, ConfigFixed DEF Did, IInv
  <2>2. Placed(d)' /\ Mine(d)'
    BY <1>1, <2>1, ConfigFixed DEF BranchInv, Placed, Mine, Transforms, Working
  <2>3. Undisturbed(d)' /\ Routed(d)'
    BY <2>1 DEF Undisturbed, Routed
  <2>4. Untouched(d)' /\ BackedUp(d)' /\ TagsKnown(d)'
    BY <1>1, <2>1, ConfigFixed DEF IInv, BranchInv, Untouched, BackedUp, OriginalPayload, TagsKnown
  <2> QED
    BY <2>2, <2>3, <2>4 DEF BranchInv
<1> QED
  BY <1>2, <1>4, <1>5 DEF IInv

-----------------------------------------------------------------------------
LEMMA InitInv == Init => IInv
<1> SUFFICES ASSUME Init PROVE IInv
  OBVIOUS
<1>1. /\ root \in Roots /\ decoder \in BOOLEAN /\ empty \in BOOLEAN /\ ~crashed
      /\ empty /\ decoder => root = "plain"
      /\ encoder \in [Branches -> BOOLEAN] /\ path \in [Branches -> Paths]
      /\ shared = Inherited /\ tags = Inside /\ msg = [b \in Branches |-> Copy]
      /\ at = [b \in Branches |-> 1] /\ pc = [b \in Branches |-> "idle"]
      /\ looks \subseteq Branches /\ (root # "tag" => looks = {})
  BY DEF Init, Inherited, Inside
<1>2. Parsed <=> AtFanOut
  BY <1>1 DEF Parsed, AtFanOut, Roots
<1>3. Copy \in MsgType
  <2> DEFINE pay == IF root = "set" THEN {Root} ELSE {}
             orig == IF Parsed /\ root \in {"set", "tag"} /\ ~empty THEN {{}} ELSE {}
             blk == empty /\ root # "set"
  <2>1. /\ pay \in SUBSET Writers /\ orig \in SUBSET SUBSET Writers
        /\ {} \in SUBSET Writers /\ {} \in SUBSET Branches
    BY DEF Writers
  <2>2. Parsed \in BOOLEAN /\ blk \in BOOLEAN
    BY <1>1 DEF Parsed
  <2>3. Copy = [data |-> IF Parsed THEN "shared" ELSE "nil", own |-> {}, local |-> "own",
                value |-> {}, dirty |-> Parsed, payload |-> pay, blank |-> blk,
                original |-> orig, route |-> {}]
    BY DEF Copy
  <2> HIDE DEF pay, orig, blk
  <2> QED
    BY <2>1, <2>2, <2>3 DEF MsgType
<1>4. /\ Copy.data = IF AtFanOut THEN "shared" ELSE "nil"
      /\ Copy.local = "own" /\ Copy.payload = Inherited /\ Copy.route = {}
      /\ ~empty => /\ Copy.original = {{}} \/ (Copy.original = {} /\ Copy.payload = {})
                   /\ ~Copy.blank
  <2>1. CASE root = "set"
    <3>1. Parsed /\ Inherited = {Root}
      BY <2>1 DEF Parsed, Inherited
    <3> QED
      BY <2>1, <3>1, <1>1, <1>2 DEF Copy
  <2>2. CASE root # "set"
    <3>1. Inherited = {}
      BY <2>2 DEF Inherited
    <3> QED
      BY <2>2, <3>1, <1>1, <1>2 DEF Copy
  <2> QED
    BY <2>1, <2>2
<1>5. TypeOK /\ MetadataInv
  BY <1>1, <1>3 DEF TypeOK, MetadataInv, Inherited, Inside, Writers
<1>6. Crash
  BY <1>1 DEF Crash
<1>7. ASSUME NEW b \in Branches
      PROVE  TagsKnown(b) /\ BranchInv(b)
  <2>1. msg[b] = Copy /\ pc[b] = "idle" /\ at[b] = 1
    BY <1>1
  <2>2. \A k : ~Did(b, k)
    BY <2>1, <1>5, PathFacts DEF Did
  <2>3. SoFar(b) = Inherited
    BY <2>2 DEF SoFar
  <2>4. Placed(b) /\ Mine(b)
    BY <2>1, <2>2, <1>4 DEF Placed, Mine, Working, Transforms
  <2>5. Undisturbed(b)
    BY <2>1, <2>3, <1>1, <1>4 DEF Undisturbed, Intact, In, Working, Transforms
  <2>6. Untouched(b) /\ Routed(b) /\ BackedUp(b) /\ TagsKnown(b)
    BY <2>1, <2>2, <1>1, <1>4 DEF Untouched, Routed, BackedUp, OriginalPayload, TagsKnown, Inside
  <2> QED
    BY <2>4, <2>5, <2>6 DEF BranchInv
<1> QED
  BY <1>5, <1>6, <1>7 DEF IInv

LEMMA NextInv ==
    ASSUME IInv, [Next]_vars
    PROVE  IInv'
<1>1. CASE UNCHANGED vars
  <2>1. UNCHANGED config /\ UNCHANGED <<shared, tags, msg, at, pc, crashed>>
    BY <1>1 DEF vars
  <2>2. TypeOK' /\ MetadataInv' /\ Crash'
    BY <2>1, ConfigFixed DEF IInv, TypeOK, MetadataInv, Crash, Intrudes
  <2>3. ASSUME NEW b \in Branches
        PROVE  TagsKnown(b)' /\ BranchInv(b)'
    <3>1. (\A k : Did(b, k)' <=> Did(b, k)) /\ BranchInv(b) /\ Kind(b)' = Kind(b) /\ TagsKnown(b)
      BY <2>1, ConfigFixed DEF Did, Kind, IInv
    <3>2. SoFar(b)' = SoFar(b)
      BY <2>1, <3>1, SoFarFixed
    <3>3. Placed(b)' /\ Mine(b)' /\ TagsKnown(b)'
      BY <2>1, <3>1, ConfigFixed DEF BranchInv, Placed, Mine, TagsKnown
    <3>4. Undisturbed(b)'
      BY <2>1, <3>1, <3>2, ConfigFixed DEF BranchInv, Undisturbed, Intact, Content, In
    <3>5. Untouched(b)' /\ Routed(b)' /\ BackedUp(b)'
      BY <2>1, <3>1, ConfigFixed DEF BranchInv, Untouched, Routed, BackedUp, OriginalPayload
    <3> QED
      BY <3>3, <3>4, <3>5 DEF BranchInv
  <2> QED
    BY <2>2, <2>3 DEF IInv
<1>2. ASSUME NEW b \in Branches, Transform(b)
      PROVE  IInv'
  <2>1. CASE Begin(b) \/ Ends(b) \/ Assigns(b) \/ Writes(b)
    BY <2>1, BeginInv, EndsInv, AssignsInv, WritesInv
  <2>2. CASE Passes(b) \/ Routes(b)
    BY <2>2, PassInv DEF Passes, Routes
  <2>3. CASE Replaces(b) \/ Tags(b) \/ Tagged(b) \/ Marshals(b)
    BY <2>3, ReplacesInv, TagsInv, TaggedInv, MarshalsInv
  <2> QED
    BY <1>2, <2>1, <2>2, <2>3 DEF Transform
<1>3. ASSUME NEW b \in Branches, Flush(b)
      PROVE  IInv'
  BY <1>3, EncodeInv, DoneInv DEF Flush
<1>4. CASE Fatal
  BY <1>4, FatalInv
<1> QED
  BY <1>1, <1>2, <1>3, <1>4 DEF Next, Over

LEMMA Invariance == Spec => []IInv
<1>1. Init => IInv
  BY InitInv
<1>2. IInv /\ [Next]_vars => IInv'
  BY NextInv
<1> QED
  BY <1>1, <1>2, PTL DEF Spec

(* A branch that has delivered its message has been through its whole path.*)
LEMMA AtTheEnd ==
    ASSUME IInv, NEW b \in Branches, pc[b] = "done"
    PROVE  \A k : Did(b, k) <=> Has(b, k)
<1>1. \A j \in DOMAIN path[b] : j < at[b]
  BY DEF IInv, BranchInv, Placed
<1> QED
  BY <1>1, HasPath DEF Did

(* ShallowCopy and AssignStmt.Execute keep the branches of a message apart *)
(* for any branches and paths, but for a message that was parsed before    *)
(* the fan-out and of which a branch assigns to a field before it has a    *)
(* map of its own, and for a map inside Metadata that one branch assigns   *)
(* into and another one reads, copies to its payload or assigns into.      *)
THEOREM BranchesAreIsolated == Spec => []Isolated
<1>1. IInv => Isolated
  <2> SUFFICES ASSUME IInv PROVE Isolated
    OBVIOUS
  <2>1. ASSUME NEW b \in Branches, pc[b] = "done",
               ~(AtFanOut /\ Relies(b) /\ \E c \in Branches \ {b} : Intrudes(c)),
               ~(root = "tag" /\ Borrows(b) /\ \E c \in Branches \ {b} : Marks(c))
        PROVE  msg[b].payload = Alone(b)
    <3>1. (\A k : Did(b, k) <=> Has(b, k)) /\ BranchInv(b)
      BY <2>1, AtTheEnd DEF IInv
    <3>2. SoFar(b) = Alone(b)
      <4>1. CASE Has(b, "whole")
        BY <3>1, <4>1 DEF SoFar, Alone
      <4>2. CASE ~Has(b, "whole")
        BY <3>1, <4>2 DEF SoFar, Alone, Gain
      <4> QED
        BY <4>1, <4>2
    <3>3. Borrows(b) => NobodyMarks(b)
      BY <2>1 DEF NobodyMarks
    <3>4. CASE Has(b, "whole") \/ Relies(b)
      <4>1. Did(b, "whole") \/ NobodyIntrudes(b)
        BY <2>1, <3>1, <3>4 DEF NobodyIntrudes
      <4> QED
        BY <2>1, <3>1, <3>2, <3>3, <4>1 DEF BranchInv, Undisturbed, Intact
    <3>5. CASE ~Has(b, "whole") /\ ~Relies(b)
      <4>1. ~encoder[b] /\ \A j \in DOMAIN path[b] : path[b][j] \notin Rewrites
        BY <3>5, HasPath DEF Relies, Rewrites
      <4> QED
        BY <3>1, <3>5, <4>1 DEF BranchInv, Untouched, Alone, Relies
    <3> QED
      BY <3>4, <3>5
  <2> QED
    BY <2>1 DEF IInv, Crash, Isolated
<1> QED
  BY <1>1, Invariance, PTL

(* The route a branch chose stays its own, and BackupOriginalPayload keeps *)
(* the payload the source gave, unless that is nil, on every branch and    *)
(* however often maps and encoders rewrite it.                             *)
THEOREM BranchesKeepTheirFields == Spec => []OwnFields
<1>1. IInv => OwnFields
  <2> SUFFICES ASSUME IInv, NEW b \in Branches
               PROVE  /\ pc[b] = "done" => (msg[b].route = {b} <=> Has(b, "route"))
                      /\ ~empty => OriginalPayload(b) = {{}}
    BY DEF OwnFields
  <2>1. BranchInv(b)
    BY DEF IInv
  <2> QED
    BY <2>1, AtTheEnd DEF BranchInv, Routed, BackedUp
<1> QED
  BY <1>1, Invariance, PTL
=============================================================================

--------------------------- MODULE DispatchProofs ---------------------------
(***************************************************************************)
(* Theorems about Dispatch.tla, for every topology, buffer strategy,       *)
(* number of goroutines, of messages and of transform outputs, with and    *)
(* without cancellation.  The premise NoFatalEdges leaves out the double   *)
(* Ack of matchEdges (finding: run dispatch_limit).                        *)
(*                                                                         *)
(* IInv is the inductive invariant.  That a message is acked once rests on *)
(* the counters: a parent is acked when its counter falls to zero, and the *)
(* counter is the number of branches that have not been acked.  What the   *)
(* source hears rests on the tree of branches: TreeInv.                    *)
(***************************************************************************)
EXTENDS Dispatch, FiniteSetTheorems, TLAPS

(* No stage with error_mode propagate has a required conditional edge.     *)
NoFatalEdges ==
    \A e \in Conditional \cap Required : ErrorMode[From[e]] # "propagate"

(* Calls in which a message has no branches yet.                           *)
Fresh == {"dispatch", "send", "blocked", "buffered", "held"}

(* Only a source message waits for a slot or is reported to the source.    *)
RootCalls == {"source", "acquire", "full", "lost", "onack"}

WellPlaced ==
    \A m \in Born :
        /\ at[m].call \notin {"matchAck", "matchOnack", "unmatched"}
        /\ at[m].call \in RootCalls => IsRoot(m)

RootsBorn == \A i \in Ids : Root(i) \in Born

(* A message with branches waits, or is itself being acked; while one of   *)
(* its branches is not acked, it waits.                                    *)
ParentsWait ==
    \A c \in Born : ~IsRoot(c) =>
        /\ at[c.up].call \in {"wait", "ack", "onack", "done"}
        /\ at[c].call # "done" => at[c.up].call = "wait"

FiniteBranches ==
    \A m \in Born : at[m].call = "wait" => IsFiniteSet(LiveKids(m))

AcksAgree ==
    \A i \in Ids : Len(acks[i]) = IF at[Root(i)].call = "done" THEN 1 ELSE 0

IInv ==
    /\ TypeOK
    /\ RootsBorn
    /\ WellPlaced
    /\ ParentsWait
    /\ FiniteBranches
    /\ BranchAccounting
    /\ AcksAgree
    /\ InflightAccounting

-----------------------------------------------------------------------------
(* Messages. *)

LEMMA RootFacts ==
    ASSUME NEW i \in Ids
    PROVE  IsRoot(Root(i)) /\ Root(i).id = i
BY EngineAssumption DEF Root, IsRoot

LEMMA ChildFacts ==
    ASSUME NEW m, NEW x \in Edges \cup Copies
    PROVE  /\ ~IsRoot(Child(m, x))
           /\ Child(m, x).up = m
           /\ Child(m, x).via = x
           /\ Child(m, x).id = m.id
BY EngineAssumption DEF Child, IsRoot

LEMMA NotFatal ==
    ASSUME NoFatalEdges, NEW s, NEW verdict
    PROVE  ~Fatal(s, verdict)
BY DEF NoFatalEdges, Fatal, OutEdges

(* A message with no call but Fresh ones has no branches.                  *)
LEMMA FreshHasNoKids ==
    ASSUME IInv, NEW m \in Born,
           at[m].call \notin {"wait", "ack", "onack", "done"}
    PROVE  Kids(m) = {}
BY DEF IInv, ParentsWait, Kids

-----------------------------------------------------------------------------
(* Steps that only hand messages on.  Most actions move one or two messages*)
(* from a Fresh call to a Fresh call or to their ack, and touch no counter.*)

HandsOn ==
    /\ Born' = Born
    /\ at' \in [Born -> Places]
    /\ \A x \in Born : \/ at'[x] = at[x]
                       \/ /\ at[x].call \in Fresh
                          /\ at'[x].call \in Fresh \cup {"ack"}
                          /\ at'[x].call \in Fresh => at'[x].res = "nil"
    /\ pending' = pending
    /\ firstErr' = firstErr
    /\ inflight' = inflight
    /\ acks' = acks

LEMMA HandsOnKeepsIInv ==
    ASSUME IInv, HandsOn, alive' \subseteq alive, cancelled' \in BOOLEAN
    PROVE  IInv'
<1>1. \A x \in Born : (at'[x].call = "done" <=> at[x].call = "done")
      BY DEF HandsOn, Fresh
<1>2. \A x \in Born : (at'[x].call = "wait" <=> at[x].call = "wait")
      BY DEF HandsOn, Fresh
<1>3. \A m : LiveKids(m)' = LiveKids(m)
      BY <1>1 DEF HandsOn, LiveKids, Kids, IsRoot
<1>4. TypeOK'
  BY DEF IInv, HandsOn, TypeOK
<1>5. RootsBorn'
  BY DEF IInv, HandsOn, RootsBorn
<1>6. WellPlaced'
  BY DEF IInv, HandsOn, WellPlaced, Fresh, RootCalls, IsRoot
<1>7. ParentsWait'
  <2> SUFFICES ASSUME NEW c \in Born', ~IsRoot(c)
               PROVE  /\ at'[c.up].call \in {"wait", "ack", "onack", "done"}
                      /\ at'[c].call # "done" => at'[c.up].call = "wait"
    BY DEF ParentsWait, IsRoot
  <2>1. c \in Born BY DEF HandsOn
  <2>2. c.up \in Born
    BY <2>1, RootFacts DEF IInv, TypeOK
  <2>3. at'[c.up] = at[c.up]
    BY <2>1, <2>2 DEF IInv, ParentsWait, HandsOn, Fresh
  <2> QED BY <1>1, <2>1, <2>3 DEF IInv, ParentsWait
<1>8. FiniteBranches' /\ BranchAccounting'
  BY <1>2, <1>3 DEF IInv, HandsOn, FiniteBranches, BranchAccounting
<1>9. AcksAgree'
  BY <1>1 DEF IInv, HandsOn, AcksAgree, RootsBorn
<1>10. HoldsSlot' = HoldsSlot
  BY DEF IInv, HandsOn, RootsBorn, HoldsSlot, OutsideCalls, Fresh
<1>11. InflightAccounting'
  BY <1>10 DEF IInv, HandsOn, InflightAccounting
<1> QED BY <1>4, <1>5, <1>6, <1>7, <1>8, <1>9, <1>11 DEF IInv
-----------------------------------------------------------------------------
(* dispatchFrom and dispatchTransformOutputs: a message without branches   *)
(* gets one branch per element of a non-empty set of edges or outputs.     *)

LEMMA BranchesCounted ==
    ASSUME NEW m, NEW X \in SUBSET (Edges \cup Copies), IsFiniteSet(X)
    PROVE  /\ IsFiniteSet({Child(m, x) : x \in X})
           /\ Cardinality({Child(m, x) : x \in X}) \in Nat
<1> DEFINE kids == {Child(m, x) : x \in X}
           f == [x \in X |-> Child(m, x)]
<1>1. f \in Surjection(X, kids)
  BY DEF Surjection
<1>2. IsFiniteSet(kids)
  BY <1>1, FS_Surjection
<1> QED BY <1>2, FS_CardinalityType

LEMMA BranchKeepsIInv ==
    ASSUME IInv,
           NEW m \in Born, at[m].call \in Fresh,
           NEW X \in SUBSET (Edges \cup Copies), IsFiniteSet(X), X # {},
           NEW p \in Places, p.call \in Fresh,
           Branch(m, {Child(m, x) : x \in X}, p)
    PROVE  IInv'
<1> DEFINE kids == {Child(m, x) : x \in X}
<1>1. \A c \in kids : /\ ~IsRoot(c)
                     /\ c.up = m
                     /\ c.via \in Edges \cup Copies
                     /\ c = Child(c.up, c.via)
                     /\ c.id \in Ids
  BY ChildFacts DEF IInv, TypeOK
<1>2. Kids(m) = {}
  BY FreshHasNoKids DEF Fresh
<1>3. kids \cap Born = {}
  BY <1>1, <1>2 DEF Kids
<1>4. m \notin kids
  BY <1>3
<1>5. Born' = Born \cup kids
  BY DEF Branch, Born
<1>6. /\ \A x \in kids : at'[x] = p /\ pending'[x] = 0 /\ firstErr'[x] = "nil"
      /\ at'[m] = Place("wait", NoOne, "nil")
      /\ pending'[m] = Cardinality(kids)
      /\ \A x \in Born \ {m} : at'[x] = at[x] /\ pending'[x] = pending[x]
      /\ \A x \in Born : firstErr'[x] = firstErr[x]
  BY <1>3, <1>4 DEF Branch, Awaited
<1>7. UNCHANGED <<inflight, acks, alive, cancelled>>
  BY DEF Branch
<1>8. IsFiniteSet(kids) /\ Cardinality(kids) \in Nat
  BY BranchesCounted
<1>9. TypeOK'
  <2>1. Place("wait", NoOne, "nil") \in Places
    BY DEF Place, Places, Calls, Results
  <2>2. at' \in [Born' -> Places]
    BY <2>1, <1>5, <1>6 DEF Branch, IInv, TypeOK
  <2>3. pending' \in [Born' -> Nat]
    <3>1. \A x \in Born \cup kids : pending'[x] \in Nat
      <4>1. \A x \in Born \ {m} : pending'[x] \in Nat
        BY <1>6 DEF IInv, TypeOK
      <4>2. pending'[m] \in Nat /\ \A x \in kids : pending'[x] \in Nat
        BY <1>6, <1>8
      <4> HIDE DEF kids
      <4> QED BY <4>1, <4>2
    <3>2. pending' = [x \in Born \cup kids |-> pending'[x]]
      BY DEF Branch
    <3> HIDE DEF kids
    <3> QED BY <3>1, <3>2, <1>5
  <2>4. firstErr' \in [Born' -> Results]
    BY <1>5, <1>6 DEF Branch, IInv, TypeOK, Results
  <2>5. \A x \in Born' : /\ x.id \in Ids
                        /\ \/ x = Root(x.id)
                           \/ /\ x.via \in Edges \cup Copies
                              /\ x.up \in Born'
                              /\ x = Child(x.up, x.via)
    BY <1>1, <1>5 DEF IInv, TypeOK
  <2> QED BY <2>2, <2>3, <2>4, <2>5, <1>7 DEF IInv, TypeOK
<1>10. RootsBorn'
  BY <1>5 DEF IInv, RootsBorn
<1>11. WellPlaced'
  BY <1>1, <1>5, <1>6 DEF IInv, WellPlaced, Fresh, RootCalls, Place, IsRoot
<1>12. ParentsWait'
  <2> SUFFICES ASSUME NEW c \in Born', ~IsRoot(c)
               PROVE  /\ at'[c.up].call \in {"wait", "ack", "onack", "done"}
                      /\ at'[c].call # "done" => at'[c.up].call = "wait"
    BY DEF ParentsWait, IsRoot
  <2>1. CASE c \in kids
    BY <2>1, <1>1, <1>6 DEF Place
  <2>2. CASE c \in Born
    <3>1. c.up \in Born \ {m}
      BY <2>2, <1>2, RootFacts DEF IInv, TypeOK, Kids
    <3>2. CASE c = m
      BY <3>1, <3>2, <1>6 DEF IInv, ParentsWait, Fresh, Place
    <3>3. CASE c # m
      BY <3>1, <3>3, <2>2, <1>6 DEF IInv, ParentsWait
    <3> QED BY <3>2, <3>3
  <2> QED BY <2>1, <2>2, <1>5
<1>13. ASSUME NEW x \in Born', at'[x].call = "wait"
       PROVE  IsFiniteSet(LiveKids(x)') /\ pending'[x] = Cardinality(LiveKids(x)')
  <2>1. CASE x = m
    <3>1. LiveKids(m)' = kids
      BY <1>1, <1>2, <1>5, <1>6 DEF LiveKids, Kids, Fresh, IsRoot
    <3> QED BY <2>1, <3>1, <1>6, <1>8
  <2>2. CASE x # m
    <3>1. x \in Born
      BY <2>2, <1>5, <1>6, <1>13 DEF Fresh
    <3>2. at[x].call = "wait"
      BY <2>2, <3>1, <1>6, <1>13
    <3>3. \A c \in Born : at'[c].call = "done" <=> at[c].call = "done"
      BY <1>6 DEF Fresh, Place
    <3>4. LiveKids(x)' = LiveKids(x)
      BY <2>2, <3>3, <1>1, <1>5 DEF LiveKids, Kids, IsRoot
    <3> QED BY <2>2, <3>1, <3>2, <3>4, <1>6
            DEF IInv, FiniteBranches, BranchAccounting
  <2> QED BY <2>1, <2>2
<1>14. FiniteBranches' /\ BranchAccounting'
  BY <1>13 DEF FiniteBranches, BranchAccounting
<1>15. \A i \in Ids : at'[Root(i)].call = "done" <=> at[Root(i)].call = "done"
  BY <1>6 DEF IInv, RootsBorn, Fresh, Place
<1>16. AcksAgree'
  BY <1>7, <1>15 DEF IInv, AcksAgree
<1>17. HoldsSlot' = HoldsSlot
  BY <1>6 DEF IInv, RootsBorn, HoldsSlot, OutsideCalls, Fresh, Place
<1>18. InflightAccounting'
  BY <1>7, <1>17 DEF IInv, InflightAccounting
<1> QED BY <1>9, <1>10, <1>11, <1>12, <1>14, <1>16, <1>18 DEF IInv
-----------------------------------------------------------------------------
(* The ack of a branch: the counter of its parent falls by one, and the    *)
(* parent is acked exactly when this was its last branch.                  *)

LEMMA AckBranchKeepsIInv ==
    ASSUME IInv, NEW g \in Workers \cup Forwarders, AckBranch(g)
    PROVE  IInv'
<1>1. PICK m \in HeldBy(g) :
        /\ at[m].call \in {"ack", "matchAck"}
        /\ ~IsRoot(m)
        /\ pending'  = [pending EXCEPT ![m.up] = @ - 1]
        /\ firstErr' = [firstErr EXCEPT ![m.up] = Stored(m)]
        /\ at' = IF pending[m.up] = 1
                 THEN [at EXCEPT ![m] = AfterAck(m, g),
                                 ![m.up] = Place("ack", g, Stored(m))]
                 ELSE [at EXCEPT ![m] = AfterAck(m, g)]
  BY DEF AckBranch, LastBranch
<1> DEFINE u == m.up
<1>2. m \in Born /\ at[m].call = "ack"
  BY <1>1 DEF HeldBy, IInv, WellPlaced
<1>3. u \in Born /\ at[u].call = "wait" /\ u # m
  BY <1>1, <1>2, RootFacts DEF IInv, TypeOK, ParentsWait
<1>4. AfterAck(m, g) = Place("done", NoOne, at[m].res)
  BY <1>2 DEF AfterAck
<1>5. UNCHANGED <<inflight, acks, alive, cancelled>>
  BY DEF AckBranch, LastBranch
<1>6. /\ Born' = Born
      /\ at'[m] = Place("done", NoOne, at[m].res)
      /\ at'[u] = IF pending[u] = 1 THEN Place("ack", g, Stored(m)) ELSE at[u]
      /\ \A x \in Born \ {m, u} : at'[x] = at[x]
  BY <1>1, <1>2, <1>3, <1>4 DEF Born
<1>7. /\ pending'[u] = pending[u] - 1
      /\ \A x \in Born \ {u} : pending'[x] = pending[x]
  BY <1>1, <1>3 DEF IInv, TypeOK
<1>8. m \in LiveKids(u)
  BY <1>1, <1>2 DEF LiveKids, Kids
<1>9. /\ IsFiniteSet(LiveKids(u))
      /\ pending[u] = Cardinality(LiveKids(u))
      /\ pending[u] \in Nat
  BY <1>3, FS_CardinalityType DEF IInv, FiniteBranches, BranchAccounting
<1>10. /\ IsFiniteSet(LiveKids(u) \ {m})
       /\ Cardinality(LiveKids(u) \ {m}) = pending[u] - 1
  BY <1>8, <1>9, FS_RemoveElement
<1>11. TypeOK'
  <2>1. Stored(m) \in Results /\ at[m].res \in Results
    BY <1>2, <1>3 DEF Stored, IInv, TypeOK, Places
  <2>2. Place("done", NoOne, at[m].res) \in Places /\ Place("ack", g, Stored(m)) \in Places
    BY <2>1 DEF Place, Places, Calls
  <2>3. at' \in [Born -> Places]
    BY <1>1, <1>3, <1>4, <2>2 DEF IInv, TypeOK
  <2>4. pending' \in [Born -> Nat]
    BY <1>1, <1>3, <1>8, <1>9, <1>10, FS_CardinalityType DEF IInv, TypeOK
  <2>5. firstErr' \in [Born -> Results]
    BY <1>1, <2>1 DEF IInv, TypeOK
  <2> QED BY <1>5, <1>6, <2>3, <2>4, <2>5 DEF IInv, TypeOK
<1>12. RootsBorn'
  BY <1>6 DEF IInv, RootsBorn
<1>13. WellPlaced'
  BY <1>6 DEF IInv, WellPlaced, RootCalls, Place, IsRoot
<1>0. \A x \in Born : at'[x].call = "done" <=> (at[x].call = "done" \/ x = m)
  BY <1>3, <1>6 DEF Place
<1>14. \A x \in Born : x # u => LiveKids(x)' = LiveKids(x)
  BY <1>3, <1>6 DEF LiveKids, Kids, IsRoot, Place
<1>15. LiveKids(u)' = LiveKids(u) \ {m}
  BY <1>0, <1>6 DEF LiveKids, Kids, IsRoot
<1>16. ParentsWait'
  <2> SUFFICES ASSUME NEW c \in Born, ~IsRoot(c)
               PROVE  /\ at'[c.up].call \in {"wait", "ack", "onack", "done"}
                      /\ at'[c].call # "done" => at'[c.up].call = "wait"
    BY <1>6 DEF ParentsWait, IsRoot
  <2>0. c.up \in Born
    BY RootFacts DEF IInv, TypeOK
  <2>1. CASE c.up = u
    <3>1. CASE pending[u] = 1
      <4>1. LiveKids(u) \ {m} = {}
        BY <3>1, <1>10, FS_EmptySet
      <4>2. at'[c].call = "done"
        BY <4>1, <2>1, <1>3, <1>6 DEF LiveKids, Kids, Place
      <4> QED BY <2>1, <3>1, <4>2, <1>6 DEF Place
    <3>2. CASE pending[u] # 1
      BY <2>1, <3>2, <1>3, <1>6
    <3> QED BY <3>1, <3>2
  <2>2. CASE c.up # u
    <3>1. CASE c.up = m
      <4>1. at[c].call = "done"
        BY <3>1, <1>2 DEF IInv, ParentsWait
      <4> QED BY <3>1, <4>1, <1>0, <1>6 DEF Place
    <3>2. CASE c.up # m
      BY <2>0, <2>2, <3>2, <1>0, <1>6 DEF IInv, ParentsWait
    <3> QED BY <3>1, <3>2
  <2> QED BY <2>1, <2>2
<1>17. FiniteBranches' /\ BranchAccounting'
  <2> SUFFICES ASSUME NEW x \in Born, at'[x].call = "wait"
               PROVE  IsFiniteSet(LiveKids(x)') /\ pending'[x] = Cardinality(LiveKids(x)')
    BY <1>6 DEF FiniteBranches, BranchAccounting
  <2>1. CASE x = u
    BY <2>1, <1>7, <1>10, <1>15
  <2>2. CASE x # u
    BY <2>2, <1>6, <1>7, <1>14 DEF IInv, FiniteBranches, BranchAccounting, Place
  <2> QED BY <2>1, <2>2
<1>18. \A i \in Ids : Root(i) # m
  BY <1>1, RootFacts
<1>19. \A i \in Ids : at'[Root(i)].call = "done" <=> at[Root(i)].call = "done"
  BY <1>3, <1>6, <1>18 DEF IInv, RootsBorn, Place
<1>20. AcksAgree'
  BY <1>5, <1>19 DEF IInv, AcksAgree
<1>21. HoldsSlot' = HoldsSlot
  BY <1>3, <1>6, <1>18 DEF IInv, RootsBorn, HoldsSlot, OutsideCalls, Place
<1>22. InflightAccounting'
  BY <1>5, <1>21 DEF IInv, InflightAccounting
<1> QED BY <1>11, <1>12, <1>13, <1>16, <1>17, <1>20, <1>22 DEF IInv
-----------------------------------------------------------------------------
(* Steps of a source message outside the graph: it is read, takes a slot   *)
(* or gives up, and at the end gives the slot back and is reported.        *)

(* Only the place of the source message i changes; it neither has branches *)
(* that are not acked nor is a branch itself.                              *)
RootMoves(i, p) ==
    /\ at' = [at EXCEPT ![Root(i)] = p]
    /\ pending' = pending
    /\ firstErr' = firstErr
    /\ alive' \subseteq alive
    /\ cancelled' = cancelled

LEMMA RootMoveKeepsTree ==
    ASSUME IInv, NEW i \in Ids, NEW p \in Places, RootMoves(i, p),
           at[Root(i)].call \notin {"wait", "done"},
           p.call \in RootCalls \cup Fresh \cup {"done"},
           at[Root(i)].call \in {"ack", "onack"} => p.call \in {"onack", "done"},
           inflight' \in Nat, acks' \in [Ids -> Seq(Results)]
    PROVE  /\ TypeOK' /\ RootsBorn' /\ WellPlaced' /\ ParentsWait'
           /\ FiniteBranches' /\ BranchAccounting'
           /\ \A j \in Ids : at'[Root(j)] = IF j = i THEN p ELSE at[Root(j)]
<1> DEFINE r == Root(i)
<1>1. r \in Born /\ IsRoot(r) /\ Born' = Born
  BY RootFacts DEF IInv, RootsBorn, RootMoves, Born
<1>2. at'[r] = p /\ \A x \in Born \ {r} : at'[x] = at[x]
  BY <1>1 DEF RootMoves, IInv, TypeOK
<1>3. TypeOK'
  BY <1>1 DEF IInv, TypeOK, RootMoves
<1>4. RootsBorn'
  BY <1>1 DEF IInv, RootsBorn
<1>5. WellPlaced'
  BY <1>1, <1>2 DEF IInv, WellPlaced, RootCalls, Fresh, IsRoot
<1>6. \A c \in Kids(r) : at[c].call = "done"
  BY <1>1 DEF IInv, ParentsWait, Kids
<1>7. ParentsWait'
  <2> SUFFICES ASSUME NEW c \in Born, ~IsRoot(c)
               PROVE  /\ at'[c.up].call \in {"wait", "ack", "onack", "done"}
                      /\ at'[c].call # "done" => at'[c.up].call = "wait"
    BY <1>1 DEF ParentsWait, IsRoot
  <2>1. c # r /\ c.up \in Born
    BY <1>1, RootFacts DEF IInv, TypeOK
  <2>2. CASE c.up = r
    <3>1. at[r].call \in {"ack", "onack"}
      BY <2>2 DEF IInv, ParentsWait
    <3> QED BY <2>1, <2>2, <3>1, <1>2, <1>6 DEF Kids
  <2>3. CASE c.up # r
    BY <2>1, <2>3, <1>2 DEF IInv, ParentsWait
  <2> QED BY <2>2, <2>3
<1>8. \A x : LiveKids(x)' = LiveKids(x)
  BY <1>1, <1>2 DEF LiveKids, Kids, IsRoot
<1>9. \A x \in Born : at'[x].call = "wait" => at[x].call = "wait"
  BY <1>1, <1>2 DEF RootCalls, Fresh
<1>10. FiniteBranches' /\ BranchAccounting'
  BY <1>1, <1>8, <1>9 DEF IInv, FiniteBranches, BranchAccounting, RootMoves
<1>11. \A j \in Ids : at'[Root(j)] = IF j = i THEN p ELSE at[Root(j)]
  BY <1>2, RootFacts DEF IInv, RootsBorn
<1> QED BY <1>3, <1>4, <1>5, <1>7, <1>10, <1>11

LEMMA ReceiveKeepsIInv ==
    ASSUME IInv, NEW g \in Workers, Receive(g)
    PROVE  IInv'
<1>1. PICK i \in Ids : /\ at[Root(i)].call = "source"
                       /\ at' = [at EXCEPT ![Root(i)] = Place("acquire", g, "nil")]
  BY DEF Receive, Move
<1> DEFINE p == Place("acquire", g, "nil")
<1>2. p \in Places /\ p.call = "acquire"
  BY DEF Place, Places, Calls, Results
<1>3. RootMoves(i, p) /\ inflight' = inflight /\ acks' = acks
  BY <1>1 DEF Receive, counters, RootMoves
<1>4. /\ TypeOK' /\ RootsBorn' /\ WellPlaced' /\ ParentsWait'
      /\ FiniteBranches' /\ BranchAccounting'
      /\ \A j \in Ids : at'[Root(j)] = IF j = i THEN p ELSE at[Root(j)]
  BY <1>1, <1>2, <1>3, RootMoveKeepsTree DEF RootCalls, IInv, TypeOK
<1>5. AcksAgree'
  BY <1>1, <1>2, <1>3, <1>4 DEF IInv, AcksAgree
<1>6. HoldsSlot' = HoldsSlot
  BY <1>1, <1>2, <1>4 DEF HoldsSlot, OutsideCalls
<1>7. InflightAccounting'
  BY <1>3, <1>6 DEF IInv, InflightAccounting
<1> QED BY <1>4, <1>5, <1>7 DEF IInv

LEMMA AcquireWaitsKeepsIInv ==
    ASSUME IInv, NEW g \in Workers, AcquireWaits(g)
    PROVE  IInv'
<1>1. PICK m \in HeldBy(g) : /\ at[m].call = "acquire"
                             /\ at' = [at EXCEPT ![m] = Place("full", g, "nil")]
  BY DEF AcquireWaits, Move
<1> DEFINE i == m.id
           p == Place("full", g, "nil")
<1>2. m = Root(i) /\ i \in Ids
  <2>1. m \in Born /\ IsRoot(m)
    BY <1>1 DEF HeldBy, IInv, WellPlaced, RootCalls
  <2> QED BY <2>1, ChildFacts DEF IInv, TypeOK
<1>3. p \in Places /\ p.call = "full"
  BY DEF Place, Places, Calls, Results
<1>4. RootMoves(i, p) /\ inflight' = inflight /\ acks' = acks
  BY <1>1, <1>2 DEF AcquireWaits, counters, RootMoves
<1>5. /\ TypeOK' /\ RootsBorn' /\ WellPlaced' /\ ParentsWait'
      /\ FiniteBranches' /\ BranchAccounting'
      /\ \A j \in Ids : at'[Root(j)] = IF j = i THEN p ELSE at[Root(j)]
  <2>1. at[Root(i)].call = "acquire"
    BY <1>1, <1>2
  <2>2. inflight' \in Nat /\ acks' \in [Ids -> Seq(Results)]
    BY <1>4 DEF IInv, TypeOK
  <2> HIDE DEF i, p
  <2> QED BY <1>2, <1>3, <1>4, <2>1, <2>2, RootMoveKeepsTree DEF RootCalls
<1>6. AcksAgree'
  BY <1>1, <1>2, <1>3, <1>4, <1>5 DEF IInv, AcksAgree
<1>7. HoldsSlot' = HoldsSlot
  BY <1>1, <1>2, <1>3, <1>5 DEF HoldsSlot, OutsideCalls
<1>8. InflightAccounting'
  BY <1>4, <1>7 DEF IInv, InflightAccounting
<1> QED BY <1>5, <1>6, <1>8 DEF IInv

LEMMA AcquireCancelledKeepsIInv ==
    ASSUME IInv, NEW g \in Workers, AcquireCancelled(g)
    PROVE  IInv'
<1>1. PICK m \in HeldBy(g) : /\ at[m].call = "full"
                             /\ at' = [at EXCEPT ![m] = Place("lost", NoOne, "nil")]
  BY DEF AcquireCancelled, Move
<1> DEFINE i == m.id
           p == Place("lost", NoOne, "nil")
<1>2. m = Root(i) /\ i \in Ids
  <2>1. m \in Born /\ IsRoot(m)
    BY <1>1 DEF HeldBy, IInv, WellPlaced, RootCalls
  <2> QED BY <2>1, ChildFacts DEF IInv, TypeOK
<1>3. p \in Places /\ p.call = "lost"
  BY DEF Place, Places, Calls, Results
<1>4. RootMoves(i, p) /\ inflight' = inflight /\ acks' = acks
  BY <1>1, <1>2 DEF AcquireCancelled, RootMoves
<1>5. /\ TypeOK' /\ RootsBorn' /\ WellPlaced' /\ ParentsWait'
      /\ FiniteBranches' /\ BranchAccounting'
      /\ \A j \in Ids : at'[Root(j)] = IF j = i THEN p ELSE at[Root(j)]
  <2>1. at[Root(i)].call = "full"
    BY <1>1, <1>2
  <2>2. inflight' \in Nat /\ acks' \in [Ids -> Seq(Results)]
    BY <1>4 DEF IInv, TypeOK
  <2> HIDE DEF i, p
  <2> QED BY <1>2, <1>3, <1>4, <2>1, <2>2, RootMoveKeepsTree DEF RootCalls
<1>6. AcksAgree'
  BY <1>1, <1>2, <1>3, <1>4, <1>5 DEF IInv, AcksAgree
<1>7. HoldsSlot' = HoldsSlot
  BY <1>1, <1>2, <1>3, <1>5 DEF HoldsSlot, OutsideCalls
<1>8. InflightAccounting'
  BY <1>4, <1>7 DEF IInv, InflightAccounting
<1> QED BY <1>5, <1>6, <1>8 DEF IInv

LEMMA AcquireKeepsIInv ==
    ASSUME IInv, NEW g \in Workers, Acquire(g)
    PROVE  IInv'
<1>1. PICK m \in HeldBy(g) : /\ at[m].call \in {"acquire", "full"}
                             /\ at' = [at EXCEPT ![m] = Place("dispatch", g, "nil")]
  BY DEF Acquire, Move
<1> DEFINE i == m.id
           p == Place("dispatch", g, "nil")
<1>2. m = Root(i) /\ i \in Ids
  <2>1. m \in Born /\ IsRoot(m)
    BY <1>1 DEF HeldBy, IInv, WellPlaced, RootCalls
  <2> QED BY <2>1, ChildFacts DEF IInv, TypeOK
<1>3. p \in Places /\ p.call = "dispatch"
  BY DEF Place, Places, Calls, Results
<1>4. RootMoves(i, p) /\ inflight' = inflight + 1 /\ acks' = acks
  BY <1>1, <1>2 DEF Acquire, RootMoves
<1>5. at[Root(i)].call \in {"acquire", "full"}
  BY <1>1, <1>2
<1> HIDE DEF i, p
<1>6. /\ TypeOK' /\ RootsBorn' /\ WellPlaced' /\ ParentsWait'
      /\ FiniteBranches' /\ BranchAccounting'
      /\ \A j \in Ids : at'[Root(j)] = IF j = i THEN p ELSE at[Root(j)]
  <2>1. inflight' \in Nat /\ acks' \in [Ids -> Seq(Results)]
    BY <1>4 DEF IInv, TypeOK
  <2> QED BY <1>2, <1>3, <1>4, <1>5, <2>1, RootMoveKeepsTree DEF Fresh
<1>7. AcksAgree'
  BY <1>2, <1>3, <1>4, <1>5, <1>6 DEF IInv, AcksAgree
<1>8. i \notin HoldsSlot /\ HoldsSlot' = HoldsSlot \cup {i}
  BY <1>2, <1>3, <1>5, <1>6 DEF HoldsSlot, OutsideCalls
<1>9. IsFiniteSet(HoldsSlot)
  BY EngineAssumption, FS_Subset DEF HoldsSlot
<1>10. Cardinality(HoldsSlot') = Cardinality(HoldsSlot) + 1
  BY <1>8, <1>9, FS_AddElement
<1>11. InflightAccounting'
  BY <1>4, <1>10, EngineAssumption
     DEF Acquire, HasSlot, IInv, TypeOK, InflightAccounting
<1> QED BY <1>6, <1>7, <1>11 DEF IInv

LEMMA ReleaseInflightKeepsIInv ==
    ASSUME IInv, NEW g \in Workers \cup Forwarders, ReleaseInflight(g)
    PROVE  IInv'
<1>1. PICK m \in HeldBy(g) :
        /\ at[m].call \in {"ack", "matchAck"}
        /\ IsRoot(m)
        /\ Move(m, IF at[m].call = "ack" THEN "onack" ELSE "matchOnack", g, at[m].res)
  BY DEF ReleaseInflight
<1> DEFINE i == m.id
           p == Place("onack", g, at[m].res)
<1>2. m = Root(i) /\ i \in Ids
  BY <1>1, ChildFacts DEF HeldBy, IInv, TypeOK
<1>3. at[m].call = "ack"
  BY <1>1 DEF HeldBy, IInv, WellPlaced
<1>4. p \in Places /\ p.call = "onack"
  BY <1>1 DEF HeldBy, IInv, TypeOK, Place, Places, Calls
<1>5. at[Root(i)].call = "ack"
  BY <1>2, <1>3
<1>6. RootMoves(i, p) /\ inflight' = inflight - 1 /\ acks' = acks
  BY <1>1, <1>2, <1>3 DEF ReleaseInflight, Move, RootMoves
<1> HIDE DEF i, p
<1>7. /\ TypeOK' /\ RootsBorn' /\ WellPlaced' /\ ParentsWait'
      /\ FiniteBranches' /\ BranchAccounting'
      /\ \A j \in Ids : at'[Root(j)] = IF j = i THEN p ELSE at[Root(j)]
  <2>0. i \in HoldsSlot /\ IsFiniteSet(HoldsSlot)
    BY <1>2, <1>5, EngineAssumption, FS_Subset DEF HoldsSlot, OutsideCalls
  <2>1. inflight' \in Nat /\ acks' \in [Ids -> Seq(Results)]
    BY <1>6, <2>0, FS_EmptySet, FS_CardinalityType DEF IInv, TypeOK, InflightAccounting
  <2> QED BY <1>2, <1>4, <1>5, <1>6, <2>1, RootMoveKeepsTree DEF RootCalls
<1>8. AcksAgree'
  BY <1>2, <1>4, <1>5, <1>6, <1>7 DEF IInv, AcksAgree
<1>9. i \in HoldsSlot /\ HoldsSlot' = HoldsSlot \ {i}
  BY <1>2, <1>4, <1>5, <1>7 DEF HoldsSlot, OutsideCalls
<1>10. IsFiniteSet(HoldsSlot)
  BY EngineAssumption, FS_Subset DEF HoldsSlot
<1>11. Cardinality(HoldsSlot') = Cardinality(HoldsSlot) - 1
  BY <1>9, <1>10, FS_RemoveElement
<1>12. InflightAccounting'
  BY <1>6, <1>11, EngineAssumption DEF IInv, TypeOK, InflightAccounting
<1> QED BY <1>7, <1>8, <1>12 DEF IInv

LEMMA OnAckKeepsIInv ==
    ASSUME IInv, NEW g \in Workers \cup Forwarders, OnAck(g)
    PROVE  IInv'
<1>1. PICK m \in HeldBy(g) :
        /\ at[m].call \in {"onack", "matchOnack"}
        /\ acks' = [acks EXCEPT ![m.id] = Append(@, at[m].res)]
        /\ at' = [at EXCEPT ![m] = AfterAck(m, g)]
  BY DEF OnAck
<1> DEFINE i == m.id
           p == Place("done", NoOne, at[m].res)
<1>2. at[m].call = "onack"
  BY <1>1 DEF HeldBy, IInv, WellPlaced
<1>3. m = Root(i) /\ i \in Ids
  <2>1. m \in Born /\ IsRoot(m)
    BY <1>2 DEF HeldBy, IInv, WellPlaced, RootCalls
  <2> QED BY <2>1, ChildFacts DEF IInv, TypeOK
<1>4. p \in Places /\ p.call = "done" /\ at[m].res \in Results
  BY <1>1 DEF HeldBy, IInv, TypeOK, Place, Places, Calls
<1>5. at[Root(i)].call = "onack"
  BY <1>2, <1>3
<1>6. RootMoves(i, p) /\ inflight' = inflight
  BY <1>1, <1>2, <1>3 DEF OnAck, AfterAck, RootMoves
<1>7. /\ acks' \in [Ids -> Seq(Results)]
      /\ Len(acks'[i]) = Len(acks[i]) + 1
      /\ \A j \in Ids \ {i} : acks'[j] = acks[j]
  BY <1>1, <1>3, <1>4 DEF IInv, TypeOK
<1> HIDE DEF i, p
<1>8. /\ TypeOK' /\ RootsBorn' /\ WellPlaced' /\ ParentsWait'
      /\ FiniteBranches' /\ BranchAccounting'
      /\ \A j \in Ids : at'[Root(j)] = IF j = i THEN p ELSE at[Root(j)]
  <2>1. inflight' \in Nat
    BY <1>6 DEF IInv, TypeOK
  <2> QED BY <1>3, <1>4, <1>5, <1>6, <1>7, <2>1, RootMoveKeepsTree
<1>9. AcksAgree'
  <2> SUFFICES ASSUME NEW j \in Ids
               PROVE  Len(acks'[j]) = IF at'[Root(j)].call = "done" THEN 1 ELSE 0
    BY DEF AcksAgree
  <2>1. Len(acks[j]) = IF at[Root(j)].call = "done" THEN 1 ELSE 0
    BY DEF IInv, AcksAgree
  <2>2. CASE j = i
    <3>1. Len(acks[j]) = 0
      BY <2>1, <2>2, <1>5
    <3>2. Len(acks'[j]) = 1
      BY <2>2, <3>1, <1>7
    <3> QED BY <2>2, <3>2, <1>4, <1>8
  <2>3. CASE j # i
    BY <2>1, <2>3, <1>7, <1>8
  <2> QED BY <2>2, <2>3
<1>10. HoldsSlot' = HoldsSlot
  BY <1>3, <1>4, <1>5, <1>8 DEF HoldsSlot, OutsideCalls
<1>11. InflightAccounting'
  BY <1>6, <1>10 DEF IInv, InflightAccounting
<1> QED BY <1>8, <1>9, <1>11 DEF IInv
-----------------------------------------------------------------------------
(* Every step keeps the invariant, one lemma per kind of step. *)

LEMMA InitIInv == Init => IInv
<1> SUFFICES ASSUME Init PROVE IInv
  OBVIOUS
<1> DEFINE roots == {Root(i) : i \in Ids}
<1>1. Born = roots /\ \A m \in Born : at[m] = Place("source", NoOne, "nil")
  BY DEF Init, Born
<1>2. \A m \in Born : IsRoot(m) /\ m.id \in Ids /\ m = Root(m.id)
  BY <1>1, RootFacts
<1>3. TypeOK
  <2>1. Place("source", NoOne, "nil") \in Places
    BY DEF Place, Places, Calls, Results
  <2>2. at \in [Born -> Places] /\ pending \in [Born -> Nat] /\ firstErr \in [Born -> Results]
    BY <1>1, <2>1 DEF Init, Results
  <2>3. acks \in [Ids -> Seq(Results)] /\ inflight \in Nat
    BY DEF Init
  <2>4. alive \subseteq Workers \cup Forwarders /\ cancelled \in BOOLEAN
    BY DEF Init
  <2> QED BY <1>2, <2>2, <2>3, <2>4 DEF TypeOK
<1>4. RootsBorn /\ WellPlaced /\ ParentsWait
  BY <1>1, <1>2 DEF RootsBorn, WellPlaced, ParentsWait, Place, RootCalls
<1>5. FiniteBranches /\ BranchAccounting
  BY <1>1 DEF FiniteBranches, BranchAccounting, Place
<1>6. AcksAgree
  BY <1>1 DEF AcksAgree, Init, Place
<1>7. HoldsSlot = {}
  BY <1>1 DEF HoldsSlot, OutsideCalls, Place
<1>8. InflightAccounting
  BY <1>7, FS_EmptySet, EngineAssumption DEF InflightAccounting, Init
<1> QED BY <1>3, <1>4, <1>5, <1>6, <1>8 DEF IInv

(* The actions that hand one message on. *)
LEMMA MoveHandsOn ==
    ASSUME IInv, NEW m \in Born, NEW g \in Workers \cup Forwarders \cup {NoOne},
           NEW call \in Fresh \cup {"ack"}, NEW r \in Results, call \in Fresh => r = "nil",
           at[m].call \in Fresh, Move(m, call, g, r),
           pending' = pending, firstErr' = firstErr, inflight' = inflight, acks' = acks
    PROVE  HandsOn
<1>1. /\ Place(call, g, r) \in Places
      /\ Place(call, g, r).call = call /\ Place(call, g, r).res = r
  BY DEF Place, Places, Calls, Fresh
<1> QED BY <1>1 DEF HandsOn, Move, Born, IInv, TypeOK

(* dispatchFrom and dispatchTransformOutputs ack m, or make branches of it. *)
LEMMA DispatchForms ==
    ASSUME IInv, NoFatalEdges, NEW g \in Workers, Dispatch(g) \/ ProcessSplits(g)
    PROVE  \/ HandsOn
           \/ \E m \in Born : \E X \in SUBSET (Edges \cup Copies), p \in Places :
                 /\ at[m].call \in Fresh /\ X # {} /\ IsFiniteSet(X)
                /\ p.call \in Fresh /\ p.res = "nil"
                 /\ Branch(m, {Child(m, x) : x \in X}, p)
<1>1. CASE Dispatch(g)
  <2>1. PICK m \in HeldBy(g), verdict \in Verdicts(Home[g]) :
          /\ at[m].call = "dispatch"
          /\ \/ /\ Move(m, "ack", g, "nil")
                /\ UNCHANGED counters
             \/ /\ Matched(Home[g], verdict) # {}
                /\ Branch(m, {Child(m, e) : e \in Matched(Home[g], verdict)},
                          Place("send", g, "nil"))
    BY <1>1, NotFatal DEF Dispatch
  <2>2. m \in Born /\ at[m].call \in Fresh
    BY <2>1 DEF HeldBy, Fresh
  <2>3. CASE Move(m, "ack", g, "nil") /\ UNCHANGED counters
    BY <2>2, <2>3, MoveHandsOn DEF Fresh, Results, counters
  <2>4. Place("send", g, "nil") \in Places /\ Place("send", g, "nil").call \in Fresh
        /\ Place("send", g, "nil").res = "nil"
    BY DEF Place, Places, Calls, Fresh, Results
  <2>5. Matched(Home[g], verdict) \in SUBSET (Edges \cup Copies)
    BY DEF Matched, OutEdges
  <2>6. IsFiniteSet(Matched(Home[g], verdict))
    BY TopologyAssumption, FS_Subset DEF Matched, OutEdges
  <2> QED BY <2>1, <2>2, <2>3, <2>4, <2>5, <2>6
<1>2. CASE ProcessSplits(g)
  <2>1. PICK m \in HeldBy(g), X \in SUBSET Copies :
          /\ at[m].call = "held"
          /\ X # {}
          /\ Branch(m, {Child(m, c) : c \in X}, Place("dispatch", g, "nil"))
    BY <1>2 DEF ProcessSplits
  <2>2. Place("dispatch", g, "nil") \in Places /\ Place("dispatch", g, "nil").call \in Fresh
        /\ Place("dispatch", g, "nil").res = "nil"
    BY DEF Place, Places, Calls, Fresh, Results
  <2>3. m \in Born /\ at[m].call \in Fresh /\ X \in SUBSET (Edges \cup Copies)
    BY <2>1 DEF HeldBy, Fresh
  <2>4. IsFiniteSet(X)
    BY EngineAssumption, FS_Subset
  <2> QED BY <2>1, <2>2, <2>3, <2>4
<1> QED BY <1>1, <1>2

LEMMA DispatchKeepsIInv ==
    ASSUME IInv, NoFatalEdges, NEW g \in Workers, Dispatch(g) \/ ProcessSplits(g)
    PROVE  IInv'
<1>1. UNCHANGED <<alive, cancelled>>
  BY DEF Dispatch, ProcessSplits, Branch, counters
<1>2. CASE HandsOn
  BY <1>1, <1>2, HandsOnKeepsIInv DEF IInv, TypeOK
<1>3. CASE ~HandsOn
  BY <1>3, DispatchForms, BranchKeepsIInv
<1> QED BY <1>2, <1>3

LEMMA SendDropOldestHandsOn ==
    ASSUME IInv, NEW g \in Workers, SendDropOldest(g)
    PROVE  HandsOn
<1>1. PICK m \in HeldBy(g) :
        /\ at[m].call = "send"
        /\ \E old \in Inside(m.via) :
              at' = [at EXCEPT ![m]   = Place("blocked", g, "nil"),
                               ![old] = Place("ack", g, "nil")]
  BY DEF SendDropOldest
<1>2. PICK old \in Inside(m.via) :
        at' = [at EXCEPT ![m]   = Place("blocked", g, "nil"),
                         ![old] = Place("ack", g, "nil")]
  BY <1>1
<1>3. m \in Born /\ old \in Born /\ at[old].call = "buffered"
  BY <1>1 DEF HeldBy, Inside
<1>4. /\ Place("blocked", g, "nil") \in Places
      /\ Place("ack", g, "nil") \in Places
      /\ Place("blocked", g, "nil").call = "blocked" /\ Place("blocked", g, "nil").res = "nil"
      /\ Place("ack", g, "nil").call = "ack"
  BY DEF Place, Places, Calls, Results
<1> QED BY <1>1, <1>2, <1>3, <1>4
        DEF HandsOn, SendDropOldest, counters, Born, IInv, TypeOK, Fresh

(* A step of a stage goroutine that only hands messages on.                *)
HandOver(g) ==
    \/ Send(g) \/ SendWaits(g) \/ SendDropNewest(g) \/ SendDropOldest(g)
    \/ SendCancelled(g) \/ Take(g) \/ ProcessFails(g) \/ ProcessFilters(g)
    \/ ProcessPasses(g) \/ Write(g)

LEMMA HandOverHandsOn ==
    ASSUME IInv, NEW g \in Workers, HandOver(g)
    PROVE  HandsOn /\ alive' = alive /\ cancelled' = cancelled
<1> USE DEF HeldBy, Fresh, Results, counters
<1>1. CASE Send(g)
  BY <1>1, MoveHandsOn DEF Send
<1>2. CASE SendWaits(g)
  BY <1>2, MoveHandsOn DEF SendWaits
<1>3. CASE SendDropNewest(g)
  BY <1>3, MoveHandsOn DEF SendDropNewest
<1>4. CASE SendDropOldest(g)
  BY <1>4, SendDropOldestHandsOn DEF SendDropOldest
<1>5. CASE SendCancelled(g)
  BY <1>5, MoveHandsOn DEF SendCancelled
<1>6. CASE Take(g)
  BY <1>6, MoveHandsOn DEF Take
<1>7. CASE ProcessFails(g)
  BY <1>7, MoveHandsOn DEF ProcessFails, ErrorResult
<1>8. CASE ProcessFilters(g)
  BY <1>8, MoveHandsOn DEF ProcessFilters
<1>9. CASE ProcessPasses(g)
  BY <1>9, MoveHandsOn DEF ProcessPasses
<1>10. CASE Write(g)
  BY <1>10, MoveHandsOn DEF Write
<1> QED BY <1>1, <1>2, <1>3, <1>4, <1>5, <1>6, <1>7, <1>8, <1>9, <1>10 DEF HandOver

LEMMA WorkerStepKeepsIInv ==
    ASSUME IInv, NoFatalEdges, NEW g \in Workers, Step(g)
    PROVE  IInv'
<1>1. CASE Receive(g)
  BY <1>1, ReceiveKeepsIInv
<1>2. CASE Acquire(g)
  BY <1>2, AcquireKeepsIInv
<1>3. CASE AcquireCancelled(g)
  BY <1>3, AcquireCancelledKeepsIInv
<1>4. CASE Dispatch(g)
  BY <1>4, DispatchKeepsIInv
<1>5. CASE HandOver(g)
  BY <1>5, HandOverHandsOn, HandsOnKeepsIInv DEF IInv, TypeOK
<1>6. CASE ProcessSplits(g)
  BY <1>6, DispatchKeepsIInv
<1>7. CASE AckStep(g)
  BY <1>7, AckBranchKeepsIInv, ReleaseInflightKeepsIInv, OnAckKeepsIInv
     DEF AckStep, Unmatched, HeldBy, IInv, WellPlaced
<1>8. CASE Exit(g)
  BY <1>8, HandsOnKeepsIInv DEF Exit, HandsOn, Born, IInv, TypeOK
<1>9. CASE AcquireWaits(g)
  BY <1>9, AcquireWaitsKeepsIInv
<1> QED BY <1>1, <1>2, <1>3, <1>4, <1>5, <1>6, <1>7, <1>8, <1>9 DEF Step, HandOver

LEMMA ForwarderStepKeepsIInv ==
    ASSUME IInv, NEW f \in Forwarders, Forward(f)
    PROVE  IInv'
<1>1. CASE ForwarderCancelled(f)
  BY <1>1, MoveHandsOn, HandsOnKeepsIInv
     DEF ForwarderCancelled, Inside, Fresh, Results, IInv, TypeOK
<1>2. CASE AckStep(f)
  BY <1>2, AckBranchKeepsIInv, ReleaseInflightKeepsIInv, OnAckKeepsIInv
     DEF AckStep, Unmatched, HeldBy, IInv, WellPlaced
<1>3. CASE Exit(f)
  BY <1>3, HandsOnKeepsIInv DEF Exit, HandsOn, Born, IInv, TypeOK
<1> QED BY <1>1, <1>2, <1>3 DEF Forward

LEMMA NextKeepsIInv ==
    ASSUME IInv, NoFatalEdges, [Next]_vars
    PROVE  IInv'
<1>1. CASE Cancel
  BY <1>1, HandsOnKeepsIInv DEF Cancel, HandsOn, Born, IInv, TypeOK
<1>2. CASE UNCHANGED vars
  BY <1>2, HandsOnKeepsIInv DEF vars, HandsOn, Born, IInv, TypeOK
<1> QED BY <1>1, <1>2, WorkerStepKeepsIInv, ForwarderStepKeepsIInv DEF Next, Terminated

(* The invariant holds in every reachable state.                           *)
THEOREM Invariance ==
    ASSUME NoFatalEdges
    PROVE  Safety => []IInv
<1>1. IInv /\ [Next]_vars => IInv'
  BY NextKeepsIInv
<1> QED BY InitIInv, <1>1, PTL DEF Safety

(* Types are kept by every run of the pipeline.                            *)
THEOREM TypeCorrect ==
    ASSUME NoFatalEdges
    PROVE  Safety => []TypeOK
<1>1. IInv => TypeOK
  BY DEF IInv
<1> QED BY Invariance, <1>1, PTL

(* OnAck is called at most once per message, however its branches          *)
(* interleave (pipeline.go:412-429, dispatch.go:53-77).                    *)
THEOREM AckedOnce ==
    ASSUME NoFatalEdges
    PROVE  Safety => []AckOnce
<1>1. IInv => AckOnce
  BY DEF IInv, AcksAgree, AckOnce
<1> QED BY Invariance, <1>1, PTL

(* The inflight counter counts the messages that hold a slot and respects  *)
(* max_inflight (inflight.go:22-43).                                       *)
THEOREM InflightCounted ==
    ASSUME NoFatalEdges
    PROVE  Safety => []InflightAccounting
<1>1. IInv => InflightAccounting
  BY DEF IInv
<1> QED BY Invariance, <1>1, PTL

(* The counter of a dispatched or split message counts the branches that   *)
(* have not been acked.                                                    *)
THEOREM BranchesAccounted ==
    ASSUME NoFatalEdges
    PROVE  Safety => []BranchAccounting
<1>1. IInv => BranchAccounting
  BY DEF IInv
<1> QED BY Invariance, <1>1, PTL

-----------------------------------------------------------------------------
(* Dispatch implements AckContract: seen from the source, every step takes *)
(* a slot, gives it back, reports, or changes nothing.                     *)

NewCalls  == {"source", "acquire", "full", "lost"}
OpenCalls == Fresh \cup {"wait", "ack"}

(* No source message enters or leaves the graph.                           *)
Quiet ==
    \A i \in Ids :
        \/ at'[Root(i)] = at[Root(i)]
        \/ at[Root(i)].call \in OpenCalls /\ at'[Root(i)].call \in OpenCalls
        \/ at[Root(i)].call \in NewCalls /\ at'[Root(i)].call \in NewCalls

LEMMA QuietStutters ==
    ASSUME Quiet
    PROVE  UNCHANGED Contract!contractVars
<1>1. phaseOf' = phaseOf
  BY DEF Quiet, phaseOf, OpenCalls, NewCalls, Fresh
<1>2. resultOf' = resultOf
  BY DEF Quiet, resultOf, OpenCalls, NewCalls, Fresh
<1> QED BY <1>1, <1>2 DEF Contract!contractVars

LEMMA HandsOnIsQuiet ==
    ASSUME IInv, HandsOn
    PROVE  Quiet
BY DEF IInv, RootsBorn, HandsOn, Quiet, OpenCalls, Fresh

LEMMA BranchIsQuiet ==
    ASSUME IInv,
           NEW m \in Born, at[m].call \in Fresh,
           NEW X \in SUBSET (Edges \cup Copies), NEW p,
           Branch(m, {Child(m, x) : x \in X}, p)
    PROVE  Quiet
<1>1. \A i \in Ids : Root(i) \notin {Child(m, x) : x \in X}
  BY RootFacts, ChildFacts
<1>2. \A i \in Ids : at'[Root(i)] = IF Root(i) = m THEN Place("wait", NoOne, "nil")
                                    ELSE at[Root(i)]
  BY <1>1 DEF Branch, IInv, RootsBorn
<1> QED BY <1>2 DEF Quiet, OpenCalls, Place

LEMMA AckBranchIsQuiet ==
    ASSUME IInv, NEW g \in Workers \cup Forwarders, AckBranch(g)
    PROVE  Quiet
<1>1. PICK m \in HeldBy(g) :
        /\ at[m].call \in {"ack", "matchAck"}
        /\ ~IsRoot(m)
        /\ at' = IF pending[m.up] = 1
                 THEN [at EXCEPT ![m] = AfterAck(m, g),
                                 ![m.up] = Place("ack", g, Stored(m))]
                 ELSE [at EXCEPT ![m] = AfterAck(m, g)]
  BY DEF AckBranch, LastBranch
<1>2. at[m.up].call = "wait"
  BY <1>1 DEF HeldBy, IInv, ParentsWait
<1>3. \A i \in Ids : Root(i) # m
  BY <1>1, RootFacts
<1>4. \A i \in Ids : \/ at'[Root(i)] = at[Root(i)]
                     \/ Root(i) = m.up /\ at'[Root(i)].call = "ack"
  BY <1>1, <1>3 DEF IInv, RootsBorn, TypeOK, Place
<1> QED BY <1>2, <1>4 DEF Quiet, OpenCalls

(* Only the source message i moves.                                        *)
LEMMA OneRootMoves ==
    ASSUME IInv, NEW i \in Ids, NEW p, at' = [at EXCEPT ![Root(i)] = p]
    PROVE  \A j \in Ids : at'[Root(j)] = IF j = i THEN p ELSE at[Root(j)]
<1>1. \A j \in Ids : Root(j) \in Born /\ (Root(j) = Root(i) => j = i)
  BY RootFacts DEF IInv, RootsBorn
<1>2. \A x \in Born : at'[x] = IF x = Root(i) THEN p ELSE at[x]
  BY DEF Born
<1> QED BY <1>1, <1>2

LEMMA AcquireAccepts ==
    ASSUME IInv, NEW g \in Workers, Acquire(g)
    PROVE  Contract!ContractNext
<1>1. PICK m \in HeldBy(g) : /\ at[m].call \in {"acquire", "full"}
                             /\ at' = [at EXCEPT ![m] = Place("dispatch", g, "nil")]
  BY DEF Acquire, Move
<1> DEFINE i == m.id
           p == Place("dispatch", g, "nil")
<1>2. m = Root(i) /\ i \in Ids
  <2>1. m \in Born /\ IsRoot(m)
    BY <1>1 DEF HeldBy, IInv, WellPlaced, RootCalls
  <2> QED BY <2>1, ChildFacts DEF IInv, TypeOK
<1>3. at[Root(i)].call \in {"acquire", "full"} /\ p.call = "dispatch"
  BY <1>1, <1>2 DEF Place
<1>4. at' = [at EXCEPT ![Root(i)] = p]
  BY <1>1, <1>2
<1> HIDE DEF i, p
<1>5. \A j \in Ids : at'[Root(j)] = IF j = i THEN p ELSE at[Root(j)]
  BY <1>2, <1>4, OneRootMoves
<1>6. phaseOf[i] = "new" /\ phaseOf' = [phaseOf EXCEPT ![i] = "open"]
  BY <1>2, <1>3, <1>5 DEF phaseOf
<1>7. resultOf' = resultOf
  BY <1>2, <1>3, <1>5 DEF resultOf
<1>8. Contract!Open = HoldsSlot
  BY DEF Contract!Open, HoldsSlot, OutsideCalls, phaseOf, IInv, WellPlaced, RootsBorn
<1>9. MaxInflight = 0 \/ Cardinality(Contract!Open) < MaxInflight
  BY <1>8 DEF Acquire, HasSlot, IInv, InflightAccounting
<1>10. Contract!Accept(i)
  <2>1. Contract!Cardinality(Contract!Open) = Cardinality(Contract!Open)
    BY DEF Contract!Cardinality, Cardinality
  <2> QED BY <1>6, <1>7, <1>9, <2>1 DEF Contract!Accept
<1> QED BY <1>2, <1>10 DEF Contract!ContractNext

LEMMA ReleaseInflightReleases ==
    ASSUME IInv, NEW g \in Workers \cup Forwarders, ReleaseInflight(g)
    PROVE  Contract!ContractNext
<1>1. PICK m \in HeldBy(g) :
        /\ at[m].call \in {"ack", "matchAck"}
        /\ IsRoot(m)
        /\ Move(m, IF at[m].call = "ack" THEN "onack" ELSE "matchOnack", g, at[m].res)
  BY DEF ReleaseInflight
<1> DEFINE i == m.id
           r == at[m].res
           p == Place("onack", g, r)
<1>2. m = Root(i) /\ i \in Ids /\ at[m].call = "ack" /\ r \in Results
  BY <1>1, ChildFacts DEF HeldBy, IInv, WellPlaced, TypeOK, Places
<1>3. at[Root(i)].call = "ack" /\ p.call = "onack" /\ p.res = r
  BY <1>2 DEF Place
<1>4. at' = [at EXCEPT ![Root(i)] = p]
  BY <1>1, <1>2 DEF Move
<1> HIDE DEF i, p, r
<1>5. \A j \in Ids : at'[Root(j)] = IF j = i THEN p ELSE at[Root(j)]
  BY <1>2, <1>4, OneRootMoves
<1>6. phaseOf[i] = "open" /\ phaseOf' = [phaseOf EXCEPT ![i] = "released"]
  BY <1>2, <1>3, <1>5 DEF phaseOf
<1>7. resultOf' = [resultOf EXCEPT ![i] = r]
  BY <1>2, <1>3, <1>5 DEF resultOf
<1>8. Contract!Release(i, r)
  BY <1>6, <1>7 DEF Contract!Release
<1> QED BY <1>2, <1>8 DEF Contract!ContractNext, Results

LEMMA OnAckReports ==
    ASSUME IInv, NEW g \in Workers \cup Forwarders, OnAck(g)
    PROVE  Contract!ContractNext
<1>1. PICK m \in HeldBy(g) :
        /\ at[m].call \in {"onack", "matchOnack"}
        /\ at' = [at EXCEPT ![m] = AfterAck(m, g)]
  BY DEF OnAck
<1> DEFINE i == m.id
           p == Place("done", NoOne, at[m].res)
<1>2. m \in Born /\ IsRoot(m) /\ at[m].call = "onack"
  BY <1>1 DEF HeldBy, IInv, WellPlaced, RootCalls
<1>3. m = Root(i) /\ i \in Ids
  BY <1>2, ChildFacts DEF IInv, TypeOK
<1>4. at[Root(i)].call = "onack" /\ p.call = "done" /\ p.res = at[Root(i)].res
  BY <1>2, <1>3 DEF Place
<1>5. at' = [at EXCEPT ![Root(i)] = p]
  BY <1>1, <1>2, <1>3 DEF AfterAck
<1> HIDE DEF i, p
<1>6. \A j \in Ids : at'[Root(j)] = IF j = i THEN p ELSE at[Root(j)]
  BY <1>3, <1>5, OneRootMoves
<1>7. phaseOf[i] = "released" /\ phaseOf' = [phaseOf EXCEPT ![i] = "reported"]
  BY <1>3, <1>4, <1>6 DEF phaseOf
<1>8. resultOf' = resultOf
  BY <1>3, <1>4, <1>6 DEF resultOf
<1>9. Contract!Report(i)
  BY <1>7, <1>8 DEF Contract!Report
<1> QED BY <1>3, <1>9 DEF Contract!ContractNext

LEMMA DispatchIsQuiet ==
    ASSUME IInv, NoFatalEdges, NEW g \in Workers, Dispatch(g) \/ ProcessSplits(g)
    PROVE  Quiet
<1>1. CASE HandsOn
  BY <1>1, HandsOnIsQuiet
<1>2. CASE ~HandsOn
  BY <1>2, DispatchForms, BranchIsQuiet
<1> QED BY <1>1, <1>2

LEMMA SourceIsQuiet ==
    ASSUME IInv, NEW g \in Workers,
           Receive(g) \/ AcquireWaits(g) \/ AcquireCancelled(g)
    PROVE  Quiet
<1>1. CASE Receive(g)
  <2>1. PICK i \in Ids : /\ at[Root(i)].call = "source"
                         /\ at' = [at EXCEPT ![Root(i)] = Place("acquire", g, "nil")]
    BY <1>1 DEF Receive, Move
  <2> QED BY <2>1, OneRootMoves DEF Quiet, NewCalls, Place
<1>2. CASE AcquireCancelled(g)
  BY <1>2 DEF AcquireCancelled, Move, Quiet, NewCalls, Place, HeldBy, IInv, RootsBorn, TypeOK
<1>3. CASE AcquireWaits(g)
  BY <1>3 DEF AcquireWaits, Move, Quiet, NewCalls, Place, HeldBy, IInv, RootsBorn, TypeOK
<1> QED BY <1>1, <1>2, <1>3

LEMMA StepRefines ==
    ASSUME IInv, NoFatalEdges, [Next]_vars
    PROVE  [Contract!ContractNext]_(Contract!contractVars)
<1>1. ASSUME NEW g \in Workers, Step(g)
      PROVE  Contract!ContractNext \/ Quiet
  <2>1. CASE Acquire(g)
    BY <2>1, AcquireAccepts
  <2>2. CASE AckStep(g)
    BY <2>2, ReleaseInflightReleases, OnAckReports, AckBranchIsQuiet
       DEF AckStep, Unmatched, HeldBy, IInv, WellPlaced
  <2>3. CASE HandOver(g)
    BY <2>3, HandOverHandsOn, HandsOnIsQuiet
  <2>4. CASE Receive(g) \/ AcquireWaits(g) \/ AcquireCancelled(g)
    BY <2>4, SourceIsQuiet
  <2>5. CASE Dispatch(g) \/ ProcessSplits(g)
    BY <2>5, DispatchIsQuiet
  <2>6. CASE Exit(g)
    BY <2>6 DEF Exit, Quiet
  <2> QED BY <1>1, <2>1, <2>2, <2>3, <2>4, <2>5, <2>6 DEF Step, HandOver
<1>2. ASSUME NEW f \in Forwarders, Forward(f)
      PROVE  Contract!ContractNext \/ Quiet
  <2>1. CASE ForwarderCancelled(f)
    BY <2>1, MoveHandsOn, HandsOnIsQuiet DEF ForwarderCancelled, Inside, Fresh, Results
  <2>2. CASE AckStep(f)
    BY <2>2, ReleaseInflightReleases, OnAckReports, AckBranchIsQuiet
       DEF AckStep, Unmatched, HeldBy, IInv, WellPlaced
  <2>3. CASE Exit(f)
    BY <2>3 DEF Exit, Quiet
  <2> QED BY <1>2, <2>1, <2>2, <2>3 DEF Forward
<1>3. Cancel \/ UNCHANGED vars => Quiet
  BY DEF Cancel, vars, Quiet
<1>4. Contract!ContractNext \/ Quiet
  BY <1>1, <1>2, <1>3 DEF Next, Terminated
<1> QED BY <1>4, QuietStutters

LEMMA InitRefines == Init => Contract!ContractInit
<1> SUFFICES ASSUME Init PROVE Contract!ContractInit
  OBVIOUS
<1>1. \A i \in Ids : at[Root(i)].call = "source"
  BY DEF Init, Place
<1>2. phaseOf = [i \in Ids |-> "new"] /\ resultOf = [i \in Ids |-> "none"]
  BY <1>1 DEF phaseOf, resultOf
<1> QED BY <1>2 DEF Contract!ContractInit

(* The engine keeps the contract of AckContract: an accepted message holds *)
(* one slot, gives it back once and is reported once, with the result it   *)
(* was released with.                                                      *)
THEOREM ImplementsContract ==
    ASSUME NoFatalEdges
    PROVE  Safety => KeepsContract
<1>1. IInv /\ [Next]_vars => [Contract!ContractNext]_(Contract!contractVars)
  BY StepRefines
<1> QED BY Invariance, InitRefines, <1>1, PTL
        DEF Safety, KeepsContract, Contract!ContractSafety

-----------------------------------------------------------------------------
(* The tree of a message: what it has become, and the errors in it.        *)

Finished == {"ack", "onack", "done"}

(* line[m] is m with the messages it is a branch of, up to the source      *)
(* message.  (It exists: every message is made from one that has a line.)  *)
IsLineage(line) ==
    /\ line \in [Born -> SUBSET Born]
    /\ \A m \in Born : m \in line[m] /\ Root(m.id) \in line[m]
    /\ \A m \in Born : ~IsRoot(m) => line[m] = line[m.up] \cup {m}
    /\ \A m \in Born : \A a \in line[m] :
          /\ line[a] \subseteq line[m]
          /\ a.id = m.id
          /\ a # m => \E c \in line[m] : c \in Kids(a)

(* While a message is not acked, all that it is a branch of waits.         *)
LineWaits(line) ==
    \A m \in Born : at[m].call # "done" => \A a \in line[m] \ {m} : at[a].call = "wait"

(* An error goes all the way up, and every error came from below.          *)
ErrorsRise(line) ==
    \A m \in Born : \A a \in line[m] :
        at[m].res = "err" /\ at[a].call \in Finished => at[a].res = "err"
ErrorsHaveCause(line) ==
    \A a \in Born : at[a].res = "err" =>
        \E m \in Born : a \in line[m] /\ Kids(m) = {} /\ at[m].res = "err"

Tree(line) == IsLineage(line) /\ LineWaits(line) /\ ErrorsRise(line) /\ ErrorsHaveCause(line)

ResultsOfAcks == \A m \in Born : at[m].call \notin Finished => at[m].res = "nil"
FirstErrors ==
    \A m \in Born : firstErr[m] = "err" <=> \E c \in Kids(m) : at[c].call = "done" /\ at[c].res = "err"
AcksTell == \A i \in Ids : acks[i] # <<>> => acks[i] = <<at[Root(i)].res>>

TreeInv == ResultsOfAcks /\ FirstErrors /\ AcksTell /\ \E line : Tree(line)

LEMMA SameLineage ==
    ASSUME NEW line, IsLineage(line), Born' = Born
    PROVE  IsLineage(line)'
BY DEF IsLineage, Kids, IsRoot

(* A message without branches is in no other line than its own. *)
LEMMA LeavesEndLines ==
    ASSUME NEW line, IsLineage(line), NEW m \in Born, NEW a \in line[m], Kids(a) = {}
    PROVE  a = m
BY DEF IsLineage

(* What was reported of a message stays, as long as its place does. *)
LEMMA ReportsStay ==
    ASSUME IInv, AcksTell, acks' = acks,
           \A i \in Ids : at[Root(i)].call = "done" => at'[Root(i)] = at[Root(i)]
    PROVE  AcksTell'
<1>1. \A i \in Ids : acks[i] # <<>> => at[Root(i)].call = "done"
  <2>1. \A i \in Ids : acks[i] # <<>> => Len(acks[i]) # 0
    BY DEF IInv, TypeOK
  <2> QED BY <2>1 DEF IInv, AcksAgree
<1> QED BY <1>1 DEF AcksTell

LEMMA HandsOnKeepsResults ==
    ASSUME IInv, ResultsOfAcks, FirstErrors, AcksTell, HandsOn
    PROVE  ResultsOfAcks' /\ FirstErrors' /\ AcksTell'
<1>1. ResultsOfAcks'
  BY DEF HandsOn, ResultsOfAcks, Finished, Fresh
<1>2. \A m : Kids(m)' = Kids(m)
  BY DEF HandsOn, Kids, IsRoot
<1>3. \A m : \A c \in Kids(m) : /\ at'[c].call = "done" <=> at[c].call = "done"
                                /\ at[c].call = "done" => at'[c] = at[c]
  BY DEF HandsOn, Kids, Fresh
<1>4. FirstErrors'
  BY <1>2, <1>3 DEF HandsOn, FirstErrors
<1>5. \A i \in Ids : at[Root(i)].call = "done" => at'[Root(i)] = at[Root(i)]
  BY DEF HandsOn, IInv, RootsBorn, Fresh
<1> QED BY <1>1, <1>4, <1>5, ReportsStay DEF HandsOn

LEMMA HandsOnKeepsTree ==
    ASSUME IInv, ResultsOfAcks, HandsOn, NEW line, Tree(line)
    PROVE  Tree(line)'
<1>1. IsLineage(line)'
  BY SameLineage DEF Tree, HandsOn
<1>2. \A m : Kids(m)' = Kids(m)
  BY DEF HandsOn, Kids, IsRoot
<1>3. \A m \in Born : /\ at'[m].call = "done" <=> at[m].call = "done"
                      /\ at[m].call = "wait" => at'[m].call = "wait"
  BY DEF HandsOn, Fresh
<1>4. LineWaits(line)'
  <2>1. \A m \in Born : line[m] \subseteq Born
    BY DEF Tree, IsLineage
  <2> QED BY <1>3, <2>1 DEF Tree, LineWaits, HandsOn
<1>5. \A m \in Born : at'[m] # at[m] => Kids(m) = {} /\ at[m].res = "nil"
  BY FreshHasNoKids DEF HandsOn, Fresh, ResultsOfAcks, Finished
<1>6. ErrorsRise(line)'
  <2> SUFFICES ASSUME NEW m \in Born, NEW a \in line[m],
                      at'[m].res = "err", at'[a].call \in Finished
               PROVE  at'[a].res = "err"
    BY DEF HandsOn, ErrorsRise
  <2>0. a \in Born
    BY DEF Tree, IsLineage
  <2>1. CASE a = m
    BY <2>1
  <2>2. CASE a # m
    <3>1. at'[a] = at[a]
      BY <1>5, <2>0, <2>2, LeavesEndLines DEF Tree
    <3>2. at[m].call = "done"
      BY <2>2, <3>1 DEF Tree, LineWaits, Finished
    <3>3. at'[m] = at[m]
      BY <3>2 DEF HandsOn, Fresh
    <3> QED BY <3>1, <3>3 DEF Tree, ErrorsRise
  <2> QED BY <2>1, <2>2
<1>7. ErrorsHaveCause(line)'
  <2> SUFFICES ASSUME NEW a \in Born, at'[a].res = "err"
               PROVE  \E m \in Born : a \in line[m] /\ Kids(m) = {} /\ at'[m].res = "err"
    BY <1>2 DEF HandsOn, ErrorsHaveCause
  <2>1. CASE at'[a] = at[a]
    <3>1. PICK m \in Born : a \in line[m] /\ Kids(m) = {} /\ at[m].res = "err"
      BY <2>1 DEF Tree, ErrorsHaveCause
    <3>2. at'[m].res = "err"
      BY <1>5, <3>1
    <3> QED BY <3>1, <3>2
  <2>2. CASE at'[a] # at[a]
    BY <1>5, <2>2 DEF Tree, IsLineage
  <2> QED BY <2>1, <2>2
<1> QED BY <1>1, <1>4, <1>6, <1>7 DEF Tree

(* The source message i moves on without a new result: it has no branches  *)
(* that are not acked, and is reported when it is done.                    *)
LEMMA RootMoveKeepsTreeInv ==
    ASSUME IInv, ResultsOfAcks, FirstErrors, NEW line, Tree(line),
           NEW i \in Ids, NEW p, at' = [at EXCEPT ![Root(i)] = p],
           firstErr' = firstErr, p.res = at[Root(i)].res, p.call # "wait",
           at[Root(i)].call \notin {"wait", "done"},
           (at[Root(i)].call \in Finished) <=> (p.call \in Finished)
    PROVE  ResultsOfAcks' /\ FirstErrors' /\ Tree(line)'
<1> DEFINE r == Root(i)
<1>1. r \in Born /\ IsRoot(r) /\ Born' = Born
  BY RootFacts DEF IInv, RootsBorn, Born
<1>2. /\ at'[r] = p /\ \A x \in Born \ {r} : at'[x] = at[x]
      /\ \A x \in Born : at'[x].res = at[x].res
      /\ \A x \in Born : (at'[x].call \in Finished) <=> (at[x].call \in Finished)
  BY <1>1 DEF Born
<1>3. \A m : Kids(m)' = Kids(m) /\ r \notin Kids(m)
  BY <1>1 DEF Kids, IsRoot
<1>4. ResultsOfAcks'
  BY <1>1, <1>2 DEF ResultsOfAcks
<1>5. FirstErrors'
  <2>1. \A m : \A c \in Kids(m) : at'[c] = at[c]
    BY <1>2, <1>3 DEF Kids
  <2> QED BY <1>1, <1>3, <2>1 DEF FirstErrors
<1>6. IsLineage(line)'
  BY <1>1, SameLineage DEF Tree
<1>7. LineWaits(line)'
  <2> SUFFICES ASSUME NEW m \in Born, at'[m].call # "done", NEW a \in line[m], a # m
               PROVE  at'[a].call = "wait"
    BY <1>1 DEF LineWaits
  <2>1. a \in Born
    BY DEF Tree, IsLineage
  <2>2. at[m].call # "done"
    BY <1>2
  <2>3. at[a].call = "wait"
    BY <2>2 DEF Tree, LineWaits
  <2> QED BY <1>2, <2>1, <2>3
<1>8. ErrorsRise(line)'
  <2>1. \A m \in Born : line[m] \subseteq Born
    BY DEF Tree, IsLineage
  <2> QED BY <1>1, <1>2, <2>1 DEF Tree, ErrorsRise
<1>9. ErrorsHaveCause(line)'
  <2> SUFFICES ASSUME NEW a \in Born, at'[a].res = "err"
               PROVE  \E m \in Born : a \in line[m] /\ Kids(m) = {} /\ at'[m].res = "err"
    BY <1>1, <1>3 DEF ErrorsHaveCause
  <2>1. at[a].res = "err"
    BY <1>2
  <2> QED BY <1>2, <2>1 DEF Tree, ErrorsHaveCause
<1> QED BY <1>4, <1>5, <1>6, <1>7, <1>8, <1>9 DEF Tree

(* A branch is acked.  Its parent is acked with it when no other branch of *)
(* the parent is left: then nothing below the parent is left either.       *)
LEMMA AckBranchKeepsTree ==
    ASSUME IInv, ResultsOfAcks, FirstErrors, NEW line, Tree(line),
           NEW g \in Workers \cup Forwarders, AckBranch(g)
    PROVE  /\ ResultsOfAcks' /\ FirstErrors' /\ Tree(line)'
           /\ \A i \in Ids : at[Root(i)].call = "done" => at'[Root(i)] = at[Root(i)]
<1>1. PICK m \in HeldBy(g) :
        /\ at[m].call \in {"ack", "matchAck"}
        /\ ~IsRoot(m)
        /\ firstErr' = [firstErr EXCEPT ![m.up] = Stored(m)]
        /\ at' = IF pending[m.up] = 1
                 THEN [at EXCEPT ![m] = AfterAck(m, g),
                                 ![m.up] = Place("ack", g, Stored(m))]
                 ELSE [at EXCEPT ![m] = AfterAck(m, g)]
  BY DEF AckBranch, LastBranch
<1> DEFINE u == m.up
           last == pending[u] = 1
<1>2. m \in Born /\ at[m].call = "ack"
  BY <1>1 DEF HeldBy, IInv, WellPlaced
<1>3. u \in Born /\ at[u].call = "wait" /\ u # m
  <2>1. ~IsRoot(m)
    BY <1>1
  <2>2. m.id \in Ids /\ (m = Root(m.id) \/ m.up \in Born)
    BY <1>2 DEF IInv, TypeOK
  <2>3. u \in Born
    BY <2>1, <2>2, RootFacts
  <2>4. at[u].call = "wait"
    BY <1>2, <2>1 DEF IInv, ParentsWait
  <2> QED BY <1>2, <2>3, <2>4
<1>4. /\ Born' = Born
      /\ at'[m].call = "done" /\ at'[m].res = at[m].res
      /\ last => at'[u].call = "ack" /\ at'[u].res = Stored(m)
      /\ ~last => at'[u] = at[u]
      /\ \A x \in Born \ {m, u} : at'[x] = at[x]
  BY <1>1, <1>2, <1>3 DEF Born, AfterAck, Place
<1>5. /\ firstErr'[u] = Stored(m)
      /\ \A x \in Born \ {u} : firstErr'[x] = firstErr[x]
  BY <1>1, <1>3 DEF IInv, TypeOK
<1>6. m \in Kids(u) /\ at[u].res = "nil" /\ at[m].res \in Results /\ firstErr[u] \in Results
  BY <1>1, <1>2, <1>3 DEF Kids, ResultsOfAcks, Finished, IInv, TypeOK, Places
<1>7. last => \A c \in Kids(u) : c = m \/ at[c].call = "done"
  <2>1. SUFFICES ASSUME last
                 PROVE  \A c \in LiveKids(u) : c = m
    BY DEF LiveKids
  <2>2. /\ IsFiniteSet(LiveKids(u)) /\ Cardinality(LiveKids(u)) = 1
        /\ m \in LiveKids(u)
    BY <1>2, <1>3, <1>6, <2>1 DEF IInv, FiniteBranches, BranchAccounting, LiveKids
  <2>3. IsFiniteSet(LiveKids(u) \ {m}) /\ Cardinality(LiveKids(u) \ {m}) = 0
    BY <2>2, FS_RemoveElement
  <2>4. LiveKids(u) \ {m} = {}
    BY <2>3, FS_EmptySet
  <2> QED BY <2>4
<1>8. \A x : Kids(x)' = Kids(x)
  BY <1>4 DEF Kids, IsRoot
<1> HIDE DEF u, last
<1>9. ResultsOfAcks'
  BY <1>2, <1>3, <1>4 DEF ResultsOfAcks, Finished
<1>10. FirstErrors'
  <2> SUFFICES ASSUME NEW x \in Born
               PROVE  firstErr'[x] = "err" <=>
                        \E c \in Kids(x) : at'[c].call = "done" /\ at'[c].res = "err"
    BY <1>4, <1>8 DEF FirstErrors
  <2>0. \A c \in Born : /\ c # m => (at'[c].call = "done" <=> at[c].call = "done")
                        /\ c # m /\ at[c].call = "done" => at'[c] = at[c]
    BY <1>3, <1>4
  <2>1. firstErr[x] = "err" <=> \E c \in Kids(x) : at[c].call = "done" /\ at[c].res = "err"
    BY DEF FirstErrors
  <2>2. CASE x = u
    <3>1. firstErr'[u] = "err" <=> firstErr[u] = "err" \/ at[m].res = "err"
      BY <1>5, <1>6 DEF Stored, Results, u
    <3> QED BY <1>2, <1>4, <1>6, <2>0, <2>1, <2>2, <3>1 DEF Kids
  <2>3. CASE x # u
    <3>1. m \notin Kids(x)
      BY <2>3 DEF Kids, u
    <3> QED BY <1>5, <2>0, <2>1, <2>3, <3>1 DEF Kids
  <2> QED BY <2>2, <2>3
<1>11. IsLineage(line)'
  BY <1>4, SameLineage DEF Tree
<1>12. \A x \in Born : u \in line[x] /\ x # u => /\ \E c \in line[x] : c \in Kids(u)
                                                /\ line[x] \subseteq Born
  BY DEF Tree, IsLineage
<1>13. last => \A x \in Born : u \in line[x] /\ x # u => x = m \/ at[x].call = "done"
  <2> SUFFICES ASSUME last, NEW x \in Born, u \in line[x], x # u, x # m, at[x].call # "done"
               PROVE  FALSE
    OBVIOUS
  <2>1. PICK c \in line[x] : c \in Kids(u)
    BY <1>12
  <2>2. c = x \/ at[c].call = "wait"
    BY DEF Tree, LineWaits
  <2>3. at[c].call # "done"
    BY <2>2
  <2>4. c = m
    BY <1>7, <2>1, <2>3
  <2> QED BY <1>2, <2>2, <2>4
<1>14. LineWaits(line)'
  <2> SUFFICES ASSUME NEW x \in Born, at'[x].call # "done", NEW a \in line[x], a # x
               PROVE  at'[a].call = "wait"
    BY <1>4 DEF LineWaits
  <2>1. a \in Born /\ x # m
    BY <1>4 DEF Tree, IsLineage
  <2>2. at[x].call # "done"
    BY <1>3, <1>4, <2>1
  <2>3. at[a].call = "wait"
    BY <2>2 DEF Tree, LineWaits
  <2>4. ~(last /\ a = u)
    BY <1>13, <2>1, <2>2
  <2>5. a # m
    BY <1>2, <2>3
  <2> QED BY <1>3, <1>4, <2>1, <2>3, <2>4, <2>5
<1>15. \A x \in Born : at'[x].res = "err" => at[x].res = "err" \/ (last /\ x = u)
  BY <1>4
<1>16. ErrorsRise(line)'
  <2> SUFFICES ASSUME NEW x \in Born, NEW a \in line[x],
                      at'[x].res = "err", at'[a].call \in Finished
               PROVE  at'[a].res = "err"
    BY <1>4 DEF ErrorsRise
  <2>0. a \in Born
    BY DEF Tree, IsLineage
  <2>1. CASE a = x
    BY <2>1
  <2>2. CASE a # x /\ a = u
    <3>1. last
      BY <1>3, <1>4, <2>2 DEF Finished
    <3>2. PICK c \in line[x] : c \in Kids(u)
      BY <1>12, <2>2
    <3>3. at[x].res = "err"
      BY <1>15, <2>2
    <3>4. at[c].call \in Finished
      BY <1>2, <1>7, <3>1, <3>2 DEF Finished
    <3>5. at[c].res = "err"
      BY <3>2, <3>3, <3>4 DEF Tree, ErrorsRise
    <3>6. c = m \/ firstErr[u] = "err"
      BY <1>3, <1>7, <3>1, <3>2, <3>5 DEF FirstErrors
    <3>7. Stored(m) = "err"
      BY <1>6, <3>5, <3>6 DEF Stored, Results, u
    <3> QED BY <1>4, <2>2, <3>1, <3>7
  <2>3. CASE a # x /\ a # u
    <3>1. at[a].call # "wait"
      BY <1>2, <1>4, <2>0, <2>3 DEF Finished
    <3>2. at[x].call = "done"
      BY <2>3, <3>1 DEF Tree, LineWaits
    <3>3. at[x].res = "err" /\ at[a].call \in Finished /\ at'[a].res = at[a].res
      BY <1>2, <1>3, <1>4, <2>0, <2>3, <3>2 DEF Finished
    <3> QED BY <3>3 DEF Tree, ErrorsRise
  <2> QED BY <2>1, <2>2, <2>3
<1>17. ErrorsHaveCause(line)'
  <2> SUFFICES ASSUME NEW a \in Born, at'[a].res = "err"
               PROVE  \E x \in Born : a \in line[x] /\ Kids(x) = {} /\ at'[x].res = "err"
    BY <1>4, <1>8 DEF ErrorsHaveCause
  <2>0. \A x \in Born : Kids(x) = {} /\ at[x].res = "err" => at'[x].res = "err"
    BY <1>4, <1>6
  <2>1. CASE at[a].res = "err"
    <3>1. PICK x \in Born : a \in line[x] /\ Kids(x) = {} /\ at[x].res = "err"
      BY <2>1 DEF Tree, ErrorsHaveCause
    <3> QED BY <2>0, <3>1
  <2>2. CASE last /\ a = u
    <3>1. firstErr[u] = "err" \/ at[m].res = "err"
      BY <1>4, <1>6, <2>2 DEF Stored, Results, u
    <3>2. PICK c \in Kids(u) : at[c].res = "err"
      BY <1>3, <1>6, <3>1 DEF FirstErrors
    <3>3. PICK x \in Born : c \in line[x] /\ Kids(x) = {} /\ at[x].res = "err"
      BY <3>2 DEF Tree, ErrorsHaveCause, Kids
    <3>4. u \in line[c] /\ line[c] \subseteq line[x]
      BY <1>3, <3>2, <3>3 DEF Tree, IsLineage, Kids
    <3> QED BY <2>0, <2>2, <3>3, <3>4
  <2> QED BY <1>15, <2>1, <2>2
<1>18. \A i \in Ids : at[Root(i)].call = "done" => at'[Root(i)] = at[Root(i)]
  BY <1>2, <1>3, <1>4 DEF IInv, RootsBorn
<1> QED BY <1>9, <1>10, <1>11, <1>14, <1>16, <1>17, <1>18 DEF Tree

(* New branches of m have the line of m and themselves.                    *)
LEMMA BranchKeepsTree ==
    ASSUME IInv, ResultsOfAcks, FirstErrors, NEW line, Tree(line),
           NEW m \in Born, at[m].call \in Fresh,
           NEW X \in SUBSET (Edges \cup Copies), X # {},
           NEW p, p.call \in Fresh, p.res = "nil",
           Branch(m, {Child(m, x) : x \in X}, p)
    PROVE  /\ ResultsOfAcks' /\ FirstErrors' /\ \E l : Tree(l)'
           /\ \A i \in Ids : at[Root(i)].call = "done" => at'[Root(i)] = at[Root(i)]
<1> DEFINE kids == {Child(m, x) : x \in X}
<1>0. PICK new :
        new = [x \in Born \cup kids |-> IF x \in kids THEN line[m] \cup {x} ELSE line[x]]
  OBVIOUS
<1>1. \A c \in kids : ~IsRoot(c) /\ c.up = m /\ c.id = m.id
  BY ChildFacts
<1>2. Kids(m) = {} /\ at[m].res = "nil" /\ at[m].call \notin Finished \cup {"wait", "done"}
  BY FreshHasNoKids DEF Fresh, ResultsOfAcks, Finished
<1>3. kids \cap Born = {} /\ kids # {}
  BY <1>1, <1>2 DEF Kids
<1>4. /\ Born' = Born \cup kids
      /\ \A x \in kids : at'[x] = p /\ firstErr'[x] = "nil"
      /\ at'[m].call = "wait" /\ at'[m].res = "nil"
      /\ \A x \in Born \ {m} : at'[x] = at[x]
      /\ \A x \in Born : firstErr'[x] = firstErr[x]
  BY <1>3 DEF Branch, Born, Place
<1>5. \A c \in Born : ~IsRoot(c) => c.up \in Born
  <2>1. \A c \in Born : c.id \in Ids /\ (c = Root(c.id) \/ c.up \in Born)
    BY DEF IInv, TypeOK
  <2> QED BY <2>1, RootFacts
<1>6. /\ Kids(m)' = kids
      /\ \A x \in Born \ {m} : Kids(x)' = Kids(x)
      /\ \A x \in kids : Kids(x)' = {}
  BY <1>1, <1>2, <1>3, <1>4, <1>5 DEF Kids, IsRoot
<1>7. /\ new \in [Born' -> SUBSET Born']
      /\ \A x \in Born : new[x] = line[x] /\ line[x] \subseteq Born
      /\ \A x \in kids : new[x] = line[m] \cup {x}
  BY <1>0, <1>3, <1>4 DEF Tree, IsLineage
<1> HIDE DEF kids
<1>8. ResultsOfAcks'
  BY <1>2, <1>4 DEF ResultsOfAcks, Finished
<1>9. FirstErrors'
  <2>1. \A x \in kids : ~(firstErr'[x] = "err")
    BY <1>4
  <2>2. ~(firstErr'[m] = "err") /\ \A c \in Kids(m)' : at'[c].call # "done"
    BY <1>2, <1>4, <1>6 DEF FirstErrors, Fresh
  <2>3. \A x \in Born \ {m} : \A c \in Kids(x) :
           (at'[c].call = "done" /\ at'[c].res = "err")
              <=> (at[c].call = "done" /\ at[c].res = "err")
    BY <1>2, <1>4 DEF Kids
  <2> QED BY <1>4, <1>6, <2>1, <2>2, <2>3 DEF FirstErrors
<1>10. IsLineage(new)'
  <2>1. \A x \in Born' : x \in new[x] /\ Root(x.id) \in new[x]
    BY <1>1, <1>4, <1>7 DEF Tree, IsLineage
  <2>2. \A x \in Born' : ~IsRoot(x) => new[x] = new[x.up] \cup {x}
    BY <1>1, <1>4, <1>5, <1>7 DEF Tree, IsLineage
  <2>3. \A x \in Born' : \A a \in new[x] : new[a] \subseteq new[x] /\ a.id = x.id
    BY <1>1, <1>4, <1>7 DEF Tree, IsLineage
  <2>4. ASSUME NEW x \in Born', NEW a \in new[x], a # x
        PROVE  \E c \in new[x] : c \in Kids(a)'
    <3>1. CASE x \in Born
      <4>1. PICK c \in line[x] : c \in Kids(a)
        BY <1>7, <2>4, <3>1 DEF Tree, IsLineage
      <4> QED BY <1>2, <1>6, <1>7, <2>4, <3>1, <4>1
    <3>2. CASE x \in kids /\ a = m
      BY <1>6, <1>7, <3>2
    <3>3. CASE x \in kids /\ a # m
      <4>1. a \in line[m] /\ a \in Born
        BY <1>7, <2>4, <3>3
      <4>2. PICK c \in line[m] : c \in Kids(a)
        BY <3>3, <4>1 DEF Tree, IsLineage
      <4> QED BY <1>6, <1>7, <3>3, <4>1, <4>2
    <3> QED BY <1>4, <3>1, <3>2, <3>3
  <2> QED BY <1>7, <2>1, <2>2, <2>3, <2>4 DEF IsLineage, IsRoot
<1>11. LineWaits(new)'
  <2> SUFFICES ASSUME NEW x \in Born', at'[x].call # "done", NEW a \in new[x], a # x
               PROVE  at'[a].call = "wait"
    BY DEF LineWaits
  <2>1. a = m => at'[a].call = "wait"
    BY <1>4
  <2>2. ASSUME NEW y \in Born, at[y].call # "done", a \in line[y], a # y, a # m
        PROVE  at'[a].call = "wait"
    BY <1>4, <1>7, <2>2 DEF Tree, LineWaits
  <2>3. CASE x \in Born
    BY <1>2, <1>4, <1>7, <2>1, <2>2, <2>3
  <2>4. CASE x \in kids
    BY <1>2, <1>7, <2>1, <2>2, <2>4
  <2> QED BY <1>4, <2>3, <2>4
<1>12. \A x \in Born' : at'[x].res = "err" => x \in Born /\ x # m /\ at[x].res = "err"
  BY <1>4
<1>13. ErrorsRise(new)'
  <2> SUFFICES ASSUME NEW x \in Born', NEW a \in new[x],
                      at'[x].res = "err", at'[a].call \in Finished
               PROVE  at'[a].res = "err"
    BY DEF ErrorsRise
  <2>1. x \in Born /\ at[x].res = "err" /\ a \in line[x] /\ a \in Born
    BY <1>7, <1>12
  <2>2. a # m
    BY <1>4 DEF Finished
  <2> QED BY <1>4, <2>1, <2>2 DEF Tree, ErrorsRise
<1>14. ErrorsHaveCause(new)'
  <2> SUFFICES ASSUME NEW a \in Born', at'[a].res = "err"
               PROVE  \E x \in Born' : a \in new[x] /\ Kids(x)' = {} /\ at'[x].res = "err"
    BY DEF ErrorsHaveCause
  <2>1. PICK x \in Born : a \in line[x] /\ Kids(x) = {} /\ at[x].res = "err"
    BY <1>12 DEF Tree, ErrorsHaveCause
  <2>2. x # m
    BY <1>2, <2>1
  <2> QED BY <1>4, <1>6, <1>7, <2>1, <2>2
<1>15. Tree(new)'
  BY <1>10, <1>11, <1>13, <1>14 DEF Tree
<1>16. \A i \in Ids : at[Root(i)].call = "done" => at'[Root(i)] = at[Root(i)]
  BY <1>2, <1>4 DEF IInv, RootsBorn, Finished
<1> QED BY <1>8, <1>9, <1>15, <1>16

LEMMA RootStepKeepsTree ==
    ASSUME IInv, TreeInv, NEW g \in Workers,
           Receive(g) \/ Acquire(g) \/ AcquireWaits(g) \/ AcquireCancelled(g)
    PROVE  TreeInv'
<1>1. PICK m \in Born, p \in Places :
        /\ at' = [at EXCEPT ![m] = p]
        /\ at[m].call \in {"source", "acquire", "full"}
        /\ p.call \in {"acquire", "full", "dispatch", "lost"}
        /\ p.res = "nil"
  <2>1. CASE Receive(g)
    <3>1. PICK i \in Ids : /\ at[Root(i)].call = "source"
                           /\ at' = [at EXCEPT ![Root(i)] = Place("acquire", g, "nil")]
      BY <2>1 DEF Receive, Move
    <3>2. Place("acquire", g, "nil") \in Places /\ Root(i) \in Born
      BY DEF Place, Places, Calls, Results, IInv, RootsBorn
    <3> QED BY <3>1, <3>2 DEF Place
  <2>2. CASE Acquire(g)
    <3>1. Place("dispatch", g, "nil") \in Places
      BY DEF Place, Places, Calls, Results
    <3> QED BY <2>2, <3>1 DEF Acquire, Move, Place, HeldBy
  <2>3. CASE AcquireCancelled(g)
    <3>1. Place("lost", NoOne, "nil") \in Places
      BY DEF Place, Places, Calls, Results
    <3> QED BY <2>3, <3>1 DEF AcquireCancelled, Move, Place, HeldBy
  <2>4. CASE AcquireWaits(g)
    <3>1. Place("full", g, "nil") \in Places
      BY DEF Place, Places, Calls, Results
    <3> QED BY <2>4, <3>1 DEF AcquireWaits, Move, Place, HeldBy
  <2> QED BY <2>1, <2>2, <2>3, <2>4
<1> DEFINE i == m.id
<1>2. m = Root(i) /\ i \in Ids
  <2>1. IsRoot(m)
    BY <1>1 DEF IInv, WellPlaced, RootCalls
  <2> QED BY <2>1, ChildFacts DEF IInv, TypeOK
<1>3. acks' = acks /\ firstErr' = firstErr
  BY DEF Receive, Acquire, AcquireWaits, AcquireCancelled, counters
<1>4. at[Root(i)].res = "nil"
  BY <1>1, <1>2 DEF TreeInv, ResultsOfAcks, Finished
<1>5. PICK line : Tree(line)
  BY DEF TreeInv
<1> HIDE DEF i
<1>6. ResultsOfAcks' /\ FirstErrors' /\ Tree(line)'
  BY <1>1, <1>2, <1>3, <1>4, <1>5, RootMoveKeepsTreeInv DEF TreeInv, Finished
<1>7. AcksTell'
  BY <1>1, <1>2, <1>3, ReportsStay DEF TreeInv, IInv, RootsBorn
<1> QED BY <1>6, <1>7 DEF TreeInv

LEMMA ReportKeepsTree ==
    ASSUME IInv, TreeInv, NEW g \in Workers \cup Forwarders, ReleaseInflight(g) \/ OnAck(g)
    PROVE  TreeInv'
<1>0. PICK m \in HeldBy(g), c \in {"onack", "done"} :
        /\ \E h : at' = [at EXCEPT ![m] = Place(c, h, at[m].res)]
        /\ at[m].call \in {"ack", "onack"} /\ IsRoot(m)
        /\ \/ acks' = acks
           \/ acks' = [acks EXCEPT ![m.id] = Append(@, at[m].res)] /\ c = "done"
  <2>1. \A m \in HeldBy(g) : at[m].call \notin {"matchAck", "matchOnack"}
                             /\ (at[m].call = "onack" => IsRoot(m))
    BY DEF HeldBy, IInv, WellPlaced, RootCalls
  <2>2. CASE ReleaseInflight(g)
    BY <2>1, <2>2 DEF ReleaseInflight, Move
  <2>3. CASE OnAck(g)
    BY <2>1, <2>3 DEF OnAck, AfterAck
  <2> QED BY <2>2, <2>3
<1>1. PICK h : /\ at' = [at EXCEPT ![m] = Place(c, h, at[m].res)]
               /\ at[m].call \in {"ack", "onack"} /\ IsRoot(m)
               /\ \/ acks' = acks
                  \/ acks' = [acks EXCEPT ![m.id] = Append(@, at[m].res)] /\ c = "done"
  BY <1>0
<1> DEFINE i == m.id
           r == at[m].res
           p == Place(c, h, r)
<1>2. m = Root(i) /\ i \in Ids /\ m \in Born
  <2>1. m \in Born /\ IsRoot(m)
    BY <1>1 DEF HeldBy
  <2>2. m.id \in Ids /\ (m = Root(m.id) \/ ~IsRoot(m))
    <3>1. \/ m = Root(m.id)
          \/ m.via \in Edges \cup Copies /\ m = Child(m.up, m.via)
      BY <2>1 DEF IInv, TypeOK
    <3>2. m.id \in Ids
      BY <2>1 DEF IInv, TypeOK
    <3> QED BY <3>1, <3>2, ChildFacts
  <2> QED BY <2>1, <2>2
<1>3. firstErr' = firstErr
  BY DEF ReleaseInflight, OnAck
<1>4. p.call = c /\ p.res = r
  BY DEF Place
<1>5. PICK line : Tree(line)
  BY DEF TreeInv
<1>6. at' = [at EXCEPT ![Root(i)] = p] /\ r = at[Root(i)].res /\ at[Root(i)].call \in {"ack", "onack"}
  BY <1>1, <1>2
<1>7. acks' = acks \/ (acks' = [acks EXCEPT ![i] = Append(@, r)] /\ c = "done")
  BY <1>1
<1>8. r \in Results
  BY <1>2 DEF IInv, TypeOK, Places
<1> HIDE DEF i, p, r
<1>9. ResultsOfAcks' /\ FirstErrors' /\ Tree(line)'
  BY <1>2, <1>3, <1>4, <1>5, <1>6, RootMoveKeepsTreeInv DEF TreeInv, Finished
<1>10. \A j \in Ids : at'[Root(j)] = IF j = i THEN p ELSE at[Root(j)]
  BY <1>2, <1>6, OneRootMoves
<1>11. CASE acks' = acks
  BY <1>6, <1>9, <1>10, <1>11, ReportsStay DEF TreeInv
<1>12. CASE acks' = [acks EXCEPT ![i] = Append(@, r)] /\ c = "done"
  <2>1. Len(acks[i]) = 0
    BY <1>2, <1>6 DEF IInv, AcksAgree
  <2>2. acks'[i] = <<r>> /\ \A j \in Ids \ {i} : acks'[j] = acks[j]
    BY <1>2, <1>8, <1>12, <2>1 DEF IInv, TypeOK
  <2>3. AcksTell'
    BY <1>4, <1>10, <2>2 DEF TreeInv, AcksTell
  <2> QED BY <1>9, <2>3 DEF TreeInv
<1> QED BY <1>7, <1>11, <1>12

LEMMA NextKeepsTree ==
    ASSUME IInv, TreeInv, NoFatalEdges, [Next]_vars
    PROVE  TreeInv'
<1>0. PICK line : Tree(line)
  BY DEF TreeInv
<1>1. HandsOn => TreeInv'
  BY <1>0, HandsOnKeepsResults, HandsOnKeepsTree DEF TreeInv
<1>2. ASSUME NEW g \in Workers \cup Forwarders, AckStep(g)
      PROVE  TreeInv'
  <2>1. CASE AckBranch(g)
    <3>1. acks' = acks
      BY <2>1 DEF AckBranch
    <3> QED BY <1>0, <2>1, <3>1, AckBranchKeepsTree, ReportsStay DEF TreeInv
  <2>2. ~Unmatched(g)
    BY DEF Unmatched, HeldBy, IInv, WellPlaced
  <2> QED BY <1>2, <2>1, <2>2, ReportKeepsTree DEF AckStep
<1>3. ASSUME NEW g \in Workers, Dispatch(g) \/ ProcessSplits(g)
      PROVE  TreeInv'
  <2>1. CASE HandsOn
    BY <1>1, <2>1
  <2>2. CASE \E m \in Born : \E X \in SUBSET (Edges \cup Copies), p \in Places :
                /\ at[m].call \in Fresh /\ X # {} /\ IsFiniteSet(X)
                /\ p.call \in Fresh /\ p.res = "nil"
                /\ Branch(m, {Child(m, x) : x \in X}, p)
    <3>1. acks' = acks
      BY <2>2 DEF Branch
    <3>2. /\ ResultsOfAcks' /\ FirstErrors' /\ \E l : Tree(l)'
          /\ \A i \in Ids : at[Root(i)].call = "done" => at'[Root(i)] = at[Root(i)]
      BY <1>0, <2>2, BranchKeepsTree DEF TreeInv
    <3> QED BY <3>1, <3>2, ReportsStay DEF TreeInv
  <2> QED BY <1>3, <2>1, <2>2, DispatchForms
<1>4. ASSUME NEW g \in Workers, Step(g)
      PROVE  TreeInv'
  <2>1. CASE HandOver(g)
    BY <1>1, <2>1, HandOverHandsOn
  <2>2. CASE Exit(g)
    BY <1>1, <2>2 DEF Exit, HandsOn, Born, IInv, TypeOK
  <2> QED BY <1>2, <1>3, <1>4, <2>1, <2>2, RootStepKeepsTree DEF Step, HandOver
<1>5. ASSUME NEW f \in Forwarders, Forward(f)
      PROVE  TreeInv'
  <2>1. CASE ForwarderCancelled(f)
    BY <1>1, <2>1, MoveHandsOn DEF ForwarderCancelled, Inside, Fresh, Results
  <2>2. CASE Exit(f)
    BY <1>1, <2>2 DEF Exit, HandsOn, Born, IInv, TypeOK
  <2> QED BY <1>2, <1>5, <2>1, <2>2 DEF Forward
<1>6. Cancel \/ UNCHANGED vars => HandsOn
  BY DEF Cancel, vars, HandsOn, Born, IInv, TypeOK
<1> QED BY <1>1, <1>4, <1>5, <1>6 DEF Next, Terminated

LEMMA InitTree == Init => TreeInv
<1> SUFFICES ASSUME Init PROVE TreeInv
  OBVIOUS
<1>1. /\ Born = {Root(i) : i \in Ids}
      /\ \A m \in Born : /\ at[m] = Place("source", NoOne, "nil") /\ firstErr[m] = "nil"
                         /\ IsRoot(m) /\ m = Root(m.id)
  BY RootFacts DEF Init, Born
<1>2. \A m : Kids(m) = {}
  BY <1>1 DEF Kids
<1>3. ResultsOfAcks /\ FirstErrors
  BY <1>1, <1>2 DEF ResultsOfAcks, FirstErrors, Place
<1>4. AcksTell
  BY DEF Init, AcksTell
<1>5. Tree([m \in Born |-> {m}])
  BY <1>1, <1>2 DEF Tree, IsLineage, LineWaits, ErrorsRise, ErrorsHaveCause, Place
<1> QED BY <1>3, <1>4, <1>5 DEF TreeInv

(* What the source hears is decided by the branches, whatever their number,*)
(* depth and order (dispatch.go:53-77, pipeline.go:412-429): the invariant *)
(* behind NoEarlyAck and ErrorReported.                                    *)
THEOREM TreeInvariance ==
    ASSUME NoFatalEdges
    PROVE  Safety => []TreeInv
<1>1. IInv /\ TreeInv /\ [Next]_vars => TreeInv'
  BY NextKeepsTree
<1> QED BY InitTree, Invariance, <1>1, PTL DEF Safety

(* A message is acked to its source only when all that it became has been  *)
(* acked: dispatchFrom's pending and the ackAggregator of a transform do   *)
(* not let an Ack through early, in any topology.                          *)
THEOREM NothingAckedEarly ==
    ASSUME NoFatalEdges
    PROVE  Safety => []NoEarlyAck
<1>1. ASSUME IInv, TreeInv
      PROVE  NoEarlyAck
  <2> SUFFICES ASSUME NEW m \in Born, ~IsRoot(m), at[m].call # "done"
               PROVE  at[Root(m.id)].call \notin {"onack", "matchOnack", "done"}
    BY DEF NoEarlyAck
  <2>1. PICK line : Tree(line)
    BY <1>1 DEF TreeInv
  <2>2. Root(m.id) \in line[m] /\ Root(m.id) # m
    BY <1>1, <2>1, RootFacts DEF Tree, IsLineage, IInv, TypeOK
  <2>3. at[Root(m.id)].call = "wait"
    BY <2>1, <2>2 DEF Tree, LineWaits
  <2> QED BY <2>3
<1> QED BY Invariance, TreeInvariance, <1>1, PTL

(* The source hears an error only when some branch that ended in a sink, a *)
(* transform or a buffer failed, and hears it when one behind required     *)
(* edges did, whichever branch ends last (firstErr).                       *)
THEOREM ErrorsReachTheSource ==
    ASSUME NoFatalEdges
    PROVE  Safety => []ErrorReported
<1>1. ASSUME IInv, TreeInv
      PROVE  ErrorReported
  <2> SUFFICES ASSUME NEW i \in Ids, acks[i] # <<>>
               PROVE  acks[i][1] = "err" <=> Failed(i) # {}
    BY DEF ErrorReported
  <2>1. acks[i][1] = at[Root(i)].res
    BY <1>1 DEF TreeInv, AcksTell
  <2>2. at[Root(i)].call = "done"
    <3>1. Len(acks[i]) # 0
      BY <1>1 DEF IInv, TypeOK
    <3> QED BY <1>1, <3>1 DEF IInv, AcksAgree
  <2>3. PICK line : Tree(line)
    BY <1>1 DEF TreeInv
  <2>4. Root(i) \in Born /\ Root(i).id = i
    BY <1>1, RootFacts DEF IInv, RootsBorn
  <2>5. \A m \in Born : m.id = i /\ at[m].res = "err" => at[Root(i)].res = "err"
    BY <2>2, <2>3 DEF Tree, IsLineage, ErrorsRise, Finished
  <2>6. ASSUME at[Root(i)].res = "err"
        PROVE  Failed(i) # {}
    <3>1. PICK m \in Born : Root(i) \in line[m] /\ Kids(m) = {} /\ at[m].res = "err"
      BY <2>3, <2>4, <2>6 DEF Tree, ErrorsHaveCause
    <3>2. m.id = i
      BY <2>3, <2>4, <3>1 DEF Tree, IsLineage
    <3> QED BY <3>1, <3>2 DEF Failed
  <2> QED BY <2>1, <2>5, <2>6 DEF Failed
<1> QED BY Invariance, TreeInvariance, <1>1, PTL

(* docs/configurations.md:149 is right of such topologies: no more than    *)
(* max_inflight messages have a branch on its way (inflight.go).           *)
THEOREM LimitHolds ==
    ASSUME NoFatalEdges
    PROVE  Safety => []InflightLimit
<1>1. ASSUME IInv, TreeInv
      PROVE  InflightLimit
  <2> DEFINE busy == {i \in Ids : \E m \in Born : m.id = i /\ InProgress(m)}
  <2>1. PICK line : Tree(line)
    BY <1>1 DEF TreeInv
  <2>2. busy \subseteq HoldsSlot
    <3> SUFFICES ASSUME NEW m \in Born, InProgress(m)
                 PROVE  m.id \in HoldsSlot
      BY DEF HoldsSlot
    <3>1. m.id \in Ids /\ Root(m.id) \in line[m]
      BY <1>1, <2>1 DEF Tree, IsLineage, IInv, TypeOK
    <3>2. CASE Root(m.id) = m
      BY <3>1, <3>2 DEF HoldsSlot, OutsideCalls, InProgress
    <3>3. CASE Root(m.id) # m
      <4>1. at[Root(m.id)].call = "wait"
        BY <2>1, <3>1, <3>3 DEF Tree, LineWaits, InProgress
      <4> QED BY <3>1, <4>1 DEF HoldsSlot, OutsideCalls
    <3> QED BY <3>2, <3>3
  <2>3. IsFiniteSet(HoldsSlot)
    BY EngineAssumption, FS_Subset DEF HoldsSlot
  <2>4. Cardinality(busy) <= Cardinality(HoldsSlot) /\ Cardinality(busy) \in Nat
    BY <2>2, <2>3, FS_Subset, FS_CardinalityType
  <2> HIDE DEF busy
  <2>5. MaxInflight # 0 => Cardinality(busy) <= MaxInflight
    BY <1>1, <2>3, <2>4, EngineAssumption, FS_CardinalityType DEF IInv, InflightAccounting
  <2> QED BY <2>5 DEF InflightLimit, busy
<1> QED BY Invariance, TreeInvariance, <1>1, PTL
=============================================================================

---------------------------- MODULE TopologyProofs ----------------------------
(***************************************************************************)
(* Theorems about Topology.tla, for any steps, ids and configs: the        *)
(* verdict of Validate is exact, and the workers add up.                   *)
(*                                                                         *)
(* What a search, a fixpoint or a sum comes to is shown by a least         *)
(* counterexample: the set of the numbers for which the claim fails has a  *)
(* least element (Least), and the one before it gives the contradiction.   *)
(***************************************************************************)
EXTENDS Topology, FiniteSetTheorems, SequenceTheorems, WellFoundedInduction, TLAPS

Phases == {"normalized", "search", "path", "share", "running", "rejected"}
Done   == {n \in Ids : visited[n] = 2}

(* The calls of visit are a path of the graph, none of them twice. *)
StackOK ==
    /\ stack \in Seq(Ids)
    /\ \A i, j \in 1..Len(stack) : stack[i] = stack[j] => i = j
    /\ \A i \in 1..Len(stack) - 1 : stack[i + 1] \in left[stack[i]]
    /\ \A n \in Ids : visited[n] = 1 <=> \E i \in 1..Len(stack) : stack[i] = n

(* What a visit has looked at is done, and was done before it. *)
MarksOK ==
    /\ visited \in [Ids -> 0..2] /\ left \in [Ids -> SUBSET Ids]
    /\ rank \in [Ids -> Nat]
    /\ \A n \in Ids : visited[n] # 0 => n \in Known
    /\ \A n \in Ids : visited[n] = 1 =>
          left[n] \subseteq From(n) /\ \A m \in From(n) \ left[n] : visited[m] = 2
    /\ \A n \in Ids : rank[n] <= Cardinality(Done)
    /\ \A n \in Ids : visited[n] = 2 => \A m \in From(n) : visited[m] = 2 /\ rank[m] < rank[n]

(* What each phase knows of the config. *)
Judged ==
    /\ phase \in Phases
    /\ phase \in {"search", "path", "share", "running"} => RulesHold
    /\ phase \in {"path", "share", "running"} => \A n \in Known : visited[n] = 2
    /\ phase = "rejected" => ~Runnable

(* The transforms that have their share hold the first shares together.    *)
Given(k) == IF Count <= MaxWorkers
            THEN k * (MaxWorkers \div Count) + Smaller(k, MaxWorkers % Count)
            ELSE Smaller(2 * k, MaxWorkers)

Sharing ==
    /\ alloc \in [Steps -> Nat] /\ shared \subseteq Transforms
    /\ phase \in {"normalized", "search", "path"} => shared = {}
    /\ phase \in {"share", "running"} /\ ~WithinBudget =>
          /\ Sum(alloc, shared) = Given(Cardinality(shared))
          /\ Count <= MaxWorkers => \A s \in shared :
                alloc[s] \in {MaxWorkers \div Count, (MaxWorkers \div Count) + 1}
    /\ phase = "running" => shared = Transforms /\ (WithinBudget => alloc = Requested)

IInv == cfg \in Configs /\ StackOK /\ MarksOK /\ Judged /\ Sharing

-----------------------------------------------------------------------------
(* Sums.                                                                   *)

LEMMA Least ==
    ASSUME NEW T, T \subseteq Nat, T # {}
    PROVE  \E n \in T : \A m \in T : n <= m
<1> DEFINE R == OpToRel(<, Nat)
<1>1. \A m, n \in Nat : <<m, n>> \in R <=> m < n
  BY DEF OpToRel
<1>2. IsWellFoundedOn(R, Nat)
  BY NatLessThanWellFounded
<1> HIDE DEF R
<1>3. PICK n \in T : \A m \in T : ~ (<<m, n>> \in R)
  BY <1>2, WFMin
<1>4. ASSUME NEW m \in T PROVE n <= m
  <2>1. m \in Nat /\ n \in Nat
    OBVIOUS
  <2>2. ~ (m < n)
    BY <1>1, <1>3, <2>1
  <2> QED BY <2>1, <2>2
<1> QED BY <1>4

Pick(s) == CHOOSE x \in s : TRUE
Recurrence(g, f, S) == g = [s \in SUBSET S |-> IF s = {} THEN 0 ELSE f[Pick(s)] + g[s \ {Pick(s)}]]

LEMMA SumDef ==
    ASSUME NEW f, NEW S
    PROVE  Sum(f, S) = (CHOOSE g : Recurrence(g, f, S))[S]
BY DEF Sum, MapThenSumSet, MapThenFoldSet, Recurrence, Pick

LEMMA PickIn ==
    ASSUME NEW s, s # {}
    PROVE  Pick(s) \in s
BY DEF Pick

LEMMA RecurrenceExists ==
    ASSUME NEW f, NEW S, IsFiniteSet(S)
    PROVE  \E g : Recurrence(g, f, S)
<1> DEFINE Small(n) == {s \in SUBSET S : Cardinality(s) <= n}
           Value(g, s) == IF s = {} THEN 0 ELSE f[Pick(s)] + g[s \ {Pick(s)}]
           Good(n) == \E g : g = [s \in Small(n) |-> Value(g, s)]
           Bad == {n \in Nat : ~Good(n)}
<1>1. \A s \in SUBSET S : /\ Cardinality(s) \in Nat /\ IsFiniteSet(s)
                          /\ Cardinality(s) = 0 <=> s = {}
                          /\ s # {} => Cardinality(s \ {Pick(s)}) = Cardinality(s) - 1
  BY FS_Subset, FS_CardinalityType, FS_EmptySet, FS_RemoveElement, PickIn
<1>2. Good(0)
  <2> DEFINE g == [s \in Small(0) |-> 0]
  <2>1. ASSUME NEW s \in Small(0) PROVE s = {}
    <3>1. s \in SUBSET S /\ Cardinality(s) <= 0
      OBVIOUS
    <3> HIDE DEF Small
    <3>3. Cardinality(s) \in Nat
      BY <1>1, <3>1
    <3>2. Cardinality(s) = 0
      BY <3>1, <3>3
    <3> QED BY <1>1, <3>1, <3>2
  <2>2. g = [s \in Small(0) |-> Value(g, s)]
    BY <2>1
  <2> QED BY <2>2
<1>3. ASSUME NEW n \in Nat, Good(n)
      PROVE  Good(n + 1)
  <2>1. PICK g : g = [s \in Small(n) |-> Value(g, s)]
    BY <1>3
  <2> DEFINE h == [s \in Small(n + 1) |-> IF s \in Small(n) THEN g[s] ELSE Value(g, s)]
  <2>2. ASSUME NEW s \in Small(n + 1), s # {}
        PROVE  s \ {Pick(s)} \in Small(n)
    BY <1>1, <2>2
  <2>3. ASSUME NEW s \in Small(n)
        PROVE  s \in Small(n + 1) /\ h[s] = g[s] /\ g[s] = Value(g, s)
    <3>0. s \in SUBSET S /\ Cardinality(s) <= n
      OBVIOUS
    <3>4. Cardinality(s) \in Nat
      BY <1>1, <3>0
    <3>1. s \in Small(n + 1)
      BY <3>0, <3>4
    <3> HIDE DEF Small, Value
    <3> QED BY <2>1, <3>1
  <2>4. ASSUME NEW s \in Small(n + 1)
        PROVE  h[s] = Value(h, s)
    <3>1. h[s] = Value(g, s)
      BY <2>3
    <3>2. s # {} => h[s \ {Pick(s)}] = g[s \ {Pick(s)}]
      BY <2>2, <2>3
    <3> HIDE DEF h
    <3> QED BY <3>1, <3>2
  <2>5. h = [s \in Small(n + 1) |-> h[s]]
    OBVIOUS
  <2> HIDE DEF h, Value, Small
  <2>6. h = [s \in Small(n + 1) |-> Value(h, s)]
    BY <2>4, <2>5
  <2> QED BY <2>6
<1> HIDE DEF Good
<1>4. Bad = {}
  <2> SUFFICES ASSUME Bad # {} PROVE FALSE
    OBVIOUS
  <2>1. PICK n \in Bad : \A m \in Bad : n <= m
    BY Least
  <2>2. n \in Nat \ {0} /\ n - 1 \in Nat /\ n - 1 \notin Bad
    BY <1>2, <2>1
  <2>3. Good((n - 1) + 1)
    BY <1>3, <2>2
  <2> QED BY <2>2, <2>3
<1>5. Good(Cardinality(S)) /\ Small(Cardinality(S)) = SUBSET S
  BY <1>1, <1>4, FS_Subset
<1> QED BY <1>5 DEF Recurrence, Good

(* The sum of a part does not depend on the whole. *)
LEMMA RecurrenceUnique ==
    ASSUME NEW f, NEW S, NEW T, IsFiniteSet(S), T \subseteq S,
           NEW g, Recurrence(g, f, S), NEW h, Recurrence(h, f, T)
    PROVE  \A s \in SUBSET T : g[s] = h[s]
<1> DEFINE Bad == {n \in Nat : \E s \in SUBSET T : Cardinality(s) = n /\ g[s] # h[s]}
<1>1. \A s \in SUBSET T : /\ Cardinality(s) \in Nat /\ s \in SUBSET S
                          /\ s # {} => s \ {Pick(s)} \in SUBSET T /\ Cardinality(s \ {Pick(s)}) < Cardinality(s)
  BY FS_Subset, FS_CardinalityType, FS_RemoveElement, PickIn
<1>2. /\ \A s \in SUBSET S : g[s] = IF s = {} THEN 0 ELSE f[Pick(s)] + g[s \ {Pick(s)}]
      /\ \A s \in SUBSET T : h[s] = IF s = {} THEN 0 ELSE f[Pick(s)] + h[s \ {Pick(s)}]
  BY DEF Recurrence
<1>3. Bad = {}
  <2> SUFFICES ASSUME Bad # {} PROVE FALSE
    OBVIOUS
  <2>1. PICK n \in Bad : \A m \in Bad : n <= m
    BY Least
  <2>2. PICK s \in SUBSET T : Cardinality(s) = n /\ g[s] # h[s]
    BY <2>1
  <2>3. s # {} /\ g[s \ {Pick(s)}] # h[s \ {Pick(s)}]
    BY <1>1, <1>2, <2>2
  <2>4. Cardinality(s \ {Pick(s)}) \in Bad
    BY <1>1, <2>3
  <2> QED BY <1>1, <2>1, <2>2, <2>3, <2>4
<1> QED BY <1>1, <1>3

LEMMA SumStep ==
    ASSUME NEW f, NEW S, IsFiniteSet(S)
    PROVE  Sum(f, S) = IF S = {} THEN 0 ELSE f[Pick(S)] + Sum(f, S \ {Pick(S)})
<1> DEFINE T == S \ {Pick(S)}
           g == CHOOSE x : Recurrence(x, f, S)
           h == CHOOSE x : Recurrence(x, f, T)
<1>1. IsFiniteSet(T)
  BY FS_RemoveElement
<1>2. Recurrence(g, f, S) /\ Recurrence(h, f, T)
  BY <1>1, RecurrenceExists
<1>3. Sum(f, S) = g[S] /\ Sum(f, T) = h[T]
  BY SumDef
<1>4. g[T] = h[T]
  <2> HIDE DEF g, h, T
  <2> T \subseteq S
    BY DEF T
  <2> QED BY <1>2, RecurrenceUnique
<1>5. g[S] = IF S = {} THEN 0 ELSE f[Pick(S)] + g[T]
  <2> HIDE DEF g
  <2> QED BY <1>2 DEF Recurrence
<1> HIDE DEF g, h
<1> QED BY <1>3, <1>4, <1>5

LEMMA SumEmpty == \A f : Sum(f, {}) = 0
BY SumStep, FS_EmptySet

LEMMA SumType ==
    ASSUME NEW S, IsFiniteSet(S), NEW f, \A x \in S : f[x] \in Int
    PROVE  Sum(f, S) \in Int
<1> DEFINE Bad == {n \in Nat : \E s \in SUBSET S : Cardinality(s) = n /\ Sum(f, s) \notin Int}
<1>1. \A s \in SUBSET S : /\ Cardinality(s) \in Nat /\ IsFiniteSet(s)
                          /\ s # {} => /\ Pick(s) \in s /\ s \ {Pick(s)} \in SUBSET S
                                       /\ Cardinality(s \ {Pick(s)}) < Cardinality(s)
  BY FS_Subset, FS_CardinalityType, FS_RemoveElement, PickIn
<1>2. Bad = {}
  <2> SUFFICES ASSUME Bad # {} PROVE FALSE
    OBVIOUS
  <2>1. PICK n \in Bad : \A m \in Bad : n <= m
    BY Least
  <2>2. PICK s \in SUBSET S : Cardinality(s) = n /\ Sum(f, s) \notin Int
    BY <2>1
  <2>3. Sum(f, s) = IF s = {} THEN 0 ELSE f[Pick(s)] + Sum(f, s \ {Pick(s)})
    BY <1>1, <2>2, SumStep
  <2>4. s # {} /\ Pick(s) \in s
    BY <1>1, <2>2, <2>3
  <2>5. f[Pick(s)] \in Int
    BY <2>4
  <2>6. Sum(f, s \ {Pick(s)}) \notin Int
    BY <2>2, <2>3, <2>4, <2>5
  <2>7. /\ Cardinality(s \ {Pick(s)}) \in Bad
        /\ Cardinality(s \ {Pick(s)}) < n
    BY <1>1, <2>2, <2>4, <2>6
  <2> QED BY <2>1, <2>7
<1> QED BY <1>1, <1>2

LEMMA SumApart ==
    ASSUME NEW S, IsFiniteSet(S), NEW f, \A y \in S : f[y] \in Int, NEW x \in S
    PROVE  Sum(f, S) = f[x] + Sum(f, S \ {x})
<1> DEFINE Fits(s) == \A y \in s : Sum(f, s) = f[y] + Sum(f, s \ {y})
           Bad == {n \in Nat : \E s \in SUBSET S : Cardinality(s) = n /\ ~Fits(s)}
<1>1. ASSUME NEW s \in SUBSET S
      PROVE  /\ Cardinality(s) \in Nat /\ IsFiniteSet(s) /\ Sum(f, s) \in Int
             /\ \A y \in s : f[y] \in Int /\ s \ {y} \in SUBSET S /\ Cardinality(s \ {y}) < Cardinality(s)
  BY FS_Subset, FS_CardinalityType, FS_RemoveElement, SumType
<1>2. Bad = {}
  <2> SUFFICES ASSUME Bad # {} PROVE FALSE
    OBVIOUS
  <2>1. PICK n \in Bad : \A m \in Bad : n <= m
    BY Least
  <2>2. PICK s \in SUBSET S : Cardinality(s) = n /\ ~Fits(s)
    BY <2>1
  <2>3. PICK y \in s : Sum(f, s) # f[y] + Sum(f, s \ {y})
    BY <2>2
  <2> DEFINE p == Pick(s)
             t == s \ {p, y}
  <2>4. p \in s /\ Sum(f, s) = f[p] + Sum(f, s \ {p})
    BY <1>1, SumStep, PickIn
  <2>5. p # y
    BY <2>3, <2>4
  <2>6. Fits(s \ {p}) /\ Fits(s \ {y})
    <3> HIDE DEF Fits, p
    <3> SUFFICES ASSUME NEW z \in s PROVE Fits(s \ {z})
      BY <2>4
    <3>1. /\ s \ {z} \in SUBSET S /\ Cardinality(s \ {z}) \in Nat
          /\ Cardinality(s \ {z}) < n
      BY <1>1, <2>2
    <3>2. Cardinality(s \ {z}) \notin Bad
      BY <2>1, <3>1
    <3> QED BY <3>1, <3>2
  <2>7. (s \ {p}) \ {y} = t /\ (s \ {y}) \ {p} = t /\ t \in SUBSET S
    OBVIOUS
  <2> HIDE DEF p, t
  <2>8. Sum(f, s \ {p}) = f[y] + Sum(f, t) /\ Sum(f, s \ {y}) = f[p] + Sum(f, t)
    BY <2>4, <2>5, <2>6, <2>7
  <2>9. f[p] \in Int /\ f[y] \in Int /\ Sum(f, t) \in Int
    BY <1>1, <2>4, <2>7
  <2> HIDE DEF Fits
  <2> QED BY <2>3, <2>4, <2>8, <2>9
<1>3. Fits(S)
  BY <1>1, <1>2
<1> QED BY <1>3

LEMMA SumSame ==
    ASSUME NEW S, IsFiniteSet(S), NEW f, NEW g, \A x \in S : f[x] = g[x]
    PROVE  Sum(f, S) = Sum(g, S)
<1> DEFINE Bad == {n \in Nat : \E s \in SUBSET S : Cardinality(s) = n /\ Sum(f, s) # Sum(g, s)}
<1>1. \A s \in SUBSET S : /\ Cardinality(s) \in Nat /\ IsFiniteSet(s)
                          /\ s # {} => /\ Pick(s) \in s /\ s \ {Pick(s)} \in SUBSET S
                                       /\ Cardinality(s \ {Pick(s)}) < Cardinality(s)
  BY FS_Subset, FS_CardinalityType, FS_RemoveElement, PickIn
<1>2. Bad = {}
  <2> SUFFICES ASSUME Bad # {} PROVE FALSE
    OBVIOUS
  <2>1. PICK n \in Bad : \A m \in Bad : n <= m
    BY Least
  <2>2. PICK s \in SUBSET S : Cardinality(s) = n /\ Sum(f, s) # Sum(g, s)
    BY <2>1
  <2>3. /\ Sum(f, s) = IF s = {} THEN 0 ELSE f[Pick(s)] + Sum(f, s \ {Pick(s)})
        /\ Sum(g, s) = IF s = {} THEN 0 ELSE g[Pick(s)] + Sum(g, s \ {Pick(s)})
    BY <1>1, <2>2, SumStep
  <2>4. s # {} /\ Pick(s) \in S
    BY <1>1, <2>2, <2>3
  <2>5. f[Pick(s)] = g[Pick(s)]
    BY <2>4
  <2>6. Sum(f, s \ {Pick(s)}) # Sum(g, s \ {Pick(s)})
    BY <2>2, <2>3, <2>4, <2>5
  <2>7. /\ Cardinality(s \ {Pick(s)}) \in Bad
        /\ Cardinality(s \ {Pick(s)}) < n
    BY <1>1, <2>2, <2>4, <2>6
  <2> QED BY <2>1, <2>7
<1> QED BY <1>1, <1>2

LEMMA SumAdd ==
    ASSUME NEW S, IsFiniteSet(S), NEW x, x \notin S, NEW f, NEW g, NEW v \in Int,
           g[x] = v, \A y \in S : f[y] \in Int /\ g[y] = f[y]
    PROVE  Sum(g, S \cup {x}) = Sum(f, S) + v
<1> DEFINE T == S \cup {x}
<1>1. \A y \in T : g[y] \in Int
  OBVIOUS
<1>2. IsFiniteSet(T) /\ T \ {x} = S /\ x \in T
  BY FS_AddElement
<1> HIDE DEF T
<1>3. Sum(g, T) = g[x] + Sum(g, S)
  BY <1>1, <1>2, SumApart
<1>4. Sum(g, S) = Sum(f, S) /\ Sum(f, S) \in Int
  BY SumSame, SumType
<1> QED BY <1>3, <1>4 DEF T
-----------------------------------------------------------------------------
(* Configs.                                                                *)

LEMMA ConfigFacts ==
    ASSUME cfg \in Configs
    PROVE  /\ Known \subseteq Ids /\ \A k \in Kinds : OfKind(k) \subseteq Known
           /\ \A n : From(n) \subseteq Ids
           /\ \A n, m : m \in From(n) <=> n \in Into(m)
           /\ \A n, m : m \in From(n) <=> <<n, m>> \in Edges
           /\ \A n \in Known : \E k \in Kinds : n \in OfKind(k)
<1>1. /\ cfg.parts \in [Steps -> SUBSET Kinds]
      /\ cfg.deps \subseteq Ids \X Steps /\ cfg.edges \subseteq Ids \X Ids
      /\ Steps \subseteq Ids /\ SinkOf \in [Steps -> Ids]
  BY TopologyAssumption
<1>2. Known \subseteq Ids
  BY <1>1 DEF Known, Stages, StageId
<1>3. Edges \subseteq Ids \X Ids
  BY <1>1 DEF Edges
<1>4. \A n, m : m \in From(n) <=> <<n, m>> \in Edges
  <2>1. ASSUME NEW n, NEW m PROVE m \in From(n) <=> <<n, m>> \in Edges
    <3>1. \A e \in Edges : e = <<e[1], e[2]>>
      BY <1>3
    <3> QED BY <3>1 DEF From
  <2> QED BY <2>1
<1>5. \A n, m : n \in Into(m) <=> <<n, m>> \in Edges
  <2>1. ASSUME NEW n, NEW m PROVE n \in Into(m) <=> <<n, m>> \in Edges
    <3>1. \A e \in Edges : e = <<e[1], e[2]>>
      BY <1>3
    <3> QED BY <3>1 DEF Into
  <2> QED BY <2>1
<1>6. \A k \in Kinds : OfKind(k) \subseteq Known
  BY DEF OfKind, Known
<1>7. \A st \in Stages : st[2] \in Kinds
  BY <1>1 DEF Stages
<1>8. \A n \in Known : \E k \in Kinds : n \in OfKind(k)
  BY <1>7 DEF OfKind, Known
<1>9. ASSUME NEW n, NEW m \in From(n) PROVE m \in Ids
  <2>1. <<n, m>> \in Ids \X Ids
    BY <1>3, <1>4
  <2> QED BY <2>1
<1> QED BY <1>2, <1>4, <1>5, <1>6, <1>8, <1>9

LEMMA EdgesKnown ==
    ASSUME cfg \in Configs, EndsKnown
    PROVE  \A n, m : m \in From(n) => n \in Known /\ m \in Known
<1>1. ASSUME NEW n, NEW m, m \in From(n) PROVE n \in Known /\ m \in Known
  <2>1. <<n, m>> \in Edges
    BY <1>1, ConfigFacts
  <2>2. {<<n, m>>[1], <<n, m>>[2]} \subseteq Known
    BY <2>1 DEF EndsKnown
  <2> QED BY <2>2
<1> QED BY <1>1

(* The definitions that look at nothing but the config.                    *)
LEMMA ConfigStays ==
    ASSUME cfg' = cfg
    PROVE  /\ Known' = Known /\ Transforms' = Transforms
           /\ \A n : From(n)' = From(n)
           /\ (RulesHold <=> RulesHold') /\ (Runnable <=> Runnable')
           /\ Requested' = Requested /\ MaxWorkers' = MaxWorkers /\ Count' = Count
           /\ (WithinBudget <=> WithinBudget')
<1>1. /\ Stages' = Stages /\ Edges' = Edges
  BY DEF Stages, Edges, StageId, Combined
<1>2. Known' = Known /\ \A k : OfKind(k)' = OfKind(k)
  BY <1>1 DEF Known, OfKind
<1>3. \A n : From(n)' = From(n) /\ Into(n)' = Into(n)
  BY <1>1 DEF From, Into
<1>4. RulesHold <=> RulesHold'
  BY <1>1, <1>2, <1>3 DEF RulesHold, UniqueIds, EndsKnown, EndsMeet, BothEnds, AllFed
<1>5. Runnable <=> Runnable'
  BY <1>1, <1>2, <1>3 DEF Runnable, UniqueIds, EndsKnown, EndsMeet, Closed
<1>6. Transforms' = Transforms /\ Requested' = Requested /\ MaxWorkers' = MaxWorkers
  BY DEF Transforms, Requested, MaxWorkers
<1>7. Count' = Count /\ (WithinBudget <=> WithinBudget')
  BY <1>6 DEF Count, WithinBudget
<1> QED BY <1>2, <1>3, <1>4, <1>5, <1>6, <1>7

(* A config that breaks a rule is not runnable.                            *)
LEMMA RulesNeeded ==
    ASSUME cfg \in Configs, Runnable
    PROVE  RulesHold
<1>1. UniqueIds /\ EndsKnown /\ EndsMeet /\ OfKind("sink") # {} /\ ~cfg.faulty
  BY DEF Runnable
<1>2. \A S \in SUBSET Known : OfKind("source") \subseteq S /\ Closed(S) => S = Known
  BY DEF Runnable
<1>3. OfKind("source") # {}
  <2> SUFFICES ASSUME OfKind("source") = {} PROVE FALSE
    OBVIOUS
  <2>1. Known = {}
    BY <1>2 DEF Closed
  <2> QED BY <1>1, <2>1, ConfigFacts DEF Kinds
<1>4. ASSUME NEW n \in OfKind("transform") \cup OfKind("sink"), Into(n) = {}
      PROVE  FALSE
  <2>1. n \in Known
    BY ConfigFacts DEF Kinds
  <2>2. n \notin OfKind("source")
    <3>1. \A x, y \in Stages : x[1] = y[1] => x[2] = y[2]
      BY <1>1 DEF UniqueIds
    <3> QED BY <3>1 DEF OfKind
  <2>3. \A m : From(m) \subseteq Known \ {n}
    BY <1>1, <1>4, ConfigFacts, EdgesKnown
  <2>4. OfKind("source") \subseteq Known \ {n} /\ Closed(Known \ {n})
    BY <2>2, <2>3, ConfigFacts DEF Closed, Kinds
  <2> QED BY <1>2, <2>1, <2>4
<1> QED BY <1>1, <1>3, <1>4 DEF RulesHold, BothEnds, AllFed

(* No set of stages has all its members on a cycle, or out of reach of the *)
(* sources, when the visits have ended one after the other: the member     *)
(* with the least rank has no successor in the set, the one with the       *)
(* greatest no predecessor.                                                *)
LEMMA RulesEnough ==
    ASSUME cfg \in Configs, RulesHold, MarksOK, \A n \in Known : visited[n] = 2
    PROVE  Runnable
<1>1. UniqueIds /\ EndsKnown /\ EndsMeet /\ OfKind("sink") # {} /\ ~cfg.faulty
  BY DEF RulesHold, BothEnds
<1>2. /\ Known \subseteq Ids
      /\ \A n \in Known : rank[n] \in Nat /\ rank[n] <= Cardinality(Done)
      /\ \A n \in Known : \A m \in From(n) : m \in Known /\ rank[m] < rank[n]
  BY <1>1, ConfigFacts, EdgesKnown DEF MarksOK
<1>3. ASSUME NEW S \in (SUBSET Known) \ {{}}
      PROVE  \E n \in S : From(n) \cap S = {}
  <2> DEFINE T == {rank[n] : n \in S}
  <2>1. T \subseteq Nat /\ T # {}
    BY <1>2
  <2>2. PICK k \in T : \A i \in T : k <= i
    BY <2>1, Least
  <2>3. PICK n \in S : rank[n] = k
    BY <2>2
  <2>4. ASSUME NEW m \in From(n) \cap S PROVE FALSE
    <3>1. rank[m] < k /\ k <= rank[m] /\ k \in Nat /\ rank[m] \in Nat
      BY <1>2, <2>1, <2>2, <2>3, <2>4
    <3> QED BY <3>1
  <2> QED BY <2>4
<1>4. ASSUME NEW S \in SUBSET Known, OfKind("source") \subseteq S, Closed(S), S # Known
      PROVE  FALSE
  <2> DEFINE c == Cardinality(Done)
             T == {c - rank[n] : n \in Known \ S}
  <2>1. c \in Nat /\ \A n \in Known : rank[n] \in Nat /\ rank[n] <= c
    BY <1>2, FS_Subset, FS_CardinalityType, TopologyAssumption DEF Done
  <2>2. T \subseteq Nat /\ T # {}
    <3>1. Known \ S # {}
      BY <1>4
    <3>2. \A n \in Known \ S : c - rank[n] \in Nat
      <4> HIDE DEF c
      <4>1. ASSUME NEW n \in Known \ S PROVE c - rank[n] \in Nat
        BY <2>1
      <4> QED BY <4>1
    <3> HIDE DEF c
    <3> QED BY <3>1, <3>2
  <2>3. PICK k \in T : \A i \in T : k <= i
    BY <2>2, Least
  <2>4. PICK n \in Known \ S : c - rank[n] = k
    BY <2>3
  <2>5. PICK m : m \in Into(n)
    BY <1>4, ConfigFacts DEF RulesHold, AllFed, Kinds
  <2>6. m \in Known \ S /\ n \in From(m)
    <3>1. n \in From(m)
      BY <2>5, ConfigFacts
    <3>2. m \in Known /\ m \notin S
      BY <1>1, <1>4, <2>4, <3>1, EdgesKnown DEF Closed
    <3> QED BY <3>1, <3>2
  <2>7. rank[n] < rank[m] /\ rank[n] \in Nat /\ rank[m] \in Nat
    BY <1>2, <2>6
  <2>8. k <= c - rank[m]
    BY <2>3, <2>6
  <2> QED BY <2>1, <2>4, <2>7, <2>8
<1> QED BY <1>1, <1>3, <1>4 DEF Runnable

(* A stage that is met while it is being visited is on a cycle.            *)
LEMMA CycleRefutes ==
    ASSUME cfg \in Configs, RulesHold, MarksOK, StackOK, stack # <<>>,
           NEW m \in left[Top], OnStack(m)
    PROVE  ~Runnable
<1> DEFINE last == Len(stack)
<1>1. last \in Nat \ {0} /\ \A i \in 1..last : stack[i] \in Ids /\ visited[stack[i]] = 1
  BY DEF StackOK
<1>2. /\ Top = stack[last] /\ m \in Ids
      /\ \A i \in 1..last - 1 : stack[i + 1] \in left[stack[i]]
  BY <1>1 DEF Top, StackOK, MarksOK
<1>3. PICK k \in 1..last : stack[k] = m
  BY <1>2 DEF StackOK, OnStack
<1>4. \A n \in Ids : visited[n] = 1 => n \in Known /\ left[n] \subseteq From(n)
  BY DEF MarksOK
<1> HIDE DEF last
<1> DEFINE S == {stack[i] : i \in k..last}
<1>5. S \in (SUBSET Known) \ {{}}
  <2>1. m \in S
    BY <1>1, <1>3
  <2>2. S \subseteq Known
    BY <1>1, <1>3, <1>4
  <2> QED BY <2>1, <2>2
<1>6. ASSUME NEW n \in S PROVE From(n) \cap S # {}
  <2>1. PICK i \in k..last : n = stack[i]
    OBVIOUS
  <2>2. CASE i = last
    <3>1. m \in S /\ m \in From(n)
      BY <1>1, <1>2, <1>3, <1>4, <2>1, <2>2
    <3> QED BY <3>1
  <2>3. CASE i # last
    <3>1. i + 1 \in k..last /\ i \in 1..last - 1
      BY <1>1, <2>1, <2>3
    <3>2. stack[i + 1] \in S /\ stack[i + 1] \in From(n)
      BY <1>1, <1>2, <1>4, <2>1, <3>1
    <3> QED BY <3>2
  <2> QED BY <2>2, <2>3
<1> QED BY <1>5, <1>6 DEF Runnable

-----------------------------------------------------------------------------
(* hasSourceToSinkPath.                                                    *)
Follow(S) == S \cup UNION {From(n) : n \in S}
Levels(r, S, k) == r = [i \in 0..k |-> IF i = 0 THEN S ELSE Follow(r[i - 1])]

LEMMA LevelsExist ==
    ASSUME NEW S, NEW k \in Nat
    PROVE  \E r : Levels(r, S, k)
<1> DEFINE Good(n) == \E r : Levels(r, S, n)
           Bad == {n \in Nat : ~Good(n)}
<1>1. Good(0)
  <2> DEFINE r == [i \in 0..0 |-> S]
  <2>1. r = [i \in 0..0 |-> IF i = 0 THEN S ELSE Follow(r[i - 1])]
    OBVIOUS
  <2> QED BY <2>1 DEF Levels
<1>2. ASSUME NEW n \in Nat, Good(n)
      PROVE  Good(n + 1)
  <2>1. PICK r : Levels(r, S, n)
    BY <1>2
  <2> DEFINE Level(q, i) == IF i = 0 THEN S ELSE Follow(q[i - 1])
             q == [i \in 0..n + 1 |-> Level(r, i)]
  <2>2. \A i \in 0..n : r[i] = Level(r, i)
    BY <2>1 DEF Levels
  <2>3. \A i \in 0..n : q[i] = r[i]
    BY <2>2
  <2>4. ASSUME NEW i \in 0..n + 1 PROVE q[i] = Level(q, i)
    <3>1. q[i] = Level(r, i)
      OBVIOUS
    <3> HIDE DEF q, Level
    <3>2. i # 0 => i - 1 \in 0..n
      OBVIOUS
    <3>3. i # 0 => q[i - 1] = r[i - 1]
      BY <2>3, <3>2
    <3> QED BY <3>1, <3>3 DEF Level
  <2>5. q = [i \in 0..n + 1 |-> q[i]]
    OBVIOUS
  <2> HIDE DEF q, Level
  <2>6. q = [i \in 0..n + 1 |-> Level(q, i)]
    BY <2>4, <2>5
  <2>7. Levels(q, S, n + 1)
    BY <2>6 DEF Levels, Level
  <2> QED BY <2>7
<1> HIDE DEF Good
<1>3. Bad = {}
  <2> SUFFICES ASSUME Bad # {} PROVE FALSE
    OBVIOUS
  <2>1. PICK n \in Bad : \A m \in Bad : n <= m
    BY Least
  <2>2. n - 1 \in Nat /\ n - 1 \notin Bad
    BY <1>1, <2>1
  <2>3. Good((n - 1) + 1)
    BY <1>2, <2>2
  <2> QED BY <2>2, <2>3
<1> QED BY <1>3 DEF Good

(* As many rounds as there are ids reach whatever can be reached: a round  *)
(* that finds nothing new is the last one, any other adds an id.           *)
LEMMA ReachableClosed ==
    ASSUME cfg \in Configs, NEW S \in SUBSET Ids
    PROVE  /\ S \subseteq Reachable(S) /\ Reachable(S) \subseteq Ids
           /\ Closed(Reachable(S))
<1> DEFINE last == Cardinality(Ids)
           r == CHOOSE x : Levels(x, S, last)
<1>1. last \in Nat
  BY FS_CardinalityType, TopologyAssumption
<1>2. Levels(r, S, last)
  BY <1>1, LevelsExist
<1>3. Reachable(S) = r[last]
  BY DEF Reachable, Levels, Follow
<1> HIDE DEF r
<1>4. r[0] = S /\ \A i \in 0..last : i # 0 => r[i] = Follow(r[i - 1])
  BY <1>1, <1>2 DEF Levels
<1>5. \A n : From(n) \subseteq Ids
  BY ConfigFacts
<1> DEFINE Good(i) == /\ S \subseteq r[i] /\ r[i] \subseteq Ids
                      /\ Closed(r[i]) \/ i <= Cardinality(r[i])
           Bad == {i \in 0..last : ~Good(i)}
<1>6. \A T \in SUBSET Ids : IsFiniteSet(T) /\ Cardinality(T) \in Nat
  BY FS_Subset, FS_CardinalityType, TopologyAssumption
<1>7. Good(0)
  BY <1>4, <1>6
<1>8. ASSUME NEW i \in Nat, i + 1 <= last, Good(i)
      PROVE  Good(i + 1)
  <2> DEFINE T == r[i]
             U == Follow(T)
  <2>1. r[i + 1] = U
    <3>1. i + 1 \in 0..last /\ i + 1 # 0 /\ (i + 1) - 1 = i
      BY <1>1, <1>8
    <3> QED BY <1>4, <3>1
  <2>2. S \subseteq U /\ T \subseteq U /\ U \subseteq Ids
    BY <1>5, <1>8 DEF Follow
  <2>3. CASE Closed(T)
    <3>1. U = T
      BY <2>3 DEF Follow, Closed
    <3> QED BY <1>8, <2>1, <2>3, <3>1
  <2>4. CASE ~Closed(T)
    <3>1. T # U /\ i <= Cardinality(T)
      BY <1>8, <2>4 DEF Follow, Closed
    <3>2. /\ Cardinality(T) <= Cardinality(U) /\ Cardinality(T) # Cardinality(U)
          /\ Cardinality(T) \in Nat /\ Cardinality(U) \in Nat
      BY <1>6, <2>2, <3>1, FS_Subset
    <3>3. i + 1 <= Cardinality(U)
      <4> HIDE DEF T, U
      <4> QED BY <3>1, <3>2
    <3> QED BY <2>1, <2>2, <3>3
  <2> QED BY <2>3, <2>4
<1> HIDE DEF Good
<1>9. Bad = {}
  <2> SUFFICES ASSUME Bad # {} PROVE FALSE
    OBVIOUS
  <2>1. PICK i \in Bad : \A j \in Bad : i <= j
    <3>1. Bad \subseteq Nat
      OBVIOUS
    <3> HIDE DEF Bad
    <3> QED BY <3>1, Least
  <2>2. i - 1 \in Nat /\ i - 1 \in 0..last /\ i - 1 \notin Bad
    BY <1>1, <1>7, <2>1
  <2>3. Good((i - 1) + 1)
    BY <1>1, <1>8, <2>2
  <2> QED BY <2>2, <2>3
<1>10. Good(last)
  BY <1>1, <1>9
<1>11. Closed(r[last])
  <2>1. CASE last <= Cardinality(r[last])
    <3>1. r[last] = Ids
      BY <1>1, <1>6, <1>10, <2>1, FS_Subset, TopologyAssumption DEF Good
    <3> QED BY <1>5, <3>1 DEF Closed
  <2> QED BY <1>10, <2>1 DEF Good
<1> QED BY <1>3, <1>10, <1>11 DEF Good

(* The path that hasSourceToSinkPath looks for is there when nothing is    *)
(* out of reach of the sources.                                            *)
LEMMA PathFound ==
    ASSUME cfg \in Configs, Runnable
    PROVE  Reachable(OfKind("source")) \cap OfKind("sink") # {}
<1> DEFINE R == Reachable(OfKind("source"))
<1>1. OfKind("source") \subseteq Known /\ OfKind("sink") \subseteq Known /\ Known \subseteq Ids
  BY ConfigFacts DEF Kinds
<1>2. OfKind("source") \subseteq R /\ Closed(R)
  BY <1>1, ReachableClosed
<1> HIDE DEF R
<1>3. EndsKnown /\ OfKind("sink") # {}
  BY DEF Runnable
<1>4. OfKind("source") \subseteq R \cap Known
  BY <1>1, <1>2
<1>5. Closed(R \cap Known)
  BY <1>2, <1>3, EdgesKnown DEF Closed
<1>6. R \cap Known = Known
  BY <1>4, <1>5 DEF Runnable
<1> QED BY <1>1, <1>3, <1>6 DEF R

-----------------------------------------------------------------------------
(* The visits.                                                             *)

LEMMA StackStays ==
    ASSUME StackOK, UNCHANGED search
    PROVE  StackOK'
BY DEF StackOK, search

LEMMA MarksStay ==
    ASSUME MarksOK, UNCHANGED <<cfg, search>>
    PROVE  MarksOK'
<1>1. Known' = Known /\ \A n : From(n)' = From(n)
  BY ConfigStays
<1>2. Done' = Done
  BY DEF Done, search
<1> QED BY <1>1, <1>2 DEF MarksOK, search

LEMMA DoneFinite == IsFiniteSet(Done) /\ Cardinality(Done) \in Nat /\ Cardinality(Done) <= Cardinality(Ids)
BY FS_Subset, FS_CardinalityType, TopologyAssumption DEF Done

LEMMA TopFacts ==
    ASSUME StackOK, MarksOK, stack # <<>>
    PROVE  /\ Len(stack) \in Nat \ {0} /\ Top = stack[Len(stack)]
           /\ Top \in Ids /\ visited[Top] = 1 /\ Top \in Known
           /\ left[Top] \subseteq Ids /\ left[Top] \subseteq From(Top)
           /\ \A m \in From(Top) \ left[Top] : visited[m] = 2
<1>1. Len(stack) \in Nat \ {0} /\ Top = stack[Len(stack)]
  BY DEF StackOK, Top
<1>2. Top \in Ids
  BY <1>1 DEF StackOK
<1>3. visited[Top] = 1
  BY <1>1, <1>2 DEF StackOK
<1> QED BY <1>1, <1>2, <1>3 DEF MarksOK

(* A visit begins: its stage was not yet visited and goes on the stack.    *)
LEMMA VisitKeeps ==
    ASSUME cfg \in Configs, StackOK, MarksOK, NEW n \in Known, Visit(n),
           stack # <<>> => n \in left[Top]
    PROVE  StackOK' /\ MarksOK'
<1> DEFINE last == Len(stack)
<1>1. /\ last \in Nat /\ stack \in Seq(Ids) /\ n \in Ids
      /\ \A i \in 1..last : stack[i] \in Ids /\ visited[stack[i]] = 1
  BY ConfigFacts DEF StackOK
<1>2. /\ visited \in [Ids -> 0..2] /\ left \in [Ids -> SUBSET Ids] /\ rank \in [Ids -> Nat]
      /\ From(n) \subseteq Ids
  BY ConfigFacts DEF MarksOK
<1>3. /\ visited[n] = 0 /\ visited' = [visited EXCEPT ![n] = 1]
      /\ left' = [left EXCEPT ![n] = From(n)]
      /\ UNCHANGED <<cfg, rank>>
  BY DEF Visit, Opening
<1>4. /\ stack' \in Seq(Ids) /\ Len(stack') = last + 1 /\ stack'[last + 1] = n
      /\ \A i \in 1..last : stack'[i] = stack[i]
  <2>1. stack' = Append(stack, n)
    BY DEF Visit
  <2> QED BY <1>1, <2>1
<1>5. \A m \in Ids : m # n => visited'[m] = visited[m] /\ left'[m] = left[m]
  BY <1>1, <1>2, <1>3
<1>6. visited'[n] = 1 /\ left'[n] = From(n)
  BY <1>1, <1>2, <1>3
<1>7. \A i \in 1..last : stack[i] # n
  BY <1>1, <1>3
<1>8. Known' = Known /\ \A m : From(m)' = From(m)
  BY <1>3, ConfigStays
<1>9. StackOK'
  <2>1. ASSUME NEW i \in 1..last + 1, NEW j \in 1..last + 1, stack'[i] = stack'[j]
        PROVE  i = j
    BY <1>1, <1>4, <1>7, <2>1 DEF StackOK
  <2>2. ASSUME NEW i \in 1..last
        PROVE  stack'[i + 1] \in left'[stack'[i]]
    <3>1. left'[stack'[i]] = left[stack[i]]
      BY <1>1, <1>4, <1>5, <1>7
    <3>2. CASE i = last
      <4>1. stack # <<>> /\ Top = stack[last]
        BY <1>1, <2>2 DEF Top
      <4> QED BY <1>4, <3>1, <3>2, <4>1
    <3>3. CASE i # last
      <4>1. i \in 1..last - 1 /\ i + 1 \in 1..last
        BY <1>1, <3>3
      <4> QED BY <1>4, <3>1, <4>1 DEF StackOK
    <3> QED BY <3>2, <3>3
  <2>3. ASSUME NEW m \in Ids
        PROVE  visited'[m] = 1 <=> \E i \in 1..last + 1 : stack'[i] = m
    <3>1. CASE m = n
      BY <1>1, <1>4, <1>6, <3>1
    <3>2. CASE m # n
      <4>1. visited'[m] = 1 <=> \E i \in 1..last : stack[i] = m
        BY <1>5, <3>2 DEF StackOK
      <4>2. (\E i \in 1..last + 1 : stack'[i] = m) <=> \E i \in 1..last : stack[i] = m
        BY <1>1, <1>4, <3>2
      <4> QED BY <4>1, <4>2
    <3> QED BY <3>1, <3>2
  <2>4. Len(stack') - 1 = last
    BY <1>1, <1>4
  <2> QED BY <1>4, <2>1, <2>2, <2>3, <2>4 DEF StackOK
<1>10. MarksOK'
  <2>1. visited' \in [Ids -> 0..2] /\ left' \in [Ids -> SUBSET Ids] /\ rank' \in [Ids -> Nat]
    <3>1. [visited EXCEPT ![n] = 1] \in [Ids -> 0..2]
      <4>1. visited \in [Ids -> 0..2] /\ 1 \in 0..2
        BY <1>2
      <4> QED BY <4>1, Zenon
    <3>2. [left EXCEPT ![n] = From(n)] \in [Ids -> SUBSET Ids]
      BY <1>2
    <3> QED BY <1>2, <1>3, <3>1, <3>2
  <2>2. ASSUME NEW m \in Ids, visited'[m] # 0 PROVE m \in Known'
    BY <1>5, <1>8, <2>2 DEF MarksOK
  <2>3. \A m \in Ids : visited[m] = 2 => visited'[m] = 2
    BY <1>3, <1>5
  <2>4. ASSUME NEW m \in Ids, visited'[m] = 1
        PROVE  left'[m] \subseteq From(m)' /\ \A k \in From(m)' \ left'[m] : visited'[k] = 2
    <3>1. CASE m = n
      BY <1>6, <1>8, <3>1
    <3>2. CASE m # n
      <4>1. left[m] \subseteq From(m) /\ \A k \in From(m) \ left[m] : visited[k] = 2
        BY <1>5, <2>4, <3>2 DEF MarksOK
      <4>2. From(m) \subseteq Ids
        BY ConfigFacts
      <4> QED BY <1>5, <1>8, <2>3, <3>2, <4>1, <4>2
    <3> QED BY <3>1, <3>2
  <2>5. Done' = Done
    BY <1>3, <1>5, <1>6 DEF Done
  <2>6. \A m \in Ids : rank'[m] <= Cardinality(Done')
    BY <1>3, <2>5 DEF MarksOK
  <2>7. ASSUME NEW m \in Ids, visited'[m] = 2, NEW k \in From(m)'
        PROVE  visited'[k] = 2 /\ rank'[k] < rank'[m]
    <3>1. m # n /\ visited[m] = 2 /\ k \in From(m) /\ k \in Ids
      BY <1>5, <1>6, <1>8, <2>7, ConfigFacts
    <3>2. visited[k] = 2 /\ rank[k] < rank[m]
      BY <3>1 DEF MarksOK
    <3> QED BY <1>3, <2>3, <3>1, <3>2
  <2> QED BY <2>1, <2>2, <2>4, <2>6, <2>7 DEF MarksOK
<1> QED BY <1>9, <1>10

LEMMA PassOverKeeps ==
    ASSUME cfg \in Configs, StackOK, MarksOK, PassOver
    PROVE  StackOK' /\ MarksOK'
<1> DEFINE last == Len(stack)
<1>1. PICK n \in left[Top] : visited[n] = 2 /\ left' = [left EXCEPT ![Top] = @ \ {n}]
  BY DEF PassOver
<1>2. UNCHANGED <<cfg, visited, stack, rank>> /\ stack # <<>>
  BY DEF PassOver, Inside
<1>3. /\ last \in Nat \ {0} /\ Top = stack[last] /\ Top \in Ids /\ visited[Top] = 1
      /\ left[Top] \subseteq From(Top)
      /\ \A m \in From(Top) \ left[Top] : visited[m] = 2
  BY <1>2, TopFacts
<1>4. /\ \A m \in Ids : m # Top => left'[m] = left[m]
      /\ left'[Top] = left[Top] \ {n}
      /\ left' \in [Ids -> SUBSET Ids]
  BY <1>1, <1>3 DEF MarksOK
<1>5. Known' = Known /\ \A m : From(m)' = From(m)
  BY <1>2, ConfigStays
<1>6. StackOK'
  <2>1. ASSUME NEW i \in 1..last - 1
        PROVE  stack[i + 1] \in left'[stack[i]]
    <3>1. stack[i] # Top /\ stack[i] \in Ids
      BY <1>3 DEF StackOK
    <3> QED BY <1>4, <3>1 DEF StackOK
  <2> QED BY <1>2, <2>1 DEF StackOK
<1>7. MarksOK'
  <2>1. ASSUME NEW m \in Ids, visited[m] = 1
        PROVE  left'[m] \subseteq From(m) /\ \A k \in From(m) \ left'[m] : visited[k] = 2
    <3>1. CASE m = Top
      BY <1>1, <1>3, <1>4, <3>1
    <3>2. CASE m # Top
      BY <1>4, <2>1, <3>2 DEF MarksOK
    <3> QED BY <3>1, <3>2
  <2>2. Done' = Done
    BY <1>2 DEF Done
  <2> QED BY <1>2, <1>4, <1>5, <2>1, <2>2 DEF MarksOK
<1> QED BY <1>6, <1>7

(* A visit ends after those of all its successors: it is the last so far.  *)
LEMMA ReturnKeeps ==
    ASSUME cfg \in Configs, StackOK, MarksOK, Return
    PROVE  StackOK' /\ MarksOK'
<1> DEFINE last == Len(stack)
           n == Top
           c == Cardinality(Done)
<1>1. /\ stack # <<>> /\ left[n] = {} /\ UNCHANGED <<cfg, left>>
      /\ visited' = [visited EXCEPT ![n] = 2]
      /\ stack' = SubSeq(stack, 1, last - 1)
      /\ rank' = [rank EXCEPT ![n] = 1 + c]
  BY DEF Return, Inside, Done
<1>2. /\ last \in Nat \ {0} /\ n = stack[last] /\ n \in Ids /\ visited[n] = 1 /\ n \in Known
      /\ \A m \in From(n) : visited[m] = 2
  BY <1>1, TopFacts
<1>3. c \in Nat /\ IsFiniteSet(Done) /\ n \notin Done
  BY <1>2, DoneFinite DEF Done
<1> HIDE DEF n, c
<1>4. /\ stack' \in Seq(Ids) /\ Len(stack') = last - 1
      /\ \A i \in 1..last - 1 : stack'[i] = stack[i] /\ stack[i] \in Ids
      /\ stack \in Seq(Ids)
  <2>1. stack \in Seq(Ids)
    BY DEF StackOK
  <2>2. \A i \in 1..last - 1 : stack[i] \in Ids
    BY <1>2, <2>1
  <2>3. last - 1 \in Int /\ 1 \in Int
    BY <1>2
  <2>4. /\ stack' \in Seq(Ids) /\ Len(stack') = last - 1
        /\ \A i \in 1..last - 1 : stack'[i] = stack[i]
    <3> DEFINE t == SubSeq(stack, 1, last - 1)
    <3>1. /\ t \in Seq(Ids)
          /\ Len(t) = IF 1 <= last - 1 THEN (last - 1) - 1 + 1 ELSE 0
          /\ \A i \in 1..(last - 1) - 1 + 1 : t[i] = stack[1 + i - 1]
      BY <2>2, <2>3, SubSeqProperties
    <3> HIDE DEF t, last
    <3>2. Len(t) = last - 1
      BY <1>2, <3>1
    <3>3. ASSUME NEW i \in 1..last - 1 PROVE t[i] = stack[i]
      <4>1. i \in 1..(last - 1) - 1 + 1 /\ 1 + i - 1 = i
        BY <1>2
      <4> QED BY <3>1, <4>1
    <3> QED BY <1>1, <3>1, <3>2, <3>3 DEF t, last
  <2> QED BY <2>1, <2>2, <2>4
<1>5. /\ visited' \in [Ids -> 0..2] /\ rank' \in [Ids -> Nat]
      /\ \A m \in Ids : m # n => visited'[m] = visited[m] /\ rank'[m] = rank[m]
      /\ visited'[n] = 2 /\ rank'[n] = 1 + c
  BY <1>1, <1>2, <1>3 DEF MarksOK
<1>6. Known' = Known /\ \A m : From(m)' = From(m)
  BY <1>1, ConfigStays
<1>7. StackOK'
  <2>1. \A i \in 1..last - 1 : stack[i] # n
    BY <1>2 DEF StackOK
  <2>2. ASSUME NEW i \in 1..last - 1, NEW j \in 1..last - 1, stack'[i] = stack'[j]
        PROVE  i = j
    BY <1>2, <1>4, <2>2 DEF StackOK
  <2>3. ASSUME NEW i \in 1..(last - 1) - 1
        PROVE  stack'[i + 1] \in left'[stack'[i]]
    <3>1. i \in 1..last - 1 /\ i + 1 \in 1..last - 1
      BY <1>2
    <3> QED BY <1>1, <1>4, <3>1 DEF StackOK
  <2>4. ASSUME NEW m \in Ids
        PROVE  visited'[m] = 1 <=> \E i \in 1..last - 1 : stack'[i] = m
    <3>1. CASE m = n
      BY <1>4, <1>5, <2>1, <3>1
    <3>2. CASE m # n
      <4>1. visited'[m] = 1 <=> \E i \in 1..last : stack[i] = m
        BY <1>5, <3>2 DEF StackOK
      <4>2. (\E i \in 1..last - 1 : stack'[i] = m) <=> \E i \in 1..last : stack[i] = m
        BY <1>2, <1>4, <3>2
      <4> QED BY <4>1, <4>2
    <3> QED BY <3>1, <3>2
  <2> QED BY <1>4, <2>2, <2>3, <2>4 DEF StackOK
<1>8. MarksOK'
  <2>1. ASSUME NEW m \in Ids, visited'[m] # 0 PROVE m \in Known'
    BY <1>2, <1>5, <1>6, <2>1 DEF MarksOK
  <2>2. \A m \in Ids : visited[m] = 2 => visited'[m] = 2 /\ rank'[m] = rank[m]
    BY <1>2, <1>5
  <2>3. ASSUME NEW m \in Ids, visited'[m] = 1
        PROVE  left'[m] \subseteq From(m)' /\ \A k \in From(m)' \ left'[m] : visited'[k] = 2
    <3>1. visited[m] = 1
      BY <1>5, <2>3
    <3>2. left[m] \subseteq From(m) /\ \A k \in From(m) \ left[m] : visited[k] = 2
      BY <3>1 DEF MarksOK
    <3>3. From(m) \subseteq Ids
      BY ConfigFacts
    <3> QED BY <1>1, <1>6, <2>2, <3>2, <3>3
  <2>4. Cardinality(Done') = c + 1
    <3>1. Done' = Done \cup {n}
      BY <1>2, <1>5 DEF Done
    <3> QED BY <1>3, <3>1, FS_AddElement DEF c
  <2>5. \A m \in Ids : rank[m] \in Nat /\ rank[m] <= c
    BY DEF MarksOK, c
  <2>6. ASSUME NEW m \in Ids PROVE rank'[m] <= Cardinality(Done')
    BY <1>3, <1>5, <2>4, <2>5
  <2>7. ASSUME NEW m \in Ids, visited'[m] = 2, NEW k \in From(m)'
        PROVE  visited'[k] = 2 /\ rank'[k] < rank'[m]
    <3>1. k \in From(m) /\ k \in Ids
      BY <1>6, ConfigFacts
    <3>2. CASE m = n
      <4>1. visited[k] = 2 /\ rank[k] <= c /\ rank[k] \in Nat
        BY <1>2, <2>5, <3>1, <3>2
      <4> QED BY <1>3, <1>5, <2>2, <3>1, <3>2, <4>1
    <3>3. CASE m # n
      <4>1. visited[m] = 2 /\ rank'[m] = rank[m]
        BY <1>5, <2>7, <3>3
      <4>2. visited[k] = 2 /\ rank[k] < rank[m]
        BY <3>1, <4>1 DEF MarksOK
      <4> QED BY <2>2, <3>1, <4>1, <4>2
    <3> QED BY <3>2, <3>3
  <2>8. left' \in [Ids -> SUBSET Ids]
    BY <1>1 DEF MarksOK
  <2> QED BY <1>5, <2>1, <2>3, <2>6, <2>7, <2>8 DEF MarksOK
<1> QED BY <1>7, <1>8

-----------------------------------------------------------------------------
(* The workers.                                                            *)

LEMMA BudgetFacts ==
    ASSUME cfg \in Configs
    PROVE  /\ MaxWorkers \in Nat \ {0} /\ Count \in Nat
           /\ Transforms \subseteq Steps /\ IsFiniteSet(Transforms)
           /\ Requested \in [Steps -> Nat] /\ \A s \in Transforms : Requested[s] >= 1
           /\ ~WithinBudget => Count # 0 /\ MaxWorkers < Sum(Requested, Transforms)
<1>1. cfg.max \in Int /\ cfg.workers \in [Steps -> Int] /\ Steps \subseteq Ids /\ IsFiniteSet(Ids)
  BY TopologyAssumption
<1>2. MaxWorkers \in Nat \ {0}
  BY <1>1 DEF MaxWorkers
<1>3. Transforms \subseteq Steps
  BY DEF Transforms
<1>4. IsFiniteSet(Transforms) /\ Count \in Nat
  BY <1>1, <1>3, FS_Subset, FS_CardinalityType DEF Count
<1>5. \A s \in Steps : Larger(cfg.workers[s], 1) \in Nat /\ Larger(cfg.workers[s], 1) >= 1
  BY <1>1 DEF Larger
<1>6. Requested \in [Steps -> Nat] /\ \A s \in Transforms : Requested[s] >= 1
  BY <1>3, <1>5 DEF Requested
<1>7. Sum(Requested, Transforms) \in Int
  <2>1. \A s \in Transforms : Requested[s] \in Int
    BY <1>3, <1>6
  <2> QED BY <1>4, <2>1, SumType
<1>8. Count = 0 => WithinBudget
  <2> SUFFICES ASSUME Count = 0 PROVE WithinBudget
    OBVIOUS
  <2>1. Transforms = {}
    BY <1>4, FS_EmptySet DEF Count
  <2>2. Sum(Requested, Transforms) = 0
    BY <2>1, SumEmpty
  <2> QED BY <1>2, <2>2 DEF WithinBudget
<1> QED BY <1>2, <1>3, <1>4, <1>6, <1>7, <1>8 DEF WithinBudget

LEMMA Division ==
    ASSUME NEW m \in Nat, NEW c \in Nat \ {0}
    PROVE  /\ m \div c \in Nat /\ m % c \in 0..c - 1
           /\ m = c * (m \div c) + (m % c)
           /\ c <= m => m \div c >= 1
           /\ m < c => m \div c = 0 /\ m % c = m
<1>1. m \div c \in Int /\ m % c \in 0..c - 1 /\ m = c * (m \div c) + (m % c)
  <2>1. m \div c \in Int
    OBVIOUS
  <2>2. m % c \in 0..c - 1
    OBVIOUS
  <2>3. m % c = m - c * (m \div c) /\ c * (m \div c) \in Int
    OBVIOUS
  <2> QED BY <2>1, <2>2, <2>3
<1> DEFINE q == m \div c
           r == m % c
<1> HIDE DEF q, r
<1>2. q \in Int /\ r \in 0..c - 1 /\ m = c * q + r
  BY <1>1 DEF q, r
<1>3. q >= 0
  BY <1>2
<1>4. c <= m => q >= 1
  BY <1>2
<1>5. m < c => q = 0 /\ r = m
  BY <1>2
<1>6. q \in Nat
  BY <1>2, <1>3
<1> QED BY <1>2, <1>4, <1>5, <1>6 DEF q, r

(* The first shares together, whatever the number of transforms.           *)
LEMMA Shares ==
    ASSUME cfg \in Configs, ~WithinBudget
    PROVE  /\ Given(0) = 0 /\ Given(Count) = MaxWorkers
           /\ Count <= MaxWorkers => MaxWorkers \div Count >= 1 /\ MaxWorkers \div Count \in Nat
           /\ \A k \in 0..Count - 1 :
                 /\ ShareOf(k, Given(k)) \in Nat
                 /\ Given(k + 1) = Given(k) + ShareOf(k, Given(k))
                 /\ Count <= MaxWorkers =>
                       ShareOf(k, Given(k)) \in {MaxWorkers \div Count, (MaxWorkers \div Count) + 1}
<1> DEFINE m == MaxWorkers
           c == Count
           q == m \div c
           r == m % c
<1>1. m \in Nat \ {0} /\ c \in Nat \ {0}
  BY BudgetFacts
<1>2. /\ q \in Nat /\ r \in 0..c - 1 /\ m = c * q + r
      /\ c <= m => q >= 1
      /\ m < c => q = 0 /\ r = m
  BY <1>1, Division
<1>3. \A k : Given(k) = IF c <= m THEN k * q + Smaller(k, r) ELSE Smaller(2 * k, m)
  BY DEF Given
<1>4. \A k, g : ShareOf(k, g) = Smaller(Larger(q, 1) + (IF k < r THEN 1 ELSE 0), m - g)
  BY DEF ShareOf, Base, Extra
<1> HIDE DEF m, c, q, r
<1>5. Given(0) = 0 /\ Given(c) = m
  BY <1>1, <1>2, <1>3 DEF Smaller
<1>6. ASSUME NEW k \in 0..c - 1
      PROVE  /\ ShareOf(k, Given(k)) \in Nat
             /\ Given(k + 1) = Given(k) + ShareOf(k, Given(k))
             /\ c <= m => ShareOf(k, Given(k)) \in {q, q + 1}
  <2> DEFINE g == Given(k)
             e == IF k < r THEN 1 ELSE 0
  <2>1. CASE c <= m
    <3> DEFINE p == k * q
    <3>1. /\ p \in Nat /\ (k + 1) * q = p + q /\ p + q <= c * q
      <4>1. c - (k + 1) \in Nat
        BY <1>1
      <4>2. (c - (k + 1)) * q \in Nat
        BY <1>2, <4>1
      <4>3. (c - (k + 1)) * q = c * q - (k + 1) * q /\ (k + 1) * q = k * q + q
        BY <1>1, <1>2
      <4>4. k * q \in Nat /\ c * q \in Nat
        BY <1>1, <1>2
      <4> QED BY <4>2, <4>3, <4>4, <1>2
    <3> HIDE DEF p
    <3>2. g = p + Smaller(k, r) /\ Given(k + 1) = p + q + Smaller(k + 1, r)
      BY <1>3, <2>1, <3>1 DEF p
    <3>3. Smaller(k + 1, r) = Smaller(k, r) + e /\ Smaller(k, r) \in Nat /\ Smaller(k + 1, r) <= r
      BY <1>1, <1>2 DEF Smaller
    <3>4. e \in {0, 1} /\ q >= 1 /\ c * q \in Nat
      BY <1>1, <1>2, <2>1
    <3> HIDE DEF e, g
    <3>5. g \in Nat /\ Given(k + 1) = g + (q + e) /\ q + e <= m - g
      BY <1>2, <3>1, <3>2, <3>3, <3>4
    <3>6. ShareOf(k, g) = q + e
      <4>1. ShareOf(k, g) = Smaller(q + e, m - g)
        BY <1>2, <1>4, <3>4 DEF Larger, e
      <4> QED BY <1>1, <1>2, <3>4, <3>5, <4>1 DEF Smaller
    <3> QED BY <1>2, <3>4, <3>5, <3>6 DEF g
  <2>2. CASE m < c
    <3>1. q = 0 /\ r = m /\ ~(c <= m)
      BY <1>1, <1>2, <2>2
    <3>2. g = Smaller(2 * k, m) /\ Given(k + 1) = Smaller(2 * (k + 1), m)
      BY <1>3, <3>1
    <3>3. ShareOf(k, g) = Smaller(1 + e, m - g)
      BY <1>4, <3>1 DEF Larger
    <3> QED BY <1>1, <3>1, <3>2, <3>3 DEF Smaller
  <2> QED BY <1>1, <2>1, <2>2
<1> QED BY <1>2, <1>5, <1>6 DEF m, c, q

-----------------------------------------------------------------------------
(* The steps.                                                              *)

LEMMA GivenStays == ASSUME cfg' = cfg PROVE \A k : Given(k)' = Given(k)
BY ConfigStays DEF Given

(* Sum of the same workers over the same steps.                            *)
LEMMA SharingStays ==
    ASSUME Sharing, cfg \in Configs, UNCHANGED <<cfg, share>>,
           \/ phase' = phase
           \/ phase \in {"normalized", "search", "path"} /\ phase' \in Phases \ {"running"}
           \/ phase' = "rejected"
    PROVE  Sharing'
<1>1. /\ Transforms' = Transforms /\ Count' = Count /\ MaxWorkers' = MaxWorkers
      /\ (WithinBudget <=> WithinBudget') /\ Requested' = Requested
  BY ConfigStays
<1>2. alloc' = alloc /\ shared' = shared
  BY DEF share
<1>3. Sum(alloc, shared)' = Sum(alloc, shared)
  BY <1>2
<1>4. Given(Cardinality(shared))' = Given(Cardinality(shared))
  BY <1>1, <1>2 DEF Given
<1>5. ASSUME phase' \in {"share", "running"}, phase' # phase, ~WithinBudget
      PROVE  shared = {} /\ Sum(alloc, shared) = Given(Cardinality(shared))
  <2>1. shared = {}
    BY <1>5 DEF Sharing
  <2> QED BY <1>5, <2>1, SumEmpty, FS_EmptySet, Shares
<1>6. CASE phase' = phase
  BY <1>1, <1>2, <1>3, <1>4, <1>6 DEF Sharing
<1>7. CASE phase' # phase
  <2>1. phase \in {"normalized", "search", "path"} \/ phase' = "rejected"
    BY <1>7
  <2>2. alloc \in [Steps -> Nat] /\ shared \subseteq Transforms
    BY DEF Sharing
  <2>3. phase' # "running"
    BY <1>7 DEF Phases
  <2>4. phase' \in {"normalized", "search", "path"} => shared = {}
    BY <1>7 DEF Sharing
  <2> QED BY <1>1, <1>2, <1>3, <1>4, <1>5, <1>7, <2>1, <2>2, <2>3, <2>4 DEF Sharing
<1> QED BY <1>6, <1>7

LEMMA InitOK == ASSUME Init PROVE IInv
<1>1. cfg \in Configs /\ stack = <<>> /\ \A n \in Ids : visited[n] = 0 /\ rank[n] = 0
  BY DEF Init
<1>2. StackOK
  BY <1>1 DEF StackOK
<1>3. Done = {} /\ Cardinality(Done) = 0
  <2>1. \A n \in Ids : visited[n] # 2
    BY <1>1
  <2> QED BY <2>1, FS_EmptySet DEF Done
<1>4. MarksOK
  <2>1. visited \in [Ids -> 0..2] /\ left \in [Ids -> SUBSET Ids] /\ rank \in [Ids -> Nat]
    BY DEF Init
  <2> QED BY <1>1, <1>3, <2>1 DEF MarksOK
<1>5. Judged
  BY DEF Init, Judged, Phases
<1>6. Sharing
  <2>1. alloc \in [Steps -> Nat] /\ shared = {} /\ phase = "normalized"
    BY DEF Init
  <2> QED BY <2>1 DEF Sharing
<1> QED BY <1>1, <1>2, <1>4, <1>5, <1>6 DEF IInv

LEMMA EnterKeeps ==
    ASSUME IInv, NEW p, Enter(p), Judged',
           \/ phase \in {"normalized", "search", "path"} /\ p \in Phases \ {"running"}
           \/ p = "rejected"
    PROVE  IInv'
<1>1. cfg \in Configs /\ StackOK /\ MarksOK /\ Sharing
  BY DEF IInv
<1>2. phase' = p /\ UNCHANGED <<cfg, search, share>>
  BY DEF Enter
<1>3. StackOK' /\ MarksOK'
  BY <1>1, <1>2, StackStays, MarksStay
<1>4. Sharing'
  BY <1>1, <1>2, SharingStays
<1> QED BY <1>1, <1>2, <1>3, <1>4 DEF IInv

LEMMA CheckRulesKeeps == ASSUME IInv, CheckRules PROVE IInv'
<1>1. /\ phase = "normalized" /\ cfg \in Configs
      /\ Enter(IF RulesHold THEN "search" ELSE "rejected")
  BY DEF CheckRules, IInv
<1>2. phase' = (IF RulesHold THEN "search" ELSE "rejected") /\ cfg' = cfg
  BY <1>1 DEF Enter
<1>3. (RulesHold <=> RulesHold') /\ (Runnable <=> Runnable')
  BY <1>2, ConfigStays
<1>4. Judged'
  BY <1>1, <1>2, <1>3, RulesNeeded DEF Judged, Phases
<1> QED BY <1>1, <1>4, EnterKeeps DEF Phases

LEMMA SearchStepKeeps ==
    ASSUME IInv, Searching, StackOK', MarksOK', UNCHANGED <<cfg, phase, share>>
    PROVE  IInv'
<1>1. (RulesHold <=> RulesHold') /\ (Runnable <=> Runnable')
  BY ConfigStays
<1>2. Judged'
  BY <1>1 DEF IInv, Judged, Searching
<1>3. Sharing'
  BY SharingStays DEF IInv
<1> QED BY <1>2, <1>3 DEF IInv

LEMMA DetectCycleKeeps == ASSUME IInv, DetectCycle PROVE IInv'
<1>1. cfg \in Configs /\ StackOK /\ MarksOK /\ Judged /\ Searching
  BY DEF IInv, DetectCycle, VisitStage, VisitNext, PassOver, Inside, FindCycle, Return, NoCycle
<1>2. RulesHold /\ EndsKnown
  BY <1>1 DEF Judged, Searching, RulesHold
<1>3. CASE VisitStage
  <2>1. PICK n \in Known : Visit(n) /\ stack = <<>>
    BY <1>3 DEF VisitStage
  <2>2. StackOK' /\ MarksOK' /\ UNCHANGED <<cfg, phase, share>>
    BY <1>1, <2>1, VisitKeeps DEF Visit
  <2> QED BY <1>1, <2>2, SearchStepKeeps
<1>4. CASE VisitNext
  <2>1. PICK n \in left[Top] : Visit(n) /\ stack # <<>>
    BY <1>4 DEF VisitNext, Inside
  <2>2. n \in Known
    BY <1>1, <1>2, <2>1, TopFacts, EdgesKnown
  <2>3. StackOK' /\ MarksOK' /\ UNCHANGED <<cfg, phase, share>>
    BY <1>1, <2>1, <2>2, VisitKeeps DEF Visit
  <2> QED BY <1>1, <2>3, SearchStepKeeps
<1>5. CASE PassOver
  <2>1. StackOK' /\ MarksOK' /\ UNCHANGED <<cfg, phase, share>>
    BY <1>1, <1>5, PassOverKeeps DEF PassOver
  <2> QED BY <1>1, <2>1, SearchStepKeeps
<1>6. CASE FindCycle
  <2>1. PICK m \in left[Top] : OnStack(m) /\ stack # <<>> /\ Enter("rejected")
    BY <1>6 DEF FindCycle, Inside
  <2>2. ~Runnable
    BY <1>1, <1>2, <2>1, CycleRefutes
  <2>3. phase' = "rejected" /\ cfg' = cfg
    BY <2>1 DEF Enter
  <2>4. Judged'
    BY <2>2, <2>3, ConfigStays DEF Judged, Phases
  <2> QED BY <2>1, <2>4, EnterKeeps
<1>7. CASE Return
  <2>1. StackOK' /\ MarksOK' /\ UNCHANGED <<cfg, phase, share>>
    BY <1>1, <1>7, ReturnKeeps DEF Return
  <2> QED BY <1>1, <2>1, SearchStepKeeps
<1>8. CASE NoCycle
  <2>1. Enter("path") /\ \A n \in Known : visited[n] = 2
    BY <1>8 DEF NoCycle
  <2>2. phase' = "path" /\ cfg' = cfg /\ visited' = visited
    BY <2>1 DEF Enter, search
  <2>3. Judged'
    BY <1>2, <2>1, <2>2, ConfigStays DEF Judged, Phases
  <2> QED BY <1>1, <2>1, <2>3, EnterKeeps DEF Searching, Phases
<1> QED BY <1>3, <1>4, <1>5, <1>6, <1>7, <1>8 DEF DetectCycle

(* The path is always there: when this rule is checked the others hold.    *)
LEMMA CheckPathKeeps == ASSUME IInv, CheckPath PROVE IInv'
<1>1. phase = "path" /\ cfg \in Configs /\ RulesHold /\ MarksOK /\ \A n \in Known : visited[n] = 2
  BY DEF IInv, CheckPath, Judged
<1>2. Reachable(OfKind("source")) \cap OfKind("sink") # {}
  BY <1>1, RulesEnough, PathFound
<1>3. Enter("share")
  BY <1>2 DEF CheckPath
<1>4. phase' = "share" /\ cfg' = cfg /\ visited' = visited
  BY <1>3 DEF Enter, search
<1>5. Judged'
  BY <1>1, <1>4, ConfigStays DEF Judged, Phases
<1> QED BY <1>1, <1>3, <1>5, EnterKeeps DEF Phases

LEMMA GiveRequestedKeeps == ASSUME IInv, GiveRequested PROVE IInv'
<1>1. /\ cfg \in Configs /\ StackOK /\ MarksOK /\ Judged
      /\ phase = "share" /\ WithinBudget
      /\ alloc' = Requested /\ shared' = Transforms /\ phase' = "running"
      /\ UNCHANGED <<cfg, search>>
  BY DEF IInv, GiveRequested
<1>2. StackOK' /\ MarksOK'
  BY <1>1, StackStays, MarksStay
<1>3. Judged'
  BY <1>1, ConfigStays DEF Judged, Phases, search
<1>4. Sharing'
  BY <1>1, ConfigStays, BudgetFacts DEF Sharing
<1> QED BY <1>1, <1>2, <1>3, <1>4 DEF IInv

(* The next share takes the total from one partial sum to the next.        *)
LEMMA GiveShareKeeps == ASSUME IInv, GiveShare PROVE IInv'
<1>1. /\ cfg \in Configs /\ StackOK /\ MarksOK /\ Judged /\ Sharing
      /\ phase = "share" /\ ~WithinBudget
      /\ phase' = (IF shared' = Transforms THEN "running" ELSE "share")
      /\ UNCHANGED <<cfg, search>>
  BY DEF IInv, GiveShare
<1> DEFINE k == Cardinality(shared)
           v == ShareOf(k, Sum(alloc, shared))
<1>2. PICK s \in Transforms \ shared :
         alloc' = [alloc EXCEPT ![s] = v] /\ shared' = shared \cup {s}
  BY DEF GiveShare
<1>3. StackOK' /\ MarksOK'
  BY <1>1, StackStays, MarksStay
<1>4. Judged'
  BY <1>1, ConfigStays DEF Judged, Phases, search
<1>5. /\ alloc \in [Steps -> Nat] /\ shared \subseteq Transforms
      /\ Transforms \subseteq Steps /\ IsFiniteSet(Transforms)
  BY <1>1, BudgetFacts DEF Sharing
<1>6. /\ IsFiniteSet(shared) /\ k \in Nat /\ Cardinality(shared') = k + 1
      /\ k + 1 <= Count
  <2>1. IsFiniteSet(shared) /\ k \in Nat
    BY <1>5, FS_Subset, FS_CardinalityType
  <2>2. Cardinality(shared') = k + 1
    BY <1>2, <2>1, FS_AddElement
  <2>3. shared' \in SUBSET Transforms
    BY <1>2, <1>5
  <2>4. Cardinality(shared') <= Count
    BY <1>5, <2>3, FS_Subset DEF Count
  <2> QED BY <2>1, <2>2, <2>4
<1>7. Sum(alloc, shared) = Given(k)
  BY <1>1 DEF Sharing
<1> HIDE DEF k, v
<1>8. /\ v \in Nat /\ Given(k + 1) = Given(k) + v
      /\ Count <= MaxWorkers => v \in {MaxWorkers \div Count, (MaxWorkers \div Count) + 1}
  <2>1. k \in 0..Count - 1
    BY <1>1, <1>6, BudgetFacts
  <2> QED BY <1>1, <1>7, <2>1, Shares DEF v
<1>9. Sum(alloc', shared') = Given(k + 1)
  <2>1. v \in Int /\ s \notin shared /\ \A t \in shared : alloc[t] \in Int
    BY <1>2, <1>5, <1>8
  <2>2. alloc'[s] = v /\ \A t \in shared : alloc'[t] = alloc[t]
    BY <1>2, <1>5
  <2>3. Sum(alloc', shared \cup {s}) = Sum(alloc, shared) + v
    BY <1>6, <2>1, <2>2, SumAdd
  <2> QED BY <1>2, <1>7, <1>8, <2>3
<1>10. ASSUME Count <= MaxWorkers, NEW t \in shared'
       PROVE  alloc'[t] \in {MaxWorkers \div Count, (MaxWorkers \div Count) + 1}
  <2>1. CASE t = s
    BY <1>2, <1>5, <1>8, <1>10, <2>1
  <2>2. CASE t # s
    BY <1>1, <1>2, <1>5, <1>10, <2>2 DEF Sharing
  <2> QED BY <2>1, <2>2
<1>11. Sharing'
  <2>1. alloc' \in [Steps -> Nat] /\ shared' \subseteq Transforms
    BY <1>2, <1>5, <1>8
  <2>2. /\ Transforms' = Transforms /\ Count' = Count /\ MaxWorkers' = MaxWorkers
        /\ ~WithinBudget'
    BY <1>1, ConfigStays
  <2>3. Given(Cardinality(shared))' = Given(k + 1)
    BY <1>6, <2>2 DEF Given
  <2>4. Sum(alloc, shared)' = Sum(alloc', shared')
    OBVIOUS
  <2>5. phase' \in {"share", "running"} /\ (phase' = "running" => shared' = Transforms)
    BY <1>1
  <2> QED BY <1>9, <1>10, <2>1, <2>2, <2>3, <2>4, <2>5 DEF Sharing
<1> QED BY <1>1, <1>3, <1>4, <1>11 DEF IInv

LEMMA StutterKeeps == ASSUME IInv, UNCHANGED vars PROVE IInv'
<1>1. UNCHANGED <<cfg, phase, search, share>>
  BY DEF vars
<1>2. StackOK' /\ MarksOK'
  BY <1>1, StackStays, MarksStay DEF IInv
<1>3. Judged'
  BY <1>1, ConfigStays DEF IInv, Judged, search
<1>4. Sharing'
  BY <1>1, SharingStays DEF IInv
<1> QED BY <1>1, <1>2, <1>3, <1>4 DEF IInv

-----------------------------------------------------------------------------

(* Every step of Validate and of the allocation keeps what the theorems    *)
(* below rest on: the calls of visit are a path, marks follow ranks, each  *)
(* phase knows its rules, the workers given are a partial sum.             *)
THEOREM Invariance == Spec => []IInv
<1>1. Init => IInv
  BY InitOK
<1>2. IInv /\ [Next]_vars => IInv'
  <2> SUFFICES ASSUME IInv, [Next]_vars PROVE IInv'
    OBVIOUS
  <2>1. CASE CheckRules
    BY <2>1, CheckRulesKeeps
  <2>2. CASE DetectCycle
    BY <2>2, DetectCycleKeeps
  <2>3. CASE CheckPath
    BY <2>3, CheckPathKeeps
  <2>4. CASE Allocate
    BY <2>4, GiveRequestedKeeps, GiveShareKeeps DEF Allocate
  <2>5. CASE Decided \/ UNCHANGED vars
    BY <2>5, StutterKeeps DEF Decided
  <2> QED BY <2>1, <2>2, <2>3, <2>4, <2>5 DEF Next
<1> QED BY <1>1, <1>2, PTL DEF Spec

(* Validate accepts runnable configs only, and each of them in which every *)
(* stage has an edge, in whatever order it ranges over stages and edges    *)
(* (validate.go:9-94).                                                     *)
THEOREM VerdictIsRight == Spec => []VerdictRight
<1>1. IInv => VerdictRight
  <2> SUFFICES ASSUME IInv PROVE VerdictRight
    OBVIOUS
  <2>1. cfg \in Configs /\ StackOK /\ MarksOK /\ Judged
    BY DEF IInv
  <2>2. rank \in [Ids -> 0..Cardinality(Ids)]
    <3>1. ASSUME NEW n \in Ids PROVE rank[n] \in 0..Cardinality(Ids)
      <4>1. rank[n] \in Nat /\ rank[n] <= Cardinality(Done)
        BY <2>1 DEF MarksOK
      <4>2. Cardinality(Ids) \in Nat
        BY FS_CardinalityType, TopologyAssumption
      <4> QED BY <4>1, <4>2, DoneFinite
    <3> QED BY <2>1, <3>1 DEF MarksOK
  <2>3. {n \in Ids : visited[n] = 1} = {stack[i] : i \in 1..Len(stack)}
    BY <2>1 DEF StackOK
  <2>4. SearchInv
    BY <2>1, <2>2, <2>3 DEF SearchInv, StackOK, MarksOK
  <2>5. phase \in {"share", "running"} => Runnable
    BY <2>1, RulesEnough DEF Judged
  <2> QED BY <2>1, <2>4, <2>5 DEF VerdictRight, Judged
<1> QED BY <1>1, Invariance, PTL

(* The shares come to max_workers when more is requested, each transform   *)
(* has a worker when there are enough, and no share is more than one above *)
(* another (workers.go:3-4, 9-48).                                         *)
THEOREM WorkersAreShared == Spec => []WorkersShared
<1>1. IInv => WorkersShared
  <2> SUFFICES ASSUME IInv, phase = "running" PROVE WorkersShared
    BY DEF WorkersShared
  <2>1. cfg \in Configs /\ Sharing /\ shared = Transforms
    BY DEF IInv, Sharing
  <2>2. CASE WithinBudget
    <3>1. alloc = Requested
      BY <2>1, <2>2 DEF Sharing
    <3>2. Sum(alloc, Transforms) = Smaller(Sum(Requested, Transforms), MaxWorkers)
      <4>1. \A s \in Transforms : Requested[s] \in Int
        BY <2>1, BudgetFacts
      <4>2. Sum(Requested, Transforms) \in Int /\ MaxWorkers \in Int
        BY <2>1, <4>1, BudgetFacts, SumType
      <4> QED BY <2>2, <3>1, <4>2 DEF WithinBudget, Smaller
    <3> QED BY <2>1, <2>2, <3>1, <3>2, BudgetFacts DEF WorkersShared
  <2>3. CASE ~WithinBudget
    <3>1. Sum(alloc, Transforms) = MaxWorkers
      BY <2>1, <2>3, Shares DEF Sharing, Count
    <3>2. Sum(alloc, Transforms) = Smaller(Sum(Requested, Transforms), MaxWorkers)
      <4>1. MaxWorkers < Sum(Requested, Transforms)
        BY <2>1, <2>3, BudgetFacts
      <4>2. \A s \in Transforms : Requested[s] \in Int
        BY <2>1, BudgetFacts
      <4>3. Sum(Requested, Transforms) \in Int /\ MaxWorkers \in Int
        BY <2>1, <4>2, BudgetFacts, SumType
      <4> QED BY <3>1, <4>1, <4>3 DEF Smaller
    <3>3. ASSUME Count <= MaxWorkers
          PROVE  /\ MaxWorkers \div Count \in Nat /\ MaxWorkers \div Count >= 1
                 /\ \A s \in Transforms :
                       alloc[s] \in {MaxWorkers \div Count, (MaxWorkers \div Count) + 1}
      BY <2>1, <2>3, <3>3, Shares DEF Sharing
    <3>4. ASSUME Count <= MaxWorkers
          PROVE  /\ \A s \in Transforms : alloc[s] >= 1
                 /\ \A s, t \in Transforms : alloc[s] <= alloc[t] + 1
      BY <3>3, <3>4
    <3> QED BY <3>2, <3>4 DEF WorkersShared
  <2> QED BY <2>2, <2>3
<1> QED BY <1>1, Invariance, PTL
===============================================================================

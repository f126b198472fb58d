------------------------------ MODULE Topology ------------------------------
(***************************************************************************)
(* From a config to the goroutines of a pipeline: internal/config          *)
(* normalize.go makes stages and edges of the steps, internal/topology     *)
(* validate.go accepts or refuses them, internal/engine workers.go divides *)
(* engine.max_workers among the transforms.                                *)
(*                                                                         *)
(* The search for cycles is modelled visit by visit, the other rules as    *)
(* the sets they compute.  Go iterates over its maps in any order, and so  *)
(* does the model over stages, successors and transforms.  Conditions and  *)
(* buffers of edges have no part in what is modelled here.                 *)
(***************************************************************************)
EXTENDS Integers, Sequences, FiniteSets, FiniteSetsExt

CONSTANTS Steps,      \* step names
          Ids,        \* stage ids: the names, the ids of combined sinks, others
          SinkOf,     \* SinkOf[s]: the id s-sink
          Configs     \* the configs somebody may write

Kinds == {"source", "transform", "sink"}

(* parts[s]: the blocks of step s; deps: the pairs of an upstream id and   *)
(* the step whose depends_on has it; edges: the deprecated top-level list; *)
(* faulty: a rule about one stage or edge alone is broken; workers: of the *)
(* transforms; max: engine.max_workers.                                    *)
ASSUME TopologyAssumption ==
    /\ IsFiniteSet(Ids) /\ Steps \subseteq Ids /\ SinkOf \in [Steps -> Ids]
    /\ \A c \in Configs : /\ c.parts \in [Steps -> SUBSET Kinds]
                          /\ c.deps \subseteq Ids \X Steps /\ c.edges \subseteq Ids \X Ids
                          /\ c.faulty \in BOOLEAN
                          /\ c.workers \in [Steps -> Int] /\ c.max \in Int

VARIABLES cfg,      \* the config
          phase,    \* normalized, search, path, share, running or rejected
          visited,  \* detectCycle: 0 not yet, 1 being visited, 2 done
          stack,    \* the calls of visit, the innermost last
          left,     \* left[n]: the successors visit(n) has still to look at
          rank,     \* history: the how-manieth visit to end was visit(n)
          alloc,    \* allocateTransformWorkers: the workers given so far
          shared    \* the transforms that have theirs

search == <<visited, stack, left, rank>>
share  == <<alloc, shared>>
vars   == <<cfg, phase, search, share>>

-----------------------------------------------------------------------------
(* NormalizeSteps, BuildTopologyIR: a combined step has its sink under an  *)
(* id of its own, with an edge to it.  A stage is <<id, kind, step>>: two  *)
(* stages may have one id.                                                 *)
Combined(s) == {"transform", "sink"} \subseteq cfg.parts[s]

StageId(s, k) == IF k = "sink" /\ Combined(s) THEN SinkOf[s] ELSE s

Stages == UNION {{<<StageId(s, k), k, s>> : k \in cfg.parts[s]} : s \in Steps}

OfKind(k) == {st[1] : st \in {x \in Stages : x[2] = k}}
Known     == {st[1] : st \in Stages}

Edges == cfg.deps \cup cfg.edges \cup {<<s, SinkOf[s]>> : s \in {x \in Steps : Combined(x)}}

Into(n) == {e[1] : e \in {x \in Edges : x[2] = n}}
From(n) == {e[2] : e \in {x \in Edges : x[1] = n}}

Init ==
    /\ cfg \in Configs
    /\ phase = "normalized"
    /\ visited = [n \in Ids |-> 0] /\ stack = <<>>
    /\ left = [n \in Ids |-> {}] /\ rank = [n \in Ids |-> 0]
    /\ alloc = [s \in Steps |-> 0] /\ shared = {}

Enter(p) == phase' = p /\ UNCHANGED <<cfg, search, share>>

-----------------------------------------------------------------------------
(* Validate: the rules that need no search.                                *)
UniqueIds == \A x, y \in Stages : x[1] = y[1] => x = y
EndsKnown == \A e \in Edges : {e[1], e[2]} \subseteq Known
EndsMeet  == /\ \A n \in OfKind("source") : Into(n) = {}
             /\ \A n \in OfKind("sink") : From(n) = {}
BothEnds  == OfKind("source") # {} /\ OfKind("sink") # {}
AllFed    == \A n \in OfKind("transform") \cup OfKind("sink") : Into(n) # {}

RulesHold == UniqueIds /\ EndsKnown /\ EndsMeet /\ BothEnds /\ AllFed /\ ~cfg.faulty

CheckRules == /\ phase = "normalized"
              /\ Enter(IF RulesHold THEN "search" ELSE "rejected")

-----------------------------------------------------------------------------
(* detectCycle.                                                            *)
Top == stack[Len(stack)]

(* visit(n) begins.                                                        *)
Opening == 1

Visit(n) ==
    /\ visited[n] = 0
    /\ visited' = [visited EXCEPT ![n] = Opening]
    /\ stack' = Append(stack, n)
    /\ left' = [left EXCEPT ![n] = From(n)]
    /\ UNCHANGED <<cfg, phase, rank, share>>

Searching == phase = "search"
Inside    == Searching /\ stack # <<>>

VisitStage == Searching /\ stack = <<>> /\ \E n \in Known : Visit(n)
VisitNext  == Inside /\ \E n \in left[Top] : Visit(n)

PassOver ==
    /\ Inside
    /\ \E n \in left[Top] : /\ visited[n] = 2
                            /\ left' = [left EXCEPT ![Top] = @ \ {n}]
    /\ UNCHANGED <<cfg, phase, visited, stack, rank, share>>

NotNew(n)  == visited[n] # 0
OnStack(n) == visited[n] = 1

FindCycle == /\ Inside
             /\ \E n \in left[Top] : OnStack(n)
             /\ Enter("rejected")

Return ==
    /\ Inside /\ left[Top] = {}
    /\ visited' = [visited EXCEPT ![Top] = 2]
    /\ stack' = SubSeq(stack, 1, Len(stack) - 1)
    /\ rank' = [rank EXCEPT ![Top] = 1 + Cardinality({n \in Ids : visited[n] = 2})]
    /\ UNCHANGED <<cfg, phase, left, share>>

NoCycle == /\ Searching /\ stack = <<>>
           /\ \A n \in Known : visited[n] = 2
           /\ Enter("path")

-----------------------------------------------------------------------------
(* hasSourceToSinkPath.                                                    *)
Reachable(S) ==
    LET r[i \in 0..Cardinality(Ids)] ==
            IF i = 0 THEN S ELSE r[i - 1] \cup UNION {From(n) : n \in r[i - 1]}
    IN  r[Cardinality(Ids)]

CheckPath ==
    /\ phase = "path"
    /\ Enter(IF Reachable(OfKind("source")) \cap OfKind("sink") # {} THEN "share" ELSE "rejected")

-----------------------------------------------------------------------------
(* allocateTransformWorkers.                                               *)
Larger(i, j)  == IF i > j THEN i ELSE j
Smaller(i, j) == IF i < j THEN i ELSE j
Sum(f, S)     == MapThenSumSet(LAMBDA s : f[s], S)

Transforms   == {s \in Steps : "transform" \in cfg.parts[s]}
Requested    == [s \in Steps |-> IF s \in Transforms THEN Larger(cfg.workers[s], 1) ELSE 0]
MaxWorkers   == IF cfg.max <= 0 THEN 16 ELSE cfg.max
WithinBudget == Sum(Requested, Transforms) <= MaxWorkers

GiveRequested ==
    /\ phase = "share" /\ WithinBudget
    /\ alloc' = Requested /\ shared' = Transforms
    /\ phase' = "running"
    /\ UNCHANGED <<cfg, search>>

Count  == Cardinality(Transforms)
Base   == Larger(MaxWorkers \div Count, 1)
NoExtra(i) == 0
Extra(i)   == IF i < MaxWorkers % Count THEN 1 ELSE 0

(* The share of the transform that comes i-th, from 0.  The last correction*)
(* of the code, at least one while any is left, never applies.             *)
ShareOf(i, given) == Smaller(Base + Extra(i), MaxWorkers - given)

GiveShare ==
    /\ phase = "share" /\ ~WithinBudget
    /\ \E s \in Transforms \ shared :
        /\ alloc' = [alloc EXCEPT ![s] = ShareOf(Cardinality(shared), Sum(alloc, shared))]
        /\ shared' = shared \cup {s}
    /\ phase' = IF shared' = Transforms THEN "running" ELSE phase
    /\ UNCHANGED <<cfg, search>>

-----------------------------------------------------------------------------

Decided == phase \in {"running", "rejected"} /\ UNCHANGED vars

DetectCycle == VisitStage \/ VisitNext \/ PassOver \/ FindCycle \/ Return \/ NoCycle
Allocate    == GiveRequested \/ GiveShare

Next == CheckRules \/ DetectCycle \/ CheckPath \/ Allocate \/ Decided

Spec == Init /\ [][Next]_vars

-----------------------------------------------------------------------------

(* The shape of the state and of the search: the calls of visit are a path *)
(* of the graph, each stage of it is being visited, and a visit that is    *)
(* done was done after those of all its successors (validate.go:113-130).  *)
SearchInv ==
    /\ visited \in [Ids -> 0..2] /\ left \in [Ids -> SUBSET Ids]
    /\ rank \in [Ids -> 0..Cardinality(Ids)] /\ stack \in Seq(Ids)
    /\ \A i \in 1..Len(stack) - 1 : stack[i + 1] \in left[stack[i]]
    /\ {n \in Ids : visited[n] = 1} = {stack[i] : i \in 1..Len(stack)}
    /\ \A n \in Ids : visited[n] = 1 => \A m \in From(n) \ left[n] : visited[m] = 2
    /\ \A n \in Ids : visited[n] = 2 => \A m \in From(n) : visited[m] = 2 /\ rank[m] < rank[n]

(* What a runnable pipeline is, without a search: every stage has its id   *)
(* for itself, is fed from a source and is on no cycle; sources only begin *)
(* and sinks only end edges, and there are both                            *)
(* (docs/configurations.md:744-750).                                       *)
Closed(S) == \A n \in S : From(n) \subseteq S
Runnable ==
    /\ ~cfg.faulty /\ UniqueIds /\ EndsKnown /\ EndsMeet /\ OfKind("sink") # {}
    /\ \A S \in SUBSET Known : OfKind("source") \subseteq S /\ Closed(S) => S = Known
    /\ \A S \in (SUBSET Known) \ {{}} : \E n \in S : From(n) \cap S = {}

(* No stage is without edges (eventr-design.md:1640).                      *)
Connected == \A n \in Known : Into(n) \cup From(n) # {}

(* Validate accepts runnable configs only and each one without an isolated *)
(* stage, in whatever order it visits: that each stage has some edge       *)
(* coming in and that there is no cycle is enough for all of them to be    *)
(* fed (validate.go:9-94); and every step of the search keeps its shape.   *)
(* The verdict on the other ones is left open: Validate accepts a source   *)
(* without edges, which eventr-design.md:1640 forbids.                     *)
VerdictRight ==
    /\ SearchInv
    /\ phase \in {"share", "running"} => Runnable
    /\ phase = "rejected" => ~(Runnable /\ Connected)

(* The workers of a pipeline never exceed max_workers, none are withheld,  *)
(* and where there is one for each transform the shares of a pipeline over *)
(* the budget differ by one at most (workers.go:3-4).                      *)
WorkersShared ==
    phase = "running" =>
        /\ Sum(alloc, Transforms) = Smaller(Sum(Requested, Transforms), MaxWorkers)
        /\ Count <= MaxWorkers => \A s \in Transforms : alloc[s] >= 1
        /\ Count <= MaxWorkers /\ ~WithinBudget =>
               \A s, t \in Transforms : alloc[s] <= alloc[t] + 1
=============================================================================

----------------------------- MODULE MCDispatch -----------------------------
(***************************************************************************)
(* Instances of Dispatch for TLC.  fan: one source feeds two sinks, one    *)
(* edge conditional.  split: source, a transform with two out-edges, two   *)
(* sinks.  fork: source, a transform and a sink behind it, a second sink.  *)
(***************************************************************************)
EXTENDS Dispatch, TLC

All(S, v) == [x \in S |-> v]

\* fan: s -> k1 (required), s -> k2 (conditional)
FanFrom == ("e1" :> "s") @@ ("e2" :> "s")
FanTo   == ("e1" :> "k1") @@ ("e2" :> "k2")
FanHome == ("src" :> "s") @@ ("w1" :> "k1") @@ ("w2" :> "k2")

\* split: s -> t, t -> k1, t -> k2 (conditional)
SplitFrom == ("e1" :> "s") @@ ("e2" :> "t") @@ ("e3" :> "t")
SplitTo   == ("e1" :> "t") @@ ("e2" :> "k1") @@ ("e3" :> "k2")
SplitHome == [g \in Workers |-> CASE g = "src" -> "s" [] g \in {"wt", "wu"} -> "t"
                                 [] g = "w1" -> "k1" [] OTHER -> "k2"]

\* fork: s -> t, s -> k1, t -> k2 (conditional)
ForkFrom == ("e1" :> "s") @@ ("e2" :> "s") @@ ("e3" :> "t")
ForkTo   == ("e1" :> "t") @@ ("e2" :> "k1") @@ ("e3" :> "k2")

ModesIgnore    == All(Stages, "ignore")
ModesPropagate == All(Stages, "propagate")
Block          == All(Edges, "block")
Mixed          == [e \in Edges |-> IF e = "e1" THEN "drop_oldest" ELSE "drop_newest"]
Ones           == All(Edges, 1)
FeedS          == All(Ids, "s")
OverEdges      == [f \in Forwarders |-> IF f = "f1" THEN "e1" ELSE "e2"]
=============================================================================

----------------------------- MODULE MCTopology -----------------------------
(***************************************************************************)
(* Instances of Topology for TLC.  Three sets of configs: every kind of    *)
(* step with unknown, missing and repeated ids; every graph on three       *)
(* transforms; every request for workers of three transforms in a row.     *)
(***************************************************************************)
EXTENDS Topology, TLC

MCSinkOf == [s \in Steps |-> s \o "-sink"]
MCIds    == Steps \cup {MCSinkOf[s] : s \in Steps} \cup {"ghost"}

Only(s, x, y, z, k) == ("s" :> s) @@ ("x" :> x) @@ ("y" :> y) @@ ("z" :> z) @@ ("k" :> k)
Each(v) == [s \in Steps |-> v]

Config(parts, deps, edges, faulty, workers, max) ==
    [parts |-> parts, deps |-> deps, edges |-> edges, faulty |-> faulty,
     workers |-> workers, max |-> max]

S == {"source"}
T == {"transform"}
K == {"sink"}

\* s, x and k of any kind, y and z absent.
Shapes ==
    {Config(Only(s, x, {}, {}, k), deps, edges, faulty, Each(1), 0) :
        s \in {S, T, S \cup K}, x \in SUBSET Kinds, k \in {K, T, T \cup K},
        deps \in SUBSET {<<"s", "x">>, <<"x", "k">>, <<"k", "x">>, <<"x", "s">>},
        edges \in {{}, {<<"s", "k">>}, {<<"ghost", "k">>}, {<<"s", "x-sink">>}},
        faulty \in BOOLEAN}

\* Three transforms between a source and a sink, any edges among them.
Graphs_ ==
    {Config(Only(S, T, T, T, K), deps \cup fixed, {}, FALSE, Each(1), 0) :
        deps \in SUBSET ({"x", "y", "z"} \X {"x", "y", "z"}),
        fixed \in {{<<"s", "x">>, <<"z", "k">>}, {<<"s", "x">>, <<"s", "z">>, <<"y", "k">>}}}

Loads ==
    {Config(Only(S, T, T, T, K), {<<"s", "x">>, <<"x", "y">>, <<"y", "z">>, <<"z", "k">>}, {}, FALSE,
            Only(0, x, y, z, 0), max) :
        x \in {-1, 1, 4}, y \in {0, 2, 7}, z \in {1, 3}, max \in {-1, 0, 1, 2, 3, 4, 5, 6, 7}}

MCConfigs == Shapes \cup Graphs_ \cup Loads
=============================================================================

---------------------------- MODULE AckContract ----------------------------
(***************************************************************************)
(* What the engine promises the source of a message, with the topology     *)
(* left out: an accepted message takes one of the max_inflight slots, gives*)
(* the slot back exactly once and is then reported to the source (OnAck)   *)
(* exactly once, with a result that never changes.  Dispatch.tla implements*)
(* it (eventr-design.md section 6.3).                               *)
(***************************************************************************)
EXTENDS Naturals, FiniteSets

CONSTANTS Ids,          \* the messages the sources produce
          MaxInflight   \* engine.max_inflight; 0 stands for "no limit"

VARIABLES phase,    \* phase[i] : how far message i has got
          result    \* result[i] : what its Ack was called with

contractVars == <<phase, result>>

Phases  == {"new", "open", "released", "reported"}
Results == {"none", "nil", "err"}

ContractInit ==
    /\ phase  = [i \in Ids |-> "new"]
    /\ result = [i \in Ids |-> "none"]

Open == {i \in Ids : phase[i] = "open"}

(* A message is accepted only while a slot is free. *)
Accept(i) ==
    /\ phase[i] = "new"
    /\ MaxInflight = 0 \/ Cardinality(Open) < MaxInflight
    /\ phase' = [phase EXCEPT ![i] = "open"]
    /\ UNCHANGED result

(* The slot is given back with the outcome of the whole message. *)
Release(i, r) ==
    /\ phase[i] = "open"
    /\ phase'  = [phase EXCEPT ![i] = "released"]
    /\ result' = [result EXCEPT ![i] = r]

(* The source hears the same outcome. *)
Report(i) ==
    /\ phase[i] = "released"
    /\ phase' = [phase EXCEPT ![i] = "reported"]
    /\ UNCHANGED result

ContractNext ==
    \E i \in Ids :
        \/ Accept(i)
        \/ \E r \in {"nil", "err"} : Release(i, r)
        \/ Report(i)

(* Once accepted, a message is not kept open for ever. *)
ContractFairness ==
    \A i \in Ids : WF_contractVars(\/ \E r \in {"nil", "err"} : Release(i, r)
                                   \/ Report(i))

ContractSafety == ContractInit /\ [][ContractNext]_contractVars
ContractSpec   == ContractSafety /\ ContractFairness
=============================================================================

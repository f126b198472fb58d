------------------------------ MODULE MCReload ------------------------------
(***************************************************************************)
(* Instances of Reload for TLC: two pipelines and two reloads, enough for  *)
(* two requests that overlap, follow each other, fail and are refused.     *)
(***************************************************************************)
EXTENDS Reload, TLC

TwoNames == {"a", "b"}
AllOrOne == {{"a", "b"}, {"a"}}
=============================================================================

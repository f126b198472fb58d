---------------------------- MODULE MCEdgeInbound ----------------------------
(* Instances of EdgeInbound for TLC: p sends two messages, q one.          *)
EXTENDS EdgeInbound

PQ == [p \in Producers |-> IF p = "p" THEN 2 ELSE 1]
=============================================================================

------------------------------ MODULE MCPurge ------------------------------
(* Purge for TLC: one source, opened by the first note and cited by the first
   and the second; the third cites nothing, so a pass may adopt it. *)
EXTENDS Purge
CONSTANTS n1, n2, n3, s1
MCOpening == [s \in Sources |-> n1]
MCCites == [n \in Notes |-> IF n = n3 THEN {} ELSE Sources]
=============================================================================

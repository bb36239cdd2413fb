--------------------------- MODULE MCModelGateway ---------------------------
(* A small instance of ModelGateway for TLC. *)
EXTENDS ModelGateway

CONSTANTS m1, s1, s2, max, plus

\* A main agent with two sub-agents.
MCParent == [a \in Agents |-> IF a \in {s1, s2} THEN m1 ELSE None]
=============================================================================

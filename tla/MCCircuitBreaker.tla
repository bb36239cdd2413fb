-------------------------- MODULE MCCircuitBreaker --------------------------
(* A small instance of CircuitBreaker: two slots in one process, one in another. *)
EXTENDS CircuitBreaker, TLC

CONSTANTS c1, c2, c3, p1, p2

Placed == (c1 :> p1 @@ c2 :> p1 @@ c3 :> p2)
=============================================================================

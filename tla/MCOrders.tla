------------------------------ MODULE MCOrders ------------------------------
(* A small instance of Orders for TLC. *)
EXTENDS Orders, TLC

\* Requests and ids are interchangeable.
Symmetry == Permutations(Requests) \union Permutations(OrderIds)
=============================================================================

----------------------------- MODULE MCSessions -----------------------------
(* A small instance of Sessions for TLC. *)
EXTENDS Sessions, TLC

\* Turns and processes are interchangeable.
Symmetry == Permutations(Turns) \union Permutations(Processes)
=============================================================================

---------------------------- MODULE MCOrderPage ----------------------------
(* A small instance of OrderPage for TLC. *)
EXTENDS OrderPage, TLC

CONSTANTS b1, b2, o1, o2

MCSymmetry == Permutations(OrderIds)
=============================================================================

------------------------------ MODULE MCHarness ------------------------------
(* Harness for TLC: two turns of one session, at once or one after the     *)
(* other.                                                                  *)
EXTENDS Harness, TLC

CONSTANTS s1, t1, t2

MCSessionOf == t1 :> s1 @@ t2 :> s1
MCSymmetry == Permutations({t1, t2})
=============================================================================

---------------------------- MODULE MCTranscript ----------------------------
(* A small instance of Transcript for TLC. *)
EXTENDS Transcript, TLC

\* Turns are interchangeable.
Symmetry == Permutations(Turns)
=============================================================================

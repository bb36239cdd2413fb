------------------------------ MODULE MCReplies ------------------------------
(* A small instance of Replies for TLC. *)
EXTENDS Replies, TLC

CONSTANTS q1, q2, q3, s1, s2, b1, b2, st1, st2

\* The first two questions are alike, the third depends on the context.
MCSimilarity ==
  [q \in Questions |-> [r \in Questions |->
     IF q = r THEN 100 ELSE IF q3 \in {q, r} THEN 20 ELSE 96]]

Dislike(s) == [kind |-> "dislike", statement |-> s]
Like(s) == [kind |-> "like", statement |-> s]

Call(s, b, q) == [session |-> s, buyer |-> b, question |-> q]

\* Similar questions of one buyer in two sessions, one that follows in the
\* first session, and that of another buyer.
MCCalls == {Call(s1, b1, q1), Call(s2, b1, q2), Call(s1, b1, q3), Call(s2, b2, q1)}

MCVoiced == {Dislike(st1), Like(st1), Like(st2)}

\* The list of two preferences, or of one that is both.
First(p, q) == {<<p, p>>, <<p, q>>, <<q, q>>}

\* A dislike, which may be forgotten, or two likes of which one fits a hint.
MCStored ==
  {[b \in Buyers |-> ps] :
     ps \in {First(Dislike(st1), Dislike(st1)), First(Like(st1), Like(st2))}}

\* Turns are interchangeable.
Symmetry == Permutations(Turns)
=============================================================================

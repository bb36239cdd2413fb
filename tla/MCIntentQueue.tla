---------------------------- MODULE MCIntentQueue ----------------------------
(* A small instance of IntentQueue: two requests, two questions. *)
EXTENDS IntentQueue, TLC

CONSTANTS q1, q2, s1, s2

TwoSessions == (q1 :> s1 @@ q2 :> s2)

\* Requests and questions are interchangeable: requests arrive in the order of
\* their numbers and the first one asks q1.
Arrivals == 1 .. 2

InOrder ==
  \A c \in Requests : pc[c] # "idle" =>
    /\ \A b \in Requests : b < c => pc[b] # "idle"
    /\ c = 1 => asked[c].question = q1
=============================================================================

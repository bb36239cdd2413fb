---------------------------- MODULE TaskDelivery ----------------------------
(***************************************************************************)
(* What the task queue does, whatever process dies: each lane hands out    *)
(* its tasks in the order they came, each one once; the agent runs at most *)
(* once for a task and only while the task is held; a task is finished     *)
(* only after that run, and abandoned only when something broke.           *)
(*                                                                         *)
(* The port (app/domain/queue/ports/task_queue.py) announces delivery at   *)
(* least once, so that a consumer should expect a task twice.  Nothing     *)
(* here delivers one again: this is the queue that the program has.        *)
(***************************************************************************)
CONSTANTS
  Tasks,
  Lanes,      \* queues that are read independently
  None        \* no lane

VARIABLES
  stage,      \* stage[t]: how far task t has come
  lane,       \* lane[t]: the lane it was sent to, or None
  older,      \* older[t]: the tasks that wait ahead of it in its lane
  answers,    \* answers[t]: how often an agent ran for it
  broken      \* some process or command has failed

delivery == <<stage, lane, older, answers, broken>>

DeliveryInit ==
  /\ stage = [t \in Tasks |-> "unsent"]
  /\ lane = [t \in Tasks |-> None]
  /\ older = [t \in Tasks |-> {}]
  /\ answers = [t \in Tasks |-> 0]
  /\ broken = FALSE

WaitingIn(l) == {t \in Tasks : stage[t] = "waiting" /\ lane[t] = l}

Held == {t \in Tasks : stage[t] = "held"}

Moved(S, to) == stage' = [t \in Tasks |-> IF t \in S THEN to ELSE stage[t]]

\* A task goes behind those that wait in its lane.
Send(t, l) ==
  /\ stage[t] = "unsent"
  /\ Moved({t}, "waiting")
  /\ lane' = [lane EXCEPT ![t] = l]
  /\ older' = [older EXCEPT ![t] = WaitingIn(l)]
  /\ UNCHANGED <<answers, broken>>

\* Some tasks are handed out, none before one that waits ahead of it.
Take(S) ==
  /\ \A t \in S : stage[t] = "waiting" /\ older[t] \subseteq S
  /\ Moved(S, "held")
  /\ older' = [t \in Tasks |-> older[t] \ S]
  /\ UNCHANGED <<lane, answers, broken>>

Answer(t) ==
  /\ stage[t] = "held" /\ answers[t] = 0
  /\ answers' = [answers EXCEPT ![t] = 1]
  /\ UNCHANGED <<stage, lane, older, broken>>

Finish(t) ==
  /\ stage[t] = "held" /\ answers[t] = 1
  /\ Moved({t}, "finished")
  /\ UNCHANGED <<lane, older, answers, broken>>

\* Something breaks or broke before: tasks that are held may be given up.
Abandon(S) ==
  /\ S \subseteq Held
  /\ Moved(S, "abandoned")
  /\ broken' = TRUE
  /\ UNCHANGED <<lane, older, answers>>

DeliveryNext ==
  \/ \E S \in SUBSET Tasks : Take(S) \/ Abandon(S)
  \/ \E t \in Tasks : Answer(t) \/ Finish(t) \/ \E l \in Lanes : Send(t, l)

DeliverySpec == DeliveryInit /\ [][DeliveryNext]_delivery
=============================================================================

---------------------------- MODULE ModelGateway ----------------------------
(***************************************************************************)
(* The way of a process to the language model: the throttle that all its   *)
(* agents share (throttle.py), the model that holds a slot of it to the    *)
(* end of a stream, retries inside the slot and falls back (llm.py), the   *)
(* token budget of an intent that picks the model (budget.py), the main    *)
(* agents that dispatch sub-agents and wait for them                       *)
(* (task_dispatch_tool.py), and the retries of a whole turn                *)
(* (orchestrator.py).                                                      *)
(*                                                                         *)
(* Abstractions.  Time is counted in ticks: `left` is what is left of a    *)
(* sleep, `since` what passed since a first attempt started.  What the     *)
(* gateway answers, and whether an error reads as transient, is a free     *)
(* choice.  A reply costs one token.                                       *)
(***************************************************************************)
EXTENDS Integers, Sequences, SequencesExt, FiniteSetsExt

CONSTANTS
  Agents,          \* the agents of a process
  Parent,          \* the main agent that dispatches an agent, or None
  MaxConcurrency,  \* llm_max_concurrency
  Interval,        \* llm_min_interval_seconds
  MaxRetries,      \* llm_max_retries
  RetryBase,       \* seconds of the first back-off
  MaxTurnRetries,  \* _MAX_TURN_RETRIES
  Model,           \* llm_model
  FallbackModel,   \* llm_fallback_model, None if it is empty
  Total,           \* token_budget_total, 0 for none
  MaxCalls,        \* bound on replies an agent asks for
  MaxFaults,       \* bound on cancelled agents and streams nobody reads
  None

ASSUME GatewayAssumption ==
  /\ MaxConcurrency \in Nat \ {0}
  /\ {Interval, MaxRetries, MaxTurnRetries, Total, MaxFaults} \subseteq Nat
  /\ MaxCalls \in Nat \ {0}
  \* Every pause is a whole number of ticks.
  /\ \A n \in 0..(MaxRetries + MaxTurnRetries) : RetryBase * 3 ^ n \in Nat \ {0}
  /\ IsFiniteSet(Agents) /\ None \notin Agents
  /\ Parent \in [Agents -> Agents \union {None}]
  /\ \A a \in Agents : Parent[a] # None => Parent[Parent[a]] = None

\* A fallback that names the same model is none.
HasFallback == FallbackModel # None /\ FallbackModel # Model

VARIABLES
  free,    \* the value of the semaphore
  queue,   \* who waits for it, in order
  line,    \* who holds and waits for the lock of the spacing, in order
  since,   \* ticks since _last_start, up to Interval
  agent,   \* the coroutine of each agent: its step, attempt, sleep, the model
           \* it asked, the replies it got, the retries of its turn
  used,    \* tokens each intent spent, by the model that was asked
  faults,
  lost     \* history: slots held by streams nobody will read

vars == <<free, queue, line, since, agent, used, faults, lost>>

Steps == {"idle", "ready", "waiting", "spacing", "sleeping", "upstream",
          "backoff", "streaming", "acting", "dispatched", "resting", "over"}

\* The steps that hold a slot.
Holding == {"spacing", "sleeping", "upstream", "backoff", "streaming"}

Root(a) == IF Parent[a] = None THEN a ELSE Parent[a]
Mains == {a \in Agents : Parent[a] = None}
Subs(a) == {s \in Agents : Parent[s] = a}

At(a, step) == agent[a].pc = step

Init ==
  /\ free = MaxConcurrency
  /\ queue = <<>> /\ line = <<>>
  /\ since = Interval
  /\ agent = [a \in Agents |->
       [pc |-> IF a \in Mains THEN "ready" ELSE "idle", attempt |-> 0, left |-> 0,
        model |-> "main", calls |-> 0, tries |-> 0]]
  /\ used = [a \in Mains |-> [main |-> 0, fallback |-> 0]]
  /\ faults = 0 /\ lost = 0

-----------------------------------------------------------------------------
(* The throttle.                                                           *)

Wait(a) ==
  /\ At(a, "ready")
  /\ queue' = Append(queue, a)
  /\ agent' = [agent EXCEPT ![a].pc = "waiting"]
  /\ UNCHANGED <<free, line, since, used, faults, lost>>

Acquire(a) ==
  /\ At(a, "waiting") /\ a = Head(queue) /\ free > 0
  /\ free' = free - 1
  /\ queue' = Tail(queue)
  /\ line' = Append(line, a)
  /\ agent' = [agent EXCEPT ![a].pc = "spacing"]
  /\ UNCHANGED <<since, used, faults, lost>>

\* A mutant: starts are spaced without the lock.
MutSpaceOut(a) ==
  /\ At(a, "spacing")
  /\ agent' = [agent EXCEPT ![a].pc = "sleeping", ![a].left = Interval - since]
  /\ UNCHANGED <<free, queue, line, since, used, faults, lost>>

\* The holder of the lock sleeps for what is left of the interval.
SpaceOut(a) ==
  /\ At(a, "spacing") /\ a = Head(line)
  /\ agent' = [agent EXCEPT ![a].pc = "sleeping", ![a].left = Interval - since]
  /\ UNCHANGED <<free, queue, line, since, used, faults, lost>>

-----------------------------------------------------------------------------
(* A call of the model.                                                    *)

Used(r) == used[r].main + used[r].fallback

\* A mutant: the half counts as more than a half.
MutRich(a) == Total = 0 \/ 2 * (Total - Used(Root(a))) >= Total

\* The tier of an intent: its remaining tokens against half of the budget, a
\* fifth and a twentieth.  Only the first decides on the model; below the last
\* one the model is still called.
Rich(a) == Total = 0 \/ 2 * (Total - Used(Root(a))) > Total

Target(a) == IF Rich(a) \/ ~HasFallback THEN "main" ELSE "fallback"

\* The first attempt.
Start(a) ==
  /\ At(a, "sleeping") /\ agent[a].left = 0
  /\ since' = 0
  /\ line' = RemoveFirst(line, a)
  /\ agent' = [agent EXCEPT ![a].pc = "upstream", ![a].attempt = 0,
                            ![a].model = Target(a)]
  /\ UNCHANGED <<free, queue, used, faults, lost>>

\* What an agent does next once it has its reply, or an error.
Replied(a) == [agent[a] EXCEPT !.pc = "acting", !.calls = @ + 1]

\* A sub-agent's error is its result; a main agent's turn is tried again.
Failed(a, transient) ==
  IF a \in Mains /\ transient /\ agent[a].tries < MaxTurnRetries
  THEN [agent[a] EXCEPT !.pc = "resting", !.tries = @ + 1,
                        !.left = RetryBase * 3 ^ agent[a].tries]
  ELSE [agent[a] EXCEPT !.pc = "over"]

Charge(a) ==
  used' = [used EXCEPT ![Root(a)][agent[a].model] = @ + (IF Total = 0 THEN 0 ELSE 1)]

\* The answer is complete: the slot is free again.
Respond(a) ==
  /\ At(a, "upstream")
  /\ free' = free + 1
  /\ Charge(a)
  /\ agent' = [agent EXCEPT ![a] = Replied(a)]
  /\ UNCHANGED <<queue, line, since, faults, lost>>

\* The answer is a stream: the slot is kept.
Stream(a) ==
  /\ At(a, "upstream")
  /\ agent' = [agent EXCEPT ![a].pc = "streaming"]
  /\ UNCHANGED <<free, queue, line, since, used, faults, lost>>

\* The stream is read to its end, with the usage on its last chunk.
Read(a) ==
  /\ At(a, "streaming")
  /\ free' = free + 1
  /\ Charge(a)
  /\ agent' = [agent EXCEPT ![a] = Replied(a)]
  /\ UNCHANGED <<queue, line, since, faults, lost>>

\* The stream breaks off; the retries of the call are over by then.
BreakOff(a) ==
  /\ At(a, "streaming")
  /\ free' = free + 1
  /\ \E transient \in BOOLEAN : agent' = [agent EXCEPT ![a] = Failed(a, transient)]
  /\ UNCHANGED <<queue, line, since, used, faults, lost>>

\* The stream is dropped before it is started, so nothing closes it.
Drop(a) ==
  /\ At(a, "streaming") /\ faults < MaxFaults
  /\ faults' = faults + 1 /\ lost' = lost + 1
  /\ agent' = [agent EXCEPT ![a] = Failed(a, FALSE)]
  /\ UNCHANGED <<free, queue, line, since, used>>

\* A transient error: back off, in the slot, or fall back once.
BackOff(a) ==
  /\ At(a, "upstream") /\ agent[a].attempt < MaxRetries
  /\ agent' = [agent EXCEPT ![a].pc = "backoff", ![a].attempt = @ + 1,
                            ![a].left = RetryBase * 3 ^ agent[a].attempt]
  /\ UNCHANGED <<free, queue, line, since, used, faults, lost>>

Retry(a) ==
  /\ At(a, "backoff") /\ agent[a].left = 0
  /\ agent' = [agent EXCEPT ![a].pc = "upstream", ![a].model = Target(a)]
  /\ UNCHANGED <<free, queue, line, since, used, faults, lost>>

FallBack(a) ==
  /\ At(a, "upstream") /\ agent[a].attempt = MaxRetries /\ HasFallback
  /\ agent' = [agent EXCEPT ![a].attempt = @ + 1, ![a].model = "fallback"]
  /\ UNCHANGED <<free, queue, line, since, used, faults, lost>>

TriedAll(a) ==
  \/ agent[a].attempt > MaxRetries
  \/ agent[a].attempt = MaxRetries /\ ~HasFallback

\* A mutant: the error of the fallback keeps the slot.
MutFail(a, transient) ==
  /\ At(a, "upstream")
  /\ transient => TriedAll(a)
  /\ free' = IF agent[a].attempt > MaxRetries THEN free ELSE free + 1
  /\ agent' = [agent EXCEPT ![a] = Failed(a, transient)]
  /\ UNCHANGED <<queue, line, since, used, faults, lost>>

\* Any other error, or a transient one when there is nothing left to try.
Fail(a, transient) ==
  /\ At(a, "upstream")
  /\ transient => TriedAll(a)
  /\ free' = free + 1
  /\ agent' = [agent EXCEPT ![a] = Failed(a, transient)]
  /\ UNCHANGED <<queue, line, since, used, faults, lost>>

-----------------------------------------------------------------------------
(* Agents.                                                                 *)

\* A main agent dispatches sub-agents, side by side, and waits for all.
Dispatch(a) ==
  /\ At(a, "acting") /\ Subs(a) # {}
  /\ \E team \in SUBSET Subs(a) \ {{}} :
       /\ \A s \in team : At(s, "idle")
       /\ agent' = [b \in Agents |->
            IF b = a THEN [agent[a] EXCEPT !.pc = "dispatched"]
            ELSE IF b \in team THEN [agent[b] EXCEPT !.pc = "ready"]
            ELSE agent[b]]
  /\ UNCHANGED <<free, queue, line, since, used, faults, lost>>

Collect(a) ==
  /\ At(a, "dispatched")
  /\ \A s \in Subs(a) : agent[s].pc \in {"idle", "over"}
  /\ agent' = [agent EXCEPT ![a].pc = "acting"]
  /\ UNCHANGED <<free, queue, line, since, used, faults, lost>>

\* Another round of reasoning, or the end of the reply.
Continue(a) ==
  /\ At(a, "acting")
  /\ \/ /\ agent[a].calls < MaxCalls
        /\ agent' = [agent EXCEPT ![a].pc = "ready"]
     \/ agent' = [agent EXCEPT ![a].pc = "over"]
  /\ UNCHANGED <<free, queue, line, since, used, faults, lost>>

\* The turn is tried again after a pause, without a slot.
TryAgain(a) ==
  /\ At(a, "resting") /\ agent[a].left = 0
  /\ agent' = [agent EXCEPT ![a].pc = "ready"]
  /\ UNCHANGED <<free, queue, line, since, used, faults, lost>>

\* A mutant: a sleep that is cancelled keeps the lock.
MutCancel(a) ==
  /\ a \notin Mains /\ agent[a].pc \notin {"idle", "over"}
  /\ faults < MaxFaults /\ faults' = faults + 1
  /\ free' = IF agent[a].pc \in Holding THEN free + 1 ELSE free
  /\ queue' = RemoveFirst(queue, a)
  /\ agent' = [agent EXCEPT ![a].pc = "over", ![a].left = 0]
  /\ UNCHANGED <<line, since, used, lost>>

\* The tool call that runs a sub-agent times out and cancels it.
Cancel(a) ==
  /\ a \notin Mains /\ agent[a].pc \notin {"idle", "over"}
  /\ faults < MaxFaults /\ faults' = faults + 1
  /\ free' = IF agent[a].pc \in Holding THEN free + 1 ELSE free
  /\ queue' = RemoveFirst(queue, a)
  /\ line' = RemoveFirst(line, a)
  /\ agent' = [agent EXCEPT ![a].pc = "over", ![a].left = 0]
  /\ UNCHANGED <<since, used, lost>>

Tick ==
  /\ since < Interval \/ \E a \in Agents : agent[a].left > 0
  /\ since' = Min({since + 1, Interval})
  /\ agent' = [a \in Agents |-> [agent[a] EXCEPT !.left = Max({@ - 1, 0})]]
  /\ UNCHANGED <<free, queue, line, used, faults, lost>>

-----------------------------------------------------------------------------
Calls(a) ==
  \/ Wait(a) \/ Acquire(a) \/ SpaceOut(a) \/ Start(a)
  \/ Respond(a) \/ Stream(a) \/ Read(a) \/ BreakOff(a)
  \/ BackOff(a) \/ Retry(a) \/ FallBack(a)
  \/ \E transient \in BOOLEAN : Fail(a, transient)

Works(a) == Dispatch(a) \/ Collect(a) \/ Continue(a) \/ TryAgain(a)

Next == Tick \/ \E a \in Agents : Calls(a) \/ Works(a) \/ Drop(a) \/ Cancel(a)

\* The event loop runs every coroutine that is ready, the gateway answers or
\* times out, a stream is read, and time passes.
Fairness == WF_vars(Tick) /\ \A a \in Agents : WF_vars(Calls(a) \/ Works(a))

Spec == Init /\ [][Next]_vars /\ Fairness

-----------------------------------------------------------------------------
(* Properties.                                                             *)

TypeOK ==
  /\ free \in 0..MaxConcurrency
  /\ queue \in Seq(Agents) /\ ToSet(queue) = {a \in Agents : At(a, "waiting")}
  /\ line \in Seq(Agents)
  /\ ToSet(line) = {a \in Agents : agent[a].pc \in {"spacing", "sleeping"}}
  /\ since \in 0..Interval
  /\ agent \in [Agents ->
       [pc : Steps, attempt : 0..MaxRetries + 1, left : Nat,
        model : {"main", "fallback"}, calls : 0..MaxCalls, tries : 0..MaxTurnRetries]]
  /\ used \in [Mains -> [main : Nat, fallback : Nat]]
  /\ faults \in 0..MaxFaults /\ lost \in Nat

\* Whatever ends a call (an answer, a stream read or broken off, an error after
\* any number of retries, a cancellation at any step) gives its slot back once:
\* a slot is free, or held by one call, or by a stream nobody reads.
SlotsAccounted ==
  /\ TypeOK
  /\ free + lost + Cardinality({a \in Agents : agent[a].pc \in Holding})
       = MaxConcurrency

\* First attempts start at least an interval apart, however many calls sleep
\* for it.  (Retries and fallbacks start whenever their pause is over.)
StartsSpaced ==
  [][\A a \in Agents :
       agent[a].pc = "sleeping" /\ agent'[a].pc = "upstream" => since = Interval]_vars

\* Calls of an intent that overlap see the budget before the others are
\* charged: the main model is asked beyond half of it only as often as there
\* are agents of the intent to ask at once.
MainSpendBounded ==
  HasFallback /\ Total > 0 =>
    \A r \in Mains :
      LET asking == {a \in Agents : /\ Root(a) = r /\ agent[a].model = "main"
                                    /\ agent[a].pc \in {"upstream", "streaming"}}
          atOnce == Max({1, Cardinality(Subs(r))})
      IN  2 * (used[r].main + Cardinality(asking)) < Total + 2 * atOnce

\* Every turn ends, although sub-agents wait for the slots that main agents
\* and other turns use, as long as not all slots are lost.
TurnsEnd ==
  \A a \in Mains : [](lost < MaxConcurrency) => <>At(a, "over")
=============================================================================

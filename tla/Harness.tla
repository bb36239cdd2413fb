------------------------------- MODULE Harness -------------------------------
(***************************************************************************)
(* The trackers the harness of one process keeps per session: the calls    *)
(* LoopDetector counts at the boundary of a tool, and the trace            *)
(* DriftDetector judges when a turn ends.  Agents are built per session    *)
(* but the two trackers are shared by every turn of it, and the end of any *)
(* of its turns clears both.                                               *)
(*                                                                         *)
(* They do not watch the same calls.  The middleware that counts is given  *)
(* to three tools of the main agent: task_dispatch, remember_preference    *)
(* and forget_preference.  Its business tools have the breaker and the     *)
(* time-out alone, its Task tools nothing, and so have the tools of the    *)
(* sub-agents, whose calls reach neither tracker and are not modelled.     *)
(* Drift is judged by the results of every tool of the main agent.         *)
(*                                                                         *)
(* The order check (SequencingTracker) is left out: the two tools it has a *)
(* rule for, create_order_tool and cancel_order_tool, are given to no      *)
(* agent any more, so that it never rejects and never warns.               *)
(***************************************************************************)
EXTENDS Integers, Sequences, FiniteSets

CONSTANTS Sessions, Intents, SessionOf,
          Watched,      \* tools behind HarnessToolMiddleware
          Unwatched,    \* the other tools of the main agent
          Repeats,      \* LOOP_REPEAT_THRESHOLD
          Window,       \* DEFAULT_WINDOW
          Interval,     \* CHECK_INTERVAL
          EmptyLimit,   \* EMPTY_RESULT_LIMIT
          Nobody,
          MaxCalls      \* bound: tool calls of a turn

ASSUME HarnessAssumption ==
  /\ SessionOf \in [Intents -> Sessions]
  /\ Watched \cap Unwatched = {}
  /\ {Repeats, Window, Interval, EmptyLimit, MaxCalls} \subseteq Nat \ {0}
  /\ Repeats <= Window   \* nothing checks LOOP_REPEAT_THRESHOLD: above 6 no hint is ever given

Tools == Watched \cup Unwatched
Kept == 3   \* actions of a trace that are kept for the judgement

VARIABLES
  called,   \* session -> the last Window watched calls in it, since its last reset
  trace,    \* session -> what the drift detector has seen since its last reset
  turn,     \* turn -> where handle_intent is
  running,  \* turn -> how many of its calls are in progress
  budget,   \* turn -> calls it may still make (bound)
  alone,    \* history: turn -> no other turn of the session has overlapped it
  made,     \* history: turn -> the tools its agent called, in order, while alone
  hinted,   \* history: turn -> which of these calls were told they go round in circles
  results,  \* history: turn -> the results it got while alone
  reported  \* history: turn -> the end of it reported a drift

histories == <<made, hinted, results, reported>>
harnessVars == <<called, trace, turn, running, budget, alone, made, hinted, results, reported>>

NoTrace == [query |-> Nobody, rounds |-> 0, recent |-> <<>>, empties |-> 0]

\* What a result is to the detector: an empty list of hits, a text with words of the query
\* of its own turn, or another one.
Contents == {"empty", "named", "other"}
Result == [of : Intents, content : Contents]

\* The last n elements of s.
LastOf(s, n) == SubSeq(s, IF Len(s) > n THEN Len(s) - n + 1 ELSE 1, Len(s))

\* trailing_repeat: does s end with Repeats equal elements, or more?
GoesRound(s) ==
  /\ Len(s) >= Repeats
  /\ \A i \in Len(s) - Repeats + 1 .. Len(s) : s[i] = s[Len(s)]

Open(t) == turn[t] \in {"replying", "closing"}

HarnessInit ==
  /\ called = [s \in Sessions |-> <<>>]
  /\ trace = [s \in Sessions |-> NoTrace]
  /\ turn = [t \in Intents |-> "waiting"]
  /\ running = [t \in Intents |-> 0]
  /\ budget = [t \in Intents |-> MaxCalls]
  /\ made = [t \in Intents |-> <<>>]
  /\ hinted = [t \in Intents |-> {}]
  /\ results = [t \in Intents |-> <<>>]
  /\ reported = [t \in Intents |-> FALSE]
  /\ alone = [t \in Intents |-> TRUE]

-----------------------------------------------------------------------------
(* A turn begins.  The query of an earlier turn that is still traced stays. *)

\* The histories of turns nothing is claimed of any more.
Forget(done) ==
  /\ made' = [u \in Intents |-> IF u \in done THEN <<>> ELSE made[u]]
  /\ hinted' = [u \in Intents |-> IF u \in done THEN {} ELSE hinted[u]]
  /\ results' = [u \in Intents |-> IF u \in done THEN <<>> ELSE results[u]]
  /\ reported' = [u \in Intents |-> u \notin done /\ reported[u]]

StartTurn(s, t) ==
  IF trace[s].query = Nobody THEN [trace[s] EXCEPT !.query = t] ELSE trace[s]

Begin(t) ==
  LET s == SessionOf[t]
      overlapped == {u \in Intents : SessionOf[u] = s /\ Open(u)}
  IN
  /\ turn[t] = "waiting"
  /\ turn' = [turn EXCEPT ![t] = "replying"]
  /\ trace' = [trace EXCEPT ![s] = StartTurn(s, t)]
  /\ alone' = [u \in Intents |->
       alone[u] /\ (overlapped # {} => u \notin overlapped \cup {t})]
  /\ Forget({u \in Intents : ~alone'[u]})
  /\ UNCHANGED <<called, running, budget>>

-----------------------------------------------------------------------------
(* A tool is called, and returns.  The calls of one round run side by side, *)
(* so that any of them may be under way when another starts or returns.     *)

CallsAfter(s, tool) == LastOf(Append(called[s], tool), Window)
LoopHint(s, tool) == GoesRound(CallsAfter(s, tool))

\* The middleware of a watched tool counts the call before it runs, and before the breaker
\* behind it may refuse it; a hint that is due goes back with the result.
Call(t, tool) ==
  LET s == SessionOf[t] IN
  /\ turn[t] = "replying" /\ budget[t] > 0
  /\ budget' = [budget EXCEPT ![t] = @ - 1]
  /\ running' = [running EXCEPT ![t] = @ + 1]
  /\ called' = IF tool \in Watched THEN [called EXCEPT ![s] = CallsAfter(s, tool)] ELSE called
  /\ made' = IF alone[t] THEN [made EXCEPT ![t] = Append(@, tool)] ELSE made
  /\ hinted' = IF alone[t] /\ tool \in Watched /\ LoopHint(s, tool)
               THEN [hinted EXCEPT ![t] = @ \cup {Len(made[t]) + 1}] ELSE hinted
  /\ UNCHANGED <<trace, turn, alone, results, reported>>

\* _observe_for_drift: the stream of the main agent is watched, whatever the tool.
Observed(s, r) ==
  [trace[s] EXCEPT !.rounds = @ + 1,
                   !.recent = LastOf(Append(@, r), Kept),
                   !.empties = IF r.content = "empty" THEN @ + 1 ELSE 0]

\* A time-out, a refusal of the breaker and an error are results too.
Return(t, content) ==
  LET s == SessionOf[t]
      r == [of |-> t, content |-> content]
  IN
  /\ turn[t] = "replying" /\ running[t] > 0
  /\ running' = [running EXCEPT ![t] = @ - 1]
  /\ trace' = [trace EXCEPT ![s] = Observed(s, r)]
  /\ results' = [results EXCEPT ![t] = IF alone[t] THEN Append(@, r) ELSE @]
  /\ UNCHANGED <<called, turn, budget, alone, made, hinted, reported>>

-----------------------------------------------------------------------------
(* A turn ends.  The judgement is made on a reply; the trackers are         *)
(* cleared after the session was stored, on every way out.                  *)

Due(tr) == tr.rounds > 0 /\ tr.rounds % Interval = 0

Forgotten(tr) ==
  /\ tr.query # Nobody /\ tr.recent # <<>>
  /\ \A i \in DOMAIN tr.recent : tr.recent[i] # [of |-> tr.query, content |-> "named"]

Drifted(tr) == Due(tr) /\ (Forgotten(tr) \/ tr.empties >= EmptyLimit)

Reply(t) ==
  /\ turn[t] = "replying" /\ running[t] = 0
  /\ turn' = [turn EXCEPT ![t] = "closing"]
  /\ reported' = [reported EXCEPT ![t] = Drifted(trace[SessionOf[t]])]
  /\ UNCHANGED <<called, trace, running, budget, alone, made, hinted, results>>

\* A cached reply, an error or a cancellation, of the calls in progress too: no judgement.
LeaveEarly(t) ==
  /\ turn[t] = "replying"
  /\ turn' = [turn EXCEPT ![t] = "closing"]
  /\ running' = [running EXCEPT ![t] = 0]
  /\ UNCHANGED <<called, trace, budget, alone, histories>>

\* Mutant of ResetLoop: the calls of the last turn are kept.
MutResetNothing(s) == called
\* Mutant of ResetDrift: the first query is kept for the session.
MutResetKeepsQuery(s) == [trace EXCEPT ![s] = [NoTrace EXCEPT !.query = trace[s].query]]

ResetLoop(s) == [called EXCEPT ![s] = <<>>]
ResetDrift(s) == [trace EXCEPT ![s] = NoTrace]

End(t) ==
  /\ turn[t] = "closing"
  /\ turn' = [turn EXCEPT ![t] = "over"]
  /\ called' = ResetLoop(SessionOf[t])
  /\ trace' = ResetDrift(SessionOf[t])
  /\ Forget({t})
  /\ UNCHANGED <<running, budget, alone>>

Step(t) ==
  \/ Begin(t)
  \/ \E tool \in Tools : Call(t, tool)
  \/ \E content \in Contents : Return(t, content)
  \/ Reply(t)
  \/ LeaveEarly(t)
  \/ End(t)

HarnessNext == \E t \in Intents : Step(t)

HarnessSpec == HarnessInit /\ [][HarnessNext]_harnessVars

-----------------------------------------------------------------------------
(* Properties.                                                             *)

\* Sequences of at most n elements of S.
Lists(S, n) == {s \in Seq(S) : Len(s) <= n}
Traces == [query : Intents \cup {Nobody}, rounds : Nat, recent : Lists(Result, Kept), empties : Nat]

\* What the trackers and the turns hold; of the calls of a session never more than
\* the window, whatever turns make them (trailing_repeat, DEFAULT_WINDOW).
HarnessTypeOK ==
  /\ called \in [Sessions -> Lists(Watched, Window)]
  /\ trace \in [Sessions -> Traces]
  /\ turn \in [Intents -> {"waiting", "replying", "closing", "over"}]
  /\ running \in [Intents -> Nat]
  /\ budget \in [Intents -> 0 .. MaxCalls]
  /\ alone \in [Intents -> BOOLEAN]
  /\ made \in [Intents -> Seq(Tools)]
  /\ hinted \in [Intents -> SUBSET Nat]
  /\ results \in [Intents -> Seq(Result)]
  /\ reported \in [Intents -> BOOLEAN]

\* Do the last r watched calls of cs, or more, all call tool?
InRow(cs, tool, r) ==
  \E j \in 1 .. Len(cs) + 1 :
    LET own == {k \in j .. Len(cs) : cs[k] \in Watched} IN
    Cardinality(own) >= r /\ \A k \in own : cs[k] = tool

\* The detector counts what the turn did (orchestrator.py:189, "within this turn"): a turn
\* that shared its session with no other at the same time is told that it goes round in
\* circles at exactly those calls of a watched tool that are the last of Repeats or more such
\* calls with no other watched tool between them, however many unwatched ones there are,
\* whatever earlier turns, or turns that failed, called.
LoopsAreHinted ==
  \A t \in Intents : alone[t] =>
    hinted[t] = {i \in DOMAIN made[t] :
                   made[t][i] \in Watched /\ InRow(SubSeq(made[t], 1, i), made[t][i], Repeats)}

\* A drift these results show: they are a multiple of Interval, and the last of
\* them all empty, or none of the last three about what was asked.
ShowDrift(rs) ==
  LET n == Len(rs) IN
  /\ n > 0 /\ n % Interval = 0
  /\ \/ n >= EmptyLimit
        /\ \A i \in 1 .. n : i > n - EmptyLimit => rs[i].content = "empty"
     \/ \A i \in 1 .. n : i > n - Kept => rs[i].content # "named"

\* What a turn that was alone in its session is reported for shows in its own
\* results, and never in what an earlier turn asked or found.
DriftIsOwn == \A t \in Intents : alone[t] /\ reported[t] => ShowDrift(results[t])
=============================================================================

--------------------------- MODULE CircuitBreaker ---------------------------
(***************************************************************************)
(* The circuit breaker of one tool: the registry of a process              *)
(* (resilience.py), the registry several processes share in Redis          *)
(* (shared_breaker.py), and the middleware that asks them before a tool    *)
(* call and tells them how it ended.                                       *)
(*                                                                         *)
(* A registry of a process is read and written without an await, so each   *)
(* of its operations is one step.  The shared one loads a state, works on  *)
(* the copy and saves it, with an await on Redis in between.               *)
(*                                                                         *)
(* Abstractions.  Time stands in countdowns: cool is what is left of       *)
(* reset_seconds since opened_at.  Past the threshold one failure more     *)
(* changes no decision, so counts stop there.  The clocks of the processes *)
(* agree.  A timeout, an exception and an ERROR chunk are one failure.     *)
(***************************************************************************)
EXTENDS Naturals

CONSTANTS
  Calls,          \* slots of tool calls; a slot is used again and again
  Processes,
  ProcessOf,      \* the process each slot belongs to
  Redis,          \* the name of the shared registry
  Threshold,      \* failure_threshold
  Reset,          \* reset_seconds
  TTL,            \* time to live of the shared state
  MaxFaults,      \* bound on failed Redis commands and cancelled calls
  None

ASSUME BreakerAssumption ==
  /\ ProcessOf \in [Calls -> Processes]
  /\ Redis \notin Processes
  /\ Threshold \in Nat \ {0}
  /\ Reset \in Nat \ {0}
  /\ TTL \in Nat /\ TTL > Reset
  /\ MaxFaults \in Nat
  /\ None \notin Nat

Registries == Processes \union {Redis}

VARIABLES
  sharing,   \* processes composed with the shared registry
  state,     \* the state in each registry
  ttl,       \* what is left of the time to live of the shared state
  pc, copy,  \* per slot: its step, the state it is about to save
  streak,    \* history: failures recorded since the last recorded success
  ever,      \* history: failures of all times
  recent,    \* history: what is left of Reset since the last failure
  disturbed, \* history: a save met another one in progress, or Redis failed
  faults

registry == <<sharing, state, ttl>>
calls    == <<pc, copy>>
history  == <<streak, ever, recent, disturbed>>
vars     == <<registry, calls, history, faults>>

\* No state in the table or in Redis.
Closed == [failures |-> 0, cool |-> None, probing |-> FALSE]

IsOpen(st) == st.cool # None

Cooling(st) == IsOpen(st) /\ st.cool > 0

HalfOpen(st) == [st EXCEPT !.probing = TRUE]

Reopened(st) == [st EXCEPT !.cool = Reset, !.probing = FALSE]

OneMore(n) == IF n < Threshold THEN n + 1 ELSE n

\* A mutant: a failed probe leaves opened_at as it is.
MutProbeKeepsClock(st) ==
  LET n == OneMore(st.failures) IN
  CASE st.probing -> [st EXCEPT !.probing = FALSE]
    [] ~st.probing /\ n < Threshold -> [st EXCEPT !.failures = n]
    [] ~st.probing /\ n >= Threshold -> [Reopened(st) EXCEPT !.failures = n]

\* What record_failure makes of a state.
Failed(st) ==
  LET n == OneMore(st.failures) IN
  CASE st.probing -> Reopened(st)
    [] ~st.probing /\ n < Threshold -> [st EXCEPT !.failures = n]
    [] ~st.probing /\ n >= Threshold -> [Reopened(st) EXCEPT !.failures = n]

\* A mutant: only opened_at is reset.
MutSuccessKeepsCount(st) == [st EXCEPT !.cool = None, !.probing = FALSE]

\* What record_success makes of it.
Succeeded(st) == Closed

RegistryOf(c) == IF ProcessOf[c] \in sharing THEN Redis ELSE ProcessOf[c]

Shares(c) == RegistryOf(c) = Redis

StateOf(c) == state[RegistryOf(c)]

At(c, step) == pc[c] = step

Goto(c, step) == pc' = [pc EXCEPT ![c] = step]

Fault == faults < MaxFaults /\ faults' = faults + 1

\* The step of c writes to Redis: does another slot hold a copy to be saved?
Disturb(c) ==
  disturbed' = (disturbed \/ \E d \in Calls \ {c} : pc[d] \in {"mark", "save"})

RedisFails == Fault /\ disturbed' = TRUE

-----------------------------------------------------------------------------
\* The shared registry is chosen where BREAKER_SHARED is set and Redis answered
\* when the process started.
Init ==
  /\ sharing \in SUBSET Processes
  /\ state = [r \in Registries |-> Closed]
  /\ ttl = 0
  /\ pc = [c \in Calls |-> "idle"]
  /\ copy = [c \in Calls |-> Closed]
  /\ streak = [r \in Registries |-> 0]
  /\ ever = [r \in Registries |-> 0]
  /\ recent = [r \in Registries |-> 0]
  /\ disturbed = FALSE
  /\ faults = 0

-----------------------------------------------------------------------------
(* allow.  A call that is refused changes nothing.                         *)

\* opened_at is not set.
AdmitClosed(c) ==
  /\ At(c, "idle") /\ ~IsOpen(StateOf(c))
  /\ Goto(c, "run")
  /\ UNCHANGED <<registry, copy, history, faults>>

\* A mutant: at most one probe is let in until it reports.
MutProbeOnlyOnce(c) ==
  /\ At(c, "idle") /\ ~Shares(c)
  /\ IsOpen(StateOf(c)) /\ ~Cooling(StateOf(c)) /\ ~StateOf(c).probing
  /\ state' = [state EXCEPT ![RegistryOf(c)] = HalfOpen(@)]
  /\ Goto(c, "probe")
  /\ UNCHANGED <<sharing, ttl, copy, history, faults>>

\* The cooldown is over.
AdmitProbe(c) ==
  /\ At(c, "idle") /\ ~Shares(c)
  /\ IsOpen(StateOf(c)) /\ ~Cooling(StateOf(c))
  /\ state' = [state EXCEPT ![RegistryOf(c)] = HalfOpen(@)]
  /\ Goto(c, "probe")
  /\ UNCHANGED <<sharing, ttl, copy, history, faults>>

\* The same on a copy of the shared state, which Mark saves.
LoadProbe(c) ==
  /\ At(c, "idle") /\ Shares(c)
  /\ IsOpen(StateOf(c)) /\ ~Cooling(StateOf(c))
  /\ copy' = [copy EXCEPT ![c] = HalfOpen(StateOf(c))]
  /\ Goto(c, "mark")
  /\ UNCHANGED <<registry, history, faults>>

\* A state that cannot be read lets every call pass.
AdmitBlind(c) ==
  /\ At(c, "idle") /\ Shares(c) /\ IsOpen(StateOf(c))
  /\ RedisFails
  /\ Goto(c, "run")
  /\ UNCHANGED <<registry, copy, streak, ever, recent>>

SaveCopy(c) ==
  /\ state' = [state EXCEPT ![Redis] = copy[c]]
  /\ ttl' = TTL
  /\ copy' = [copy EXCEPT ![c] = Closed]
  /\ Disturb(c)

Mark(c) ==
  /\ At(c, "mark")
  /\ SaveCopy(c)
  /\ Goto(c, "probe")
  /\ UNCHANGED <<sharing, streak, ever, recent, faults>>

-----------------------------------------------------------------------------
(* The end of a tool call.                                                 *)

Running(c) == pc[c] \in {"run", "probe"}

\* The tool failed, whatever becomes of the record.
Observe(r) ==
  /\ ever' = [ever EXCEPT ![r] = OneMore(@)]
  /\ recent' = [recent EXCEPT ![r] = Reset]

Record(r) == streak' = [streak EXCEPT ![r] = OneMore(@)]

Succeed(c) ==
  LET r == RegistryOf(c) IN
  /\ Running(c)
  /\ state' = [state EXCEPT ![r] = Succeeded(@)]
  /\ streak' = [streak EXCEPT ![r] = 0]
  /\ \/ Shares(c) /\ ttl' = 0 /\ Disturb(c)
     \/ ~Shares(c) /\ UNCHANGED <<ttl, disturbed>>
  /\ Goto(c, "idle")
  /\ UNCHANGED <<sharing, copy, ever, recent, faults>>

\* DEL fails: cache.delete says nothing of it.
SucceedUnrecorded(c) ==
  /\ Running(c) /\ Shares(c)
  /\ RedisFails
  /\ Goto(c, "idle")
  /\ UNCHANGED <<registry, copy, streak, ever, recent>>

FailLocal(c) ==
  LET r == RegistryOf(c) IN
  /\ Running(c) /\ ~Shares(c)
  /\ state' = [state EXCEPT ![r] = Failed(@)]
  /\ Observe(r) /\ Record(r)
  /\ Goto(c, "idle")
  /\ UNCHANGED <<sharing, ttl, copy, disturbed, faults>>

FailShared(c) ==
  /\ Running(c) /\ Shares(c)
  /\ copy' = [copy EXCEPT ![c] = Failed(StateOf(c))]
  /\ Observe(Redis)
  /\ Goto(c, "save")
  /\ UNCHANGED <<registry, streak, disturbed, faults>>

\* A state that cannot be read counts as none, and is overwritten.
FailBlind(c) ==
  /\ Running(c) /\ Shares(c)
  /\ RedisFails
  /\ copy' = [copy EXCEPT ![c] = Failed(Closed)]
  /\ Observe(Redis)
  /\ Goto(c, "save")
  /\ UNCHANGED <<registry, streak>>

Save(c) ==
  /\ At(c, "save")
  /\ SaveCopy(c)
  /\ Record(Redis)
  /\ Goto(c, "idle")
  /\ UNCHANGED <<sharing, ever, recent, faults>>

\* SET fails: the call goes on without it.
SaveLost(c) ==
  /\ pc[c] \in {"mark", "save"}
  /\ RedisFails
  /\ copy' = [copy EXCEPT ![c] = Closed]
  /\ Goto(c, IF At(c, "mark") THEN "probe" ELSE "idle")
  /\ UNCHANGED <<registry, streak, ever, recent>>

\* The caller is cancelled, as a subagent is when task_dispatch times out: the
\* middleware catches no CancelledError and records nothing.
Cancel(c) ==
  /\ ~At(c, "idle")
  /\ Fault
  /\ copy' = [copy EXCEPT ![c] = Closed]
  /\ Goto(c, "idle")
  /\ UNCHANGED <<registry, history>>

-----------------------------------------------------------------------------
Less(n) == IF n = 0 THEN 0 ELSE n - 1

Cooler(st) == [st EXCEPT !.cool = IF @ = None THEN None ELSE Less(@)]

\* Time passes.  A shared state whose time to live is over is gone.
Tick ==
  LET expires == ttl = 1 IN
  /\ ttl' = Less(ttl)
  /\ state' = [r \in Registries |->
                 IF r = Redis /\ expires THEN Closed ELSE Cooler(state[r])]
  /\ streak' = [streak EXCEPT ![Redis] = IF expires THEN 0 ELSE @]
  /\ copy' = [c \in Calls |-> Cooler(copy[c])]
  /\ recent' = [r \in Registries |-> Less(recent[r])]
  /\ disturbed' =
       (disturbed \/ (expires /\ \E d \in Calls : pc[d] \in {"mark", "save"}))
  /\ UNCHANGED <<sharing, pc, ever, faults>>

-----------------------------------------------------------------------------
Admit(c) == AdmitClosed(c) \/ AdmitProbe(c) \/ LoadProbe(c)

Fail(c) == FailLocal(c) \/ FailShared(c)

\* A tool call ends: it has a timeout.
Finish(c) == Mark(c) \/ Succeed(c) \/ Fail(c) \/ Save(c)

Disruption(c) ==
  AdmitBlind(c) \/ SucceedUnrecorded(c) \/ FailBlind(c) \/ SaveLost(c) \/ Cancel(c)

Next ==
  \/ \E c \in Calls : Admit(c) \/ Finish(c) \/ Disruption(c)
  \/ Tick

Spec ==
  /\ Init /\ [][Next]_vars
  /\ \A c \in Calls : WF_vars(Finish(c))
  /\ WF_vars(Tick)

-----------------------------------------------------------------------------
(* Properties.                                                             *)

\* A state is marked half open only while the breaker is open.
States ==
  {st \in [failures : 0 .. Threshold, cool : 0 .. Reset \union {None}, probing : BOOLEAN] :
     st.probing => IsOpen(st)}

TypeOK ==
  /\ sharing \subseteq Processes
  /\ state \in [Registries -> States]
  /\ ttl \in 0 .. TTL
  /\ pc \in [Calls -> {"idle", "mark", "run", "probe", "save"}]
  /\ copy \in [Calls -> States]
  /\ streak \in [Registries -> 0 .. Threshold]
  /\ ever \in [Registries -> 0 .. Threshold]
  /\ recent \in [Registries -> 0 .. Reset]
  /\ disturbed \in BOOLEAN
  /\ faults \in 0 .. MaxFaults

Trusted(r) == r = Redis => ~disturbed

\* Whatever is lost or overwritten, calls are refused only after Threshold
\* failures and within Reset of the last one.
RefusalJustified ==
  \A r \in Registries : Cooling(state[r]) =>
    ever[r] = Threshold /\ state[r].cool <= recent[r]

\* The breaker is open exactly when at least Threshold failures in a row were
\* recorded: in a process always, in Redis as long as no command fails and no
\* two updates of the shared state overlap.  Whatever is lost, it refuses
\* nothing without having seen as many.
OpensAtThreshold ==
  /\ TypeOK
  /\ RefusalJustified
  /\ \A r \in Registries : Trusted(r) => (IsOpen(state[r]) <=> streak[r] = Threshold)

\* After Threshold failures in a row no call of the process starts until Reset
\* has passed since the last one, whichever of them were probes.
NoCallInCooldown ==
  [][\A c \in Calls :
       /\ At(c, "idle") /\ ~Shares(c)
       /\ streak[RegistryOf(c)] = Threshold /\ recent[RegistryOf(c)] > 0
       => At(c, "idle")']_vars

\* As long as the tool is called and has ceased to fail, the breaker of a
\* process closes for good: no cancelled probe keeps it open.  The shared one
\* closes again and again; the save of a probe may undo the delete of a success.
CallsKeepComing ==
  \A p \in Processes : WF_vars(\E c \in Calls : ProcessOf[c] = p /\ Admit(c))

Recovers ==
  CallsKeepComing =>
    \/ []<><<\E c \in Calls : Fail(c)>>_vars
    \/ /\ <>[](\A p \in Processes : ~IsOpen(state[p]))
       /\ []<>(~IsOpen(state[Redis]))

=============================================================================

------------------------------- MODULE Sessions -------------------------------
(***************************************************************************)
(* The memory of one shopping session: the agent each process keeps for it *)
(* (SessionRegistry in main_agent.py), the snapshot of the agent's state   *)
(* in agent_session_states (SqlSessionStore in repositories.py), and the   *)
(* turns of handle_intent (orchestrator.py) that use them.                 *)
(*                                                                         *)
(* Turns of one session overlap: the API serves requests concurrently and  *)
(* a worker, or several, runs several tasks.  Each action is the code      *)
(* between two awaits.                                                     *)
(*                                                                         *)
(* Abstractions.  Sessions share nothing here, so there is one.  A context *)
(* is the set of messages in it; what was compressed into the summary      *)
(* counts as being in it.  An agent is named by the turn that built it.    *)
(* A hit of the reply cache is a choice where the code asks for one.  The  *)
(* record of the conversation, which follows persist, is module            *)
(* Transcript: here a turn is over when its state is stored, so that more  *)
(* turns count as over when the next one begins, never fewer.              *)
(***************************************************************************)
EXTENDS Naturals, FiniteSets

CONSTANTS
  Turns,      \* calls of handle_intent
  Processes,  \* API and workers
  MaxOpen,    \* bound on turns that overlap
  MaxFaults,  \* bound on crashes and failed database accesses
  None

Roles == {"buyer", "agent"}

Messages == Turns \X Roles

ASSUME SessionsAssumption ==
  /\ None \notin Turns \union Processes
  /\ \A ctx \in SUBSET Messages : ctx # None
  /\ MaxOpen \in Nat
  /\ MaxFaults \in Nat

VARIABLES
  \* agent_session_states
  snapshot,
  \* SessionRegistry._agents of each process, state.context of each agent
  cached, context,
  \* turns: step, process, agent, is the final text the agent's; the state read
  \* from the snapshot or dumped to be saved, and how it is to be saved
  pc, proc, agent, outcome, draft, base,
  \* history: the answers in the context a question was put in, turns that had
  \* ended when a turn began, crashes of each process and their number when a
  \* turn began, lives of a process in which two turns built an agent, whether
  \* an access failed, faults so far
  seen, before, crashes, life, raced, failed, faults

registry == <<cached, context>>
locals   == <<draft, base>>
turn     == <<pc, proc, agent, outcome, locals>>
history  == <<seen, before, crashes, life, raced, failed, faults>>
vars     == <<snapshot, registry, turn, history>>

Ended(t) == pc[t] \in {"over", "lost"}

Active(t) == pc[t] # "idle" /\ ~Ended(t)

At(t, step) == pc[t] = step

Goto(t, step) == pc' = [pc EXCEPT ![t] = step]

Fault == faults < MaxFaults /\ faults' = faults + 1

\* The life of the process that turn t runs in.
Life(t) == <<proc[t], life[t]>>

Building(t) == pc[t] \in {"load", "install"}

\* bool(agent.state.context): with history the reply cache is not asked.
Opened(ctx) == IF ctx = {} THEN "lookup" ELSE "prepare"

-----------------------------------------------------------------------------
Init ==
  /\ snapshot = None
  /\ cached = [p \in Processes |-> None]
  /\ context = [t \in Turns |-> {}]
  /\ pc = [t \in Turns |-> "idle"]
  /\ proc = [t \in Turns |-> None]
  /\ agent = [t \in Turns |-> None]
  /\ outcome = [t \in Turns |-> "none"]
  /\ draft = [t \in Turns |-> {}]
  /\ base = [t \in Turns |-> None]
  /\ seen = [t \in Turns |-> None]
  /\ before = [t \in Turns |-> {}]
  /\ crashes = [p \in Processes |-> 0]
  /\ life = [t \in Turns |-> 0]
  /\ raced = {}
  /\ failed = FALSE
  /\ faults = 0

-----------------------------------------------------------------------------
(* SessionRegistry.get_or_create.                                          *)

Begins(t, p) ==
  /\ At(t, "idle")
  /\ Cardinality({u \in Turns : Active(u)}) < MaxOpen
  /\ proc' = [proc EXCEPT ![t] = p]
  /\ life' = [life EXCEPT ![t] = crashes[p]]
  /\ before' = [before EXCEPT ![t] = {u \in Turns : Ended(u)}]

\* A mutant: an agent is restored for every turn.
MutBeginAlwaysLoads(t, p) ==
  /\ Begins(t, p)
  /\ Goto(t, "load")
  /\ UNCHANGED <<snapshot, registry, agent, outcome, locals, seen, crashes, raced,
                 failed, faults>>

\* The process has an agent for the session.
BeginCached(t, p) ==
  /\ Begins(t, p)
  /\ cached[p] # None
  /\ agent' = [agent EXCEPT ![t] = cached[p]]
  /\ Goto(t, Opened(context[cached[p]]))
  /\ UNCHANGED <<snapshot, registry, outcome, locals, seen, crashes, raced, failed, faults>>

\* It has none: the stored state is awaited before one is built.  Another turn
\* may be here already.
BeginLoading(t, p) ==
  /\ Begins(t, p)
  /\ cached[p] = None
  /\ Goto(t, "load")
  /\ raced' = IF \E u \in Turns : Building(u) /\ proc[u] = p
              THEN raced \union {<<p, crashes[p]>>} ELSE raced
  /\ UNCHANGED <<snapshot, registry, agent, outcome, locals, seen, crashes, failed, faults>>

\* _try_restore; without a snapshot the session is a new one.
Load(t) ==
  /\ At(t, "load")
  /\ draft' = [draft EXCEPT ![t] = IF snapshot = None THEN {} ELSE snapshot]
  /\ Goto(t, "install")
  /\ UNCHANGED <<snapshot, registry, proc, agent, outcome, base, history>>

\* A store that cannot be read counts as a new session.
LoadFails(t) ==
  /\ At(t, "load")
  /\ Fault /\ failed' = TRUE
  /\ draft' = [draft EXCEPT ![t] = {}]
  /\ Goto(t, "install")
  /\ UNCHANGED <<snapshot, registry, proc, agent, outcome, base, seen, before,
                 crashes, life, raced>>

\* A mutant: the restored state is not given to the agent.
MutInstallFresh(t) ==
  /\ At(t, "install")
  /\ context' = [context EXCEPT ![t] = {}]
  /\ cached' = [cached EXCEPT ![proc[t]] = t]
  /\ agent' = [agent EXCEPT ![t] = t]
  /\ draft' = [draft EXCEPT ![t] = {}]
  /\ Goto(t, Opened({}))
  /\ UNCHANGED <<snapshot, proc, outcome, base, history>>

\* The agent is built and cached, over one that another turn cached meanwhile.
Install(t) ==
  /\ At(t, "install")
  /\ context' = [context EXCEPT ![t] = draft[t]]
  /\ cached' = [cached EXCEPT ![proc[t]] = t]
  /\ agent' = [agent EXCEPT ![t] = t]
  /\ draft' = [draft EXCEPT ![t] = {}]
  /\ Goto(t, Opened(draft[t]))
  /\ UNCHANGED <<snapshot, proc, outcome, base, history>>

-----------------------------------------------------------------------------
(* The reply.                                                              *)

\* The reply cache knows the question: the agent hears nothing of it.
ReplyCached(t) ==
  /\ At(t, "lookup")
  /\ outcome' = [outcome EXCEPT ![t] = "other"]
  /\ Goto(t, "dump")
  /\ UNCHANGED <<snapshot, registry, proc, agent, locals, history>>

Add(t, role) == context' = [context EXCEPT ![agent[t]] = @ \union {<<t, role>>}]

\* The question is put in the agent's context, at the first attempt only.
Ask(t) ==
  /\ pc[t] \in {"lookup", "prepare"}
  /\ Add(t, "buyer")
  /\ seen' = [seen EXCEPT ![t] = {u \in Turns : <<u, "agent">> \in context[agent[t]]}]
  /\ Goto(t, "reply")
  /\ UNCHANGED <<snapshot, cached, proc, agent, outcome, locals, before, crashes, life,
                 raced, failed, faults>>

\* What follows the agent's answer (drift, compression, the reply cache) can
\* still raise.
Answer(t) ==
  /\ At(t, "reply")
  /\ Add(t, "agent")
  /\ \E final \in {"answered", "other"} : outcome' = [outcome EXCEPT ![t] = final]
  /\ Goto(t, "dump")
  /\ UNCHANGED <<snapshot, cached, proc, agent, locals, history>>

\* Whatever raises ends in an error text, and the turn is stored all the same.
Fail(t) ==
  /\ pc[t] \in {"lookup", "prepare", "reply"}
  /\ outcome' = [outcome EXCEPT ![t] = "other"]
  /\ Goto(t, "dump")
  /\ UNCHANGED <<snapshot, registry, proc, agent, locals, history>>

-----------------------------------------------------------------------------
(* SessionRegistry.persist and SqlSessionStore.save.                       *)

\* The state of the agent that the registry holds by now, which need not be the
\* turn's; the turn's is used no more.
Dump(t) ==
  /\ At(t, "dump")
  /\ draft' = [draft EXCEPT ![t] = context[cached[proc[t]]]]
  /\ agent' = [agent EXCEPT ![t] = None]
  /\ Goto(t, "merge")
  /\ UNCHANGED <<snapshot, registry, proc, outcome, base, history>>

\* merge() looks for the row: it is to be inserted, or updated if the state
\* differs.
Merge(t) ==
  /\ At(t, "merge")
  /\ base' = [base EXCEPT ![t] = CASE snapshot = None -> "insert"
                                   [] snapshot = draft[t] -> "nothing"
                                   [] OTHER -> "update"]
  /\ Goto(t, "save")
  /\ UNCHANGED <<snapshot, registry, proc, agent, outcome, draft, history>>

Stored(t) ==
  /\ Goto(t, "over")
  /\ draft' = [draft EXCEPT ![t] = {}]
  /\ base' = [base EXCEPT ![t] = None]
  /\ UNCHANGED <<registry, proc, agent, outcome>>

\* An insert fails when there is a row by now.
Save(t) ==
  /\ At(t, "save")
  /\ snapshot' = IF base[t] = "update" \/ (base[t] = "insert" /\ snapshot = None)
                 THEN draft[t] ELSE snapshot
  /\ Stored(t)
  /\ UNCHANGED history

SaveFails(t) ==
  /\ pc[t] \in {"merge", "save"}
  /\ Fault /\ failed' = TRUE
  /\ Stored(t)
  /\ UNCHANGED <<snapshot, seen, before, crashes, life, raced>>

-----------------------------------------------------------------------------
\* A process dies with its agents and its turns, and starts again.
Crash(p) ==
  LET gone == {t \in Turns : proc[t] = p}
      dead == {t \in gone : Active(t)}
  IN
  /\ Fault
  /\ cached' = [cached EXCEPT ![p] = None]
  /\ crashes' = [crashes EXCEPT ![p] = @ + 1]
  /\ context' = [t \in Turns |-> IF t \in gone THEN {} ELSE context[t]]
  /\ pc' = [t \in Turns |-> IF t \in dead THEN "lost" ELSE pc[t]]
  /\ agent' = [t \in Turns |-> IF t \in dead THEN None ELSE agent[t]]
  /\ draft' = [t \in Turns |-> IF t \in dead THEN {} ELSE draft[t]]
  /\ base' = [t \in Turns |-> IF t \in dead THEN None ELSE base[t]]
  /\ UNCHANGED <<snapshot, proc, outcome, seen, before, life, raced, failed>>

-----------------------------------------------------------------------------
GetOrCreate(t) ==
  \/ \E p \in Processes : BeginCached(t, p) \/ BeginLoading(t, p)
  \/ Load(t)
  \/ LoadFails(t)
  \/ Install(t)

ReplyOnce(t) == ReplyCached(t) \/ Ask(t) \/ Answer(t) \/ Fail(t)

Persist(t) == Dump(t) \/ Merge(t) \/ Save(t) \/ SaveFails(t)

Next ==
  \/ \E t \in Turns : GetOrCreate(t) \/ ReplyOnce(t) \/ Persist(t)
  \/ \E p \in Processes : Crash(p)

Spec == Init /\ [][Next]_vars

-----------------------------------------------------------------------------
(* Properties.                                                             *)

Steps == {"idle", "load", "install", "lookup", "prepare", "reply", "dump", "merge",
          "save", "over", "lost"}

\* The types; and from get_or_create on a turn has an agent, and its process one
\* in the registry, so that persist never returns for want of it.
TypeOK ==
  /\ snapshot \in (SUBSET Messages) \union {None}
  /\ cached \in [Processes -> Turns \union {None}]
  /\ context \in [Turns -> SUBSET Messages]
  /\ pc \in [Turns -> Steps]
  /\ proc \in [Turns -> Processes \union {None}]
  /\ agent \in [Turns -> Turns \union {None}]
  /\ outcome \in [Turns -> {"none", "answered", "other"}]
  /\ draft \in [Turns -> SUBSET Messages]
  /\ base \in [Turns -> {"insert", "update", "nothing", None}]
  /\ seen \in [Turns -> (SUBSET Turns) \union {None}]
  /\ before \in [Turns -> SUBSET Turns]
  /\ crashes \in [Processes -> Nat]
  /\ life \in [Turns -> Nat]
  /\ raced \subseteq Processes \X Nat
  /\ failed \in BOOLEAN
  /\ faults \in 0 .. MaxFaults
  /\ \A t \in Turns : pc[t] \in {"lookup", "prepare", "reply", "dump"} =>
       agent[t] # None /\ cached[proc[t]] # None

\* Turn t was over, with an answer of the agent, when u began.
AnsweredBefore(t, u) == t \in before[u] /\ At(t, "over") /\ outcome[t] = "answered"

\* Within one life of a process a turn is asked in a context that holds every
\* answer given before it began, though other turns overlap and saves fail:
\* unless two turns built an agent at the same time.
RememberedInProcess ==
  /\ TypeOK
  /\ \A t, u \in Turns :
       AnsweredBefore(t, u) /\ seen[u] # None /\ Life(t) = Life(u) /\ Life(t) \notin raced
         => t \in seen[u]

Overlap(t, u) ==
  t # u /\ ~At(t, "idle") /\ ~At(u, "idle") /\ t \notin before[u] /\ u \notin before[t]

\* main_agent.py:13, as far as it is true: across crashes and restarts the
\* answers are remembered, if turns come one at a time and to one process.
RememberedAfterRestart ==
  (/\ ~failed
   /\ \A t, u \in Turns : ~Overlap(t, u)
   /\ \A t, u \in Turns : proc[t] # None /\ proc[u] # None => proc[t] = proc[u])
  => \A t, u \in Turns :
       AnsweredBefore(t, u) /\ seen[u] # None => t \in seen[u]

=============================================================================

--------------------------- MODULE SessionsProofs ---------------------------
(***************************************************************************)
(* Proofs about module Sessions: what an agent remembers, for any number   *)
(* of turns, processes, crashes and failed database accesses.              *)
(*                                                                         *)
(* Both properties speak of the moment a question is put in a context, long *)
(* after the answers that have to be there.  IInv says in between where an *)
(* answer is kept: in the context of the one agent of an unraced life, and, *)
(* as long as turns come one at a time, in the snapshot and in whatever is *)
(* read from it or on the way to it.                                       *)
(***************************************************************************)
EXTENDS Sessions, TLAPS

Answered(t) == outcome[t] = "answered"

\* A turn that was begun belongs to a life of its process: a running one to the
\* present life, a lost one to a life that is over.
LivesFit ==
  \A t \in Turns :
    /\ At(t, "idle") => proc[t] = None /\ seen[t] = None /\ before[t] = {}
    /\ ~At(t, "idle") => proc[t] \in Processes
    /\ Active(t) => life[t] = crashes[proc[t]]
    /\ At(t, "lost") => life[t] < crashes[proc[t]]
    /\ ~At(t, "idle") => life[t] <= crashes[proc[t]]
    /\ before[t] \subseteq {u \in Turns : Ended(u)}
    /\ Answered(t) => pc[t] \in {"dump", "merge", "save", "over", "lost"}

\* The registry of a process holds agents of the process.
RegistryFits ==
  \A p \in Processes : cached[p] # None =>
    /\ proc[cached[p]] = p
    /\ pc[cached[p]] \notin {"idle", "load", "install"}

\* In a life that is not raced one agent is built, every turn uses it, and it
\* has every answer in its context.
OneAgent ==
  \A p \in Processes : <<p, crashes[p]>> \notin raced =>
    /\ \A t, u \in Turns :
         Building(t) /\ Building(u) /\ proc[t] = p /\ proc[u] = p => t = u
    /\ \A t \in Turns : proc[t] = p =>
         /\ Building(t) => cached[p] = None
         /\ pc[t] \in {"lookup", "prepare", "reply"} => agent[t] = cached[p]
         /\ Answered(t) /\ life[t] = crashes[p] =>
              cached[p] # None /\ <<t, "agent">> \in context[cached[p]]

\* One turn at a time, in one process, and no failed access so far.
Serial ==
  /\ ~failed
  /\ \A t, u \in Turns : ~Overlap(t, u)
  /\ \A t, u \in Turns : proc[t] # None /\ proc[u] # None => proc[t] = proc[u]

\* Then an answer of a turn that is over is in the snapshot, and in whatever is
\* made of the snapshot or will take its place.
AnswersStored ==
  \A t \in Turns : At(t, "over") /\ Answered(t) =>
    /\ snapshot # None /\ <<t, "agent">> \in snapshot
    /\ \A p \in Processes : cached[p] # None => <<t, "agent">> \in context[cached[p]]
    /\ \A u \in Turns : pc[u] \in {"install", "merge", "save"} => <<t, "agent">> \in draft[u]

\* And the turn that runs has its agent in the registry, its own answer in the
\* context or in what it saves, and will save it.
OwnKept ==
  \A u \in Turns :
    /\ pc[u] \in {"lookup", "prepare", "reply"} => agent[u] = cached[proc[u]]
    /\ pc[u] \in {"dump", "merge", "save"} /\ Answered(u) =>
         cached[proc[u]] # None /\ <<u, "agent">> \in context[cached[proc[u]]]
    /\ pc[u] \in {"merge", "save"} /\ Answered(u) => <<u, "agent">> \in draft[u]
    /\ At(u, "save") =>
         /\ base[u] \in {"insert", "update", "nothing"}
         /\ base[u] = "insert" => snapshot = None
         /\ base[u] = "nothing" => snapshot = draft[u]

IInv ==
  /\ RememberedInProcess
  /\ LivesFit
  /\ RegistryFits
  /\ OneAgent
  /\ Serial => AnswersStored /\ OwnKept
  /\ RememberedAfterRestart

-----------------------------------------------------------------------------
(* What every step shares.                                                 *)

\* The turns and what is remembered of them, as TypeOK has them.
LEMMA Types ==
  ASSUME IInv
  PROVE  /\ snapshot \in (SUBSET Messages) \union {None}
         /\ cached \in [Processes -> Turns \union {None}]
         /\ context \in [Turns -> SUBSET Messages]
         /\ pc \in [Turns -> Steps]
         /\ proc \in [Turns -> Processes \union {None}]
         /\ agent \in [Turns -> Turns \union {None}]
         /\ outcome \in [Turns -> {"none", "answered", "other"}]
         /\ draft \in [Turns -> SUBSET Messages]
         /\ base \in [Turns -> {"insert", "update", "nothing", None}]
         /\ seen \in [Turns -> (SUBSET Turns) \union {None}]
         /\ before \in [Turns -> SUBSET Turns]
         /\ crashes \in [Processes -> Nat]
         /\ life \in [Turns -> Nat]
         /\ raced \subseteq Processes \X Nat
         /\ failed \in BOOLEAN
         /\ faults \in 0 .. MaxFaults
         /\ \A t \in Turns : pc[t] \in {"lookup", "prepare", "reply", "dump"} =>
              agent[t] # None /\ cached[proc[t]] # None
BY DEF IInv, RememberedInProcess, TypeOK

\* What does not undo a turn leaves the premise of the restart property as it
\* was, or makes it false.
LEMMA SerialBefore ==
  ASSUME IInv, Serial', failed => failed',
         \A t \in Turns : ~At(t, "idle") =>
           pc'[t] # "idle" /\ before'[t] = before[t] /\ proc'[t] = proc[t]
  PROVE  Serial
<1>1. ~failed
  BY DEF Serial
<1>2. ASSUME NEW t \in Turns, NEW u \in Turns, Overlap(t, u)
      PROVE  FALSE
  <2>1. ~At(t, "idle") /\ ~At(u, "idle")
    BY <1>2 DEF Overlap
  <2>2. Overlap(t, u)'
    BY <1>2, <2>1 DEF Overlap, At
  <2> QED BY <2>2 DEF Serial
<1>3. ASSUME NEW t \in Turns, NEW u \in Turns, proc[t] # None, proc[u] # None
      PROVE  proc[t] = proc[u]
  <2>1. ~At(t, "idle") /\ ~At(u, "idle")
    BY <1>3 DEF IInv, LivesFit
  <2>2. proc'[t] = proc[t] /\ proc'[u] = proc[u]
    BY <2>1
  <2> QED BY <1>3, <2>2 DEF Serial
<1> QED BY <1>1, <1>2, <1>3 DEF Serial

\* A step that asks nothing has nothing to remember.
LEMMA NothingAsked ==
  ASSUME IInv, TypeOK', Serial' => Serial, raced \subseteq raced',
         \A t \in Turns : ~At(t, "idle") =>
           before'[t] = before[t] /\ Life(t)' = Life(t),
         \A t \in Turns : Ended(t) => pc'[t] = pc[t] /\ outcome'[t] = outcome[t],
         \A t \in Turns : seen'[t] # None => seen'[t] = seen[t]
  PROVE  RememberedInProcess' /\ RememberedAfterRestart'
<1>1. ASSUME NEW t \in Turns, NEW u \in Turns, AnsweredBefore(t, u)', seen'[u] # None
      PROVE  AnsweredBefore(t, u) /\ seen[u] # None /\ seen'[u] = seen[u]
             /\ Life(t)' = Life(t) /\ Life(u)' = Life(u)
  <2>1. seen'[u] = seen[u] /\ ~At(u, "idle")
    BY <1>1 DEF IInv, LivesFit
  <2>2. t \in before[u] /\ Life(u)' = Life(u)
    BY <1>1, <2>1 DEF AnsweredBefore
  <2>3. Ended(t)
    BY <2>2 DEF IInv, LivesFit
  <2>4. ~At(t, "idle")
    BY <2>3 DEF Ended, At
  <2>5. At(t, "over") /\ outcome[t] = "answered"
    BY <1>1, <2>3 DEF AnsweredBefore, At
  <2> QED BY <1>1, <2>1, <2>2, <2>4, <2>5 DEF AnsweredBefore
<1>2. RememberedInProcess'
  BY <1>1 DEF IInv, RememberedInProcess
<1>3. RememberedAfterRestart'
  BY <1>1 DEF IInv, RememberedAfterRestart, Serial
<1> QED BY <1>2, <1>3

\* One turn at a time.
LEMMA Alone ==
  ASSUME IInv, Serial, NEW t \in Turns, NEW u \in Turns, Active(t), Active(u)
  PROVE  t = u
<1>1. t \notin before[u] /\ u \notin before[t]
  BY DEF IInv, LivesFit, Active
<1> QED BY <1>1 DEF Serial, Overlap, Active, At

-----------------------------------------------------------------------------
(* The steps.                                                              *)

\* What begins to run belongs to the present life of its process.
LEMMA BeginFrame ==
  ASSUME IInv, NEW t \in Turns, NEW p \in Processes, Begins(t, p),
         NEW step \in Steps \ {"idle", "over", "lost"},
         pc' = [pc EXCEPT ![t] = step],
         UNCHANGED <<crashes, outcome, seen>>
  PROVE  /\ proc' \in [Turns -> Processes \union {None}]
         /\ life' \in [Turns -> Nat]
         /\ before' \in [Turns -> SUBSET Turns]
         /\ pc' \in [Turns -> Steps]
         /\ proc'[t] = p /\ life'[t] = crashes[p] /\ pc'[t] = step
         /\ \A u \in Turns : u # t =>
              /\ proc'[u] = proc[u] /\ life'[u] = life[u] /\ pc'[u] = pc[u]
              /\ before'[u] = before[u]
         /\ ~Answered(t) /\ At(t, "idle")
         /\ LivesFit'
<1>1. /\ proc' = [proc EXCEPT ![t] = p] /\ life' = [life EXCEPT ![t] = crashes[p]]
      /\ before' = [before EXCEPT ![t] = {u \in Turns : Ended(u)}]
      /\ pc[t] = "idle"
  BY DEF Begins, At
<1>2. /\ proc' \in [Turns -> Processes \union {None}] /\ life' \in [Turns -> Nat]
      /\ before' \in [Turns -> SUBSET Turns] /\ pc' \in [Turns -> Steps]
  BY <1>1, Types
<1>3. /\ proc'[t] = p /\ life'[t] = crashes[p] /\ pc'[t] = step
      /\ before'[t] = {u \in Turns : Ended(u)}
      /\ \A u \in Turns : u # t =>
           /\ proc'[u] = proc[u] /\ life'[u] = life[u] /\ pc'[u] = pc[u]
           /\ before'[u] = before[u]
  BY <1>1, Types
<1>4. ~Answered(t) /\ seen[t] = None
  BY <1>1 DEF IInv, LivesFit, At
<1>5. \A u \in Turns : Ended(u) => Ended(u)'
  BY <1>1, <1>3 DEF Ended
<1>6. LivesFit'
  <2> SUFFICES ASSUME NEW u \in Turns
               PROVE  /\ At(u, "idle")' => proc'[u] = None /\ seen'[u] = None /\ before'[u] = {}
                      /\ ~At(u, "idle")' => proc'[u] \in Processes
                      /\ Active(u)' => life'[u] = crashes'[proc'[u]]
                      /\ At(u, "lost")' => life'[u] < crashes'[proc'[u]]
                      /\ ~At(u, "idle")' => life'[u] <= crashes'[proc'[u]]
                      /\ before'[u] \subseteq {v \in Turns : Ended(v)'}
                      /\ Answered(u)' => pc'[u] \in {"dump", "merge", "save", "over", "lost"}
    BY DEF LivesFit
  <2>1. CASE u = t
    BY <1>3, <1>4, <1>5, <2>1, Types DEF At, Answered
  <2>2. CASE u # t
    BY <1>3, <1>5, <2>2 DEF IInv, LivesFit, At, Answered, Active, Ended
  <2> QED BY <2>1, <2>2
<1> QED BY <1>1, <1>2, <1>3, <1>4, <1>6 DEF At

\* A turn finds the agent of its process.
LEMMA BeginCachedStep ==
  ASSUME IInv, NEW t \in Turns, NEW p \in Processes, BeginCached(t, p)
  PROVE  IInv'
<1> DEFINE step == Opened(context[cached[p]])
<1>1. /\ Begins(t, p) /\ cached[p] # None /\ pc' = [pc EXCEPT ![t] = step]
      /\ agent' = [agent EXCEPT ![t] = cached[p]]
      /\ UNCHANGED <<snapshot, cached, context, outcome, draft, base, seen, crashes,
                     raced, failed, faults>>
  BY DEF BeginCached, Goto, registry, locals
<1>2. step \in {"lookup", "prepare"} /\ step \in Steps \ {"idle", "over", "lost"}
  BY DEF Opened, Steps
<1> HIDE DEF step
<1>3. /\ proc' \in [Turns -> Processes \union {None}]
      /\ life' \in [Turns -> Nat]
      /\ before' \in [Turns -> SUBSET Turns]
      /\ pc' \in [Turns -> Steps]
      /\ proc'[t] = p /\ life'[t] = crashes[p] /\ pc'[t] = step
      /\ \A u \in Turns : u # t =>
           /\ proc'[u] = proc[u] /\ life'[u] = life[u] /\ pc'[u] = pc[u]
           /\ before'[u] = before[u]
      /\ ~Answered(t) /\ At(t, "idle")
      /\ LivesFit'
  BY <1>1, <1>2, BeginFrame
<1>4. cached[p] \in Turns
  BY <1>1, Types
<1>5. /\ agent' \in [Turns -> Turns \union {None}] /\ agent'[t] = cached[p]
      /\ \A u \in Turns : u # t => agent'[u] = agent[u]
  BY <1>1, <1>4, Types
<1>6. TypeOK'
  <2>1. \A u \in Turns : pc'[u] \in {"lookup", "prepare", "reply", "dump"} =>
          agent'[u] # None /\ cached'[proc'[u]] # None
    BY <1>1, <1>3, <1>4, <1>5, Types, SessionsAssumption
  <2> QED BY <1>1, <1>3, <1>5, <2>1, Types DEF TypeOK
<1>7. RegistryFits'
  BY <1>1, <1>3, Types DEF IInv, RegistryFits, At
<1>8. OneAgent'
  BY <1>1, <1>2, <1>3, <1>5 DEF IInv, OneAgent, Building, Answered
<1>9. Serial' => Serial
  BY <1>1, <1>3, SerialBefore DEF At
<1>10. RememberedInProcess' /\ RememberedAfterRestart'
  BY <1>1, <1>3, <1>6, <1>9, NothingAsked DEF Ended, At, Life
<1>11. ASSUME Serial' PROVE AnswersStored' /\ OwnKept'
  BY <1>1, <1>2, <1>3, <1>5, <1>9, <1>11 DEF IInv, AnswersStored, OwnKept, At, Answered
<1> QED BY <1>3, <1>7, <1>8, <1>10, <1>11 DEF IInv

\* It finds none, and waits for the snapshot.
LEMMA BeginLoadingStep ==
  ASSUME IInv, NEW t \in Turns, NEW p \in Processes, BeginLoading(t, p)
  PROVE  IInv'
<1>1. /\ Begins(t, p) /\ cached[p] = None /\ pc' = [pc EXCEPT ![t] = "load"]
      /\ raced' = IF \E u \in Turns : Building(u) /\ proc[u] = p
                  THEN raced \union {<<p, crashes[p]>>} ELSE raced
      /\ UNCHANGED <<snapshot, cached, context, agent, outcome, draft, base, seen,
                     crashes, failed, faults>>
  BY DEF BeginLoading, Goto, registry, locals
<1>2. "load" \in Steps \ {"idle", "over", "lost"}
  BY DEF Steps
<1>3. /\ proc' \in [Turns -> Processes \union {None}]
      /\ life' \in [Turns -> Nat]
      /\ before' \in [Turns -> SUBSET Turns]
      /\ pc' \in [Turns -> Steps]
      /\ proc'[t] = p /\ life'[t] = crashes[p] /\ pc'[t] = "load"
      /\ \A u \in Turns : u # t =>
           /\ proc'[u] = proc[u] /\ life'[u] = life[u] /\ pc'[u] = pc[u]
           /\ before'[u] = before[u]
      /\ ~Answered(t) /\ At(t, "idle")
      /\ LivesFit'
  BY <1>1, <1>2, BeginFrame
<1>4. raced \subseteq raced' /\ raced' \subseteq Processes \X Nat
  BY <1>1, Types
<1>6. TypeOK'
  <2>1. \A u \in Turns : pc'[u] \in {"lookup", "prepare", "reply", "dump"} =>
          agent'[u] # None /\ cached'[proc'[u]] # None
    BY <1>1, <1>3, Types
  <2> QED BY <1>1, <1>3, <1>4, <2>1, Types DEF TypeOK
<1>7. RegistryFits'
  BY <1>1, <1>3, Types DEF IInv, RegistryFits, At
<1>8. OneAgent'
  <2> SUFFICES ASSUME NEW q \in Processes, <<q, crashes[q]>> \notin raced'
               PROVE  /\ \A u, v \in Turns :
                           Building(u)' /\ Building(v)' /\ proc'[u] = q /\ proc'[v] = q => u = v
                      /\ \A u \in Turns : proc'[u] = q =>
                           /\ Building(u)' => cached[q] = None
                           /\ pc'[u] \in {"lookup", "prepare", "reply"} => agent[u] = cached[q]
                           /\ Answered(u) /\ life'[u] = crashes[q] =>
                                cached[q] # None /\ <<u, "agent">> \in context[cached[q]]
    BY <1>1 DEF OneAgent, Answered
  <2>1. <<q, crashes[q]>> \notin raced
    BY <1>4
  <2>2. q = p => ~\E u \in Turns : Building(u) /\ proc[u] = p
    BY <1>1
  <2>3. \A u, v \in Turns :
          Building(u)' /\ Building(v)' /\ proc'[u] = q /\ proc'[v] = q => u = v
    BY <1>3, <2>1, <2>2 DEF IInv, OneAgent, Building
  <2> QED BY <1>1, <1>3, <2>1, <2>3 DEF IInv, OneAgent, Building, Answered
<1>9. Serial' => Serial
  BY <1>1, <1>3, SerialBefore DEF At
<1>10. RememberedInProcess' /\ RememberedAfterRestart'
  BY <1>1, <1>3, <1>4, <1>6, <1>9, NothingAsked DEF Ended, At, Life
<1>11. ASSUME Serial' PROVE AnswersStored' /\ OwnKept'
  BY <1>1, <1>3, <1>9, <1>11 DEF IInv, AnswersStored, OwnKept, At, Answered
<1> QED BY <1>3, <1>7, <1>8, <1>10, <1>11 DEF IInv

\* A running turn goes on; its life stays the one it is in.
LEMMA RunFrame ==
  ASSUME IInv, NEW t \in Turns, Active(t), NEW step \in Steps \ {"idle", "lost"},
         pc' = [pc EXCEPT ![t] = step],
         UNCHANGED <<proc, before, crashes, life>>, failed => failed',
         NEW final \in {"none", "answered", "other"},
         outcome' = [outcome EXCEPT ![t] = final],
         final = "answered" => step \in {"dump", "merge", "save", "over"},
         \A u \in Turns : u # t => seen'[u] = seen[u]
  PROVE  /\ pc' \in [Turns -> Steps] /\ outcome' \in [Turns -> {"none", "answered", "other"}]
         /\ pc'[t] = step /\ outcome'[t] = final
         /\ \A u \in Turns : u # t => pc'[u] = pc[u] /\ outcome'[u] = outcome[u]
         /\ proc[t] \in Processes /\ life[t] = crashes[proc[t]]
         /\ LivesFit'
         /\ Serial' => Serial
<1>1. /\ pc' \in [Turns -> Steps] /\ outcome' \in [Turns -> {"none", "answered", "other"}]
      /\ pc'[t] = step /\ outcome'[t] = final
      /\ \A u \in Turns : u # t => pc'[u] = pc[u] /\ outcome'[u] = outcome[u]
  BY Types
<1>2. proc[t] \in Processes /\ life[t] = crashes[proc[t]] /\ pc[t] # "idle" /\ ~Ended(t)
  BY DEF IInv, LivesFit, Active, At
<1>3. \A u \in Turns : Ended(u) => Ended(u)'
  BY <1>1, <1>2 DEF Ended
<1>4. LivesFit'
  <2> SUFFICES ASSUME NEW u \in Turns
               PROVE  /\ At(u, "idle")' => proc'[u] = None /\ seen'[u] = None /\ before'[u] = {}
                      /\ ~At(u, "idle")' => proc'[u] \in Processes
                      /\ Active(u)' => life'[u] = crashes'[proc'[u]]
                      /\ At(u, "lost")' => life'[u] < crashes'[proc'[u]]
                      /\ ~At(u, "idle")' => life'[u] <= crashes'[proc'[u]]
                      /\ before'[u] \subseteq {v \in Turns : Ended(v)'}
                      /\ Answered(u)' => pc'[u] \in {"dump", "merge", "save", "over", "lost"}
    BY DEF LivesFit
  <2>1. CASE u = t
    BY <1>1, <1>2, <1>3, <2>1, Types DEF IInv, LivesFit, At, Answered
  <2>2. CASE u # t
    BY <1>1, <1>3, <2>2 DEF IInv, LivesFit, At, Answered, Active, Ended
  <2> QED BY <2>1, <2>2
<1>5. \A u \in Turns : ~At(u, "idle") =>
           pc'[u] # "idle" /\ before'[u] = before[u] /\ proc'[u] = proc[u]
  BY <1>1 DEF At
<1>6. Serial' => Serial
  BY <1>5, SerialBefore
<1> QED BY <1>1, <1>2, <1>4, <1>6

\* The snapshot is read, or counts as empty: then the run is not one of those
\* the restart property speaks of.
LEMMA LoadStep ==
  ASSUME IInv, NEW t \in Turns, Load(t) \/ LoadFails(t)
  PROVE  IInv'
<1>1. /\ pc[t] = "load" /\ pc' = [pc EXCEPT ![t] = "install"]
      /\ UNCHANGED <<snapshot, cached, context, proc, agent, outcome, base, seen, before,
                     crashes, life, raced>>
  BY DEF Load, LoadFails, Goto, At, registry, history
<1>2. PICK read \in SUBSET Messages :
        /\ draft' = [draft EXCEPT ![t] = read]
        /\ ~Load(t) \/ read = IF snapshot = None THEN {} ELSE snapshot
  <2>1. CASE Load(t)
    <3>1. snapshot \in (SUBSET Messages) \union {None}
      BY Types
    <3>2. (IF snapshot = None THEN {} ELSE snapshot) \in SUBSET Messages
      BY <3>1, Zenon
    <3> QED BY <2>1, <3>2 DEF Load
  <2>2. CASE LoadFails(t) /\ ~Load(t)
    <3>1. {} \in SUBSET Messages
      OBVIOUS
    <3> QED BY <2>2, <3>1 DEF LoadFails
  <2> QED BY <2>1, <2>2
<1>3. faults' \in 0 .. MaxFaults
  <2>1. CASE Load(t)
    BY <2>1, Types DEF Load, history
  <2>2. CASE LoadFails(t)
    BY <2>2, Types, SessionsAssumption DEF LoadFails, Fault
  <2> QED BY <2>1, <2>2
<1>4. failed' \in BOOLEAN /\ (failed => failed')
  <2>1. CASE Load(t)
    BY <2>1, Types DEF Load, history
  <2>2. CASE LoadFails(t)
    BY <2>2 DEF LoadFails
  <2> QED BY <2>1, <2>2
<1>5. Load(t) \/ failed'
  BY DEF LoadFails
<1>6. Active(t) /\ "install" \in Steps \ {"idle", "lost"} /\ ~Answered(t)
  BY <1>1 DEF Active, Ended, Steps, IInv, LivesFit
<1>7. outcome[t] \in {"none", "answered", "other"} /\ outcome' = [outcome EXCEPT ![t] = outcome[t]]
  BY <1>1, Types
<1>8. /\ pc' \in [Turns -> Steps] /\ pc'[t] = "install"
      /\ \A u \in Turns : u # t => pc'[u] = pc[u]
      /\ proc[t] \in Processes /\ LivesFit' /\ (Serial' => Serial)
  BY <1>1, <1>4, <1>6, <1>7, RunFrame DEF Answered
<1>9. /\ draft' \in [Turns -> SUBSET Messages]
      /\ draft'[t] = read /\ \A u \in Turns : u # t => draft'[u] = draft[u]
  BY <1>2, Types
<1>10. TypeOK'
  <2>1. \A u \in Turns : pc'[u] \in {"lookup", "prepare", "reply", "dump"} =>
          agent'[u] # None /\ cached'[proc'[u]] # None
    BY <1>1, <1>8, Types
  <2> QED BY <1>1, <1>3, <1>4, <1>8, <1>9, <2>1, Types DEF TypeOK
<1>11. RegistryFits'
  BY <1>1, <1>8, Types DEF IInv, RegistryFits
<1>12. OneAgent'
  BY <1>1, <1>8, Types DEF IInv, OneAgent, Building, Answered
<1>13. RememberedInProcess' /\ RememberedAfterRestart'
  BY <1>1, <1>8, <1>10, NothingAsked DEF Ended, At, Life
<1>14. ASSUME Serial' PROVE AnswersStored' /\ OwnKept'
  <2>1. Load(t) /\ Serial
    BY <1>5, <1>8, <1>14 DEF Serial
  <2>2. \A u \in Turns : At(u, "over") /\ Answered(u) => <<u, "agent">> \in draft'[t]
    BY <1>2, <1>9, <2>1 DEF IInv, AnswersStored
  <2>3. AnswersStored'
    BY <1>1, <1>8, <1>9, <2>1, <2>2 DEF IInv, AnswersStored, At, Answered
  <2>4. OwnKept'
    BY <1>1, <1>8, <1>9, <2>1 DEF IInv, OwnKept, At, Answered
  <2> QED BY <2>3, <2>4
<1> QED BY <1>8, <1>11, <1>12, <1>13, <1>14 DEF IInv

\* The agent is built and cached.  If its process has one already, or another
\* turn has one, the life is raced.
LEMMA InstallStep ==
  ASSUME IInv, NEW t \in Turns, Install(t)
  PROVE  IInv'
<1> DEFINE step == Opened(draft[t])
<1>1. /\ pc[t] = "install" /\ pc' = [pc EXCEPT ![t] = step]
      /\ context' = [context EXCEPT ![t] = draft[t]]
      /\ cached' = [cached EXCEPT ![proc[t]] = t]
      /\ agent' = [agent EXCEPT ![t] = t]
      /\ draft' = [draft EXCEPT ![t] = {}]
      /\ UNCHANGED <<snapshot, proc, outcome, base, seen, before, crashes, life, raced,
                     failed, faults>>
  BY DEF Install, Goto, At, history
<1>2. step \in {"lookup", "prepare"}
  BY DEF Opened
<1> HIDE DEF step
<1>3. Active(t) /\ step \in Steps \ {"idle", "lost"} /\ ~Answered(t)
  BY <1>1, <1>2 DEF Active, Ended, Steps, IInv, LivesFit
<1>4. outcome[t] \in {"none", "answered", "other"} /\ outcome' = [outcome EXCEPT ![t] = outcome[t]]
  BY <1>1, Types
<1>5. /\ pc' \in [Turns -> Steps] /\ pc'[t] = step
      /\ \A u \in Turns : u # t => pc'[u] = pc[u]
      /\ proc[t] \in Processes /\ LivesFit' /\ (Serial' => Serial)
  BY <1>1, <1>3, <1>4, RunFrame DEF Answered
<1>6. /\ context' \in [Turns -> SUBSET Messages] /\ context'[t] = draft[t]
      /\ \A u \in Turns : u # t => context'[u] = context[u]
  BY <1>1, Types
<1>7. /\ cached' \in [Processes -> Turns \union {None}] /\ cached'[proc[t]] = t
      /\ \A p \in Processes : p # proc[t] => cached'[p] = cached[p]
  BY <1>1, <1>5, Types
<1>8. /\ agent' \in [Turns -> Turns \union {None}] /\ agent'[t] = t
      /\ draft' \in [Turns -> SUBSET Messages]
      /\ \A u \in Turns : u # t => agent'[u] = agent[u] /\ draft'[u] = draft[u]
  BY <1>1, Types
<1>9. t # None
  BY SessionsAssumption
<1>10. TypeOK'
  <2>1. ASSUME NEW u \in Turns, pc'[u] \in {"lookup", "prepare", "reply", "dump"}
        PROVE  agent'[u] # None /\ cached'[proc'[u]] # None
    <3>1. CASE u = t
      BY <1>1, <1>7, <1>8, <1>9, <3>1
    <3>2. CASE u # t
      <4>1. agent'[u] # None /\ cached[proc[u]] # None
        BY <1>5, <1>8, <2>1, <3>2, Types
      <4>2. proc[u] \in Processes
        BY <1>5, <2>1, <3>2 DEF IInv, LivesFit, At
      <4> QED BY <1>1, <1>7, <1>9, <4>1, <4>2
    <3> QED BY <3>1, <3>2
  <2> QED BY <1>1, <1>5, <1>6, <1>7, <1>8, <2>1, Types DEF TypeOK
<1>11. RegistryFits'
  BY <1>1, <1>2, <1>5, <1>7, Types DEF IInv, RegistryFits
<1>12. \A p \in Processes : cached[p] # t
  BY <1>1, <1>9 DEF IInv, RegistryFits
<1>13. OneAgent'
  <2> SUFFICES ASSUME NEW p \in Processes, <<p, crashes[p]>> \notin raced
               PROVE  /\ \A u, v \in Turns :
                           Building(u)' /\ Building(v)' /\ proc[u] = p /\ proc[v] = p => u = v
                      /\ \A u \in Turns : proc[u] = p =>
                           /\ Building(u)' => cached'[p] = None
                           /\ pc'[u] \in {"lookup", "prepare", "reply"} => agent'[u] = cached'[p]
                           /\ Answered(u) /\ life[u] = crashes[p] =>
                                cached'[p] # None /\ <<u, "agent">> \in context'[cached'[p]]
    BY <1>1 DEF OneAgent, Answered
  <2>1. \A u, v \in Turns :
          Building(u)' /\ Building(v)' /\ proc[u] = p /\ proc[v] = p => u = v
    BY <1>1, <1>2, <1>5 DEF IInv, OneAgent, Building
  <2>2. CASE p # proc[t]
    BY <1>1, <1>5, <1>6, <1>7, <1>8, <1>12, <2>1, <2>2
       DEF IInv, OneAgent, Building, Answered
  <2>3. CASE p = proc[t]
    <3>1. Building(t) /\ cached[p] = None
      BY <1>1, <2>3 DEF IInv, OneAgent, Building
    <3>2. ASSUME NEW u \in Turns, proc[u] = p, u # t
          PROVE  ~Building(u) /\ pc[u] \notin {"lookup", "prepare", "reply"}
                 /\ ~(Answered(u) /\ life[u] = crashes[p])
      BY <2>3, <3>1, <3>2, Types DEF IInv, OneAgent
    <3>3. ~Building(t)'
      BY <1>2, <1>5 DEF Building
    <3> QED BY <1>3, <1>5, <1>7, <1>8, <2>1, <2>3, <3>2, <3>3 DEF Building
  <2> QED BY <2>2, <2>3
<1>14. RememberedInProcess' /\ RememberedAfterRestart'
  BY <1>1, <1>5, <1>10, NothingAsked DEF Ended, At, Life
<1>15. ASSUME Serial' PROVE AnswersStored' /\ OwnKept'
  <2>1. Serial
    BY <1>5, <1>15
  <2>2. ASSUME NEW u \in Turns, At(u, "over")', Answered(u)'
        PROVE  /\ At(u, "over") /\ Answered(u) /\ u # t
               /\ <<u, "agent">> \in context'[t]
               /\ \A p \in Processes : cached'[p] # None => <<u, "agent">> \in context'[cached'[p]]
    <3>1. At(u, "over") /\ Answered(u) /\ u # t
      BY <1>1, <1>2, <1>5, <2>2 DEF At, Answered
    <3>2. <<u, "agent">> \in context'[t]
      BY <1>1, <1>6, <2>1, <3>1 DEF IInv, AnswersStored
    <3>3. ASSUME NEW p \in Processes, cached'[p] # None
          PROVE  <<u, "agent">> \in context'[cached'[p]]
      <4>1. CASE p = proc[t]
        BY <1>7, <3>2, <4>1
      <4>2. CASE p # proc[t]
        <5>1. cached'[p] = cached[p] /\ cached[p] \in Turns /\ cached[p] # t
          BY <1>7, <1>12, <3>3, <4>2, Types
        <5>2. <<u, "agent">> \in context[cached[p]]
          BY <2>1, <3>1, <3>3, <5>1 DEF IInv, AnswersStored
        <5> QED BY <1>6, <5>1, <5>2
      <4> QED BY <4>1, <4>2
    <3> QED BY <3>1, <3>2, <3>3
  <2>3. AnswersStored'
    BY <1>1, <1>2, <1>5, <1>8, <2>1, <2>2 DEF IInv, AnswersStored
  <2>4. OwnKept'
    <3>1. \A u \in Turns : Active(u) => u = t
      BY <1>3, <2>1, Alone
    <3>2. \A u \in Turns : pc'[u] \in {"lookup", "prepare", "reply", "dump", "merge", "save"} =>
            u = t
      BY <1>5, <3>1 DEF Active, Ended
    <3> QED BY <1>1, <1>2, <1>5, <1>7, <1>8, <3>2 DEF OwnKept, At
  <2> QED BY <2>3, <2>4
<1> QED BY <1>5, <1>11, <1>13, <1>14, <1>15 DEF IInv

\* The reply cache answers, or something raises: the answer is not the agent's.
LEMMA OtherStep ==
  ASSUME IInv, NEW t \in Turns, ReplyCached(t) \/ Fail(t)
  PROVE  IInv'
<1>1. /\ pc[t] \in {"lookup", "prepare", "reply"} /\ pc' = [pc EXCEPT ![t] = "dump"]
      /\ outcome' = [outcome EXCEPT ![t] = "other"]
      /\ UNCHANGED <<snapshot, cached, context, proc, agent, draft, base, seen, before,
                     crashes, life, raced, failed, faults>>
  BY DEF ReplyCached, Fail, Goto, At, registry, locals, history
<1>2. Active(t) /\ "dump" \in Steps \ {"idle", "lost"}
  BY <1>1 DEF Active, Ended, Steps
<1>3. /\ pc' \in [Turns -> Steps] /\ pc'[t] = "dump"
      /\ outcome' \in [Turns -> {"none", "answered", "other"}] /\ outcome'[t] = "other"
      /\ \A u \in Turns : u # t => pc'[u] = pc[u] /\ outcome'[u] = outcome[u]
      /\ proc[t] \in Processes /\ LivesFit' /\ (Serial' => Serial)
  BY <1>1, <1>2, RunFrame
<1>4. TypeOK'
  <2>1. \A u \in Turns : pc'[u] \in {"lookup", "prepare", "reply", "dump"} =>
          agent'[u] # None /\ cached'[proc'[u]] # None
    BY <1>1, <1>3, Types
  <2> QED BY <1>1, <1>3, <2>1, Types DEF TypeOK
<1>5. RegistryFits'
  BY <1>1, <1>3, Types DEF IInv, RegistryFits
<1>6. OneAgent'
  BY <1>1, <1>3, Types DEF IInv, OneAgent, Building, Answered
<1>7. RememberedInProcess' /\ RememberedAfterRestart'
  BY <1>1, <1>3, <1>4, NothingAsked DEF Ended, At, Life
<1>8. ASSUME Serial' PROVE AnswersStored' /\ OwnKept'
  BY <1>1, <1>3, <1>8 DEF IInv, AnswersStored, OwnKept, At, Answered
<1> QED BY <1>3, <1>5, <1>6, <1>7, <1>8 DEF IInv

\* What is put in the context of a turn's agent leaves the others alone.
LEMMA Added ==
  ASSUME IInv, NEW t \in Turns, NEW role \in Roles, agent[t] \in Turns, Add(t, role)
  PROVE  /\ context' \in [Turns -> SUBSET Messages]
         /\ \A a \in Turns : context[a] \subseteq context'[a]
         /\ context'[agent[t]] = context[agent[t]] \union {<<t, role>>}
<1>1. <<t, role>> \in Messages
  BY DEF Messages
<1>2. context' = [context EXCEPT ![agent[t]] = context[agent[t]] \union {<<t, role>>}]
  BY DEF Add
<1> QED BY <1>1, <1>2, Types

\* The question is put: what the agent has heard is what the context holds.
LEMMA AskStep ==
  ASSUME IInv, NEW t \in Turns, Ask(t)
  PROVE  IInv'
<1>1. /\ pc[t] \in {"lookup", "prepare"} /\ pc' = [pc EXCEPT ![t] = "reply"]
      /\ Add(t, "buyer")
      /\ seen' = [seen EXCEPT ![t] = {u \in Turns : <<u, "agent">> \in context[agent[t]]}]
      /\ UNCHANGED <<snapshot, cached, proc, agent, outcome, draft, base, before,
                     crashes, life, raced, failed, faults>>
  BY DEF Ask, Goto, locals
<1>2. agent[t] \in Turns
  BY <1>1, Types
<1>3. /\ context' \in [Turns -> SUBSET Messages]
      /\ \A a \in Turns : context[a] \subseteq context'[a]
  BY <1>1, <1>2, Added DEF Roles
<1>4. /\ seen' \in [Turns -> (SUBSET Turns) \union {None}]
      /\ seen'[t] = {u \in Turns : <<u, "agent">> \in context[agent[t]]}
      /\ \A u \in Turns : u # t => seen'[u] = seen[u]
  BY <1>1, Types
<1>5. Active(t) /\ "reply" \in Steps \ {"idle", "lost"} /\ ~Answered(t)
  BY <1>1 DEF Active, Ended, Steps, IInv, LivesFit
<1>6. outcome[t] \in {"none", "answered", "other"} /\ outcome' = [outcome EXCEPT ![t] = outcome[t]]
  BY <1>1, Types
<1>8. /\ pc' \in [Turns -> Steps] /\ pc'[t] = "reply"
      /\ \A u \in Turns : u # t => pc'[u] = pc[u]
      /\ proc[t] \in Processes /\ life[t] = crashes[proc[t]]
      /\ LivesFit' /\ (Serial' => Serial)
  BY <1>1, <1>4, <1>5, <1>6, RunFrame DEF Answered
<1>9. TypeOK'
  <2>1. \A u \in Turns : pc'[u] \in {"lookup", "prepare", "reply", "dump"} =>
          agent'[u] # None /\ cached'[proc'[u]] # None
    BY <1>1, <1>8, Types
  <2> QED BY <1>1, <1>3, <1>4, <1>8, <2>1, Types DEF TypeOK
<1>10. RegistryFits'
  BY <1>1, <1>8, Types DEF IInv, RegistryFits
<1>11. \A p \in Processes : cached[p] # None => context[cached[p]] \subseteq context'[cached[p]]
  BY <1>3, Types
<1>12. OneAgent'
  BY <1>1, <1>8, <1>11, Types DEF IInv, OneAgent, Building, Answered
<1>13. ASSUME NEW u \in Turns, AnsweredBefore(u, t)
       PROVE  At(u, "over") /\ Answered(u) /\ proc[u] \in Processes
  BY <1>13 DEF AnsweredBefore, IInv, LivesFit, At, Answered
<1>14. ASSUME NEW u \in Turns, NEW v \in Turns, AnsweredBefore(u, v)'
       PROVE  AnsweredBefore(u, v)
  BY <1>1, <1>8, <1>14 DEF AnsweredBefore, At
<1>15. RememberedInProcess'
  <2> SUFFICES ASSUME NEW u \in Turns, NEW v \in Turns, AnsweredBefore(u, v), seen'[v] # None,
                      Life(u) = Life(v), Life(u) \notin raced
               PROVE  u \in seen'[v]
    BY <1>1, <1>9, <1>14 DEF RememberedInProcess, Life
  <2>1. CASE v # t
    BY <1>4, <2>1 DEF IInv, RememberedInProcess
  <2>2. CASE v = t
    <3>1. proc[u] = proc[t] /\ life[u] = crashes[proc[t]] /\ Life(u) = <<proc[t], crashes[proc[t]]>>
      BY <1>8, <2>2 DEF Life
    <3>2. proc[t] \in Processes /\ <<proc[t], crashes[proc[t]]>> \notin raced
      BY <1>8, <3>1
    <3>3. agent[t] = cached[proc[t]] /\ pc[t] \in {"lookup", "prepare", "reply"}
      BY <1>1, <3>2 DEF IInv, OneAgent
    <3>4. Answered(u)
      BY <1>13, <2>2
    <3>5. <<u, "agent">> \in context[cached[proc[t]]]
      BY <3>1, <3>2, <3>4 DEF IInv, OneAgent
    <3> QED BY <1>4, <2>2, <3>3, <3>5
  <2> QED BY <2>1, <2>2
<1>16. ASSUME Serial'
       PROVE  AnswersStored' /\ OwnKept'
  <2>1. Serial
    BY <1>8, <1>16
  <2>2. AnswersStored'
    BY <1>1, <1>8, <1>11, <2>1 DEF IInv, AnswersStored, At, Answered
  <2>3. \A u \in Turns : u # t => pc[u] \notin {"dump", "merge", "save"}
    BY <1>5, <2>1, Alone DEF Active, Ended
  <2>4. OwnKept'
    BY <1>1, <1>8, <2>1, <2>3 DEF IInv, OwnKept, At, Answered
  <2> QED BY <2>2, <2>4
<1>17. RememberedAfterRestart'
  <2> SUFFICES ASSUME Serial', NEW u \in Turns, NEW v \in Turns,
                      AnsweredBefore(u, v), seen'[v] # None
               PROVE  u \in seen'[v]
    BY <1>14 DEF RememberedAfterRestart, Serial
  <2>1. Serial
    BY <1>8
  <2>2. CASE v # t
    BY <1>4, <2>1, <2>2 DEF IInv, RememberedAfterRestart, Serial
  <2>3. CASE v = t
    <3>1. agent[t] = cached[proc[t]] /\ cached[proc[t]] # None
      BY <1>1, <2>1, Types DEF IInv, OwnKept
    <3>2. <<u, "agent">> \in context[cached[proc[t]]]
      BY <1>8, <1>13, <2>1, <2>3, <3>1 DEF IInv, AnswersStored
    <3> QED BY <1>4, <2>3, <3>1, <3>2
  <2> QED BY <2>2, <2>3
<1> QED BY <1>8, <1>10, <1>12, <1>15, <1>16, <1>17 DEF IInv

\* The answer is put where the question was.
LEMMA AnswerStep ==
  ASSUME IInv, NEW t \in Turns, Answer(t)
  PROVE  IInv'
<1>1. /\ pc[t] = "reply" /\ pc' = [pc EXCEPT ![t] = "dump"]
      /\ Add(t, "agent")
      /\ UNCHANGED <<snapshot, cached, proc, agent, draft, base, seen, before,
                     crashes, life, raced, failed, faults>>
  BY DEF Answer, Goto, At, locals, history
<1>2. PICK final \in {"answered", "other"} : outcome' = [outcome EXCEPT ![t] = final]
  BY DEF Answer
<1>3. agent[t] \in Turns
  BY <1>1, Types
<1>4. /\ context' \in [Turns -> SUBSET Messages]
      /\ \A a \in Turns : context[a] \subseteq context'[a]
      /\ <<t, "agent">> \in context'[agent[t]]
  BY <1>1, <1>3, Added DEF Roles
<1>5. Active(t) /\ "dump" \in Steps \ {"idle", "lost"}
  BY <1>1 DEF Active, Ended, Steps
<1>6. /\ pc' \in [Turns -> Steps] /\ pc'[t] = "dump"
      /\ outcome' \in [Turns -> {"none", "answered", "other"}]
      /\ \A u \in Turns : u # t => pc'[u] = pc[u] /\ outcome'[u] = outcome[u]
      /\ proc[t] \in Processes /\ life[t] = crashes[proc[t]]
      /\ LivesFit' /\ (Serial' => Serial)
  BY <1>1, <1>2, <1>5, RunFrame
<1>7. TypeOK'
  <2>1. \A u \in Turns : pc'[u] \in {"lookup", "prepare", "reply", "dump"} =>
          agent'[u] # None /\ cached'[proc'[u]] # None
    BY <1>1, <1>6, Types
  <2> QED BY <1>1, <1>4, <1>6, <2>1, Types DEF TypeOK
<1>8. RegistryFits'
  BY <1>1, <1>6, Types DEF IInv, RegistryFits
<1>9. \A p \in Processes : cached[p] # None => context[cached[p]] \subseteq context'[cached[p]]
  BY <1>4, Types
<1>10. OneAgent'
  <2> SUFFICES ASSUME NEW p \in Processes, <<p, crashes[p]>> \notin raced
               PROVE  /\ \A u, v \in Turns :
                           Building(u)' /\ Building(v)' /\ proc[u] = p /\ proc[v] = p => u = v
                      /\ \A u \in Turns : proc[u] = p =>
                           /\ Building(u)' => cached[p] = None
                           /\ pc'[u] \in {"lookup", "prepare", "reply"} => agent[u] = cached[p]
                           /\ Answered(u)' /\ life[u] = crashes[p] =>
                                cached[p] # None /\ <<u, "agent">> \in context'[cached[p]]
    BY <1>1 DEF OneAgent
  <2>1. \A u \in Turns : Building(u)' => Building(u)
    BY <1>6 DEF Building
  <2>2. ASSUME NEW u \in Turns, proc[u] = p, Answered(u)', life[u] = crashes[p]
        PROVE  cached[p] # None /\ <<u, "agent">> \in context'[cached[p]]
    <3>1. CASE u = t
      BY <1>1, <1>3, <1>4, <2>2, <3>1, SessionsAssumption DEF IInv, OneAgent
    <3>2. CASE u # t
      BY <1>6, <1>9, <2>2, <3>2 DEF IInv, OneAgent, Answered
    <3> QED BY <3>1, <3>2
  <2> QED BY <1>6, <2>1, <2>2 DEF IInv, OneAgent
<1>11. RememberedInProcess' /\ RememberedAfterRestart'
  BY <1>1, <1>6, <1>7, NothingAsked DEF Ended, At, Life
<1>12. ASSUME Serial' PROVE AnswersStored' /\ OwnKept'
  <2>1. Serial
    BY <1>6, <1>12
  <2>2. AnswersStored'
    BY <1>1, <1>6, <1>9, <2>1 DEF IInv, AnswersStored, At, Answered
  <2>3. \A u \in Turns : u # t => pc[u] \notin {"dump", "merge", "save"}
    BY <1>5, <2>1, Alone DEF Active, Ended
  <2>4. cached[proc[t]] # None /\ <<t, "agent">> \in context'[cached[proc[t]]]
    BY <1>1, <1>4, <2>1, Types DEF IInv, OwnKept
  <2>5. OwnKept'
    BY <1>1, <1>6, <2>1, <2>3, <2>4 DEF IInv, OwnKept, At, Answered
  <2> QED BY <2>2, <2>5
<1> QED BY <1>6, <1>8, <1>10, <1>11, <1>12 DEF IInv

\* What is to be saved is taken from the agent that the registry holds.
LEMMA DumpStep ==
  ASSUME IInv, NEW t \in Turns, Dump(t)
  PROVE  IInv'
<1>1. /\ pc[t] = "dump" /\ pc' = [pc EXCEPT ![t] = "merge"]
      /\ draft' = [draft EXCEPT ![t] = context[cached[proc[t]]]]
      /\ agent' = [agent EXCEPT ![t] = None]
      /\ UNCHANGED <<snapshot, cached, context, proc, outcome, base, seen, before,
                     crashes, life, raced, failed, faults>>
  BY DEF Dump, Goto, At, registry, history
<1>2. Active(t) /\ "merge" \in Steps \ {"idle", "lost"}
  BY <1>1 DEF Active, Ended, Steps
<1>3. outcome[t] \in {"none", "answered", "other"} /\ outcome' = [outcome EXCEPT ![t] = outcome[t]]
  BY <1>1, Types
<1>4. /\ pc' \in [Turns -> Steps] /\ pc'[t] = "merge"
      /\ \A u \in Turns : u # t => pc'[u] = pc[u]
      /\ proc[t] \in Processes /\ LivesFit' /\ (Serial' => Serial)
  BY <1>1, <1>2, <1>3, RunFrame
<1>5. cached[proc[t]] \in Turns /\ context[cached[proc[t]]] \in SUBSET Messages
  BY <1>1, <1>4, Types
<1>6. /\ draft' \in [Turns -> SUBSET Messages] /\ draft'[t] = context[cached[proc[t]]]
      /\ agent' \in [Turns -> Turns \union {None}]
      /\ \A u \in Turns : u # t => draft'[u] = draft[u] /\ agent'[u] = agent[u]
  BY <1>1, <1>5, Types
<1>7. TypeOK'
  <2>1. \A u \in Turns : pc'[u] \in {"lookup", "prepare", "reply", "dump"} =>
          agent'[u] # None /\ cached'[proc'[u]] # None
    BY <1>1, <1>4, <1>6, Types
  <2> QED BY <1>1, <1>4, <1>6, <2>1, Types DEF TypeOK
<1>8. RegistryFits'
  BY <1>1, <1>4, Types DEF IInv, RegistryFits
<1>9. OneAgent'
  BY <1>1, <1>4, <1>6, Types DEF IInv, OneAgent, Building, Answered
<1>10. RememberedInProcess' /\ RememberedAfterRestart'
  BY <1>1, <1>4, <1>7, NothingAsked DEF Ended, At, Life
<1>11. ASSUME Serial' PROVE AnswersStored' /\ OwnKept'
  <2>1. Serial /\ cached[proc[t]] # None
    BY <1>1, <1>4, <1>11, Types
  <2>2. \A u \in Turns : At(u, "over") /\ Answered(u) => <<u, "agent">> \in draft'[t]
    BY <1>4, <1>6, <2>1 DEF IInv, AnswersStored
  <2>3. AnswersStored'
    BY <1>1, <1>4, <1>6, <2>1, <2>2 DEF IInv, AnswersStored, At, Answered
  <2>4. Answered(t) => <<t, "agent">> \in draft'[t]
    BY <1>1, <1>6, <2>1 DEF IInv, OwnKept, At
  <2>5. OwnKept'
    BY <1>1, <1>4, <1>6, <2>1, <2>4 DEF IInv, OwnKept, At, Answered
  <2> QED BY <2>3, <2>5
<1> QED BY <1>4, <1>8, <1>9, <1>10, <1>11 DEF IInv

\* The row is looked for.
LEMMA MergeStep ==
  ASSUME IInv, NEW t \in Turns, Merge(t)
  PROVE  IInv'
<1> DEFINE how == CASE snapshot = None -> "insert"
                    [] snapshot = draft[t] -> "nothing"
                    [] OTHER -> "update"
<1>1. /\ pc[t] = "merge" /\ pc' = [pc EXCEPT ![t] = "save"]
      /\ base' = [base EXCEPT ![t] = how]
      /\ UNCHANGED <<snapshot, cached, context, proc, agent, outcome, draft, seen, before,
                     crashes, life, raced, failed, faults>>
  BY DEF Merge, Goto, At, registry, history
<1>2. Active(t) /\ "save" \in Steps \ {"idle", "lost"}
  BY <1>1 DEF Active, Ended, Steps
<1>3. outcome[t] \in {"none", "answered", "other"} /\ outcome' = [outcome EXCEPT ![t] = outcome[t]]
  BY <1>1, Types
<1>4. /\ pc' \in [Turns -> Steps] /\ pc'[t] = "save"
      /\ \A u \in Turns : u # t => pc'[u] = pc[u]
      /\ proc[t] \in Processes /\ LivesFit' /\ (Serial' => Serial)
  BY <1>1, <1>2, <1>3, RunFrame
<1>5. /\ how \in {"insert", "update", "nothing"}
      /\ how = "insert" => snapshot = None
      /\ how = "nothing" => snapshot = draft[t]
  <2>1. CASE snapshot = None
    BY <2>1
  <2>2. CASE snapshot # None /\ snapshot = draft[t]
    BY <2>2
  <2>3. CASE snapshot # None /\ snapshot # draft[t]
    BY <2>3
  <2> QED BY <2>1, <2>2, <2>3
<1> HIDE DEF how
<1>6. /\ base' \in [Turns -> {"insert", "update", "nothing", None}]
      /\ base'[t] = how
      /\ \A u \in Turns : u # t => base'[u] = base[u]
  BY <1>1, <1>5, Types
<1>7. TypeOK'
  <2>1. \A u \in Turns : pc'[u] \in {"lookup", "prepare", "reply", "dump"} =>
          agent'[u] # None /\ cached'[proc'[u]] # None
    BY <1>1, <1>4, Types
  <2> QED BY <1>1, <1>4, <1>6, <2>1, Types DEF TypeOK
<1>8. RegistryFits'
  BY <1>1, <1>4, Types DEF IInv, RegistryFits
<1>9. OneAgent'
  BY <1>1, <1>4, Types DEF IInv, OneAgent, Building, Answered
<1>10. RememberedInProcess' /\ RememberedAfterRestart'
  BY <1>1, <1>4, <1>7, NothingAsked DEF Ended, At, Life
<1>11. ASSUME Serial' PROVE AnswersStored' /\ OwnKept'
  <2>1. Serial
    BY <1>4, <1>11
  <2>2. AnswersStored'
    BY <1>1, <1>4, <2>1 DEF IInv, AnswersStored, At, Answered
  <2>3. OwnKept'
    <3> SUFFICES ASSUME NEW u \in Turns
                 PROVE  /\ pc'[u] \in {"lookup", "prepare", "reply"} => agent[u] = cached[proc[u]]
                        /\ pc'[u] \in {"dump", "merge", "save"} /\ Answered(u) =>
                             cached[proc[u]] # None /\ <<u, "agent">> \in context[cached[proc[u]]]
                        /\ pc'[u] \in {"merge", "save"} /\ Answered(u) => <<u, "agent">> \in draft[u]
                        /\ At(u, "save")' =>
                             /\ base'[u] \in {"insert", "update", "nothing"}
                             /\ base'[u] = "insert" => snapshot = None
                             /\ base'[u] = "nothing" => snapshot = draft[u]
      BY <1>1 DEF OwnKept, Answered
    <3>1. CASE u # t
      BY <1>4, <1>6, <2>1, <3>1 DEF IInv, OwnKept, At
    <3>2. CASE u = t
      <4>1. Answered(u) => /\ <<u, "agent">> \in draft[u]
                           /\ cached[proc[u]] # None
                           /\ <<u, "agent">> \in context[cached[proc[u]]]
        BY <1>1, <2>1, <3>2 DEF IInv, OwnKept
      <4> QED BY <1>4, <1>5, <1>6, <3>2, <4>1 DEF At
    <3> QED BY <3>1, <3>2
  <2> QED BY <2>2, <2>3
<1> QED BY <1>4, <1>8, <1>9, <1>10, <1>11 DEF IInv

\* What a turn ends with: its agent's state is stored, or one access failed.
LEMMA SaveStep ==
  ASSUME IInv, NEW t \in Turns, Save(t) \/ SaveFails(t)
  PROVE  IInv'
<1>1. /\ pc[t] \in {"merge", "save"} /\ pc' = [pc EXCEPT ![t] = "over"]
      /\ draft' = [draft EXCEPT ![t] = {}]
      /\ base' = [base EXCEPT ![t] = None]
      /\ UNCHANGED <<cached, context, proc, agent, outcome, seen, before, crashes, life, raced>>
  BY DEF Save, SaveFails, Stored, Goto, At, registry, history
<1>2. Active(t) /\ "over" \in Steps \ {"idle", "lost"}
  BY <1>1 DEF Active, Ended, Steps
<1>3. outcome[t] \in {"none", "answered", "other"} /\ outcome' = [outcome EXCEPT ![t] = outcome[t]]
  BY <1>1, Types
<1>4. faults' \in 0 .. MaxFaults
  <2>1. CASE Save(t)
    BY <2>1, Types DEF Save, history
  <2>2. CASE SaveFails(t)
    BY <2>2, Types, SessionsAssumption DEF SaveFails, Fault
  <2> QED BY <2>1, <2>2
<1>5. failed' \in BOOLEAN /\ (failed => failed')
  <2>1. CASE Save(t)
    BY <2>1, Types DEF Save, history
  <2>2. CASE SaveFails(t)
    BY <2>2 DEF SaveFails
  <2> QED BY <2>1, <2>2
<1>6. snapshot' \in (SUBSET Messages) \union {None}
  <2>1. draft[t] \in SUBSET Messages /\ snapshot \in (SUBSET Messages) \union {None}
    BY Types
  <2>2. snapshot' = snapshot \/ snapshot' = draft[t]
    BY DEF Save, SaveFails
  <2> QED BY <2>1, <2>2
<1>7. /\ pc' \in [Turns -> Steps] /\ pc'[t] = "over"
      /\ \A u \in Turns : u # t => pc'[u] = pc[u]
      /\ proc[t] \in Processes /\ LivesFit' /\ (Serial' => Serial)
  BY <1>1, <1>2, <1>3, <1>5, RunFrame
<1>8. /\ draft' \in [Turns -> SUBSET Messages]
      /\ base' \in [Turns -> {"insert", "update", "nothing", None}]
      /\ \A u \in Turns : u # t => draft'[u] = draft[u] /\ base'[u] = base[u]
  BY <1>1, Types
<1>9. TypeOK'
  <2>1. \A u \in Turns : pc'[u] \in {"lookup", "prepare", "reply", "dump"} =>
          agent'[u] # None /\ cached'[proc'[u]] # None
    BY <1>1, <1>7, Types
  <2> QED BY <1>1, <1>4, <1>5, <1>6, <1>7, <1>8, <2>1, Types DEF TypeOK
<1>10. RegistryFits'
  BY <1>1, <1>7, Types DEF IInv, RegistryFits
<1>11. OneAgent'
  BY <1>1, <1>7, Types DEF IInv, OneAgent, Building, Answered
<1>12. RememberedInProcess' /\ RememberedAfterRestart'
  BY <1>1, <1>7, <1>9, NothingAsked DEF Ended, At, Life
<1>13. ASSUME Serial' PROVE AnswersStored' /\ OwnKept'
  <2>1. Serial /\ ~SaveFails(t)
    BY <1>7, <1>13 DEF Serial, SaveFails
  <2>2. /\ At(t, "save")
        /\ snapshot' = IF base[t] = "update" \/ (base[t] = "insert" /\ snapshot = None)
                       THEN draft[t] ELSE snapshot
    BY <2>1 DEF Save
  <2>3. snapshot' = draft[t]
    BY <2>1, <2>2 DEF IInv, OwnKept
  <2>4. \A u \in Turns : pc[u] \in {"lookup", "prepare", "reply", "dump", "merge", "save", "install"}
          => u = t
    BY <1>2, <2>1, Alone DEF Active, Ended
  <2>5. \A u \in Turns : pc'[u] \notin {"lookup", "prepare", "reply", "dump", "merge", "save", "install"}
    BY <1>7, <2>4
  <2>6. ASSUME NEW u \in Turns, At(u, "over")', Answered(u)'
        PROVE  /\ <<u, "agent">> \in draft[t]
               /\ \A p \in Processes : cached[p] # None => <<u, "agent">> \in context[cached[p]]
    <3>1. Answered(u)
      BY <1>1, <2>6 DEF Answered
    <3>2. CASE u # t
      BY <1>1, <1>7, <2>1, <2>6, <3>1, <3>2 DEF IInv, AnswersStored, At
    <3>3. CASE u = t
      <4>1. <<t, "agent">> \in draft[t] /\ <<t, "agent">> \in context[cached[proc[t]]]
        BY <1>1, <2>1, <3>1, <3>3 DEF IInv, OwnKept
      <4>2. ASSUME NEW p \in Processes, cached[p] # None PROVE p = proc[t]
        <5>1. cached[p] \in Turns /\ proc[cached[p]] = p
          BY <4>2, Types DEF IInv, RegistryFits
        <5> QED BY <1>7, <2>1, <5>1, SessionsAssumption DEF Serial
      <4> QED BY <3>3, <4>1, <4>2
    <3> QED BY <3>2, <3>3
  <2>7. snapshot' # None \/ \A u \in Turns : ~(At(u, "over")' /\ Answered(u)')
    BY <2>3, Types, SessionsAssumption
  <2> QED BY <1>1, <2>3, <2>5, <2>6, <2>7 DEF AnswersStored, OwnKept, At
<1> QED BY <1>7, <1>10, <1>11, <1>12, <1>13 DEF IInv

\* A process takes its agents and its running turns with it.
LEMMA CrashStep ==
  ASSUME IInv, NEW p \in Processes, Crash(p)
  PROVE  IInv'
<1> DEFINE gone == {t \in Turns : proc[t] = p}
           dead == {t \in gone : Active(t)}
<1>1. /\ cached' = [cached EXCEPT ![p] = None]
      /\ crashes' = [crashes EXCEPT ![p] = crashes[p] + 1]
      /\ context' = [t \in Turns |-> IF t \in gone THEN {} ELSE context[t]]
      /\ pc' = [t \in Turns |-> IF t \in dead THEN "lost" ELSE pc[t]]
      /\ agent' = [t \in Turns |-> IF t \in dead THEN None ELSE agent[t]]
      /\ draft' = [t \in Turns |-> IF t \in dead THEN {} ELSE draft[t]]
      /\ base' = [t \in Turns |-> IF t \in dead THEN None ELSE base[t]]
      /\ UNCHANGED <<snapshot, proc, outcome, seen, before, life, raced, failed>>
  BY DEF Crash
<1>2. faults' \in 0 .. MaxFaults
  BY Types, SessionsAssumption DEF Crash, Fault
<1>3. ASSUME NEW t \in Turns
      PROVE  /\ t \in gone <=> proc[t] = p
             /\ t \in dead <=> proc[t] = p /\ Active(t)
             /\ pc'[t] = IF t \in dead THEN "lost" ELSE pc[t]
             /\ context'[t] = IF t \in gone THEN {} ELSE context[t]
             /\ draft'[t] = IF t \in dead THEN {} ELSE draft[t]
             /\ agent'[t] = IF t \in dead THEN None ELSE agent[t]
             /\ base'[t] = IF t \in dead THEN None ELSE base[t]
  BY <1>1
<1>4. /\ pc' \in [Turns -> Steps]
      /\ context' \in [Turns -> SUBSET Messages]
      /\ agent' \in [Turns -> Turns \union {None}]
      /\ draft' \in [Turns -> SUBSET Messages]
      /\ base' \in [Turns -> {"insert", "update", "nothing", None}]
  <2>1. "lost" \in Steps
    BY DEF Steps
  <2>2. pc' \in [Turns -> Steps]
    BY <1>1, <2>1, Types
  <2>3. context' \in [Turns -> SUBSET Messages] /\ draft' \in [Turns -> SUBSET Messages]
    BY <1>1, Types
  <2>4. agent' \in [Turns -> Turns \union {None}]
    BY <1>1, Types
  <2>5. base' \in [Turns -> {"insert", "update", "nothing", None}]
    BY <1>1, Types
  <2> QED BY <2>2, <2>3, <2>4, <2>5
<1> HIDE DEF gone, dead
<1>5. /\ crashes' \in [Processes -> Nat] /\ crashes'[p] = crashes[p] + 1
      /\ cached' \in [Processes -> Turns \union {None}] /\ cached'[p] = None
      /\ \A q \in Processes : q # p => crashes'[q] = crashes[q] /\ cached'[q] = cached[q]
  BY <1>1, Types
<1>6. \A q \in Processes : cached'[q] # None =>
        /\ q # p /\ cached'[q] = cached[q] /\ proc[cached[q]] = q
        /\ cached[q] \in Turns /\ context'[cached[q]] = context[cached[q]]
        /\ pc[cached[q]] \notin {"idle", "load", "install"}
  BY <1>3, <1>5, Types DEF IInv, RegistryFits
<1>7. \A t \in Turns : pc'[t] \notin {"idle", "over", "lost"} =>
        t \notin dead /\ proc[t] # p /\ Active(t) /\ proc[t] \in Processes
  <2> SUFFICES ASSUME NEW t \in Turns, pc'[t] \notin {"idle", "over", "lost"}
               PROVE  t \notin dead /\ proc[t] # p /\ Active(t) /\ proc[t] \in Processes
    OBVIOUS
  <2>1. t \notin dead /\ pc'[t] = pc[t]
    BY <1>3
  <2>2. Active(t)
    BY <2>1 DEF Active, Ended
  <2>3. proc[t] \in Processes
    BY <2>2 DEF IInv, LivesFit, Active, At
  <2> QED BY <1>3, <2>1, <2>2, <2>3
<1>8. TypeOK'
  <2>1. ASSUME NEW t \in Turns, pc'[t] \in {"lookup", "prepare", "reply", "dump"}
        PROVE  agent'[t] # None /\ cached'[proc'[t]] # None
    <3>1. t \notin dead /\ proc[t] # p /\ proc[t] \in Processes
      BY <1>7, <2>1
    <3> QED BY <1>1, <1>3, <1>5, <2>1, <3>1, Types
  <2> QED BY <1>1, <1>2, <1>4, <1>5, <2>1, Types DEF TypeOK
<1>9. LivesFit'
  <2> SUFFICES ASSUME NEW t \in Turns
               PROVE  /\ At(t, "idle")' => proc'[t] = None /\ seen'[t] = None /\ before'[t] = {}
                      /\ ~At(t, "idle")' => proc'[t] \in Processes
                      /\ Active(t)' => life'[t] = crashes'[proc'[t]]
                      /\ At(t, "lost")' => life'[t] < crashes'[proc'[t]]
                      /\ ~At(t, "idle")' => life'[t] <= crashes'[proc'[t]]
                      /\ before'[t] \subseteq {u \in Turns : Ended(u)'}
                      /\ Answered(t)' => pc'[t] \in {"dump", "merge", "save", "over", "lost"}
    BY DEF LivesFit
  <2>1. /\ At(t, "idle") => proc[t] = None /\ seen[t] = None /\ before[t] = {}
        /\ ~At(t, "idle") => proc[t] \in Processes
        /\ Active(t) => life[t] = crashes[proc[t]]
        /\ At(t, "lost") => life[t] < crashes[proc[t]]
        /\ ~At(t, "idle") => life[t] <= crashes[proc[t]]
        /\ before[t] \subseteq {u \in Turns : Ended(u)}
        /\ Answered(t) => pc[t] \in {"dump", "merge", "save", "over", "lost"}
    BY DEF IInv, LivesFit
  <2>2. \A u \in Turns : Ended(u) => Ended(u)'
    BY <1>3 DEF Ended
  <2>3. life[t] \in Nat /\ (proc[t] \in Processes => crashes[proc[t]] \in Nat)
    BY Types
  <2>4. CASE t \in dead
    <3>1. proc[t] = p /\ pc'[t] = "lost" /\ life[t] = crashes[p] /\ pc[t] # "idle"
      BY <1>3, <2>1, <2>4 DEF Active
    <3> QED BY <1>1, <1>5, <2>1, <2>2, <2>3, <3>1 DEF At, Active, Ended, Answered
  <2>5. CASE t \notin dead
    <3>1. pc'[t] = pc[t] /\ (Active(t) => proc[t] # p)
      BY <1>3, <2>5
    <3>2. Active(t)' = Active(t) /\ At(t, "idle")' = At(t, "idle") /\ At(t, "lost")' = At(t, "lost")
      BY <3>1 DEF Active, Ended, At
    <3>3. ~At(t, "idle") => crashes'[proc[t]] >= crashes[proc[t]]
      BY <1>5, <2>1, <2>3
    <3>4. Active(t) => crashes'[proc[t]] = crashes[proc[t]]
      BY <1>5, <2>1, <3>1 DEF Active, At
    <3>5. ~At(t, "idle") => crashes'[proc[t]] \in Nat
      BY <1>5, <2>1
    <3>6. At(t, "lost") => ~At(t, "idle")
      BY DEF At
    <3> QED BY <1>1, <2>1, <2>2, <2>3, <3>1, <3>2, <3>3, <3>4, <3>5, <3>6 DEF Answered
  <2> QED BY <2>4, <2>5
<1>10. RegistryFits'
  <2>1. ASSUME NEW q \in Processes, cached'[q] # None
        PROVE  proc'[cached'[q]] = q /\ pc'[cached'[q]] \notin {"idle", "load", "install"}
    BY <1>1, <1>3, <1>6, <2>1
  <2> QED BY <2>1 DEF RegistryFits
<1>11. OneAgent'
  <2> SUFFICES ASSUME NEW q \in Processes, <<q, crashes'[q]>> \notin raced
               PROVE  /\ \A u, v \in Turns :
                           Building(u)' /\ Building(v)' /\ proc[u] = q /\ proc[v] = q => u = v
                      /\ \A u \in Turns : proc[u] = q =>
                           /\ Building(u)' => cached'[q] = None
                           /\ pc'[u] \in {"lookup", "prepare", "reply"} => agent'[u] = cached'[q]
                           /\ Answered(u) /\ life[u] = crashes'[q] =>
                                cached'[q] # None /\ <<u, "agent">> \in context'[cached'[q]]
    BY <1>1 DEF OneAgent, Answered
  <2>1. CASE q = p
    <3>1. \A u \in Turns : proc[u] = p =>
            ~Building(u)' /\ pc'[u] \notin {"lookup", "prepare", "reply"}
      BY <1>7 DEF Building
    <3>2. ASSUME NEW u \in Turns, proc[u] = p, Answered(u) PROVE life[u] # crashes'[p]
      <4>1. ~At(u, "idle")
        BY <3>2 DEF IInv, LivesFit, At
      <4>2. life[u] <= crashes[p] /\ life[u] \in Nat /\ crashes[p] \in Nat
        BY <3>2, <4>1, Types DEF IInv, LivesFit
      <4> QED BY <1>5, <4>2
    <3> QED BY <2>1, <3>1, <3>2
  <2>2. CASE q # p
    <3>1. crashes'[q] = crashes[q] /\ cached'[q] = cached[q] /\ <<q, crashes[q]>> \notin raced
      BY <1>5, <2>2
    <3>2. \A u \in Turns : proc[u] = q => pc'[u] = pc[u] /\ agent'[u] = agent[u]
      BY <1>3, <2>2
    <3> QED BY <1>6, <3>1, <3>2 DEF IInv, OneAgent, Building
  <2> QED BY <2>1, <2>2
<1>12. Serial' => Serial
  <2>1. \A t \in Turns : ~At(t, "idle") =>
          pc'[t] # "idle" /\ before'[t] = before[t] /\ proc'[t] = proc[t]
    BY <1>1, <1>3 DEF At
  <2> QED BY <1>1, <2>1, SerialBefore
<1>13. RememberedInProcess' /\ RememberedAfterRestart'
  <2>1. \A t \in Turns : Ended(t) => pc'[t] = pc[t] /\ outcome'[t] = outcome[t]
    BY <1>1, <1>3 DEF Active
  <2> QED BY <1>1, <1>8, <1>12, <2>1, NothingAsked DEF Life
<1>14. ASSUME Serial' PROVE AnswersStored' /\ OwnKept'
  <2>1. Serial
    BY <1>12, <1>14
  <2>2. ASSUME NEW t \in Turns, At(t, "over")', Answered(t)'
        PROVE  At(t, "over") /\ Answered(t)
    BY <1>1, <1>3, <2>2 DEF At, Answered
  <2>3. \A u \in Turns : pc'[u] \in {"install", "merge", "save"} =>
          draft'[u] = draft[u] /\ pc'[u] = pc[u]
    BY <1>3, <1>7
  <2>4. AnswersStored'
    BY <1>1, <1>6, <2>1, <2>2, <2>3 DEF IInv, AnswersStored
  <2>5. OwnKept'
    <3> SUFFICES ASSUME NEW u \in Turns,
                        pc'[u] \in {"lookup", "prepare", "reply", "dump", "merge", "save"}
                 PROVE  /\ pc'[u] \in {"lookup", "prepare", "reply"} => agent'[u] = cached'[proc[u]]
                        /\ pc'[u] \in {"dump", "merge", "save"} /\ Answered(u) =>
                             cached'[proc[u]] # None /\ <<u, "agent">> \in context'[cached'[proc[u]]]
                        /\ pc'[u] \in {"merge", "save"} /\ Answered(u) => <<u, "agent">> \in draft'[u]
                        /\ At(u, "save")' =>
                             /\ base'[u] \in {"insert", "update", "nothing"}
                             /\ base'[u] = "insert" => snapshot = None
                             /\ base'[u] = "nothing" => snapshot = draft'[u]
      BY <1>1 DEF OwnKept, Answered, At
    <3>1. u \notin dead /\ proc[u] # p /\ proc[u] \in Processes
      BY <1>7
    <3>2. /\ pc'[u] = pc[u] /\ agent'[u] = agent[u] /\ draft'[u] = draft[u] /\ base'[u] = base[u]
          /\ cached'[proc[u]] = cached[proc[u]]
      BY <1>3, <1>5, <3>1
    <3>3. cached[proc[u]] # None => context'[cached[proc[u]]] = context[cached[proc[u]]]
      BY <1>6, <3>1, <3>2
    <3> QED BY <2>1, <3>2, <3>3 DEF IInv, OwnKept, At
  <2> QED BY <2>4, <2>5
<1> QED BY <1>9, <1>10, <1>11, <1>13, <1>14 DEF IInv

-----------------------------------------------------------------------------
(* The theorems.                                                           *)

LEMMA InitIInv == Init => IInv
<1> SUFFICES ASSUME Init PROVE IInv
  OBVIOUS
<1> USE DEF Init
<1>1. TypeOK
  <2>1. 0 \in 0 .. MaxFaults /\ "idle" \in Steps
    BY SessionsAssumption DEF Steps
  <2>2. failed \in BOOLEAN
    OBVIOUS
  <2> QED BY <2>1, <2>2 DEF TypeOK
<1>2. RememberedInProcess /\ RememberedAfterRestart
  BY <1>1 DEF RememberedInProcess, RememberedAfterRestart, AnsweredBefore
<1>3. LivesFit
  BY DEF LivesFit, At, Active, Ended, Answered
<1>4. RegistryFits
  BY DEF RegistryFits
<1>5. OneAgent
  BY DEF OneAgent, Building, Answered
<1>6. AnswersStored /\ OwnKept
  BY DEF AnswersStored, OwnKept, At, Answered
<1> QED BY <1>2, <1>3, <1>4, <1>5, <1>6 DEF IInv

LEMMA StutterStep == IInv /\ UNCHANGED vars => IInv'
<1> SUFFICES ASSUME IInv, UNCHANGED vars PROVE IInv'
  OBVIOUS
<1> USE DEF vars, registry, turn, locals, history
<1>1. RememberedInProcess' /\ RememberedAfterRestart'
  BY DEF IInv, RememberedInProcess, RememberedAfterRestart, TypeOK, AnsweredBefore, At, Life,
         Overlap
<1>2. LivesFit' /\ RegistryFits' /\ OneAgent'
  BY DEF IInv, LivesFit, RegistryFits, OneAgent, At, Active, Ended, Answered, Building
<1>3. ASSUME Serial' PROVE AnswersStored' /\ OwnKept'
  <2>1. Serial
    BY <1>3 DEF Serial, Overlap, At
  <2> QED BY <2>1 DEF IInv, AnswersStored, OwnKept, At, Answered
<1> QED BY <1>1, <1>2, <1>3 DEF IInv

\* IInv is inductive.
THEOREM Invariant == Spec => []IInv
<1>1. IInv /\ [Next]_vars => IInv'
  <2> SUFFICES ASSUME IInv, [Next]_vars PROVE IInv'
    OBVIOUS
  <2>1. CASE \E t \in Turns : GetOrCreate(t)
    BY <2>1, BeginCachedStep, BeginLoadingStep, LoadStep, InstallStep DEF GetOrCreate
  <2>2. CASE \E t \in Turns : ReplyOnce(t)
    BY <2>2, OtherStep, AskStep, AnswerStep DEF ReplyOnce
  <2>3. CASE \E t \in Turns : Persist(t)
    BY <2>3, DumpStep, MergeStep, SaveStep DEF Persist
  <2>4. CASE \E p \in Processes : Crash(p)
    BY <2>4, CrashStep
  <2>5. CASE UNCHANGED vars
    BY <2>5, StutterStep
  <2> QED BY <2>1, <2>2, <2>3, <2>4, <2>5 DEF Next
<1> QED BY <1>1, InitIInv, PTL DEF Spec

\* In one life of a process an answer is there for every question put after it,
\* whatever overlaps, unless two turns built an agent at the same time
\* (main_agent.py: SessionRegistry.get_or_create).
THEOREM RemembersInProcess == Spec => []RememberedInProcess
<1>1. IInv => RememberedInProcess
  BY DEF IInv
<1> QED BY <1>1, Invariant, PTL

\* Turns that come one at a time and to one process remember across its
\* restarts (main_agent.py: SessionRegistry.persist and _try_restore).
THEOREM RemembersAfterRestart == Spec => []RememberedAfterRestart
<1>1. IInv => RememberedAfterRestart
  BY DEF IInv
<1> QED BY <1>1, Invariant, PTL
=============================================================================

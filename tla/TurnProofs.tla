----------------------------- MODULE TurnProofs -----------------------------
(***************************************************************************)
(* Proofs about what goes with a turn: the breaker its tool calls go       *)
(* through (CircuitBreaker), the trackers that watch them (Harness) and    *)
(* the record it leaves (Transcript).  The three specifications share no   *)
(* state; what is proved of each stands in a part of its own.              *)
(*                                                                         *)
(* CircuitBreaker, for any number of calls and processes, any threshold    *)
(* and any reset time.  A state in a registry is justified by the failures *)
(* that were seen: this holds of the copies that wait to be saved as well, *)
(* and so it survives every lost update.  A state that is trusted,         *)
(* besides, counts what was recorded; of the copies this holds as long as  *)
(* nobody has written since they were loaded, and a write that overtakes   *)
(* one is what "disturbed" stands for.                                     *)
(*                                                                         *)
(* Harness, for any number of sessions, turns, tools and calls, any window *)
(* no shorter than what counts as a repetition.  Nothing is claimed of a   *)
(* turn that overlapped another one; a turn that did not is the only open  *)
(* one of its session (Lonely) and finds both trackers cleared (Clean).    *)
(* So they hold its own results, cut to what is kept, and as far back as   *)
(* the window goes the window ends in equal calls exactly if the last      *)
(* watched calls of the turn are equal, whatever unwatched ones it made    *)
(* between them (Tracked).  A watched call lengthens the row of its tool   *)
(* and ends every other, in the window (EndsAfterCall) as in the calls of  *)
(* the turn (WatchedRow); an unwatched one does neither.                   *)
(*                                                                         *)
(* Transcript, for any number of turns and of faults.  Its invariant says  *)
(* why max + 1 without a lock still orders what has to be ordered: the     *)
(* rows of a turn that was over cannot grow (History), so whatever index a *)
(* later turn reads is at least theirs (Reads), and a turn writes its      *)
(* question, if at all, before its answer is read for (Written).  And it   *)
(* says why no two turns drop each other: the one that made the row of the *)
(* session overlaps every turn that found none (Creator), and itself goes  *)
(* on (Progress).                                                          *)
(***************************************************************************)
EXTENDS CircuitBreaker, Harness, Transcript, SequenceTheorems, FiniteSetTheorems, TLAPS

\* The failures st tells of are among the n that were seen, and it cools no
\* longer than is left of the reset time of the last one.
Justified(st, n, left) ==
  /\ st.failures <= n
  /\ IsOpen(st) => n = Threshold /\ st.cool <= left

AllJustified ==
  /\ \A r \in Registries : Justified(state[r], ever[r], recent[r])
  /\ \A c \in Calls : Justified(copy[c], ever[Redis], recent[Redis])

\* A breaker is open when its count is full.
FullIffOpen(st) == IsOpen(st) <=> st.failures = Threshold

\* A registry counts the failures that were recorded.
Counts(r) == state[r].failures = streak[r] /\ FullIffOpen(state[r])

\* What a slot is about to save: the state of Redis half open, or with one
\* failure more.
CopyFits(c) ==
  /\ At(c, "mark") =>
       /\ copy[c].failures = state[Redis].failures
       /\ IsOpen(copy[c]) /\ IsOpen(state[Redis])
  /\ At(c, "save") =>
       /\ copy[c].failures = OneMore(state[Redis].failures)
       /\ FullIffOpen(copy[c])

Counted ==
  /\ \A r \in Registries : Trusted(r) => Counts(r)
  /\ ~disturbed => \A c \in Calls : CopyFits(c)

\* In a process nothing comes between a failure and its record.
ClocksAgree ==
  \A p \in Processes : IsOpen(state[p]) => state[p].cool = recent[p]

IInv == TypeOK /\ AllJustified /\ Counted /\ ClocksAgree

-----------------------------------------------------------------------------
(* What the operations make of a state.                                    *)

LEMMA OneMoreType ==
  ASSUME NEW n \in 0 .. Threshold
  PROVE  OneMore(n) \in 0 .. Threshold /\ OneMore(n) >= n
BY BreakerAssumption DEF OneMore

LEMMA StateTypes ==
  ASSUME NEW st \in States
  PROVE  /\ Failed(st) \in States /\ Cooler(st) \in States /\ Closed \in States
         /\ IsOpen(st) => HalfOpen(st) \in States
         /\ st.cool \in Nat \/ ~IsOpen(st)
<1> USE BreakerAssumption DEF States, IsOpen
<1>1. Failed(st) \in States
  <2>1. OneMore(st.failures) \in 0 .. Threshold
    BY DEF OneMore
  <2>2. CASE st.probing
    <3>1. Failed(st) = [st EXCEPT !.cool = Reset, !.probing = FALSE]
      BY <2>2 DEF Failed, Reopened
    <3>2. Failed(st) = [failures |-> st.failures, cool |-> Reset, probing |-> FALSE]
      BY <3>1
    <3> QED BY <3>2
  <2>3. CASE ~st.probing /\ OneMore(st.failures) < Threshold
    BY <2>1, <2>3 DEF Failed
  <2>4. CASE ~st.probing /\ OneMore(st.failures) >= Threshold
    <3>1. Failed(st) = [[st EXCEPT !.cool = Reset, !.probing = FALSE]
                          EXCEPT !.failures = OneMore(st.failures)]
      BY ONLY <2>1, <2>4, BreakerAssumption DEF Failed, Reopened
    <3>2. Failed(st) =
            [failures |-> OneMore(st.failures), cool |-> Reset, probing |-> FALSE]
      BY <3>1
    <3> QED BY <2>1, <3>2
  <2> QED BY <2>1, <2>2, <2>3, <2>4
<1>2. Cooler(st) \in States
  BY DEF Cooler, Less
<1>3. Closed \in States
  BY DEF Closed
<1>4. IsOpen(st) => HalfOpen(st) \in States
  BY DEF HalfOpen
<1> QED BY <1>1, <1>2, <1>3, <1>4

\* One failure more; a breaker whose count is full cools for all of Reset.
LEMMA FailedCounts ==
  ASSUME NEW st \in States, FullIffOpen(st)
  PROVE  /\ Failed(st).failures = OneMore(st.failures)
         /\ FullIffOpen(Failed(st))
         /\ IsOpen(Failed(st)) => Failed(st).cool = Reset
BY BreakerAssumption DEF States, FullIffOpen, IsOpen, Failed, OneMore, Reopened

LEMMA CoolerCounts ==
  ASSUME NEW st \in States
  PROVE  /\ Cooler(st).failures = st.failures
         /\ IsOpen(Cooler(st)) <=> IsOpen(st)
         /\ IsOpen(st) => Cooler(st).cool = Less(st.cool)
BY BreakerAssumption DEF States, IsOpen, Cooler, Less

-----------------------------------------------------------------------------
(* Types.                                                                  *)

LEMMA RegistryType ==
  ASSUME TypeOK, NEW c \in Calls
  PROVE  /\ RegistryOf(c) \in Registries
         /\ Shares(c) => RegistryOf(c) = Redis
         /\ ~Shares(c) => RegistryOf(c) \in Processes /\ RegistryOf(c) # Redis
         /\ StateOf(c) \in States
BY BreakerAssumption DEF TypeOK, RegistryOf, Shares, StateOf, Registries

\* The steps by which a call is let in.
LEMMA AdmitType ==
  ASSUME TypeOK, NEW c \in Calls, Admit(c) \/ AdmitBlind(c)
  PROVE  TypeOK'
<1> USE BreakerAssumption, RegistryType
    DEF TypeOK, registry, calls, history, Goto, RedisFails, Fault
<1>1. CASE AdmitClosed(c)
  BY <1>1 DEF AdmitClosed
<1>2. CASE AdmitProbe(c)
  <2>1. HalfOpen(StateOf(c)) \in States
    BY <1>2, StateTypes DEF AdmitProbe
  <2>2. state' \in [Registries -> States]
    BY <1>2, <2>1 DEF AdmitProbe, StateOf
  <2> QED BY <1>2, <2>2 DEF AdmitProbe
<1>3. CASE LoadProbe(c)
  <2>1. HalfOpen(StateOf(c)) \in States
    BY <1>3, StateTypes DEF LoadProbe
  <2> QED BY <1>3, <2>1 DEF LoadProbe
<1>4. CASE AdmitBlind(c)
  BY <1>4 DEF AdmitBlind
<1> QED BY <1>1, <1>2, <1>3, <1>4 DEF Admit

\* The saves.
LEMMA SaveType ==
  ASSUME TypeOK, NEW c \in Calls, Mark(c) \/ Save(c) \/ SaveLost(c) \/ Cancel(c)
  PROVE  TypeOK'
<1> USE BreakerAssumption DEF TypeOK, registry, history, Goto, RedisFails, Fault
<1>0. Closed \in States /\ Redis \in Registries
  BY DEF Closed, States, IsOpen, Registries
<1>1. CASE Mark(c)
  BY <1>0, <1>1 DEF Mark, SaveCopy, Disturb
<1>2. CASE Save(c)
  BY <1>0, <1>2, OneMoreType DEF Save, SaveCopy, Disturb, Record
<1>3. CASE SaveLost(c)
  BY <1>0, <1>3 DEF SaveLost
<1>4. CASE Cancel(c)
  BY <1>0, <1>4 DEF Cancel
<1> QED BY <1>1, <1>2, <1>3, <1>4

\* The ends of a tool call.
LEMMA EndType ==
  ASSUME TypeOK, NEW c \in Calls,
         Succeed(c) \/ SucceedUnrecorded(c) \/ Fail(c) \/ FailBlind(c)
  PROVE  TypeOK'
<1> USE BreakerAssumption, RegistryType, OneMoreType
    DEF TypeOK, registry, history, Goto, RedisFails, Fault
<1>0. Closed \in States /\ Redis \in Registries
  BY DEF Closed, States, IsOpen, Registries
<1>1. CASE Succeed(c)
  <2>1. /\ state' \in [Registries -> States] /\ streak' \in [Registries -> 0 .. Threshold]
        /\ UNCHANGED <<sharing, copy, ever, recent, faults>>
        /\ pc' = [pc EXCEPT ![c] = "idle"]
    BY <1>0, <1>1 DEF Succeed, Succeeded
  <2>2. ttl' \in 0 .. TTL /\ disturbed' \in BOOLEAN
    <3>1. CASE Shares(c)
      BY <1>1, <3>1 DEF Succeed, Disturb
    <3>2. CASE ~Shares(c)
      BY <1>1, <3>2 DEF Succeed
    <3> QED BY <3>1, <3>2
  <2> QED BY <2>1, <2>2
<1>2. CASE SucceedUnrecorded(c)
  BY <1>2 DEF SucceedUnrecorded
<1>3. CASE FailLocal(c)
  <2>1. Failed(StateOf(c)) \in States
    BY StateTypes
  <2>2. state' \in [Registries -> States]
    BY <1>3, <2>1 DEF FailLocal, StateOf
  <2> QED BY <1>3, <2>2 DEF FailLocal, Observe, Record
<1>4. CASE FailShared(c)
  <2>1. Failed(StateOf(c)) \in States
    BY StateTypes
  <2> QED BY <1>0, <1>4, <2>1 DEF FailShared, Observe
<1>5. CASE FailBlind(c)
  <2>1. Failed(Closed) \in States
    BY <1>0, StateTypes
  <2> QED BY <1>0, <1>5, <2>1 DEF FailBlind, Observe
<1> QED BY <1>1, <1>2, <1>3, <1>4, <1>5 DEF Fail

LEMMA TypeStep ==
  ASSUME TypeOK, [Next]_vars
  PROVE  TypeOK'
<1>1. CASE Tick
  <2>0. Closed \in States
    BY BreakerAssumption DEF Closed, States, IsOpen
  <2>1. state' \in [Registries -> States] /\ copy' \in [Calls -> States]
    BY <1>1, <2>0, StateTypes DEF Tick, TypeOK
  <2> QED BY <1>1, <2>1, BreakerAssumption DEF Tick, TypeOK, Less, Registries
<1>2. CASE UNCHANGED vars
  BY <1>2 DEF TypeOK, vars, registry, calls, history
<1> QED BY <1>1, <1>2, AdmitType, SaveType, EndType DEF Next, Finish, Disruption, Fail

-----------------------------------------------------------------------------
(* Every state is justified.                                               *)

LEMMA JustifiedOperations ==
  ASSUME NEW st \in States, NEW n \in 0 .. Threshold, NEW left \in 0 .. Reset,
         Justified(st, n, left)
  PROVE  /\ Justified(Closed, n, left)
         /\ Justified(st, OneMore(n), Reset)
         /\ Justified(Failed(st), OneMore(n), Reset)
         /\ Justified(Cooler(st), n, Less(left))
         /\ IsOpen(st) => Justified(HalfOpen(st), n, left)
<1> USE BreakerAssumption DEF States, Justified, IsOpen
<1>1. Justified(Closed, n, left)
  BY DEF Closed
<1>2. Justified(st, OneMore(n), Reset)
  BY DEF OneMore
<1>3. Justified(Failed(st), OneMore(n), Reset)
  <2>1. CASE st.probing
    <3>1. Failed(st) = [st EXCEPT !.cool = Reset, !.probing = FALSE]
      BY <2>1 DEF Failed, Reopened
    <3>2. Failed(st).failures = st.failures /\ Failed(st).cool = Reset
      BY <3>1
    <3>3. n = Threshold /\ OneMore(n) = n
      BY <2>1 DEF OneMore
    <3> QED BY <3>2, <3>3
  <2>2. CASE ~st.probing /\ OneMore(st.failures) < Threshold
    BY <2>2 DEF Failed, OneMore
  <2>3. CASE ~st.probing /\ OneMore(st.failures) >= Threshold
    BY <2>3 DEF Failed, Reopened, OneMore
  <2>4. OneMore(st.failures) \in Nat
    BY DEF OneMore
  <2> QED BY <2>1, <2>2, <2>3, <2>4
<1>4. Justified(Cooler(st), n, Less(left))
  BY DEF Cooler, Less
<1>5. IsOpen(st) => Justified(HalfOpen(st), n, left)
  BY DEF HalfOpen
<1> QED BY <1>1, <1>2, <1>3, <1>4, <1>5

LEMMA JustifiedStep ==
  ASSUME IInv, [Next]_vars
  PROVE  AllJustified'
<1> USE RegistryType, BreakerAssumption DEF IInv, TypeOK, registry, calls, history
<1>1. /\ \A r \in Registries :
           /\ state[r] \in States /\ ever[r] \in 0 .. Threshold /\ recent[r] \in 0 .. Reset
           /\ Justified(state[r], ever[r], recent[r])
      /\ \A c \in Calls : copy[c] \in States /\ Justified(copy[c], ever[Redis], recent[Redis])
      /\ Redis \in Registries
  BY DEF AllJustified, Registries
<1>2. \A r \in Registries : Justified(Closed, ever[r], recent[r])
  BY <1>1, JustifiedOperations
<1>3. ASSUME UNCHANGED <<ever, recent>>,
             \A r \in Registries : Justified(state'[r], ever[r], recent[r]),
             \A c \in Calls : Justified(copy'[c], ever[Redis], recent[Redis])
      PROVE  AllJustified'
  BY <1>3 DEF AllJustified
<1>4. ASSUME NEW c \in Calls, Admit(c) \/ AdmitBlind(c)
      PROVE  AllJustified'
  <2>1. IsOpen(StateOf(c)) =>
          Justified(HalfOpen(StateOf(c)), ever[RegistryOf(c)], recent[RegistryOf(c)])
    BY <1>1, JustifiedOperations DEF StateOf
  <2>2. CASE AdmitClosed(c) \/ AdmitBlind(c)
    BY <1>1, <1>3, <2>2 DEF AdmitClosed, AdmitBlind
  <2>3. CASE AdmitProbe(c)
    BY <1>1, <1>3, <2>1, <2>3 DEF AdmitProbe, StateOf
  <2>4. CASE LoadProbe(c)
    BY <1>1, <1>3, <2>1, <2>4 DEF LoadProbe
  <2> QED BY <1>4, <2>2, <2>3, <2>4 DEF Admit
<1>5. ASSUME NEW c \in Calls, Mark(c) \/ Save(c) \/ SaveLost(c) \/ Cancel(c)
      PROVE  AllJustified'
  <2>1. UNCHANGED <<ever, recent>>
    BY <1>5 DEF Mark, Save, SaveLost, Cancel
  <2>2. \A r \in Registries : state'[r] = state[r] \/ (r = Redis /\ state'[r] = copy[c])
    BY <1>5 DEF Mark, Save, SaveLost, Cancel, SaveCopy
  <2>3. \A d \in Calls : copy'[d] = copy[d] \/ copy'[d] = Closed
    BY <1>5 DEF Mark, Save, SaveLost, Cancel, SaveCopy
  <2>4. \A r \in Registries : Justified(state'[r], ever[r], recent[r])
    BY <1>1, <2>2
  <2>5. \A d \in Calls : Justified(copy'[d], ever[Redis], recent[Redis])
    BY <1>1, <1>2, <2>3
  <2> QED BY <1>3, <2>1, <2>4, <2>5
<1>6. ASSUME NEW c \in Calls, Succeed(c) \/ SucceedUnrecorded(c)
      PROVE  AllJustified'
  <2>1. UNCHANGED <<ever, recent, copy>>
    BY <1>6 DEF Succeed, SucceedUnrecorded
  <2>2. \A r \in Registries : state'[r] = state[r] \/ state'[r] = Closed
    BY <1>6 DEF Succeed, SucceedUnrecorded, Succeeded
  <2>3. \A r \in Registries : Justified(state'[r], ever[r], recent[r])
    BY <1>1, <1>2, <2>2
  <2> QED BY <1>1, <1>3, <2>1, <2>3
<1>7. ASSUME NEW c \in Calls, Fail(c) \/ FailBlind(c)
      PROVE  AllJustified'
  <2> DEFINE r == RegistryOf(c)
  <2>1. /\ ever' = [ever EXCEPT ![r] = OneMore(@)] /\ recent' = [recent EXCEPT ![r] = Reset]
        /\ r \in Registries
    BY <1>7 DEF Fail, FailLocal, FailShared, FailBlind, Observe
  <2>2. ASSUME NEW st \in States, NEW q \in Registries, Justified(st, ever[q], recent[q])
        PROVE  /\ Justified(st, ever'[q], recent'[q])
               /\ q = r => Justified(Failed(st), ever'[q], recent'[q])
    BY <1>1, <2>1, <2>2, JustifiedOperations
  <2>3. \A q \in Registries :
          state'[q] = state[q] \/ (q = r /\ state'[q] = Failed(state[q]))
    BY <1>7 DEF Fail, FailLocal, FailShared, FailBlind
  <2>4. \A d \in Calls :
          \/ copy'[d] = copy[d]
          \/ r = Redis /\ copy'[d] = Failed(state[Redis])
          \/ r = Redis /\ copy'[d] = Failed(Closed)
    BY <1>7 DEF Fail, FailLocal, FailShared, FailBlind, StateOf
  <2> HIDE DEF r
  <2>5. \A q \in Registries : Justified(state'[q], ever'[q], recent'[q])
    BY <1>1, <2>2, <2>3
  <2>6. Closed \in States
    BY DEF Closed, States, IsOpen
  <2>7. \A d \in Calls : Justified(copy'[d], ever'[Redis], recent'[Redis])
    BY <1>1, <1>2, <2>2, <2>4, <2>6
  <2> QED BY <2>5, <2>7 DEF AllJustified
<1>8. CASE Tick
  <2>1. ASSUME NEW st \in States, NEW q \in Registries, Justified(st, ever[q], recent[q])
        PROVE  Justified(Cooler(st), ever'[q], recent'[q]) /\ Justified(Closed, ever'[q], recent'[q])
    <3>1. ever'[q] = ever[q] /\ recent'[q] = Less(recent[q])
      BY <1>8 DEF Tick
    <3>2. Justified(Cooler(st), ever[q], Less(recent[q]))
      BY <1>1, <2>1, JustifiedOperations
    <3>3. Justified(Closed, ever[q], Less(recent[q]))
      BY <1>1 DEF Closed, Justified, IsOpen
    <3> QED BY <3>1, <3>2, <3>3
  <2>2. \A q \in Registries : state'[q] = Closed \/ state'[q] = Cooler(state[q])
    BY <1>8 DEF Tick
  <2>3. \A c \in Calls : copy'[c] = Cooler(copy[c])
    BY <1>8 DEF Tick
  <2> QED BY <1>1, <2>1, <2>2, <2>3 DEF AllJustified
<1>9. CASE UNCHANGED vars
  BY <1>9 DEF vars, AllJustified
<1> QED
  BY <1>4, <1>5, <1>6, <1>7, <1>8, <1>9 DEF Next, Finish, Disruption

-----------------------------------------------------------------------------
(* A registry that is trusted counts what was recorded.                    *)

LEMMA ClosedCounts == Closed.failures = 0 /\ ~IsOpen(Closed) /\ FullIffOpen(Closed)
BY BreakerAssumption DEF Closed, IsOpen, FullIffOpen

\* A write of c meets no copy but its own, or it disturbs.
LEMMA Undisturbed ==
  ASSUME NEW c \in Calls, NEW d \in Calls, d # c, Disturb(c), ~disturbed'
  PROVE  ~disturbed /\ pc[d] \notin {"mark", "save"}
BY DEF Disturb

\* Calls of a process change the state of the process only.
LEMMA CountedAdmit ==
  ASSUME IInv, NEW c \in Calls, Admit(c) \/ AdmitBlind(c)
  PROVE  Counted' /\ ClocksAgree'
<1> USE RegistryType, BreakerAssumption DEF IInv, TypeOK, registry, calls, history, Goto
<1>1. CASE AdmitClosed(c)
  BY <1>1
     DEF AdmitClosed, Counted, Trusted, Counts, FullIffOpen, CopyFits, At, ClocksAgree
<1>2. CASE AdmitProbe(c)
  <2>1. \A r \in Registries :
          /\ state'[r].failures = state[r].failures /\ state'[r].cool = state[r].cool
          /\ r = Redis => state'[r] = state[r]
    <3>1. \A st \in States : HalfOpen(st).failures = st.failures /\ HalfOpen(st).cool = st.cool
      BY DEF States, HalfOpen
    <3> QED BY <1>2, <3>1 DEF AdmitProbe, StateOf
  <2>2. UNCHANGED <<streak, disturbed, copy, recent>> /\ Redis \in Registries
    BY <1>2 DEF AdmitProbe, Registries
  <2>3. \A d \in Calls : (At(d, "mark") <=> At(d, "mark")') /\ (At(d, "save") <=> At(d, "save")')
    BY <1>2 DEF AdmitProbe, At
  <2>4. Counted'
    BY <2>1, <2>2, <2>3 DEF Counted, Trusted, Counts, FullIffOpen, IsOpen, CopyFits
  <2>5. ClocksAgree'
    BY <2>1, <2>2 DEF ClocksAgree, IsOpen, Registries
  <2> QED BY <2>4, <2>5
<1>3. CASE LoadProbe(c)
  <2>1. /\ UNCHANGED <<state, streak, disturbed, recent>> /\ pc' = [pc EXCEPT ![c] = "mark"]
        /\ copy' = [copy EXCEPT ![c] = HalfOpen(state[Redis])]
        /\ IsOpen(state[Redis]) /\ state[Redis] \in States
    BY <1>3 DEF LoadProbe, StateOf, Registries
  <2>2. copy'[c].failures = state[Redis].failures /\ IsOpen(copy'[c])
    BY <2>1 DEF HalfOpen, States, IsOpen
  <2>3. ASSUME NEW d \in Calls, ~disturbed' PROVE CopyFits(d)'
    <3>1. CASE d = c
      BY <2>1, <2>2, <3>1 DEF CopyFits, At
    <3>2. CASE d # c
      BY <2>1, <2>3, <3>2 DEF Counted, CopyFits, At, FullIffOpen
    <3> QED BY <3>1, <3>2
  <2> QED BY <2>1, <2>3 DEF Counted, Trusted, Counts, FullIffOpen, ClocksAgree
<1>4. CASE AdmitBlind(c)
  <2>1. UNCHANGED <<state, streak, recent>> /\ disturbed'
    BY <1>4 DEF AdmitBlind, RedisFails
  <2> QED BY <2>1 DEF Counted, Trusted, Counts, FullIffOpen, ClocksAgree
<1> QED BY <1>1, <1>2, <1>3, <1>4 DEF Admit

LEMMA CountedSave ==
  ASSUME IInv, NEW c \in Calls, Mark(c) \/ Save(c) \/ SaveLost(c) \/ Cancel(c)
  PROVE  Counted' /\ ClocksAgree'
<1> USE RegistryType, BreakerAssumption DEF IInv, TypeOK, registry, calls, history, Goto
<1>1. CASE Mark(c) \/ Save(c)
  <2>1. /\ state' = [state EXCEPT ![Redis] = copy[c]] /\ Disturb(c) /\ recent' = recent
        /\ pc'[c] \in {"probe", "idle"}
        /\ \A d \in Calls : d # c => pc'[d] = pc[d]
        /\ Redis \in Registries
    BY <1>1 DEF Mark, Save, SaveCopy, Registries
  <2>2. ClocksAgree'
    BY <2>1 DEF ClocksAgree, Registries
  <2>3. \A p \in Processes : state'[p] = state[p] /\ streak'[p] = streak[p]
    BY <1>1, <2>1 DEF Save, Mark, Record, Registries
  <2>4. \A p \in Processes : Counts(p)
    BY DEF Counted, Trusted, Registries
  <2>5. \A p \in Processes : Counts(p)'
    BY <2>3, <2>4 DEF Counts, FullIffOpen
  <2>6. ASSUME ~disturbed' PROVE Counts(Redis)'
    <3>1. ~disturbed /\ Counts(Redis) /\ CopyFits(c)
      BY <2>1, <2>6 DEF Disturb, Counted, Trusted
    <3>2. CASE Mark(c)
      BY <2>1, <3>1, <3>2 DEF Mark, CopyFits, Counts, FullIffOpen
    <3>3. CASE Save(c)
      BY <2>1, <3>1, <3>3 DEF Save, Record, CopyFits, Counts, FullIffOpen
    <3> QED BY <1>1, <3>2, <3>3
  <2>7. ASSUME ~disturbed', NEW d \in Calls PROVE CopyFits(d)'
    BY <2>1, <2>7, Undisturbed DEF CopyFits, At
  <2> QED BY <2>2, <2>5, <2>6, <2>7 DEF Counted, Trusted, Registries
<1>2. CASE SaveLost(c)
  <2>1. UNCHANGED <<state, streak, recent>> /\ disturbed'
    BY <1>2 DEF SaveLost, RedisFails
  <2> QED BY <2>1 DEF Counted, Trusted, Counts, FullIffOpen, ClocksAgree
<1>3. CASE Cancel(c)
  <2>1. UNCHANGED <<state, streak, disturbed, recent>> /\ pc' = [pc EXCEPT ![c] = "idle"]
        /\ \A d \in Calls : d # c => copy'[d] = copy[d]
    BY <1>3 DEF Cancel
  <2>2. ASSUME NEW d \in Calls, ~disturbed' PROVE CopyFits(d)'
    <3>1. CASE d = c
      BY <2>1, <3>1 DEF CopyFits, At
    <3>2. CASE d # c
      BY <2>1, <2>2, <3>2 DEF Counted, CopyFits, At, FullIffOpen
    <3> QED BY <3>1, <3>2
  <2> QED BY <2>1, <2>2 DEF Counted, Trusted, Counts, FullIffOpen, ClocksAgree
<1> QED BY <1>1, <1>2, <1>3

LEMMA CountedSucceed ==
  ASSUME IInv, NEW c \in Calls, Succeed(c) \/ SucceedUnrecorded(c)
  PROVE  Counted' /\ ClocksAgree'
<1> USE RegistryType, BreakerAssumption DEF IInv, TypeOK, registry, calls, history, Goto
<1> DEFINE r == RegistryOf(c)
<1>1. CASE Succeed(c)
  <2>1. /\ state' = [state EXCEPT ![r] = Closed] /\ streak' = [streak EXCEPT ![r] = 0]
        /\ UNCHANGED <<copy, recent>> /\ pc' = [pc EXCEPT ![c] = "idle"]
        /\ r \in Registries /\ (~Shares(c) => r \in Processes /\ r # Redis)
    BY <1>1 DEF Succeed, Succeeded
  <2>2. CASE Shares(c)
    <3>1. r = Redis /\ Disturb(c)
      BY <1>1, <2>2 DEF Succeed
    <3>2. \A p \in Processes : state'[p] = state[p] /\ streak'[p] = streak[p]
      BY <2>1, <3>1 DEF Registries
    <3>3. ClocksAgree'
      BY <2>1, <3>2 DEF ClocksAgree
    <3>4. \A p \in Processes : Counts(p)
      BY DEF Counted, Trusted, Registries
    <3>5. \A p \in Processes : Counts(p)'
      BY <3>2, <3>4 DEF Counts, FullIffOpen
    <3>6. Counts(Redis)'
      BY <2>1, <3>1, ClosedCounts DEF Counts, FullIffOpen
    <3>7. ASSUME ~disturbed', NEW d \in Calls PROVE CopyFits(d)'
      BY <2>1, <3>1, <3>7, Undisturbed DEF CopyFits, At
    <3> QED BY <3>3, <3>5, <3>6, <3>7 DEF Counted, Trusted, Registries
  <2>3. CASE ~Shares(c)
    <3>1. r \in Processes /\ r # Redis /\ state'[Redis] = state[Redis]
          /\ disturbed' = disturbed
      BY <1>1, <2>1, <2>3 DEF Succeed
    <3>2. ClocksAgree'
      BY <2>1, ClosedCounts DEF ClocksAgree, Registries, IsOpen
    <3>3. ASSUME NEW q \in Registries, Trusted(q)' PROVE Counts(q)'
      <4>1. Counts(q)
        BY <3>1, <3>3 DEF Counted, Trusted
      <4> QED BY <2>1, <4>1, ClosedCounts DEF Counts, FullIffOpen
    <3>4. ASSUME ~disturbed', NEW d \in Calls PROVE CopyFits(d)'
      <4>1. CopyFits(d)
        BY <3>1, <3>4 DEF Counted
      <4>2. (At(d, "mark")' => At(d, "mark")) /\ (At(d, "save")' => At(d, "save"))
        BY <2>1 DEF At
      <4> QED BY <2>1, <3>1, <4>1, <4>2 DEF CopyFits, FullIffOpen
    <3> QED BY <3>2, <3>3, <3>4 DEF Counted
  <2> QED BY <2>2, <2>3
<1>2. CASE SucceedUnrecorded(c)
  <2>1. UNCHANGED <<state, streak, recent>> /\ disturbed'
    BY <1>2 DEF SucceedUnrecorded, RedisFails
  <2> QED BY <2>1 DEF Counted, Trusted, Counts, FullIffOpen, ClocksAgree
<1> QED BY <1>1, <1>2

LEMMA CountedFail ==
  ASSUME IInv, NEW c \in Calls, Fail(c) \/ FailBlind(c)
  PROVE  Counted' /\ ClocksAgree'
<1> USE RegistryType, BreakerAssumption DEF IInv, TypeOK, registry, calls, history, Goto
<1>1. CASE FailLocal(c)
  <2> DEFINE r == RegistryOf(c)
             new == Failed(state[r])
  <2>1. /\ r \in Processes /\ r # Redis /\ r \in Registries /\ state[r] \in States
        /\ Counts(r)
    BY <1>1 DEF FailLocal, Registries, Counted, Trusted
  <2>2. /\ state' = [state EXCEPT ![r] = new]
        /\ streak' = [streak EXCEPT ![r] = OneMore(streak[r])]
        /\ recent' = [recent EXCEPT ![r] = Reset]
        /\ UNCHANGED <<copy, disturbed>> /\ pc' = [pc EXCEPT ![c] = "idle"]
    BY <1>1 DEF FailLocal, Observe, Record
  <2>3. /\ new.failures = OneMore(state[r].failures) /\ FullIffOpen(new)
        /\ IsOpen(new) => new.cool = Reset
    BY <2>1, FailedCounts DEF Counts
  <2> HIDE DEF r, new
  <2>4. ClocksAgree'
    BY <2>1, <2>2, <2>3 DEF ClocksAgree, Registries
  <2>5. ASSUME NEW q \in Registries, Trusted(q)' PROVE Counts(q)'
    <3>1. Counts(q)
      BY <2>2, <2>5 DEF Counted, Trusted
    <3> QED BY <2>2, <2>3, <3>1 DEF Counts, FullIffOpen
  <2>6. ASSUME ~disturbed', NEW d \in Calls PROVE CopyFits(d)'
    <3>1. CopyFits(d)
      BY <2>2, <2>6 DEF Counted
    <3>2. (At(d, "mark")' => At(d, "mark")) /\ (At(d, "save")' => At(d, "save"))
      BY <2>2 DEF At
    <3>3. state'[Redis] = state[Redis]
      BY <2>1, <2>2
    <3> QED BY <2>2, <3>1, <3>2, <3>3 DEF CopyFits, FullIffOpen
  <2> QED BY <2>4, <2>5, <2>6 DEF Counted
<1>2. CASE FailShared(c)
  <2>1. /\ UNCHANGED <<state, streak, disturbed>> /\ pc' = [pc EXCEPT ![c] = "save"]
        /\ copy' = [copy EXCEPT ![c] = Failed(state[Redis])]
        /\ recent' = [recent EXCEPT ![Redis] = Reset]
        /\ Redis \in Registries /\ state[Redis] \in States
    BY <1>2 DEF FailShared, Observe, StateOf, Registries
  <2>2. ClocksAgree'
    BY <2>1 DEF ClocksAgree, Registries
  <2>3. ASSUME ~disturbed', NEW d \in Calls PROVE CopyFits(d)'
    <3>1. CopyFits(d) /\ FullIffOpen(state[Redis])
      BY <2>1, <2>3 DEF Counted, Trusted, Counts
    <3>2. CASE d = c
      <4>1. copy'[c] = Failed(state[Redis]) /\ pc'[c] = "save"
        BY <2>1
      <4> QED BY <2>1, <3>1, <3>2, <4>1, FailedCounts DEF CopyFits, At, FullIffOpen
    <3>3. CASE d # c
      BY <2>1, <3>1, <3>3 DEF CopyFits, At, FullIffOpen
    <3> QED BY <3>2, <3>3
  <2> QED BY <2>1, <2>2, <2>3 DEF Counted, Trusted, Counts, FullIffOpen
<1>3. CASE FailBlind(c)
  <2>1. /\ UNCHANGED <<state, streak>> /\ disturbed'
        /\ recent' = [recent EXCEPT ![Redis] = Reset] /\ Redis \in Registries
    BY <1>3 DEF FailBlind, RedisFails, Observe, Registries
  <2>2. ClocksAgree'
    BY <2>1 DEF ClocksAgree, Registries
  <2> QED BY <2>1, <2>2 DEF Counted, Trusted, Counts, FullIffOpen
<1> QED BY <1>1, <1>2, <1>3 DEF Fail

LEMMA CountedTick ==
  ASSUME IInv, Tick
  PROVE  Counted' /\ ClocksAgree'
<1> USE BreakerAssumption DEF IInv, TypeOK
<1>1. /\ \A r \in Registries : state[r] \in States
      /\ \A p \in Processes : p \in Registries /\ p # Redis
      /\ Redis \in Registries
  BY DEF Registries
<1>2. \A p \in Processes : /\ state'[p] = Cooler(state[p]) /\ streak'[p] = streak[p]
                           /\ recent'[p] = Less(recent[p])
  BY <1>1 DEF Tick
<1>3. ClocksAgree'
  BY <1>1, <1>2, CoolerCounts DEF ClocksAgree
<1>4. \A p \in Processes : Counts(p)
  BY <1>1 DEF Counted, Trusted
<1>5. \A p \in Processes : Counts(p)'
  BY <1>1, <1>2, <1>4, CoolerCounts DEF Counts, FullIffOpen
<1>6. ASSUME ~disturbed' PROVE Counts(Redis)' /\ \A c \in Calls : CopyFits(c)'
  <2>1. ~disturbed /\ Counts(Redis) /\ \A c \in Calls : CopyFits(c) /\ copy[c] \in States
    BY <1>1, <1>6 DEF Tick, Counted, Trusted
  <2>2. \A c \in Calls : copy'[c] = Cooler(copy[c]) /\ pc'[c] = pc[c]
    BY DEF Tick
  <2>3. CASE ttl = 1
    <3>1. state'[Redis] = Closed /\ streak'[Redis] = 0
      BY <1>1, <2>3 DEF Tick
    <3>2. \A c \in Calls : pc[c] \notin {"mark", "save"}
      BY <1>6, <2>3 DEF Tick
    <3> QED BY <2>2, <3>1, <3>2, ClosedCounts DEF Counts, CopyFits, At
  <2>4. CASE ttl # 1
    <3>1. state'[Redis] = Cooler(state[Redis]) /\ streak'[Redis] = streak[Redis]
      BY <1>1, <2>4 DEF Tick
    <3>2. Counts(Redis)'
      BY <1>1, <2>1, <3>1, CoolerCounts DEF Counts, FullIffOpen
    <3>3. ASSUME NEW c \in Calls PROVE CopyFits(c)'
      <4>1. CopyFits(c) /\ copy[c] \in States /\ copy'[c] = Cooler(copy[c])
        BY <2>1, <2>2
      <4>2. At(c, "mark")' = At(c, "mark") /\ At(c, "save")' = At(c, "save")
        BY <2>2 DEF At
      <4> QED BY <1>1, <3>1, <4>1, <4>2, CoolerCounts DEF CopyFits, FullIffOpen
    <3> QED BY <3>2, <3>3
  <2> QED BY <2>3, <2>4
<1> QED BY <1>3, <1>5, <1>6 DEF Counted, Trusted, Registries

-----------------------------------------------------------------------------
(* The theorems.                                                           *)

LEMMA InitIInv == Init => IInv
<1> SUFFICES ASSUME Init PROVE IInv
  OBVIOUS
<1> USE BreakerAssumption DEF Init
<1>1. TypeOK
  <2>1. Closed \in States
    BY DEF States, Closed, IsOpen
  <2>2. 0 \in 0 .. Threshold /\ 0 \in 0 .. Reset /\ 0 \in 0 .. TTL /\ 0 \in 0 .. MaxFaults
    OBVIOUS
  <2> QED BY <2>1, <2>2 DEF TypeOK
<1>2. AllJustified
  BY DEF AllJustified, Justified, Closed, IsOpen, Registries
<1>3. Counted
  BY ClosedCounts DEF Counted, Counts, CopyFits, At
<1>4. ClocksAgree
  BY ClosedCounts DEF ClocksAgree, Registries
<1> QED BY <1>1, <1>2, <1>3, <1>4 DEF IInv

LEMMA NextIInv == IInv /\ [Next]_vars => IInv'
<1> SUFFICES ASSUME IInv, [Next]_vars PROVE IInv'
  OBVIOUS
<1>1. TypeOK' /\ AllJustified'
  BY TypeStep, JustifiedStep DEF IInv
<1>2. Counted' /\ ClocksAgree'
  <2>1. CASE Next
    BY <2>1, CountedAdmit, CountedSave, CountedSucceed, CountedFail, CountedTick
       DEF Next, Finish, Disruption
  <2>2. CASE UNCHANGED vars
    BY <2>2
       DEF IInv, vars, registry, calls, history, Counted, Trusted, Counts, FullIffOpen,
           CopyFits, At, ClocksAgree
  <2> QED BY <2>1, <2>2
<1> QED BY <1>1, <1>2 DEF IInv

THEOREM Invariant == Spec => []IInv
BY InitIInv, NextIInv, PTL DEF Spec

\* The variables keep their types: a state that is half open is an open one.
THEOREM TypeCorrect == Spec => []TypeOK
<1>1. IInv => TypeOK
  BY DEF IInv
<1> QED BY <1>1, Invariant, PTL

\* Whatever updates are lost, calls are refused only after Threshold failures
\* and within Reset of the last one.
THEOREM RefusedWithCause == Spec => []RefusalJustified
<1>1. IInv => RefusalJustified
  <2> SUFFICES ASSUME IInv, NEW r \in Registries, Cooling(state[r])
               PROVE  ever[r] = Threshold /\ state[r].cool <= recent[r]
    BY DEF RefusalJustified
  <2> QED BY DEF IInv, AllJustified, Justified, Cooling
<1> QED BY <1>1, Invariant, PTL

\* The breaker of a process is open exactly when Threshold failures in a row
\* were recorded; the shared one as long as its updates do not overlap.
THEOREM OpenAtThreshold == Spec => []OpensAtThreshold
<1>1. IInv /\ RefusalJustified => OpensAtThreshold
  BY DEF IInv, Counted, Counts, FullIffOpen, OpensAtThreshold
<1> QED BY <1>1, Invariant, RefusedWithCause, PTL

\* No call of a process starts before Reset has passed since the last of
\* Threshold failures in a row (resilience.py: allow).
THEOREM CooldownHolds == Spec => NoCallInCooldown
<1>1. ASSUME IInv, [Next]_vars, NEW c \in Calls, At(c, "idle"), ~Shares(c),
             streak[RegistryOf(c)] = Threshold, recent[RegistryOf(c)] > 0
      PROVE  At(c, "idle")'
  <2>1. /\ RegistryOf(c) \in Processes /\ RegistryOf(c) \in Registries
        /\ RegistryOf(c) # Redis
    BY <1>1, RegistryType DEF IInv
  <2>2. IsOpen(StateOf(c)) /\ Cooling(StateOf(c))
    <3>1. Counts(RegistryOf(c))
      BY <1>1, <2>1 DEF IInv, Counted, Trusted
    <3> QED BY <1>1, <2>1, <3>1
            DEF IInv, ClocksAgree, Counts, FullIffOpen, StateOf, Cooling
  <2>3. ~Admit(c) /\ ~AdmitBlind(c)
    BY <1>1, <2>2 DEF Admit, AdmitClosed, AdmitProbe, LoadProbe, AdmitBlind
  <2>4. ~Finish(c) /\ ~SucceedUnrecorded(c) /\ ~FailBlind(c) /\ ~SaveLost(c) /\ ~Cancel(c)
    BY <1>1 DEF At, Running, Finish, Mark, Succeed, Fail, FailLocal, FailShared, Save,
                SucceedUnrecorded, FailBlind, SaveLost, Cancel
  <2>5. CASE Tick \/ UNCHANGED vars
    BY <1>1, <2>5 DEF Tick, vars, calls, At
  <2>6. ASSUME NEW d \in Calls, d # c, Admit(d) \/ Finish(d) \/ Disruption(d)
        PROVE  pc'[c] = pc[c]
    <3>1. \E step : Goto(d, step)
      <4>1. CASE Admit(d) \/ AdmitBlind(d)
        BY <4>1 DEF Admit, AdmitClosed, AdmitProbe, LoadProbe, AdmitBlind
      <4>2. CASE Finish(d)
        BY <4>2 DEF Finish, Mark, Succeed, Fail, FailLocal, FailShared, Save
      <4>3. CASE SucceedUnrecorded(d) \/ FailBlind(d) \/ SaveLost(d) \/ Cancel(d)
        BY <4>3 DEF SucceedUnrecorded, FailBlind, SaveLost, Cancel
      <4> QED BY <2>6, <4>1, <4>2, <4>3 DEF Disruption
    <3> QED BY <2>6, <3>1 DEF Goto, IInv, TypeOK
  <2> QED BY <1>1, <2>3, <2>4, <2>5, <2>6 DEF Next, Disruption, At
<1>2. IInv /\ [Next]_vars =>
        [\A c \in Calls :
           /\ At(c, "idle") /\ ~Shares(c)
           /\ streak[RegistryOf(c)] = Threshold /\ recent[RegistryOf(c)] > 0
           => At(c, "idle")']_vars
  BY <1>1
<1> QED BY <1>2, Invariant, PTL DEF Spec, NoCallInCooldown

-----------------------------------------------------------------------------
(* The trackers (Harness): the inductive invariant and what it rests on.    *)

\* Nothing is tracked of a session without an open turn.
Clean ==
  \A s \in Sessions :
    (\A t \in Intents : SessionOf[t] = s => ~Open(t)) =>
      called[s] = <<>> /\ trace[s] = NoTrace

\* A turn that is alone and open is the only open one of its session.
Lonely ==
  \A t, u \in Intents :
    alone[t] /\ Open(t) /\ SessionOf[u] = SessionOf[t] /\ Open(u) => u = t

\* Nothing was noted of a turn that waits, and a drift is only reported at its end.
Unnoted ==
  \A t \in Intents :
    /\ turn[t] = "waiting" =>
         made[t] = <<>> /\ hinted[t] = {} /\ results[t] = <<>>
    /\ reported[t] => turn[t] = "closing"

\* Are the last r elements of c, or more, all tool?
Ends(c, tool, r) ==
  /\ Len(c) >= r
  /\ \A i \in Len(c) - r + 1 .. Len(c) : c[i] = tool

\* What the trackers hold of the session of a turn that is alone and open: its own
\* results, and of its own calls whether the last watched ones are equal, as far back
\* as the window goes.
Tracked ==
  \A t \in Intents : alone[t] /\ Open(t) =>
    LET tr == trace[SessionOf[t]]
        n  == Len(results[t])
    IN
    /\ \A tool \in Watched, r \in 0 .. Window :
         Ends(called[SessionOf[t]], tool, r) <=> InRow(made[t], tool, r)
    /\ tr.query = t
    /\ tr.rounds = n
    /\ tr.recent = LastOf(results[t], Kept)
    /\ tr.empties <= n
    /\ \A i \in 1 .. n :
         /\ results[t][i].of = t
         /\ i > n - tr.empties => results[t][i].content = "empty"

HarnessIInv ==
  HarnessTypeOK /\ Clean /\ Lonely /\ Unnoted /\ Tracked /\ LoopsAreHinted /\ DriftIsOwn


-----------------------------------------------------------------------------
\* The last n elements of a sequence are its end.
LEMMA LastOfSequence ==
  ASSUME NEW S, NEW s \in Seq(S), NEW n \in Nat \ {0}
  PROVE  /\ LastOf(s, n) \in Lists(S, n)
         /\ Len(LastOf(s, n)) = IF Len(s) > n THEN n ELSE Len(s)
         /\ \A i \in 1 .. Len(LastOf(s, n)) :
              LastOf(s, n)[i] = s[Len(s) - Len(LastOf(s, n)) + i]
<1> DEFINE from == IF Len(s) > n THEN Len(s) - n + 1 ELSE 1
<1>1. /\ from \in Int /\ from \in 1 .. Len(s) + 1 /\ Len(s) \in Int
      /\ Len(s) - from + 1 = IF Len(s) > n THEN n ELSE Len(s)
      /\ \A i \in from .. Len(s) : s[i] \in S
  OBVIOUS
<1> DEFINE k == SubSeq(s, from, Len(s))
<1>2. LastOf(s, n) = k
  BY DEF LastOf
<1> HIDE DEF from
<1>3. /\ k \in Seq(S)
      /\ Len(k) = IF from <= Len(s) THEN Len(s) - from + 1 ELSE 0
      /\ \A i \in 1 .. Len(s) - from + 1 : k[i] = s[from + i - 1]
  BY <1>1, SubSeqProperties
<1> HIDE DEF k
<1>4. Len(k) = IF Len(s) > n THEN n ELSE Len(s)
  BY <1>1, <1>3
<1>5. ASSUME NEW i \in 1 .. Len(k) PROVE k[i] = s[Len(s) - Len(k) + i]
  <2>1. Len(k) = Len(s) - from + 1
    BY <1>1, <1>3
  <2>2. from + i - 1 = Len(s) - Len(k) + i
    BY <1>1, <2>1
  <2> QED BY <1>3, <2>1, <2>2
<1>6. k \in Lists(S, n)
  BY <1>1, <1>3, <1>4 DEF Lists
<1> QED BY <1>2, <1>4, <1>5, <1>6

\* A list of the last elements may be kept instead of the whole one.
LEMMA LastOfAppend ==
  ASSUME NEW S, NEW s \in Seq(S), NEW x \in S, NEW n \in Nat \ {0}
  PROVE  LastOf(Append(LastOf(s, n), x), n) = LastOf(Append(s, x), n)
<1> DEFINE k  == LastOf(s, n)
           kx == Append(k, x)
           sx == Append(s, x)
           a  == LastOf(kx, n)
           b  == LastOf(sx, n)
<1>1. /\ k \in Seq(S) /\ Len(k) = IF Len(s) > n THEN n ELSE Len(s)
      /\ \A i \in 1 .. Len(k) : k[i] = s[Len(s) - Len(k) + i]
  BY LastOfSequence DEF Lists
<1> HIDE DEF k
<1>2. /\ kx \in Seq(S) /\ sx \in Seq(S)
      /\ Len(kx) = Len(k) + 1 /\ Len(sx) = Len(s) + 1
      /\ \A i \in 1 .. Len(k) : kx[i] = k[i]
      /\ \A i \in 1 .. Len(s) : sx[i] = s[i]
      /\ kx[Len(k) + 1] = x /\ sx[Len(s) + 1] = x
  BY <1>1
<1> HIDE DEF kx, sx
<1>3. /\ a \in Seq(S) /\ Len(a) = IF Len(kx) > n THEN n ELSE Len(kx)
      /\ \A i \in 1 .. Len(a) : a[i] = kx[Len(kx) - Len(a) + i]
  BY <1>2, LastOfSequence DEF Lists
<1>4. /\ b \in Seq(S) /\ Len(b) = IF Len(sx) > n THEN n ELSE Len(sx)
      /\ \A i \in 1 .. Len(b) : b[i] = sx[Len(sx) - Len(b) + i]
  BY <1>2, LastOfSequence DEF Lists
<1> HIDE DEF a, b
<1>5. /\ Len(s) \in Nat /\ Len(k) \in Nat /\ Len(a) \in Nat
      /\ Len(a) = Len(b) /\ Len(a) <= Len(k) + 1
      /\ Len(a) <= Len(k) \/ Len(k) = Len(s)
      /\ Len(k) <= Len(s)
  BY <1>1, <1>2, <1>3, <1>4
<1>6. ASSUME NEW i \in 1 .. Len(a) PROVE a[i] = b[i]
  <2> DEFINE p == Len(k) + 1 - Len(a) + i
             q == Len(s) + 1 - Len(a) + i
  <2>1. a[i] = kx[p] /\ b[i] = sx[q]
    <3>1. a[i] = kx[Len(kx) - Len(a) + i] /\ b[i] = sx[Len(sx) - Len(b) + i]
      BY <1>3, <1>4, <1>5
    <3>2. Len(kx) - Len(a) + i = p /\ Len(sx) - Len(b) + i = q
      BY <1>2, <1>5
    <3> QED BY <3>1, <3>2
  <2>2. p \in 1 .. Len(k) + 1 /\ q = Len(s) - Len(k) + p /\ q \in Int
    BY <1>5
  <2>3. i = Len(a) <=> p = Len(k) + 1
    BY <1>5
  <2> HIDE DEF p, q
  <2>4. CASE p = Len(k) + 1
    <3>1. q = Len(s) + 1
      BY <1>5, <2>2, <2>4
    <3> QED BY <1>2, <2>1, <2>4, <3>1
  <2>5. CASE p # Len(k) + 1
    <3>1. p \in 1 .. Len(k) /\ q \in 1 .. Len(s)
      BY <1>5, <2>2, <2>5
    <3>2. kx[p] = k[p] /\ sx[q] = s[q]
      BY <1>2, <3>1
    <3>3. k[p] = s[q]
      BY <1>1, <2>2, <3>1
    <3> QED BY <2>1, <3>2, <3>3
  <2> QED BY <2>4, <2>5
<1>7. a = b
  BY <1>3, <1>4, <1>5, <1>6, SeqEqual
<1> QED BY <1>7 DEF a, b, kx, sx, k

\* A call is kept: r + 1 equal calls end the window if it is equal to the last r of it.
LEMMA EndsAfterCall ==
  ASSUME NEW c \in Lists(Watched, Window), NEW x \in Watched, NEW tool \in Watched,
         NEW r \in 0 .. Window - 1
  PROVE  LET k == LastOf(Append(c, x), Window) IN
         /\ k \in Lists(Watched, Window) /\ Len(k) > 0 /\ k[Len(k)] = x
         /\ Ends(k, tool, r + 1) <=> x = tool /\ Ends(c, tool, r)
<1> DEFINE cx == Append(c, x)
           k  == LastOf(cx, Window)
<1>1. Window \in Nat \ {0} /\ r \in Nat /\ r < Window
  BY HarnessAssumption
<1>2. c \in Seq(Watched) /\ Len(c) \in Nat /\ Len(c) <= Window
  BY DEF Lists
<1>3. /\ cx \in Seq(Watched) /\ Len(cx) = Len(c) + 1 /\ cx[Len(c) + 1] = x
      /\ \A i \in 1 .. Len(c) : cx[i] = c[i]
  BY <1>2
<1> HIDE DEF cx
<1>4. /\ k \in Lists(Watched, Window)
      /\ Len(k) = IF Len(c) + 1 > Window THEN Window ELSE Len(c) + 1
      /\ \A i \in 1 .. Len(k) : k[i] = cx[Len(c) + 1 - Len(k) + i]
  <2>1. /\ k \in Lists(Watched, Window)
        /\ Len(k) = IF Len(cx) > Window THEN Window ELSE Len(cx)
        /\ \A i \in 1 .. Len(k) : k[i] = cx[Len(cx) - Len(k) + i]
    BY <1>1, <1>3, LastOfSequence
  <2> HIDE DEF k
  <2>2. Len(k) = IF Len(c) + 1 > Window THEN Window ELSE Len(c) + 1
    BY <1>3, <2>1
  <2>3. ASSUME NEW i \in 1 .. Len(k) PROVE k[i] = cx[Len(c) + 1 - Len(k) + i]
    <3>1. k[i] = cx[Len(cx) - Len(k) + i]
      BY <2>1
    <3>2. Len(cx) - Len(k) + i = Len(c) + 1 - Len(k) + i
      BY <1>3
    <3> QED BY <3>1, <3>2
  <2> QED BY <2>1, <2>2, <2>3
<1> HIDE DEF k
<1>5. Len(k) \in Nat /\ Len(k) > 0 /\ k[Len(k)] = x
  <2>1. Len(k) \in Nat /\ Len(k) > 0
    BY <1>1, <1>2, <1>4
  <2>2. Len(k) \in 1 .. Len(k) /\ Len(c) + 1 - Len(k) + Len(k) = Len(c) + 1
    BY <1>2, <2>1
  <2> QED BY <1>3, <1>4, <2>1, <2>2
<1>6. Len(k) >= r + 1 <=> Len(c) >= r
  BY <1>1, <1>2, <1>4
<1>7. ASSUME Ends(k, tool, r + 1) PROVE x = tool /\ Ends(c, tool, r)
  <2>1. Len(k) \in Len(k) - (r + 1) + 1 .. Len(k) /\ Len(k) >= r + 1
    BY <1>1, <1>5, <1>7 DEF Ends
  <2>2. x = tool
    BY <1>5, <1>7, <2>1 DEF Ends
  <2>3. ASSUME NEW i \in Len(c) - r + 1 .. Len(c) PROVE c[i] = tool
    <3> DEFINE h == i + Len(k) - Len(c) - 1
    <3>1. /\ i \in 1 .. Len(c) /\ h \in 1 .. Len(k) /\ h \in Len(k) - (r + 1) + 1 .. Len(k)
          /\ Len(c) + 1 - Len(k) + h = i
      BY <1>1, <1>2, <1>5, <1>6, <2>1
    <3> HIDE DEF h
    <3>2. k[h] = tool
      BY <1>7, <3>1 DEF Ends
    <3>3. k[h] = cx[i] /\ cx[i] = c[i]
      BY <1>3, <1>4, <3>1
    <3> QED BY <3>2, <3>3
  <2> QED BY <1>6, <2>1, <2>2, <2>3 DEF Ends
<1>8. ASSUME x = tool, Ends(c, tool, r) PROVE Ends(k, tool, r + 1)
  <2>1. Len(k) >= r + 1
    BY <1>6, <1>8 DEF Ends
  <2>2. ASSUME NEW h \in Len(k) - (r + 1) + 1 .. Len(k) PROVE k[h] = tool
    <3> DEFINE i == Len(c) + 1 - Len(k) + h
    <3>1. h \in 1 .. Len(k) /\ h \in Int /\ Len(k) - r <= h /\ h <= Len(k)
      BY <1>1, <1>5, <2>1
    <3>4. Len(k) <= Len(c) + 1
      BY <1>1, <1>2, <1>4
    <3>5. i \in Int /\ Len(c) - r + 1 <= i /\ i <= Len(c) + 1 /\ i >= 1
      BY <1>1, <1>2, <1>5, <3>1, <3>4
    <3>6. i = Len(c) + 1 \/ (i \in 1 .. Len(c) /\ i \in Len(c) - r + 1 .. Len(c))
      BY <1>1, <1>2, <3>5
    <3>2. k[h] = cx[i]
      BY <1>4, <3>1
    <3> HIDE DEF i
    <3> QED BY <1>3, <1>8, <3>2, <3>6 DEF Ends
  <2> QED BY <2>1, <2>2 DEF Ends
<1> QED BY <1>4, <1>5, <1>7, <1>8 DEF k, cx

\* The watched calls among those from the j-th on.
WatchedFrom(cs, j) == {k \in j .. Len(cs) : cs[k] \in Watched}

\* They are counted.
LEMMA WatchedCounted ==
  ASSUME NEW cs \in Seq(Tools), NEW j \in Nat
  PROVE  IsFiniteSet(WatchedFrom(cs, j)) /\ Cardinality(WatchedFrom(cs, j)) \in Nat
<1>1. IsFiniteSet(j .. Len(cs))
  BY FS_Interval
<1>2. WatchedFrom(cs, j) \in SUBSET (j .. Len(cs))
  BY DEF WatchedFrom
<1> QED BY <1>1, <1>2, FS_Subset, FS_CardinalityType

\* A call more is one more of them if its tool is watched.
LEMMA WatchedGrows ==
  ASSUME NEW cs \in Seq(Tools), NEW x \in Tools, NEW j \in 1 .. Len(cs) + 1
  PROVE  /\ x \notin Watched => WatchedFrom(Append(cs, x), j) = WatchedFrom(cs, j)
         /\ x \in Watched =>
              /\ WatchedFrom(Append(cs, x), j) = WatchedFrom(cs, j) \cup {Len(cs) + 1}
              /\ Cardinality(WatchedFrom(Append(cs, x), j)) = Cardinality(WatchedFrom(cs, j)) + 1
         /\ \A k \in WatchedFrom(cs, j) : Append(cs, x)[k] = cs[k]
         /\ Append(cs, x)[Len(cs) + 1] = x
<1> DEFINE ax == Append(cs, x)
<1>1. /\ Len(cs) \in Nat /\ Len(ax) = Len(cs) + 1 /\ ax[Len(cs) + 1] = x
      /\ \A k \in 1 .. Len(cs) : ax[k] = cs[k]
  OBVIOUS
<1> HIDE DEF ax
<1>2. \A k : k \in j .. Len(ax) <=> k \in j .. Len(cs) \/ k = Len(cs) + 1
  BY <1>1
<1>3. \A k \in j .. Len(cs) : k \in 1 .. Len(cs) /\ k # Len(cs) + 1 /\ ax[k] = cs[k]
  BY <1>1
<1>4. \A k \in WatchedFrom(cs, j) : ax[k] = cs[k]
  BY <1>3 DEF WatchedFrom
<1>5. ASSUME x \notin Watched PROVE WatchedFrom(ax, j) = WatchedFrom(cs, j)
  BY <1>1, <1>2, <1>3, <1>5 DEF WatchedFrom
<1>6. ASSUME x \in Watched
      PROVE  /\ WatchedFrom(ax, j) = WatchedFrom(cs, j) \cup {Len(cs) + 1}
             /\ Cardinality(WatchedFrom(ax, j)) = Cardinality(WatchedFrom(cs, j)) + 1
  <2>1. WatchedFrom(ax, j) = WatchedFrom(cs, j) \cup {Len(cs) + 1}
    BY <1>1, <1>2, <1>3, <1>6 DEF WatchedFrom
  <2>2. Len(cs) + 1 \notin WatchedFrom(cs, j)
    BY <1>3 DEF WatchedFrom
  <2>3. IsFiniteSet(WatchedFrom(cs, j))
    BY WatchedCounted
  <2> QED BY <2>1, <2>2, <2>3, FS_AddElement
<1> QED BY <1>1, <1>4, <1>5, <1>6 DEF ax

\* No calls in a row always end a list.
LEMMA NoneInRow == ASSUME NEW cs \in Seq(Tools), NEW tool PROVE InRow(cs, tool, 0)
<1> DEFINE j == Len(cs) + 1
<1>1. j \in 1 .. Len(cs) + 1 /\ WatchedFrom(cs, j) = {}
  BY DEF WatchedFrom
<1> HIDE DEF j
<1>2. Cardinality(WatchedFrom(cs, j)) >= 0
  <2>1. Cardinality({}) = 0
    BY FS_EmptySet
  <2> QED BY <1>1, <2>1
<1> QED BY <1>1, <1>2 DEF InRow, WatchedFrom

\* An empty list ends in no calls.
LEMMA NothingInRow == ASSUME NEW tool, NEW r \in Nat \ {0} PROVE ~InRow(<<>>, tool, r)
<1>1. ASSUME NEW j \in 1 .. Len(<<>>) + 1 PROVE ~(Cardinality(WatchedFrom(<<>>, j)) >= r)
  <2>1. WatchedFrom(<<>>, j) = {}
    BY DEF WatchedFrom
  <2>2. Cardinality(WatchedFrom(<<>>, j)) = 0
    BY <2>1, FS_EmptySet, Zenon
  <2>3. ~(0 >= r)
    OBVIOUS
  <2> QED BY <2>2, <2>3, Zenon
<1> QED BY <1>1 DEF InRow, WatchedFrom

\* An unwatched call neither ends nor lengthens a row.
LEMMA UnwatchedKeepsRow ==
  ASSUME NEW cs \in Seq(Tools), NEW x \in Tools \ Watched, NEW tool, NEW r \in Nat
  PROVE  InRow(Append(cs, x), tool, r) <=> InRow(cs, tool, r)
<1> DEFINE ax == Append(cs, x)
<1>1. Len(ax) = Len(cs) + 1 /\ Len(cs) \in Nat
  OBVIOUS
<1>2. \A j \in 1 .. Len(cs) + 1 : /\ WatchedFrom(ax, j) = WatchedFrom(cs, j)
                                  /\ \A k \in WatchedFrom(cs, j) : ax[k] = cs[k]
  BY WatchedGrows
<1> HIDE DEF ax
<1>3. ASSUME InRow(cs, tool, r) PROVE InRow(ax, tool, r)
  <2>1. PICK j \in 1 .. Len(cs) + 1 : /\ Cardinality(WatchedFrom(cs, j)) >= r
                                      /\ \A k \in WatchedFrom(cs, j) : cs[k] = tool
    BY <1>3 DEF InRow, WatchedFrom
  <2>2. j \in 1 .. Len(ax) + 1
    BY <1>1
  <2>3. /\ Cardinality(WatchedFrom(ax, j)) >= r
        /\ \A k \in WatchedFrom(ax, j) : ax[k] = tool
    BY <1>2, <2>1
  <2> QED BY <2>2, <2>3 DEF InRow, WatchedFrom
<1>4. ASSUME InRow(ax, tool, r) PROVE InRow(cs, tool, r)
  <2>1. PICK j \in 1 .. Len(ax) + 1 : /\ Cardinality(WatchedFrom(ax, j)) >= r
                                      /\ \A k \in WatchedFrom(ax, j) : ax[k] = tool
    BY <1>4 DEF InRow, WatchedFrom
  <2>2. CASE j \in 1 .. Len(cs) + 1
    <3>1. /\ Cardinality(WatchedFrom(cs, j)) >= r
          /\ \A k \in WatchedFrom(cs, j) : cs[k] = tool
      BY <1>2, <2>1, <2>2
    <3> QED BY <2>2, <3>1 DEF InRow, WatchedFrom
  <2>3. CASE j \notin 1 .. Len(cs) + 1
    <3>1. WatchedFrom(ax, j) = {}
      BY <1>1, <2>3 DEF WatchedFrom
    <3>2. r = 0
      BY <2>1, <3>1, FS_EmptySet
    <3> QED BY <3>2, NoneInRow
  <2> QED BY <2>2, <2>3
<1> QED BY <1>3, <1>4 DEF ax

\* A watched call lengthens the row of its own tool, and ends that of every other.
LEMMA WatchedRow ==
  ASSUME NEW cs \in Seq(Tools), NEW x \in Watched, NEW tool, NEW r \in Nat
  PROVE  InRow(Append(cs, x), tool, r + 1) <=> x = tool /\ InRow(cs, tool, r)
<1> DEFINE ax == Append(cs, x)
<1>1. Len(ax) = Len(cs) + 1 /\ Len(cs) \in Nat /\ x \in Tools
  BY DEF Tools
<1>2. \A j \in 1 .. Len(cs) + 1 :
        /\ WatchedFrom(ax, j) = WatchedFrom(cs, j) \cup {Len(cs) + 1}
        /\ Cardinality(WatchedFrom(ax, j)) = Cardinality(WatchedFrom(cs, j)) + 1
        /\ Cardinality(WatchedFrom(cs, j)) \in Nat
        /\ \A k \in WatchedFrom(cs, j) : ax[k] = cs[k]
        /\ ax[Len(cs) + 1] = x
  <2> TAKE j \in 1 .. Len(cs) + 1
  <2>1. Cardinality(WatchedFrom(cs, j)) \in Nat
    BY WatchedCounted
  <2> QED BY <1>1, <2>1, WatchedGrows
<1> HIDE DEF ax
<1>3. ASSUME x = tool, InRow(cs, tool, r) PROVE InRow(ax, tool, r + 1)
  <2>1. PICK j \in 1 .. Len(cs) + 1 : /\ Cardinality(WatchedFrom(cs, j)) >= r
                                      /\ \A k \in WatchedFrom(cs, j) : cs[k] = tool
    BY <1>3 DEF InRow, WatchedFrom
  <2>2. j \in 1 .. Len(ax) + 1
    BY <1>1
  <2>3. Cardinality(WatchedFrom(ax, j)) >= r + 1
    BY <1>2, <2>1
  <2>4. \A k \in WatchedFrom(ax, j) : ax[k] = tool
    BY <1>2, <1>3, <2>1
  <2> QED BY <2>2, <2>3, <2>4 DEF InRow, WatchedFrom
<1>4. ASSUME InRow(ax, tool, r + 1) PROVE x = tool /\ InRow(cs, tool, r)
  <2>1. PICK j \in 1 .. Len(ax) + 1 : /\ Cardinality(WatchedFrom(ax, j)) >= r + 1
                                      /\ \A k \in WatchedFrom(ax, j) : ax[k] = tool
    BY <1>4 DEF InRow, WatchedFrom
  <2>2. j \in 1 .. Len(cs) + 1
    <3>1. SUFFICES ASSUME j \notin 1 .. Len(cs) + 1 PROVE FALSE
      OBVIOUS
    <3>2. WatchedFrom(ax, j) = {}
      BY <1>1, <3>1 DEF WatchedFrom
    <3> QED BY <2>1, <3>2, FS_EmptySet
  <2>3. Cardinality(WatchedFrom(cs, j)) >= r
    BY <1>2, <2>1, <2>2
  <2>4. x = tool /\ \A k \in WatchedFrom(cs, j) : cs[k] = tool
    BY <1>2, <2>1, <2>2
  <2> QED BY <2>2, <2>3, <2>4 DEF InRow, WatchedFrom
<1> QED BY <1>3, <1>4 DEF ax

\* The beginnings of a list that grows stay.
LEMMA Beginnings ==
  ASSUME NEW S, NEW s \in Seq(S), NEW x \in S
  PROVE  /\ \A i \in 1 .. Len(s) : SubSeq(Append(s, x), 1, i) = SubSeq(s, 1, i)
         /\ SubSeq(Append(s, x), 1, Len(s) + 1) = Append(s, x)
<1>1. /\ Append(s, x) \in Seq(S) /\ Len(Append(s, x)) = Len(s) + 1 /\ Len(s) \in Nat
      /\ \A i \in 1 .. Len(s) : Append(s, x)[i] = s[i]
  OBVIOUS
<1>2. ASSUME NEW i \in 1 .. Len(s)
      PROVE SubSeq(Append(s, x), 1, i) = SubSeq(s, 1, i)
  BY <1>1
<1>3. SubSeq(Append(s, x), 1, Len(s) + 1) = Append(s, x)
  BY <1>1
<1> QED BY <1>2, <1>3


-----------------------------------------------------------------------------
\* The invariant holds before any turn has begun.
LEMMA HarnessInitIInv == HarnessInit => HarnessIInv
<1> SUFFICES ASSUME HarnessInit PROVE HarnessIInv
  OBVIOUS
<1>1. /\ SessionOf \in [Intents -> Sessions] /\ MaxCalls \in Nat
      /\ Kept \in Nat /\ Window \in Nat
  BY HarnessAssumption DEF Kept
<1>2. NoTrace \in Traces
  BY <1>1 DEF NoTrace, Traces, Lists
<1>3. HarnessTypeOK
  BY <1>1, <1>2 DEF HarnessInit, HarnessTypeOK, Lists
<1>4. Clean /\ Lonely /\ Unnoted /\ Tracked
  BY DEF HarnessInit, Clean, Lonely, Unnoted, Tracked, Open
<1>5. LoopsAreHinted /\ DriftIsOwn
  BY DEF HarnessInit, LoopsAreHinted, DriftIsOwn
<1> QED BY <1>3, <1>4, <1>5 DEF HarnessIInv

\* A turn begins: if no other turn of its session is open, nothing is tracked.
LEMMA BeginKeeps ==
  ASSUME HarnessIInv, NEW t \in Intents, Begin(t)
  PROVE  HarnessIInv'
<1> DEFINE s == SessionOf[t]
           overlapped == {u \in Intents : SessionOf[u] = s /\ Open(u)}
<1> USE DEF HarnessIInv
<1>1. SessionOf \in [Intents -> Sessions] /\ s \in Sessions
  BY HarnessAssumption
<1>2. /\ turn[t] = "waiting" /\ turn' = [turn EXCEPT ![t] = "replying"]
      /\ trace' = [trace EXCEPT ![s] = StartTurn(s, t)]
      /\ alone' = [u \in Intents |-> alone[u] /\ (overlapped # {} => u \notin overlapped \cup {t})]
      /\ UNCHANGED <<called, running, budget>>
  BY DEF Begin
<1>3. \A u \in Intents :
        /\ alone'[u] => /\ alone[u] /\ made'[u] = made[u] /\ hinted'[u] = hinted[u]
                        /\ results'[u] = results[u] /\ reported'[u] = reported[u]
        /\ ~alone'[u] => /\ made'[u] = <<>> /\ hinted'[u] = {} /\ results'[u] = <<>>
                         /\ reported'[u] = FALSE
        /\ reported'[u] => reported[u]
  BY <1>2 DEF Begin, Forget, HarnessTypeOK
<1>4. \A u \in Intents : turn'[u] = IF u = t THEN "replying" ELSE turn[u]
  BY <1>2 DEF HarnessTypeOK
<1>5. HarnessTypeOK'
  <2>1. StartTurn(s, t) \in Traces
    BY <1>1 DEF HarnessTypeOK, StartTurn, Traces
  <2>2. trace' \in [Sessions -> Traces] /\ called' \in [Sessions -> Lists(Watched, Window)]
    BY <1>1, <1>2, <2>1 DEF HarnessTypeOK
  <2>3. /\ turn' \in [Intents -> {"waiting", "replying", "closing", "over"}]
        /\ running' \in [Intents -> Nat]
        /\ budget' \in [Intents -> 0 .. MaxCalls]
    BY <1>2 DEF HarnessTypeOK
  <2>4. alone' \in [Intents -> BOOLEAN]
    BY <1>2 DEF HarnessTypeOK
  <2>5. made' \in [Intents -> Seq(Tools)]
    BY DEF HarnessTypeOK, Begin, Forget
  <2>8. hinted' \in [Intents -> SUBSET Nat]
    BY DEF HarnessTypeOK, Begin, Forget
  <2>6. results' \in [Intents -> Seq(Result)]
    BY DEF HarnessTypeOK, Begin, Forget
  <2>7. reported' \in [Intents -> BOOLEAN]
    BY Zenon DEF HarnessTypeOK, Begin, Forget
  <2> QED BY <2>2, <2>3, <2>4, <2>5, <2>6, <2>7, <2>8 DEF HarnessTypeOK
<1>6. Clean'
  <2> SUFFICES ASSUME NEW z \in Sessions,
                      \A u \in Intents : SessionOf[u] = z => ~Open(u)'
               PROVE  called'[z] = <<>> /\ trace'[z] = NoTrace
    BY DEF Clean
  <2>1. z # s
    BY <1>4 DEF Open
  <2>2. \A u \in Intents : SessionOf[u] = z => ~Open(u)
    BY <1>1, <1>4, <2>1 DEF Open
  <2> QED BY <1>2, <2>1, <2>2 DEF Clean, HarnessTypeOK
<1>7. Lonely'
  <2> SUFFICES ASSUME NEW u \in Intents, NEW v \in Intents, alone'[u], Open(u)',
                      SessionOf[v] = SessionOf[u], Open(v)'
               PROVE  v = u
    BY DEF Lonely
  <2>1. alone[u] /\ (overlapped # {} => u \notin overlapped /\ u # t)
    BY <1>2
  <2>2. CASE u = t
    BY <1>4, <2>1, <2>2 DEF Open
  <2>3. CASE u # t /\ v = t
    BY <1>4, <2>1, <2>3 DEF Open
  <2>4. CASE u # t /\ v # t
    BY <1>4, <2>1, <2>4 DEF Open, Lonely
  <2> QED BY <2>2, <2>3, <2>4
<1>8. Unnoted'
  BY <1>2, <1>3, <1>4 DEF Unnoted, HarnessTypeOK
<1>9. Tracked'
  <2> SUFFICES ASSUME NEW u \in Intents, alone'[u], Open(u)'
               PROVE  LET tr == trace'[SessionOf[u]]
                          n  == Len(results'[u])
                      IN
                      /\ \A tool \in Watched, w \in 0 .. Window :
                           Ends(called'[SessionOf[u]], tool, w) <=> InRow(made'[u], tool, w)
                      /\ tr.query = u
                      /\ tr.rounds = n
                      /\ tr.recent = LastOf(results'[u], Kept)
                      /\ tr.empties <= n
                      /\ \A i \in 1 .. n :
                           /\ results'[u][i].of = u
                           /\ i > n - tr.empties => results'[u][i].content = "empty"
    BY DEF Tracked
  <2>1. alone[u] /\ (overlapped # {} => u \notin overlapped /\ u # t)
    BY <1>2
  <2>2. CASE u = t
    <3>1. called[s] = <<>> /\ trace[s] = NoTrace
      BY <1>1, <2>1, <2>2 DEF Clean
    <3>2. trace'[s] = [NoTrace EXCEPT !.query = t]
      BY <1>1, <1>2, <3>1 DEF StartTurn, NoTrace, HarnessTypeOK
    <3>3. made'[t] = <<>> /\ results'[t] = <<>>
      BY <1>2, <1>3, <2>2 DEF Unnoted
    <3>4. LastOf(<<>>, Kept) = <<>>
      BY DEF LastOf, Kept
    <3>5. ASSUME NEW tool \in Watched, NEW r \in 0 .. Window
          PROVE  Ends(<<>>, tool, r) <=> InRow(<<>>, tool, r)
      <4>1. Ends(<<>>, tool, r) <=> r = 0
        BY HarnessAssumption DEF Ends
      <4>2. InRow(<<>>, tool, r) <=> r = 0
        <5>1. <<>> \in Seq(Tools) /\ (r # 0 => r \in Nat \ {0})
          BY HarnessAssumption
        <5> QED BY <5>1, NoneInRow, NothingInRow
      <4> QED BY <4>1, <4>2
    <3> QED BY <1>2, <2>2, <3>1, <3>2, <3>3, <3>4, <3>5 DEF NoTrace
  <2>3. CASE u # t
    <3>1. Open(u) /\ SessionOf[u] # s
      BY <1>4, <2>1, <2>3 DEF Open
    <3>2. trace'[SessionOf[u]] = trace[SessionOf[u]] /\ called' = called
      BY <1>1, <1>2, <3>1 DEF HarnessTypeOK
    <3>3. made'[u] = made[u] /\ results'[u] = results[u]
      BY <1>3
    <3> QED BY <2>1, <3>1, <3>2, <3>3 DEF Tracked
  <2> QED BY <2>2, <2>3
<1>10. LoopsAreHinted'
  BY <1>3 DEF LoopsAreHinted
<1>11. DriftIsOwn'
  BY <1>3 DEF DriftIsOwn
<1> QED BY <1>5, <1>6, <1>7, <1>8, <1>9, <1>10, <1>11


\* A watched call is counted, and hinted at if it is the last of Repeats equal ones; an
\* unwatched one changes nothing that is counted.
LEMMA CallKeeps ==
  ASSUME HarnessIInv, NEW t \in Intents, NEW tool \in Tools, Call(t, tool)
  PROVE  HarnessIInv'
<1> DEFINE s == SessionOf[t]
           m == made[t]
           k == Append(m, tool)
           hit == tool \in Watched /\ LoopHint(s, tool)
<1> USE DEF HarnessIInv
<1>1. /\ SessionOf \in [Intents -> Sessions] /\ s \in Sessions
      /\ Window \in Nat \ {0} /\ MaxCalls \in Nat /\ Repeats \in 1 .. Window
  BY HarnessAssumption
<1>2. /\ turn[t] = "replying" /\ budget[t] > 0
      /\ budget' = [budget EXCEPT ![t] = @ - 1]
      /\ called' = IF tool \in Watched THEN [called EXCEPT ![s] = CallsAfter(s, tool)] ELSE called
      /\ made' = IF alone[t] THEN [made EXCEPT ![t] = k] ELSE made
      /\ hinted' = IF alone[t] /\ hit
                   THEN [hinted EXCEPT ![t] = @ \cup {Len(m) + 1}] ELSE hinted
      /\ UNCHANGED <<trace, turn, alone, results, reported>>
  BY DEF Call
<1>4. called[s] \in Lists(Watched, Window) /\ m \in Seq(Tools)
  BY <1>1 DEF HarnessTypeOK
<1>5. /\ k \in Seq(Tools) /\ Len(k) = Len(m) + 1 /\ Len(m) \in Nat
      /\ k[Len(m) + 1] = tool /\ \A i \in 1 .. Len(m) : k[i] = m[i]
  BY <1>4
<1>6. ASSUME tool \in Watched
      PROVE  /\ CallsAfter(s, tool) \in Lists(Watched, Window)
             /\ LoopHint(s, tool) <=> Ends(CallsAfter(s, tool), tool, Repeats)
             /\ \A x \in Watched, r \in 0 .. Window - 1 :
                  Ends(CallsAfter(s, tool), x, r + 1) <=> tool = x /\ Ends(called[s], x, r)
  <2> DEFINE c == CallsAfter(s, tool)
  <2>1. \A x \in Watched, r \in 0 .. Window - 1 :
          /\ c \in Lists(Watched, Window) /\ Len(c) > 0 /\ c[Len(c)] = tool
          /\ Ends(c, x, r + 1) <=> tool = x /\ Ends(called[s], x, r)
    BY <1>4, <1>6, EndsAfterCall DEF CallsAfter
  <2>2. c \in Lists(Watched, Window) /\ c[Len(c)] = tool
    BY <1>1, <1>6, <2>1
  <2> HIDE DEF c
  <2>3. GoesRound(c) <=> Ends(c, tool, Repeats)
    BY <2>2 DEF GoesRound, Ends
  <2> QED BY <2>1, <2>2, <2>3 DEF c, LoopHint
<1> HIDE DEF k, m, hit
<1>7. HarnessTypeOK'
  <2>1. called' \in [Sessions -> Lists(Watched, Window)]
    BY <1>1, <1>2, <1>6 DEF HarnessTypeOK
  <2>2. /\ turn' \in [Intents -> {"waiting", "replying", "closing", "over"}]
        /\ trace' \in [Sessions -> Traces]
        /\ results' \in [Intents -> Seq(Result)]
    BY <1>2 DEF HarnessTypeOK
  <2>3. alone' \in [Intents -> BOOLEAN] /\ reported' \in [Intents -> BOOLEAN]
    BY <1>2, Zenon DEF HarnessTypeOK
  <2>4. running' \in [Intents -> Nat]
    BY DEF Call, HarnessTypeOK
  <2>5. budget' \in [Intents -> 0 .. MaxCalls]
    BY <1>1, <1>2 DEF HarnessTypeOK
  <2>6. made' \in [Intents -> Seq(Tools)]
    BY <1>2, <1>5 DEF HarnessTypeOK
  <2>7. hinted' \in [Intents -> SUBSET Nat]
    BY <1>2, <1>5 DEF HarnessTypeOK
  <2> QED BY <2>1, <2>2, <2>3, <2>4, <2>5, <2>6, <2>7 DEF HarnessTypeOK
<1>8. Open(t) /\ \A u \in Intents : Open(u)' <=> Open(u)
  BY <1>2 DEF Open
<1>9. Clean'
  <2> SUFFICES ASSUME NEW z \in Sessions,
                      \A u \in Intents : SessionOf[u] = z => ~Open(u)'
               PROVE  called'[z] = <<>> /\ trace'[z] = NoTrace
    BY DEF Clean
  <2>1. z # s /\ \A u \in Intents : SessionOf[u] = z => ~Open(u)
    BY <1>8
  <2> QED BY <1>2, <2>1 DEF Clean, HarnessTypeOK
<1>10. Lonely'
  BY <1>2, <1>8 DEF Lonely
<1>11. Unnoted'
  BY <1>2 DEF Unnoted, HarnessTypeOK
<1>12. ASSUME alone[t], NEW x \in Watched, NEW r \in 0 .. Window
       PROVE  Ends(called'[s], x, r) <=> InRow(k, x, r)
  <2>1. \A n \in 0 .. Window : Ends(called[s], x, n) <=> InRow(m, x, n)
    BY <1>8, <1>12 DEF Tracked, m
  <2>2. CASE tool \notin Watched
    <3>1. called' = called
      BY <1>2, <2>2
    <3>2. InRow(k, x, r) <=> InRow(m, x, r)
      BY <1>1, <1>4, <2>2, UnwatchedKeepsRow DEF k
    <3> QED BY <2>1, <3>1, <3>2
  <2>3. CASE tool \in Watched /\ r = 0
    <3>1. InRow(k, x, r)
      BY <1>5, <2>3, NoneInRow
    <3>2. Len(called'[s]) \in Nat
      BY <1>1, <1>7 DEF HarnessTypeOK, Lists
    <3>3. Ends(called'[s], x, r)
      BY <2>3, <3>2 DEF Ends
    <3> QED BY <3>1, <3>3
  <2>4. CASE tool \in Watched /\ r # 0
    <3> DEFINE n == r - 1
    <3>1. n \in 0 .. Window - 1 /\ n \in 0 .. Window /\ n \in Nat /\ r = n + 1
      BY <1>1, <2>4
    <3> HIDE DEF n
    <3>2. called'[s] = CallsAfter(s, tool)
      BY <1>1, <1>2, <2>4 DEF HarnessTypeOK
    <3>3. Ends(called'[s], x, n + 1) <=> tool = x /\ Ends(called[s], x, n)
      BY <1>6, <2>4, <3>1, <3>2
    <3>4. InRow(k, x, n + 1) <=> tool = x /\ InRow(m, x, n)
      BY <1>4, <2>4, <3>1, WatchedRow DEF k
    <3> QED BY <2>1, <3>1, <3>3, <3>4
  <2> QED BY <2>2, <2>3, <2>4
<1>13. Tracked'
  <2> SUFFICES ASSUME NEW u \in Intents, alone'[u], Open(u)'
               PROVE  LET tr == trace'[SessionOf[u]]
                          n  == Len(results'[u])
                      IN
                      /\ \A x \in Watched, r \in 0 .. Window :
                           Ends(called'[SessionOf[u]], x, r) <=> InRow(made'[u], x, r)
                      /\ tr.query = u
                      /\ tr.rounds = n
                      /\ tr.recent = LastOf(results'[u], Kept)
                      /\ tr.empties <= n
                      /\ \A i \in 1 .. n :
                           /\ results'[u][i].of = u
                           /\ i > n - tr.empties => results'[u][i].content = "empty"
    BY DEF Tracked
  <2>1. alone[u] /\ Open(u)
    BY <1>2, <1>8
  <2>2. \A x \in Watched, r \in 0 .. Window :
          Ends(called'[SessionOf[u]], x, r) <=> InRow(made'[u], x, r)
    <3>1. CASE u = t
      <4>1. made'[u] = k
        BY <1>2, <2>1, <3>1 DEF HarnessTypeOK
      <4> QED BY <1>12, <2>1, <3>1, <4>1
    <3>2. CASE u # t
      <4>1. SessionOf[u] # s
        BY <1>8, <2>1, <3>2 DEF Lonely
      <4>2. made'[u] = made[u] /\ called'[SessionOf[u]] = called[SessionOf[u]]
        BY <1>1, <1>2, <3>2, <4>1 DEF HarnessTypeOK
      <4> QED BY <2>1, <4>2 DEF Tracked
    <3> QED BY <3>1, <3>2
  <2> QED BY <1>2, <2>1, <2>2 DEF Tracked
<1>14. LoopsAreHinted'
  <2> DEFINE Told(cs, i) == cs[i] \in Watched /\ InRow(SubSeq(cs, 1, i), cs[i], Repeats)
  <2> SUFFICES ASSUME NEW u \in Intents, alone[u]
               PROVE  hinted'[u] = {i \in DOMAIN made'[u] : Told(made'[u], i)}
    BY <1>2 DEF LoopsAreHinted
  <2>1. hinted[u] = {i \in DOMAIN made[u] : Told(made[u], i)}
    BY DEF LoopsAreHinted
  <2>2. CASE u # t
    <3>1. made'[u] = made[u] /\ hinted'[u] = hinted[u]
      BY <1>2, <2>2 DEF HarnessTypeOK
    <3> QED BY <2>1, <3>1
  <2>3. CASE u = t
    <3>1. made'[u] = k /\ hinted'[u] = IF hit THEN hinted[u] \cup {Len(m) + 1} ELSE hinted[u]
      BY <1>2, <2>3 DEF HarnessTypeOK
    <3>2. /\ \A i \in 1 .. Len(m) : SubSeq(k, 1, i) = SubSeq(m, 1, i)
          /\ SubSeq(k, 1, Len(m) + 1) = k
      BY <1>4, Beginnings DEF k
    <3>3. \A i \in 1 .. Len(m) : Told(k, i) <=> Told(m, i)
      BY <1>5, <3>2
    <3>4. hit <=> Told(k, Len(m) + 1)
      <4>1. Told(k, Len(m) + 1) <=> tool \in Watched /\ InRow(k, tool, Repeats)
        BY <1>5, <3>2
      <4>2. ASSUME tool \in Watched PROVE LoopHint(s, tool) <=> InRow(k, tool, Repeats)
        <5>1. called'[s] = CallsAfter(s, tool)
          BY <1>1, <1>2, <4>2 DEF HarnessTypeOK
        <5>2. Repeats \in 0 .. Window
          BY <1>1
        <5> QED BY <1>6, <1>12, <2>3, <4>2, <5>1, <5>2
      <4> QED BY <4>1, <4>2 DEF hit
    <3>5. /\ hinted[u] = {i \in DOMAIN m : Told(m, i)}
          /\ DOMAIN m = 1 .. Len(m) /\ DOMAIN k = 1 .. Len(m) + 1
      BY <1>4, <1>5, <2>1, <2>3 DEF m
    <3> HIDE DEF Told
    <3>6. ASSUME NEW i PROVE i \in hinted'[u] <=> i \in DOMAIN k /\ Told(k, i)
      <4>1. i \in 1 .. Len(m) + 1 <=> i \in 1 .. Len(m) \/ i = Len(m) + 1
        BY <1>5
      <4>2. i \in 1 .. Len(m) => i # Len(m) + 1
        BY <1>5
      <4>3. i \in hinted'[u] <=> i \in hinted[u] \/ (i = Len(m) + 1 /\ hit)
        BY <3>1
      <4> QED BY <3>3, <3>4, <3>5, <4>1, <4>2, <4>3, Zenon
    <3>7. hinted'[u] = {i \in DOMAIN k : Told(k, i)}
      BY <3>6, Zenon
    <3> QED BY <3>1, <3>7
  <2> QED BY <2>2, <2>3
<1>15. DriftIsOwn'
  BY <1>2 DEF DriftIsOwn
<1> QED BY <1>7, <1>9, <1>10, <1>11, <1>13, <1>14, <1>15


\* What a result of the main agent does to the trackers.
Returned(t, r) ==
  /\ turn[t] = "replying"
  /\ trace' = [trace EXCEPT ![SessionOf[t]] = Observed(SessionOf[t], r)]
  /\ results' = [results EXCEPT ![t] = IF alone[t] THEN Append(@, r) ELSE @]
  /\ UNCHANGED <<called, turn, budget, alone, made, hinted, reported>>

\* A result is observed and, of a turn that is alone, noted.
LEMMA ResultKeeps ==
  ASSUME HarnessIInv, NEW t \in Intents, NEW r \in Result, r.of = t, Returned(t, r),
         running' \in [Intents -> Nat]
  PROVE  HarnessIInv'
<1> DEFINE s == SessionOf[t]
<1> USE DEF HarnessIInv
<1>1. /\ SessionOf \in [Intents -> Sessions] /\ s \in Sessions
      /\ Kept \in Nat \ {0}
  BY HarnessAssumption DEF Kept
<1>2. /\ turn[t] = "replying"
      /\ trace' = [trace EXCEPT ![s] = Observed(s, r)]
      /\ UNCHANGED <<called, turn, budget, alone, made, hinted, reported>>
  BY DEF Returned
<1>3. results' = [results EXCEPT ![t] = IF alone[t] THEN Append(results[t], r) ELSE results[t]]
  BY DEF Returned
<1>4. /\ trace[s] \in Traces /\ trace[s].recent \in Seq(Result)
      /\ results[t] \in Seq(Result)
  BY <1>1 DEF HarnessTypeOK, Traces, Lists
<1>5. LastOf(Append(trace[s].recent, r), Kept) \in Lists(Result, Kept)
  <2>1. Append(trace[s].recent, r) \in Seq(Result)
    BY <1>4
  <2> QED BY <1>1, <2>1, LastOfSequence
<1>6. /\ Observed(s, r) \in Traces
      /\ Observed(s, r).query = trace[s].query
      /\ Observed(s, r).rounds = trace[s].rounds + 1
      /\ Observed(s, r).recent = LastOf(Append(trace[s].recent, r), Kept)
      /\ Observed(s, r).empties = IF r.content = "empty" THEN trace[s].empties + 1 ELSE 0
  <2> DEFINE tr == trace[s]
             l  == LastOf(Append(tr.recent, r), Kept)
             L  == Lists(Result, Kept)
             e  == IF r.content = "empty" THEN tr.empties + 1 ELSE 0
  <2>1. tr \in [query : Intents \cup {Nobody}, rounds : Nat, recent : L, empties : Nat]
    BY <1>4 DEF Traces
  <2>2. l \in L
    BY <1>5
  <2>3. Observed(s, r) = [tr EXCEPT !.rounds = tr.rounds + 1, !.recent = l, !.empties = e]
    BY DEF Observed
  <2>5. e \in Nat
    BY <2>1
  <2> HIDE DEF tr, l, L, e
  <2>6. Observed(s, r) = [query |-> tr.query, rounds |-> tr.rounds + 1, recent |-> l, empties |-> e]
    BY <2>1, <2>3
  <2>7. tr.query \in Intents \cup {Nobody} /\ tr.rounds + 1 \in Nat
    BY <2>1
  <2>4. /\ Observed(s, r) \in [query : Intents \cup {Nobody}, rounds : Nat, recent : L, empties : Nat]
        /\ Observed(s, r).query = tr.query
        /\ Observed(s, r).rounds = tr.rounds + 1
        /\ Observed(s, r).recent = l
        /\ Observed(s, r).empties = e
    BY <2>2, <2>5, <2>6, <2>7
  <2> QED BY <2>4 DEF Traces, tr, l, L, e
<1>7. HarnessTypeOK'
  <2>1. trace' \in [Sessions -> Traces]
    BY <1>1, <1>2, <1>6 DEF HarnessTypeOK
  <2>2. results' \in [Intents -> Seq(Result)]
    <3>1. Append(results[t], r) \in Seq(Result)
      BY <1>4
    <3> QED BY <1>3, <1>4, <3>1 DEF HarnessTypeOK
  <2>3. /\ called' \in [Sessions -> Lists(Watched, Window)]
        /\ turn' \in [Intents -> {"waiting", "replying", "closing", "over"}]
        /\ budget' \in [Intents -> 0 .. MaxCalls]
        /\ made' \in [Intents -> Seq(Tools)]
        /\ hinted' \in [Intents -> SUBSET Nat]
    BY <1>2 DEF HarnessTypeOK
  <2>4. alone' \in [Intents -> BOOLEAN] /\ reported' \in [Intents -> BOOLEAN]
    BY <1>2, Zenon DEF HarnessTypeOK
  <2> QED BY <2>1, <2>2, <2>3, <2>4 DEF HarnessTypeOK
<1>8. Open(t) /\ \A u \in Intents : Open(u)' <=> Open(u)
  BY <1>2 DEF Open
<1>9. Clean'
  <2> SUFFICES ASSUME NEW z \in Sessions,
                      \A u \in Intents : SessionOf[u] = z => ~Open(u)'
               PROVE  called'[z] = <<>> /\ trace'[z] = NoTrace
    BY DEF Clean
  <2>1. z # s /\ \A u \in Intents : SessionOf[u] = z => ~Open(u)
    BY <1>8
  <2> QED BY <1>2, <2>1 DEF Clean, HarnessTypeOK
<1>10. Lonely'
  BY <1>2, <1>8 DEF Lonely
<1>11. Unnoted'
  BY <1>2, <1>3 DEF Unnoted, HarnessTypeOK
<1>12. Tracked'
  <2> SUFFICES ASSUME NEW u \in Intents, alone'[u], Open(u)'
               PROVE  LET tr == trace'[SessionOf[u]]
                          n  == Len(results'[u])
                      IN
                      /\ \A tool \in Watched, w \in 0 .. Window :
                           Ends(called'[SessionOf[u]], tool, w) <=> InRow(made'[u], tool, w)
                      /\ tr.query = u
                      /\ tr.rounds = n
                      /\ tr.recent = LastOf(results'[u], Kept)
                      /\ tr.empties <= n
                      /\ \A i \in 1 .. n :
                           /\ results'[u][i].of = u
                           /\ i > n - tr.empties => results'[u][i].content = "empty"
    BY DEF Tracked
  <2>1. alone[u] /\ Open(u)
    BY <1>2, <1>8
  <2>2. CASE u # t
    <3>1. SessionOf[u] # s
      BY <1>8, <2>1, <2>2 DEF Lonely
    <3>2. results'[u] = results[u] /\ trace'[SessionOf[u]] = trace[SessionOf[u]]
      BY <1>1, <1>2, <1>3, <2>2, <3>1 DEF HarnessTypeOK
    <3> QED BY <1>2, <2>1, <3>2 DEF Tracked
  <2>3. CASE u = t
    <3> DEFINE n  == Len(results[t])
               e  == trace[s].empties
               k  == results'[t]
    <3>1. /\ \A tool \in Watched, n0 \in 0 .. Window :
               Ends(called[s], tool, n0) <=> InRow(made[t], tool, n0)
          /\ trace[s].query = t /\ trace[s].rounds = n
          /\ trace[s].recent = LastOf(results[t], Kept) /\ e <= n
          /\ \A i \in 1 .. n :
               results[t][i].of = t /\ (i > n - e => results[t][i].content = "empty")
      BY <2>1, <2>3 DEF Tracked
    <3>2. k = Append(results[t], r)
      BY <1>3, <2>1, <2>3 DEF HarnessTypeOK
    <3>3. /\ n \in Nat /\ Len(k) = n + 1 /\ k[n + 1] = r
          /\ \A i \in 1 .. n : k[i] = results[t][i]
      BY <1>4, <3>2
    <3>4. trace'[s] = Observed(s, r)
      BY <1>1, <1>2 DEF HarnessTypeOK
    <3>5. Observed(s, r).recent = LastOf(k, Kept)
      BY <1>1, <1>4, <1>6, <3>1, <3>2, LastOfAppend
    <3>6. e \in Nat
      BY <1>4 DEF Traces
    <3> DEFINE f == Observed(s, r).empties
    <3>7. f = IF r.content = "empty" THEN e + 1 ELSE 0
      BY <1>6
    <3> HIDE DEF n, e, k, f
    <3>8. f <= n + 1 /\ f \in Nat
      BY <3>1, <3>3, <3>6, <3>7
    <3>9. ASSUME NEW i \in 1 .. n + 1
          PROVE  k[i].of = t /\ (i > n + 1 - f => k[i].content = "empty")
      <4>1. CASE i = n + 1
        BY <3>3, <3>7, <4>1
      <4>2. CASE i # n + 1
        <5>1. i \in 1 .. n /\ k[i] = results[t][i]
          BY <3>3, <4>2
        <5>2. i > n + 1 - f => i > n - e
          BY <3>3, <3>6, <3>7, <5>1
        <5> QED BY <3>1, <5>1, <5>2
      <4> QED BY <4>1, <4>2
    <3> QED BY <1>2, <1>6, <2>3, <3>1, <3>3, <3>4, <3>5, <3>8, <3>9 DEF k, f, n
  <2> QED BY <2>2, <2>3
<1>13. LoopsAreHinted'
  BY <1>2 DEF LoopsAreHinted
<1>14. DriftIsOwn'
  <2>1. \A u \in Intents : reported[u] => results'[u] = results[u]
    BY <1>2, <1>3 DEF Unnoted, HarnessTypeOK
  <2> QED BY <1>2, <2>1, Zenon DEF DriftIsOwn
<1> QED BY <1>7, <1>9, <1>10, <1>11, <1>12, <1>13, <1>14


\* The judgement at the end of a turn that is alone is one of its own results.
LEMMA JudgementIsOwn ==
  ASSUME HarnessIInv, NEW t \in Intents, alone[t], Open(t), Drifted(trace[SessionOf[t]])
  PROVE  ShowDrift(results[t])
<1> DEFINE tr == trace[SessionOf[t]]
           rs == results[t]
           n  == Len(rs)
<1>1. /\ SessionOf[t] \in Sessions /\ EmptyLimit \in Nat \ {0} /\ Kept \in Nat \ {0}
  BY HarnessAssumption DEF Kept
<1>2. rs \in Seq(Result) /\ n \in Nat /\ tr.empties \in Nat
  BY <1>1 DEF HarnessIInv, HarnessTypeOK, Traces
<1>3. /\ tr.query = t /\ tr.rounds = n /\ tr.recent = LastOf(rs, Kept)
      /\ tr.empties <= n
      /\ \A i \in 1 .. n : rs[i].of = t /\ (i > n - tr.empties => rs[i].content = "empty")
  BY DEF HarnessIInv, Tracked
<1>4. n > 0 /\ n % Interval = 0
  BY <1>3 DEF Drifted, Due
<1>5. CASE tr.empties >= EmptyLimit
  <2>1. n >= EmptyLimit
    BY <1>1, <1>2, <1>3, <1>5
  <2>2. \A i \in 1 .. n : i > n - EmptyLimit => rs[i].content = "empty"
    BY <1>1, <1>2, <1>3, <1>5
  <2> QED BY <1>4, <2>1, <2>2, Zenon DEF ShowDrift
<1>6. CASE Forgotten(tr)
  <2> DEFINE k == LastOf(rs, Kept)
  <2>1. /\ Len(k) = IF n > Kept THEN Kept ELSE n
        /\ \A i \in 1 .. Len(k) : k[i] = rs[n - Len(k) + i]
        /\ k \in Seq(Result)
    BY <1>1, <1>2, LastOfSequence DEF Lists
  <2>2. \A i \in DOMAIN k : k[i] # [of |-> t, content |-> "named"]
    BY <1>3, <1>6 DEF Forgotten
  <2> HIDE DEF k, rs, n
  <2>3. ASSUME NEW i \in 1 .. n, i > n - Kept PROVE rs[i].content # "named"
    <3> DEFINE j == i - (n - Len(k))
    <3>1. Len(k) \in Nat /\ Len(k) <= n /\ (Len(k) = n \/ Len(k) = Kept)
      BY <1>1, <1>2, <2>1
    <3>2. j \in 1 .. Len(k) /\ n - Len(k) + j = i
      BY <1>1, <1>2, <3>1, <2>3
    <3> HIDE DEF j
    <3>3. k[j] = rs[i]
      BY <2>1, <3>2
    <3>4. rs[i] # [of |-> t, content |-> "named"]
      BY <2>1, <2>2, <3>2, <3>3
    <3>5. rs[i] \in Result /\ rs[i].of = t
      BY <1>2, <1>3, <2>3 DEF n
    <3> QED BY <3>4, <3>5 DEF Result
  <2>4. \A i \in 1 .. n : i > n - Kept => rs[i].content # "named"
    BY <2>3
  <2> QED BY <1>4, <2>4, Zenon DEF ShowDrift, n, rs
<1> QED BY <1>5, <1>6 DEF Drifted


\* A turn closes.  Nothing that is tracked changes.
LEMMA CloseKeeps ==
  ASSUME HarnessIInv, NEW t \in Intents, Reply(t) \/ LeaveEarly(t)
  PROVE  HarnessIInv'
<1> USE DEF HarnessIInv
<1>1. /\ turn[t] = "replying" /\ turn' = [turn EXCEPT ![t] = "closing"]
      /\ UNCHANGED <<called, trace, budget, alone, made, hinted, results>>
  BY DEF Reply, LeaveEarly, histories
<1>2. \A u \in Intents : turn'[u] = IF u = t THEN "closing" ELSE turn[u]
  BY <1>1 DEF HarnessTypeOK
<1>3. Open(t) /\ \A u \in Intents : Open(u)' <=> Open(u)
  BY <1>1, <1>2 DEF Open
<1>4. \A u \in Intents : reported'[u] =>
        reported[u] \/ (u = t /\ Drifted(trace[SessionOf[t]]))
  BY Zenon DEF Reply, LeaveEarly, histories, HarnessTypeOK
<1>5. HarnessTypeOK'
  <2>1. turn' \in [Intents -> {"waiting", "replying", "closing", "over"}]
    BY <1>1 DEF HarnessTypeOK
  <2>2. running' \in [Intents -> Nat]
    <3>1. running' = running \/ running' = [running EXCEPT ![t] = 0]
      BY DEF Reply, LeaveEarly
    <3> QED BY <3>1, HarnessAssumption DEF HarnessTypeOK
  <2>3. reported' \in [Intents -> BOOLEAN]
    <3>1. Drifted(trace[SessionOf[t]]) \in BOOLEAN
      BY Zenon DEF Drifted, Due
    <3> QED BY <3>1, Zenon DEF HarnessTypeOK, Reply, LeaveEarly, histories
  <2>4. alone' \in [Intents -> BOOLEAN]
    BY <1>1, Zenon DEF HarnessTypeOK
  <2> QED BY <1>1, <2>1, <2>2, <2>3, <2>4 DEF HarnessTypeOK
<1>6. Clean'
  BY <1>1, <1>3 DEF Clean
<1>7. Lonely'
  BY <1>1, <1>3 DEF Lonely
<1>8. Unnoted'
  BY <1>1, <1>2, <1>4 DEF Unnoted
<1>9. Tracked'
  BY <1>1, <1>3, Zenon DEF Tracked
<1>10. LoopsAreHinted'
  BY <1>1 DEF LoopsAreHinted
<1>11. DriftIsOwn'
  BY <1>1, <1>3, <1>4, JudgementIsOwn DEF DriftIsOwn
<1> QED BY <1>5, <1>6, <1>7, <1>8, <1>9, <1>10, <1>11

\* A turn is over, and the trackers of its session are cleared.
LEMMA EndKeeps ==
  ASSUME HarnessIInv, NEW t \in Intents, End(t)
  PROVE  HarnessIInv'
<1> DEFINE s == SessionOf[t]
<1> USE DEF HarnessIInv
<1>1. SessionOf \in [Intents -> Sessions] /\ s \in Sessions
  BY HarnessAssumption
<1>2. /\ turn[t] = "closing" /\ turn' = [turn EXCEPT ![t] = "over"]
      /\ called' = [called EXCEPT ![s] = <<>>]
      /\ trace' = [trace EXCEPT ![s] = NoTrace]
      /\ UNCHANGED <<running, budget, alone>>
  BY DEF End, ResetLoop, ResetDrift
<1>3. \A u \in Intents :
        /\ u # t => /\ made'[u] = made[u] /\ hinted'[u] = hinted[u]
                    /\ results'[u] = results[u] /\ reported'[u] = reported[u]
        /\ u = t => /\ made'[u] = <<>> /\ hinted'[u] = {} /\ results'[u] = <<>>
                    /\ reported'[u] = FALSE
  BY DEF End, Forget, HarnessTypeOK
<1>4. \A u \in Intents : turn'[u] = IF u = t THEN "over" ELSE turn[u]
  BY <1>2 DEF HarnessTypeOK
<1>5. HarnessTypeOK'
  <2>1. NoTrace \in Traces
    BY DEF NoTrace, Traces, Lists, Kept
  <2>2. called' \in [Sessions -> Lists(Watched, Window)]
    <3>1. <<>> \in Lists(Watched, Window)
      BY HarnessAssumption DEF Lists
    <3> QED BY <1>2, <3>1 DEF HarnessTypeOK
  <2>3. /\ trace' \in [Sessions -> Traces]
        /\ turn' \in [Intents -> {"waiting", "replying", "closing", "over"}]
    BY <1>2, <2>1 DEF HarnessTypeOK
  <2>4. made' \in [Intents -> Seq(Tools)]
    BY DEF HarnessTypeOK, End, Forget
  <2>5. hinted' \in [Intents -> SUBSET Nat]
    BY DEF HarnessTypeOK, End, Forget
  <2>6. results' \in [Intents -> Seq(Result)]
    BY DEF HarnessTypeOK, End, Forget
  <2>7. reported' \in [Intents -> BOOLEAN]
    BY Zenon DEF HarnessTypeOK, End, Forget
  <2>8. alone' \in [Intents -> BOOLEAN]
    BY <1>2, Zenon DEF HarnessTypeOK
  <2> QED BY <1>2, <2>2, <2>3, <2>4, <2>5, <2>6, <2>7, <2>8 DEF HarnessTypeOK
<1>6. \A u \in Intents : Open(u)' <=> u # t /\ Open(u)
  BY <1>4 DEF Open
<1>7. Open(t)
  BY <1>2 DEF Open
<1>8. Clean'
  <2> SUFFICES ASSUME NEW z \in Sessions,
                      \A u \in Intents : SessionOf[u] = z => ~Open(u)'
               PROVE  called'[z] = <<>> /\ trace'[z] = NoTrace
    BY DEF Clean
  <2>1. CASE z = s
    BY <1>2, <2>1 DEF HarnessTypeOK
  <2>2. CASE z # s
    <3>1. \A u \in Intents : SessionOf[u] = z => ~Open(u)
      BY <1>6, <2>2
    <3> QED BY <1>2, <2>2, <3>1 DEF Clean, HarnessTypeOK
  <2> QED BY <2>1, <2>2
<1>9. Lonely'
  BY <1>2, <1>6 DEF Lonely
<1>10. Unnoted'
  BY <1>3, <1>4 DEF Unnoted
<1>11. Tracked'
  <2> SUFFICES ASSUME NEW u \in Intents, alone'[u], Open(u)'
               PROVE  LET tr == trace'[SessionOf[u]]
                          n  == Len(results'[u])
                      IN
                      /\ \A tool \in Watched, w \in 0 .. Window :
                           Ends(called'[SessionOf[u]], tool, w) <=> InRow(made'[u], tool, w)
                      /\ tr.query = u
                      /\ tr.rounds = n
                      /\ tr.recent = LastOf(results'[u], Kept)
                      /\ tr.empties <= n
                      /\ \A i \in 1 .. n :
                           /\ results'[u][i].of = u
                           /\ i > n - tr.empties => results'[u][i].content = "empty"
    BY DEF Tracked
  <2>1. u # t /\ alone[u] /\ Open(u)
    BY <1>2, <1>6
  <2>2. SessionOf[u] # s
    BY <1>7, <2>1 DEF Lonely
  <2>3. /\ called'[SessionOf[u]] = called[SessionOf[u]]
        /\ trace'[SessionOf[u]] = trace[SessionOf[u]]
        /\ made'[u] = made[u] /\ results'[u] = results[u]
    BY <1>1, <1>2, <1>3, <2>1, <2>2 DEF HarnessTypeOK
  <2> QED BY <2>1, <2>3 DEF Tracked
<1>12. LoopsAreHinted'
  BY <1>2, <1>3 DEF LoopsAreHinted
<1>13. DriftIsOwn'
  BY <1>2, <1>3 DEF DriftIsOwn
<1> QED BY <1>5, <1>8, <1>9, <1>10, <1>11, <1>12, <1>13


\* A step that changes nothing keeps it.
LEMMA StutterKeeps == ASSUME HarnessIInv, UNCHANGED harnessVars PROVE HarnessIInv'
<1> USE DEF HarnessIInv, harnessVars
<1>1. HarnessTypeOK'
  BY Zenon DEF HarnessTypeOK
<1>2. Clean' /\ Lonely'
  BY DEF Clean, Lonely, Open
<1>3. Unnoted'
  BY DEF Unnoted
<1>4. Tracked'
  BY DEF Tracked, Open
<1>5. LoopsAreHinted'
  BY DEF LoopsAreHinted
<1>6. DriftIsOwn'
  BY DEF DriftIsOwn
<1> QED BY <1>1, <1>2, <1>3, <1>4, <1>5, <1>6

\* Every step keeps the invariant.
LEMMA HarnessNextIInv == HarnessIInv /\ [HarnessNext]_harnessVars => HarnessIInv'
<1> SUFFICES ASSUME HarnessIInv, [HarnessNext]_harnessVars PROVE HarnessIInv'
  OBVIOUS
<1>1. CASE UNCHANGED harnessVars
  BY <1>1, StutterKeeps
<1>2. ASSUME NEW t \in Intents, Step(t) PROVE HarnessIInv'
  <2>1. CASE Begin(t)
    BY <2>1, BeginKeeps
  <2>2. CASE \E tool \in Tools : Call(t, tool)
    BY <2>2, CallKeeps
  <2>3. ASSUME NEW content \in Contents, Return(t, content) PROVE HarnessIInv'
    <3> DEFINE r == [of |-> t, content |-> content]
    <3>1. running' \in [Intents -> Nat]
      BY <2>3, HarnessAssumption DEF Return, HarnessIInv, HarnessTypeOK
    <3>2. Returned(t, r)
      BY <2>3 DEF Return, Returned
    <3>3. r \in Result /\ r.of = t
      BY DEF Result
    <3> QED BY <3>1, <3>2, <3>3, ResultKeeps
  <2>4. CASE Reply(t) \/ LeaveEarly(t)
    BY <2>4, CloseKeeps
  <2>5. CASE End(t)
    BY <2>5, EndKeeps
  <2> QED BY <1>2, <2>1, <2>2, <2>3, <2>4, <2>5 DEF Step
<1> QED BY <1>1, <1>2 DEF HarnessNext

\* The trackers of a session hold what the only turn that is open in it did.
THEOREM HarnessInvariant == HarnessSpec => []HarnessIInv
<1> QED BY HarnessInitIInv, HarnessNextIInv, PTL DEF HarnessSpec

\* The trackers hold what the middleware and the detectors write: the calls of a session
\* never exceed the window, the kept results never exceed three.
THEOREM HarnessTypeCorrect == HarnessSpec => []HarnessTypeOK
<1>1. HarnessIInv => HarnessTypeOK
  BY DEF HarnessIInv
<1> QED BY <1>1, HarnessInvariant, PTL

\* A turn that is alone in its session is told that it goes round in circles at exactly
\* those of its own watched calls that were the last of Repeats equal ones, not counting
\* unwatched calls between them: the window of six calls, shared by all turns of the
\* session and cleared when any of them ends, is enough.
THEOREM LoopsHinted == HarnessSpec => []LoopsAreHinted
<1>1. HarnessIInv => LoopsAreHinted
  BY DEF HarnessIInv
<1> QED BY <1>1, HarnessInvariant, PTL

\* A turn that is alone in its session is reported for what its own results show.
THEOREM DriftOwn == HarnessSpec => []DriftIsOwn
<1>1. HarnessIInv => DriftIsOwn
  BY DEF HarnessIInv
<1> QED BY <1>1, HarnessInvariant, PTL

-----------------------------------------------------------------------------
(* The record of the turns of a session.                                   *)

\* The rows are finitely many: here, one has the highest index.
Topped == \E h \in Indexes \union {0} : \A i \in Indexes \union {0} : h >= i

\* A turn that has not begun knows of none that are over; the others it knows
\* of are over, itself not among them.
History ==
  \A t \in Turns :
    /\ record[t] = "idle" => before[t] = {}
    /\ t \notin before[t]
    /\ \A u \in before[t] : record[u] = "over"

\* The steps at which a turn may have written its question, and its answer.
AfterQuestion == {"read agent", "write agent", "events", "over"}

Written ==
  \A m \in transcript :
    /\ m.role = "buyer" => record[m.turn] \in AfterQuestion
    /\ m.role = "agent" => record[m.turn] \in {"events", "over"}

\* What a turn has read is at least the index of every row it must follow.
Reads ==
  \A t \in Turns : record[t] \in {"write buyer", "write agent"} =>
    \A m \in transcript :
      m.turn \in before[t] \union {t} => m.index <= top[t]

\* Before there is a row of the session, turns are only over when cut short;
\* a turn that got past it and was not cut short has written its rows.
Progress ==
  \A t \in Turns :
    /\ session \/ record[t] \in {"idle", "insert"} \/ (Over(t) /\ t \in cut)
    /\ record[t] \in {"read agent", "write agent"} =>
         \E m \in transcript : m.turn = t /\ m.role = "buyer"
    /\ record[t] = "events" => Recorded(t)
    /\ t \in traced => Recorded(t)

Dropped(t) == Over(t) /\ t \notin cut /\ ~Recorded(t)

\* Some turn made the row of the session, was not dropped, and overlaps every
\* turn that was or may be.
Creator ==
  session =>
    \E u \in Turns :
      /\ record[u] \notin {"idle", "insert"} /\ ~Dropped(u)
      /\ \A t \in Turns : record[t] = "insert" \/ Dropped(t) => Overlap(t, u)

TranscriptIInv ==
  /\ TranscriptTypeOK
  /\ Topped
  /\ History
  /\ Written
  /\ Reads
  /\ TranscriptInOrder
  /\ Progress
  /\ Creator

-----------------------------------------------------------------------------
\* max() of the indexes is one of them, or 0 without any, and none is higher.
LEMMA HighestIsHighest ==
  ASSUME TranscriptTypeOK, Topped
  PROVE  Highest \in Nat /\ \A m \in transcript : m.index <= Highest
<1>1. \A i \in Indexes \union {0} : i \in Nat
  BY DEF TranscriptTypeOK, Rows, Indexes
<1>2. PICK h \in Indexes \union {0} : \A i \in Indexes \union {0} : h >= i
  BY DEF Topped
<1>3. /\ Highest \in Indexes \union {0}
      /\ \A i \in Indexes \union {0} : Highest >= i
  BY <1>2 DEF Highest, Max
<1>4. ASSUME NEW m \in transcript PROVE m.index <= Highest
  <2>1. m.index \in Indexes
    BY DEF Indexes
  <2> QED BY <2>1, <1>1, <1>3
<1> QED BY <1>1, <1>3, <1>4

\* The index after one that was read is one, and above all that is no higher.
LEMMA NextIndex ==
  ASSUME NEW n \in Nat
  PROVE  n + 1 \in Nat \ {0} /\ \A i \in Nat : i <= n => i < n + 1
OBVIOUS

\* The invariant holds before any turn has begun.
LEMMA TranscriptInitIInv == TranscriptInit => TranscriptIInv
<1> SUFFICES ASSUME TranscriptInit PROVE TranscriptIInv
  OBVIOUS
<1>1. TranscriptTypeOK /\ History /\ Written /\ Reads /\ TranscriptInOrder
  BY DEF TranscriptInit, TranscriptTypeOK, Steps, Roles, ReadStep, WriteStep, History, Written, Reads,
         TranscriptInOrder
<1>2. Topped
  BY DEF TranscriptInit, Topped, Indexes
<1>3. Progress /\ Creator
  BY DEF TranscriptInit, Progress, Creator
<1> QED BY <1>1, <1>2, <1>3 DEF TranscriptIInv

-----------------------------------------------------------------------------
\* What a step may do that writes no row: it moves one turn, which is not
\* over, neither back nor to a write without a read, and keeps the others.
Quiet(t) ==
  /\ record[t] # "over"
  /\ UNCHANGED <<transcript>>
  /\ \E step \in Steps : step # "idle" /\ record' = [record EXCEPT ![t] = step]
  /\ record[t] \in AfterQuestion => record'[t] \in AfterQuestion
  /\ record[t] = "events" => record'[t] = "over"

\* A step that writes no row and leaves the history alone keeps what is said
\* of the rows and of the history.
LEMMA QuietKeeps ==
  ASSUME TranscriptIInv, TranscriptTypeOK', NEW t \in Turns, Quiet(t),
         before' = before \/ (/\ record[t] = "idle"
                              /\ before' = [before EXCEPT ![t] = {u \in Turns : Over(u)}])
  PROVE  Topped' /\ History' /\ Written' /\ TranscriptInOrder'
<1>1. Topped'
  BY DEF TranscriptIInv, Topped, Indexes, Quiet
<1>2. History'
  BY DEF TranscriptIInv, TranscriptTypeOK, History, Quiet, Over
<1>3. Written'
  BY DEF TranscriptIInv, TranscriptTypeOK, Rows, Written, Quiet, AfterQuestion
<1>4. TranscriptInOrder'
  <2>1. CASE before' = before
    BY <2>1 DEF TranscriptIInv, TranscriptInOrder, Quiet
  <2>2. CASE record[t] = "idle" /\ before' = [before EXCEPT ![t] = {u \in Turns : Over(u)}]
    <3>1. \A n \in transcript : n.turn # t
      BY <2>2 DEF TranscriptIInv, TranscriptTypeOK, Rows, Roles, Written, AfterQuestion
    <3> QED BY <2>2, <3>1 DEF TranscriptIInv, TranscriptTypeOK, Rows, TranscriptInOrder, Quiet
  <2> QED BY <2>1, <2>2
<1> QED BY <1>1, <1>2, <1>3, <1>4

-----------------------------------------------------------------------------
\* Every step keeps the types.
LEMMA TranscriptTypeStep == ASSUME TranscriptTypeOK, Topped, [TranscriptNext]_transcriptVars PROVE TranscriptTypeOK'
<1> USE DEF TranscriptTypeOK, Steps, Roles, ReadStep, WriteStep, MoveTo
<1>1. ASSUME NEW t \in Turns, Touch(t) PROVE TranscriptTypeOK'
  BY <1>1 DEF Touch, Over
<1>2. ASSUME NEW t \in Turns, InsertSession(t) PROVE TranscriptTypeOK'
  BY <1>2 DEF InsertSession
<1>3. ASSUME NEW t \in Turns, NEW role \in Roles, ReadMax(t, role) PROVE TranscriptTypeOK'
  BY <1>3, HighestIsHighest DEF ReadMax
<1>4. ASSUME NEW t \in Turns, NEW role \in Roles, AppendMessage(t, role) PROVE TranscriptTypeOK'
  <2>1. top[t] + 1 \in Nat \ {0}
    <3>1. top[t] \in Nat
      OBVIOUS
    <3> QED BY <3>1, NextIndex
  <2>2. [turn |-> t, role |-> role, index |-> top[t] + 1] \in Rows
    BY <2>1 DEF Rows
  <2> QED BY <1>4, <2>2 DEF AppendMessage
<1>5. ASSUME NEW t \in Turns, AppendEvents(t) PROVE TranscriptTypeOK'
  <2>1. traced' \subseteq traced \union {t}
    BY <1>5 DEF AppendEvents
  <2> QED BY <1>5, <2>1 DEF AppendEvents
<1>6. ASSUME NEW t \in Turns, CutShort(t) PROVE TranscriptTypeOK'
  BY <1>6 DEF CutShort
<1>7. CASE UNCHANGED transcriptVars
  BY <1>7 DEF transcriptVars
<1> QED BY <1>1, <1>2, <1>3, <1>4, <1>5, <1>6, <1>7 DEF TranscriptNext

\* A message is appended above everything it must follow.
LEMMA AppendStep ==
  ASSUME TranscriptIInv, TranscriptTypeOK', NEW t \in Turns, NEW role \in Roles, AppendMessage(t, role)
  PROVE  Topped' /\ History' /\ Written' /\ Reads' /\ TranscriptInOrder'
<1> DEFINE row == [turn |-> t, role |-> role, index |-> top[t] + 1]
           next == IF role = "buyer" THEN "read agent" ELSE "events"
<1>0. row.turn = t /\ row.role = role /\ row.index = top[t] + 1
  OBVIOUS
<1> HIDE DEF row
<1>1. /\ record[t] = WriteStep(role)
      /\ record' = [record EXCEPT ![t] = next]
      /\ transcript' = transcript \union {row}
      /\ before' = before
      /\ top' = [top EXCEPT ![t] = 0]
  BY DEF AppendMessage, MoveTo, ReadStep, row
<1>2. /\ record[t] \in {"write buyer", "write agent"} /\ record[t] # "over" /\ record[t] # "idle"
      /\ role = "buyer" => record[t] = "write buyer"
      /\ role = "agent" => record[t] = "write agent"
      /\ role \in {"buyer", "agent"}
  BY <1>1 DEF WriteStep, Roles
<1>3. \A m \in transcript : m.index \in Nat /\ m.turn \in Turns /\ m.role \in Roles
  BY DEF TranscriptIInv, TranscriptTypeOK, Rows
<1>4. \A m \in transcript : m.turn \in before[t] \union {t} => m.index < row.index
  <2>1. top[t] \in Nat
    BY DEF TranscriptIInv, TranscriptTypeOK
  <2>2. \A m \in transcript : m.turn \in before[t] \union {t} => m.index <= top[t]
    BY <1>2 DEF TranscriptIInv, Reads
  <2> QED BY <1>0, <1>3, <2>1, <2>2, NextIndex
<1>5. Topped'
  <2>1. PICK h \in Indexes \union {0} : \A i \in Indexes \union {0} : h >= i
    BY DEF TranscriptIInv, Topped
  <2>2. Indexes' = Indexes \union {row.index}
    BY <1>1 DEF Indexes
  <2>3. h \in Nat /\ row.index \in Nat /\ \A i \in Indexes \union {0} : i \in Nat
    BY <1>0, <1>3, <2>1 DEF TranscriptIInv, TranscriptTypeOK, Indexes
  <2>4. CASE h >= row.index
    BY <2>1, <2>2, <2>4 DEF Topped
  <2>5. CASE row.index > h
    <3>1. \A i \in Indexes \union {0, row.index} : row.index >= i
      BY <2>1, <2>3, <2>5
    <3> QED BY <2>2, <3>1 DEF Topped
  <2> QED BY <2>3, <2>4, <2>5
<1>6. History'
  BY <1>1, <1>2 DEF TranscriptIInv, TranscriptTypeOK, History
<1>7. Written'
  <2>1. \A m \in transcript : m.turn = t => m.role = "buyer" /\ role = "agent"
    BY <1>2, <1>3 DEF TranscriptIInv, Written, AfterQuestion, Roles
  <2>2. ASSUME NEW m \in transcript, m.turn # t
        PROVE  /\ m.role = "buyer" => record'[m.turn] \in AfterQuestion
               /\ m.role = "agent" => record'[m.turn] \in {"events", "over"}
    BY <1>1, <1>3, <2>2 DEF TranscriptIInv, TranscriptTypeOK, Written
  <2>3. next \in AfterQuestion /\ (role = "agent" => next = "events") /\ record'[t] = next
    BY <1>1 DEF AfterQuestion, TranscriptIInv, TranscriptTypeOK
  <2>4. ASSUME NEW m \in transcript', m.turn = t
        PROVE  /\ m.role = "buyer" => record'[m.turn] \in AfterQuestion
               /\ m.role = "agent" => record'[m.turn] \in {"events", "over"}
    <3>1. m \in transcript => m.role = "buyer"
      BY <2>1, <2>4
    <3>2. m \notin transcript => m.role = role
      BY <1>0, <1>1
    <3> QED BY <2>3, <2>4, <3>1, <3>2
  <2>5. ASSUME NEW m \in transcript', m.turn # t PROVE m \in transcript
    BY <1>0, <1>1, <2>5
  <2> QED BY <2>2, <2>4, <2>5 DEF Written
<1>8. Reads'
  <2> SUFFICES ASSUME NEW u \in Turns, record'[u] \in {"write buyer", "write agent"},
                      NEW m \in transcript', m.turn \in before'[u] \union {u}
               PROVE  m.index <= top'[u]
    BY DEF Reads
  <2>1. u # t
    BY <1>1 DEF TranscriptIInv, TranscriptTypeOK
  <2>2. t \notin before[u]
    BY <1>2 DEF TranscriptIInv, History
  <2>3. m \in transcript
    BY <1>0, <1>1, <2>1, <2>2
  <2> QED BY <1>1, <2>1, <2>3 DEF TranscriptIInv, TranscriptTypeOK, Reads
<1>9. TranscriptInOrder'
  <2> SUFFICES ASSUME NEW m \in transcript', NEW n \in transcript',
                      \/ m.turn \in before[n.turn]
                      \/ m.turn = n.turn /\ m.role = "buyer" /\ n.role = "agent"
               PROVE  m.index < n.index
    BY <1>1 DEF TranscriptInOrder
  <2>1. CASE m \in transcript /\ n \in transcript
    BY <2>1 DEF TranscriptIInv, TranscriptInOrder
  <2>2. CASE n = row /\ m \in transcript
    BY <1>0, <1>4, <2>2
  <2>3. CASE m = row /\ n = row
    BY <1>0, <2>3 DEF TranscriptIInv, History
  <2>4. CASE m = row /\ n \in transcript
    <3>1. t \notin before[n.turn]
      BY <1>2, <1>3, <2>4 DEF TranscriptIInv, History
    <3>2. n.turn = t /\ n.role = "agent"
      BY <1>0, <2>4, <3>1
    <3> QED BY <1>2, <2>4, <3>2 DEF TranscriptIInv, Written
  <2> QED BY <1>1, <2>1, <2>2, <2>3, <2>4
<1> QED BY <1>5, <1>6, <1>7, <1>8, <1>9

-----------------------------------------------------------------------------
(* Progress and Creator.                                                   *)

\* Rows are never taken away, so what is recorded stays recorded.
LEMMA RecordedStays ==
  ASSUME NEW t, transcript \subseteq transcript', Recorded(t)
  PROVE  Recorded(t)'
BY DEF Recorded

\* A step that moves turn t, drops no row and does not make t a dropped turn
\* keeps the creator of the session's row, if there was one.
LEMMA CreatorKept ==
  ASSUME TranscriptIInv, TranscriptTypeOK', NEW t \in Turns, session, session',
         transcript \subseteq transcript', cut \subseteq cut',
         record[t] # "over", record'[t] \notin {"idle", "insert"},
         \E step \in Steps : record' = [record EXCEPT ![t] = step],
         before' = before
           \/ (record[t] = "idle" /\ before' = [before EXCEPT ![t] = {u \in Turns : Over(u)}]),
         Dropped(t)' => record[t] = "insert"
  PROVE  Creator'
<1>1. PICK u \in Turns :
        /\ record[u] \notin {"idle", "insert"} /\ ~Dropped(u)
        /\ \A v \in Turns : record[v] = "insert" \/ Dropped(v) => Overlap(v, u)
  BY DEF TranscriptIInv, Creator
<1>2. \A v \in Turns : v # t => record'[v] = record[v] /\ before'[v] = before[v]
  BY DEF TranscriptIInv, TranscriptTypeOK
<1>3. \A v \in Turns : v # t /\ Dropped(v)' => Dropped(v)
  BY <1>2, RecordedStays DEF Dropped, Over
<1>4. record'[u] \notin {"idle", "insert"}
  BY <1>1, <1>2
<1>5. ~Dropped(u)'
  BY <1>1, <1>3
<1>6. ASSUME NEW v \in Turns, record'[v] = "insert" \/ Dropped(v)'
      PROVE  Overlap(v, u)'
  <2>1. record[v] = "insert" \/ Dropped(v)
    BY <1>2, <1>3, <1>6
  <2>2. Overlap(v, u) /\ record[v] # "idle"
    BY <1>1, <2>1 DEF Dropped, Over
  <2>3. before'[v] = before[v] /\ before'[u] = before[u]
    <3>1. CASE record[t] = "idle"
      BY <1>1, <1>2, <2>2, <3>1
    <3> QED BY <3>1
  <2>4. record'[v] # "idle" /\ record'[u] # "idle"
    BY <1>2, <1>4, <2>2
  <2> QED BY <2>2, <2>3, <2>4 DEF Overlap
<1> QED BY <1>4, <1>5, <1>6 DEF Creator


\* A step that moves turn t keeps Progress if it writes no row and t gets to
\* a step it may be at.
LEMMA ProgressKept ==
  ASSUME TranscriptIInv, TranscriptTypeOK', NEW t \in Turns,
         session => session', transcript \subseteq transcript', cut \subseteq cut',
         \E step \in Steps : record' = [record EXCEPT ![t] = step],
         session' \/ record'[t] \in {"idle", "insert"} \/ (Over(t)' /\ t \in cut'),
         record'[t] \in {"read agent", "write agent"} =>
           \E m \in transcript' : m.turn = t /\ m.role = "buyer",
         record'[t] = "events" => Recorded(t)',
         traced' \subseteq traced \union {t},
         t \in traced' => Recorded(t)'
  PROVE  Progress'
<1>1. \A v \in Turns : v # t => record'[v] = record[v]
  BY DEF TranscriptIInv, TranscriptTypeOK
<1>2. ASSUME NEW v \in Turns, v # t
      PROVE  /\ session' \/ record'[v] \in {"idle", "insert"} \/ (Over(v)' /\ v \in cut')
             /\ record'[v] \in {"read agent", "write agent"} =>
                  \E m \in transcript' : m.turn = v /\ m.role = "buyer"
             /\ record'[v] = "events" => Recorded(v)'
             /\ v \in traced' => Recorded(v)'
  BY <1>1, <1>2, RecordedStays DEF TranscriptIInv, Progress, Over
<1> QED BY <1>2 DEF Progress

\* touch_session found the row of the session, or found none.
LEMMA TouchProgress ==
  ASSUME TranscriptIInv, TranscriptTypeOK', NEW t \in Turns, Touch(t)
  PROVE  Progress' /\ Creator'
<1> USE DEF Touch, MoveTo, ReadStep
<1>1. session' = session /\ transcript' = transcript /\ cut' = cut /\ traced' = traced
  OBVIOUS
<1>2. PICK step \in {"insert", "read buyer"} :
        record' = [record EXCEPT ![t] = step] /\ (step = "read buyer" <=> session)
  BY DEF TranscriptIInv, TranscriptTypeOK
<1>3. step \in Steps /\ record'[t] = step
  BY <1>2 DEF Steps, Roles, ReadStep, TranscriptIInv, TranscriptTypeOK
<1>4. t \in traced' => Recorded(t)'
  BY <1>1, RecordedStays DEF TranscriptIInv, Progress
<1>5. Progress'
  BY <1>1, <1>2, <1>3, <1>4, ProgressKept
<1>6. CASE session
  <2>1. ~Over(t)'
    BY <1>2, <1>3 DEF Over
  <2> QED BY <1>1, <1>2, <1>3, <1>5, <1>6, <2>1, CreatorKept DEF Dropped
<1>7. CASE ~session
  <2>1. ~session'
    BY ONLY <1>1, <1>7, TranscriptIInv DEF TranscriptIInv, TranscriptTypeOK
  <2> QED BY <1>5, <2>1 DEF Creator
<1> QED BY <1>6, <1>7

\* The turn that makes the row overlaps all that found none; a turn that finds
\* it made is dropped.
LEMMA InsertProgress ==
  ASSUME TranscriptIInv, TranscriptTypeOK', NEW t \in Turns, InsertSession(t)
  PROVE  Progress' /\ Creator'
<1> USE DEF InsertSession, MoveTo, ReadStep
<1>1. /\ session' = TRUE /\ transcript' = transcript /\ cut' = cut
      /\ traced' = traced /\ before' = before
  OBVIOUS
<1>2. PICK step \in {"over", "read buyer"} :
        record' = [record EXCEPT ![t] = step] /\ (step = "over" <=> session)
  BY DEF TranscriptIInv, TranscriptTypeOK
<1>3. step \in Steps /\ record'[t] = step
  BY <1>2 DEF Steps, Roles, ReadStep, TranscriptIInv, TranscriptTypeOK
<1>4. t \in traced' => Recorded(t)'
  BY <1>1, RecordedStays DEF TranscriptIInv, Progress
<1>5. Progress'
  BY <1>1, <1>2, <1>3, <1>4, ProgressKept
<1>6. CASE session
  BY <1>1, <1>2, <1>3, <1>5, <1>6, CreatorKept
<1>7. CASE ~session
  <2>1. record'[t] = "read buyer" /\ ~Dropped(t)'
    BY <1>2, <1>3, <1>7 DEF Dropped, Over
  <2>2. ASSUME NEW v \in Turns, record'[v] = "insert" \/ Dropped(v)'
        PROVE  Overlap(v, t)'
    <3>1. v # t /\ record'[v] = record[v]
      BY <1>2, <2>1, <2>2 DEF TranscriptIInv, TranscriptTypeOK
    <3>2. record[v] = "insert"
      <4>1. ~Dropped(v)'
        BY <1>1, <1>7, <3>1 DEF TranscriptIInv, Progress, Dropped, Over
      <4> QED BY <2>2, <3>1, <4>1
    <3>3. v \notin before[t] /\ t \notin before[v]
      BY <3>2 DEF TranscriptIInv, History
    <3> QED BY <1>1, <2>1, <3>1, <3>2, <3>3 DEF Overlap
  <2> QED BY <1>5, <2>1, <2>2 DEF Creator
<1> QED BY <1>6, <1>7

\* A turn that got past the row of the session goes on to its messages and
\* its events.
LEMMA RecordProgress ==
  ASSUME TranscriptIInv, TranscriptTypeOK', NEW t \in Turns,
         \/ \E role \in Roles : ReadMax(t, role) \/ AppendMessage(t, role)
         \/ AppendEvents(t)
  PROVE  Progress' /\ Creator'
<1> DEFINE begun == {"read buyer", "write buyer", "read agent", "write agent", "events"}
<1>1. /\ session' = session /\ cut' = cut /\ before' = before
      /\ transcript \subseteq transcript'
      /\ traced' \subseteq traced \union {t}
      /\ t \in traced' => t \in traced \/ record[t] = "events"
      /\ record[t] \in begun
  BY DEF ReadMax, AppendMessage, AppendEvents, Roles, ReadStep, WriteStep
<1>2. session
  BY <1>1 DEF TranscriptIInv, Progress, Over
<1>3. PICK step \in begun \union {"over"} : record' = [record EXCEPT ![t] = step]
  BY DEF ReadMax, AppendMessage, AppendEvents, MoveTo, Roles, ReadStep, WriteStep
<1>4. step \in Steps /\ record'[t] = step
  BY <1>3 DEF Steps, Roles, ReadStep, WriteStep, TranscriptIInv, TranscriptTypeOK
<1>5. record'[t] = "over" => record[t] = "events"
  BY DEF ReadMax, AppendMessage, AppendEvents, MoveTo, Roles, ReadStep, WriteStep,
         TranscriptIInv, TranscriptTypeOK
<1>6. record'[t] \in {"read agent", "write agent"} =>
        \E m \in transcript' : m.turn = t /\ m.role = "buyer"
  <2>1. ASSUME NEW role \in Roles, ReadMax(t, role), record'[t] = "write agent"
        PROVE  record[t] = "read agent"
    BY <2>1 DEF ReadMax, MoveTo, Roles, ReadStep, WriteStep, TranscriptIInv, TranscriptTypeOK
  <2>2. ASSUME NEW role \in Roles, AppendMessage(t, role), record'[t] = "read agent"
        PROVE  \E m \in transcript' : m.turn = t /\ m.role = "buyer"
    <3>1. role = "buyer"
      BY <2>2 DEF AppendMessage, MoveTo, Roles, ReadStep, WriteStep, TranscriptIInv, TranscriptTypeOK
    <3>2. [turn |-> t, role |-> role, index |-> top[t] + 1] \in transcript'
      BY <2>2 DEF AppendMessage
    <3> QED BY <3>1, <3>2
  <2>3. record'[t] = "read agent" => \E role \in Roles : AppendMessage(t, role)
    BY DEF ReadMax, AppendEvents, MoveTo, Roles, ReadStep, WriteStep, TranscriptIInv, TranscriptTypeOK
  <2>4. record'[t] = "write agent" => \E role \in Roles : ReadMax(t, role)
    BY DEF AppendMessage, AppendEvents, MoveTo, Roles, ReadStep, WriteStep, TranscriptIInv, TranscriptTypeOK
  <2> QED BY <1>1, <2>1, <2>2, <2>3, <2>4 DEF TranscriptIInv, Progress
<1>7. record'[t] = "events" => Recorded(t)'
  <2> SUFFICES ASSUME record'[t] = "events" PROVE Recorded(t)'
    OBVIOUS
  <2>1. AppendMessage(t, "agent") /\ record[t] = "write agent"
    BY DEF ReadMax, AppendMessage, AppendEvents, MoveTo, Roles, ReadStep, WriteStep,
           TranscriptIInv, TranscriptTypeOK
  <2>2. \E m \in transcript : m.turn = t /\ m.role = "buyer"
    BY <2>1 DEF TranscriptIInv, Progress
  <2>3. \E m \in transcript' : m.turn = t /\ m.role = "agent"
    <3>1. [turn |-> t, role |-> "agent", index |-> top[t] + 1] \in transcript'
      BY <2>1 DEF AppendMessage
    <3> QED BY <3>1
  <2>4. \E m \in transcript' : m.turn = t /\ m.role = "buyer"
    BY <1>1, <2>2
  <2> QED BY <2>3, <2>4 DEF Recorded, Roles
<1>8. record[t] = "events" \/ t \in traced => Recorded(t)'
  BY <1>1, RecordedStays DEF TranscriptIInv, Progress
<1>9. Progress'
  BY <1>1, <1>2, <1>3, <1>4, <1>6, <1>7, <1>8, ProgressKept
<1>10. ~Dropped(t)'
  BY <1>5, <1>8 DEF Dropped, Over
<1>11. Creator'
  BY <1>1, <1>2, <1>3, <1>4, <1>10, CreatorKept
<1> QED BY <1>9, <1>11

\* A turn that is cut short is not dropped by another.
LEMMA CutProgress ==
  ASSUME TranscriptIInv, TranscriptTypeOK', NEW t \in Turns, CutShort(t)
  PROVE  Progress' /\ Creator'
<1>1. /\ session' = session /\ transcript' = transcript /\ traced' = traced
      /\ before' = before /\ cut' = cut \union {t}
      /\ record[t] # "over" /\ record' = [record EXCEPT ![t] = "over"]
  BY DEF CutShort, MoveTo
<1>2. record'[t] = "over" /\ "over" \in Steps
  BY <1>1 DEF TranscriptIInv, TranscriptTypeOK, Steps
<1>3. t \in traced' => Recorded(t)'
  BY <1>1, RecordedStays DEF TranscriptIInv, Progress
<1>4. Progress'
  BY <1>1, <1>2, <1>3, ProgressKept DEF Over
<1>5. ~Dropped(t)'
  BY <1>1 DEF Dropped
<1>6. CASE session
  BY <1>1, <1>2, <1>4, <1>5, <1>6, CreatorKept
<1>7. CASE ~session
  <2>1. ~session'
    BY <1>1, <1>7 DEF TranscriptIInv, TranscriptTypeOK
  <2> QED BY <1>4, <2>1 DEF Creator
<1> QED BY <1>6, <1>7

-----------------------------------------------------------------------------
\* Every step keeps the invariant.
LEMMA TranscriptStepIInv == ASSUME TranscriptIInv, [TranscriptNext]_transcriptVars PROVE TranscriptIInv'
<1>0. TranscriptTypeOK'
  BY TranscriptTypeStep DEF TranscriptIInv
<1>1. ASSUME NEW t \in Turns, Touch(t) PROVE TranscriptIInv'
  <2>1. Quiet(t) /\ record'[t] \notin {"write buyer", "write agent"}
    BY <1>1 DEF Touch, MoveTo, Quiet, Steps, Roles, ReadStep, WriteStep, AfterQuestion,
                TranscriptIInv, TranscriptTypeOK
  <2>2. Reads'
    BY <1>1, <2>1 DEF Touch, MoveTo, TranscriptIInv, TranscriptTypeOK, Reads
  <2> QED BY <1>0, <1>1, <2>1, <2>2, QuietKeeps, TouchProgress DEF Touch, TranscriptIInv
<1>2. ASSUME NEW t \in Turns, InsertSession(t) PROVE TranscriptIInv'
  <2>1. Quiet(t) /\ record'[t] \notin {"write buyer", "write agent"}
    BY <1>2 DEF InsertSession, MoveTo, Quiet, Steps, Roles, ReadStep, WriteStep,
                AfterQuestion, TranscriptIInv, TranscriptTypeOK
  <2>2. Reads'
    BY <1>2, <2>1 DEF InsertSession, MoveTo, TranscriptIInv, TranscriptTypeOK, Reads
  <2> QED BY <1>0, <1>2, <2>1, <2>2, QuietKeeps, InsertProgress DEF InsertSession, TranscriptIInv
<1>3. ASSUME NEW t \in Turns, NEW role \in Roles, ReadMax(t, role) PROVE TranscriptIInv'
  <2>1. Quiet(t)
    BY <1>3 DEF ReadMax, MoveTo, Quiet, Steps, Roles, ReadStep, WriteStep,
                AfterQuestion, TranscriptIInv, TranscriptTypeOK
  <2>2. Reads'
    <3>1. Highest \in Nat /\ \A m \in transcript : m.index <= Highest
      BY HighestIsHighest DEF TranscriptIInv
    <3> QED BY <1>3, <3>1 DEF ReadMax, MoveTo, TranscriptIInv, TranscriptTypeOK, Reads
  <2>3. Progress' /\ Creator'
    BY <1>0, <1>3, RecordProgress
  <2> QED BY <1>0, <1>3, <2>1, <2>2, <2>3, QuietKeeps DEF ReadMax, TranscriptIInv
<1>4. ASSUME NEW t \in Turns, NEW role \in Roles, AppendMessage(t, role) PROVE TranscriptIInv'
  BY <1>0, <1>4, AppendStep, RecordProgress DEF TranscriptIInv
<1>5. ASSUME NEW t \in Turns, AppendEvents(t) PROVE TranscriptIInv'
  <2>1. Quiet(t) /\ record'[t] \notin {"write buyer", "write agent"}
    BY <1>5 DEF AppendEvents, MoveTo, Quiet, Steps, AfterQuestion, TranscriptIInv, TranscriptTypeOK
  <2>2. Reads'
    BY <1>5, <2>1 DEF AppendEvents, MoveTo, TranscriptIInv, TranscriptTypeOK, Reads
  <2>3. Progress' /\ Creator'
    BY <1>0, <1>5, RecordProgress
  <2> QED BY <1>0, <1>5, <2>1, <2>2, <2>3, QuietKeeps DEF AppendEvents, TranscriptIInv
<1>6. ASSUME NEW t \in Turns, CutShort(t) PROVE TranscriptIInv'
  <2>1. Quiet(t) /\ record'[t] \notin {"write buyer", "write agent"}
    BY <1>6 DEF CutShort, MoveTo, Quiet, Steps, AfterQuestion, TranscriptIInv, TranscriptTypeOK
  <2>2. Reads'
    BY <1>6, <2>1 DEF CutShort, MoveTo, TranscriptIInv, TranscriptTypeOK, Reads
  <2> QED BY <1>0, <1>6, <2>1, <2>2, QuietKeeps, CutProgress DEF CutShort, TranscriptIInv
<1>7. CASE UNCHANGED transcriptVars
  <2>1. /\ session' = session /\ transcript' = transcript /\ traced' = traced
        /\ record' = record /\ top' = top /\ before' = before /\ cut' = cut
    BY <1>7 DEF transcriptVars
  <2>2. Topped' /\ History' /\ Written' /\ Reads' /\ TranscriptInOrder'
    BY <2>1 DEF TranscriptIInv, Topped, Indexes, History, Written, Reads, TranscriptInOrder
  <2>3. /\ \A v : Recorded(v)' <=> Recorded(v)
        /\ \A v : Over(v)' <=> Over(v)
    BY <2>1 DEF Recorded, Over
  <2>4. session' <=> session
    BY <2>1
  <2>5. Progress'
    BY <2>1, <2>3, <2>4 DEF TranscriptIInv, Progress
  <2>6. Creator'
    BY <2>1, <2>3, <2>4 DEF TranscriptIInv, Creator, Dropped, Overlap
  <2> QED BY <1>0, <2>2, <2>5, <2>6 DEF TranscriptIInv
<1> QED BY <1>1, <1>2, <1>3, <1>4, <1>5, <1>6, <1>7 DEF TranscriptNext

-----------------------------------------------------------------------------
\* The invariant holds of every behaviour.
THEOREM TranscriptInvariant == TranscriptSpec => []TranscriptIInv
<1> QED BY TranscriptInitIInv, TranscriptStepIInv, PTL DEF TranscriptSpec

\* Types, for any number of turns and faults.
THEOREM TranscriptTypeCorrect == TranscriptSpec => []TranscriptTypeOK
<1>1. TranscriptIInv => TranscriptTypeOK
  BY DEF TranscriptIInv
<1> QED BY <1>1, TranscriptInvariant, PTL

\* list_turns shows a turn's question before its answer, and its messages after
\* those of every turn that was over when it began, though max(turn_index) + 1
\* is computed without a lock and two rows may share an index.
THEOREM Ordered == TranscriptSpec => []TranscriptInOrder
<1>1. TranscriptIInv => TranscriptInOrder
  BY DEF TranscriptIInv
<1> QED BY <1>1, TranscriptInvariant, PTL

\* A turn whose record no error and no crash cut short is missing only if it
\* overlapped one that is recorded or will be (touch_session looks for the row
\* and inserts it in one transaction that another may overtake), and events are
\* never stored without their messages.
THEOREM DropsAreRaces == TranscriptSpec => []DroppedOnlyInRaces
<1>1. ASSUME TranscriptIInv PROVE DroppedOnlyInRaces
  <2>1. \A t \in traced : Recorded(t)
    BY <1>1 DEF TranscriptIInv, TranscriptTypeOK, Progress
  <2>2. ASSUME NEW t \in Turns, Over(t), t \notin cut, ~Recorded(t)
        PROVE  \E u \in Turns :
                 Overlap(t, u) /\ (u \in cut \/ ~Over(u) \/ Recorded(u))
    <3>1. session
      BY <1>1, <2>2 DEF TranscriptIInv, Progress, Over
    <3> QED BY <1>1, <2>2, <3>1 DEF TranscriptIInv, Creator, Dropped
  <2> QED BY <2>1, <2>2 DEF DroppedOnlyInRaces
<1> QED BY <1>1, TranscriptInvariant, PTL
=============================================================================

------------------------------ MODULE Transcript ------------------------------
(***************************************************************************)
(* The transcript of one shopping session: the row of the session in       *)
(* conversation_sessions, its messages in conversation_messages and its    *)
(* events in conversation_events, as _record_conversation                  *)
(* (orchestrator.py) writes them at the end of each turn through           *)
(* SqlConversationStore (repositories.py).                                 *)
(*                                                                         *)
(* Turns of a session end at the same time in one process or in several;   *)
(* each action is the code between two awaits of the database.             *)
(*                                                                         *)
(* Abstractions.  Sessions share nothing here, so there is one.  A message *)
(* is a turn and a role.  A turn begins here when its record does, so that *)
(* more turns count as over when the next one begins, never fewer.  Of the *)
(* events of a turn only the fact is kept that they were written.          *)
(***************************************************************************)
EXTENDS Naturals, FiniteSetsExt

CONSTANTS
  Turns,     \* calls of handle_intent
  MaxCuts  \* bound on records cut short by an error or a crash

ASSUME TranscriptAssumption == MaxCuts \in Nat

Roles == {"buyer", "agent"}

VARIABLES
  session,     \* is there a row of the session
  transcript,  \* the rows of its messages
  traced,      \* the turns whose events have rows
  record,          \* the step of each turn's record
  top,         \* the highest index that append_turn has read
  before,      \* history: the turns that were over when a turn began
  cut          \* history: the turns whose record an error or a crash cut short

transcriptVars == <<session, transcript, traced, record, top, before, cut>>

\* The select of append_turn, and its insert.
ReadStep(role) == IF role = "buyer" THEN "read buyer" ELSE "read agent"

WriteStep(role) == IF role = "buyer" THEN "write buyer" ELSE "write agent"

MoveTo(t, step) == record' = [record EXCEPT ![t] = step]

TranscriptInit ==
  /\ session = FALSE
  /\ transcript = {} /\ traced = {}
  /\ record = [t \in Turns |-> "idle"]
  /\ top = [t \in Turns |-> 0]
  /\ before = [t \in Turns |-> {}]
  /\ cut = {}

-----------------------------------------------------------------------------
(* touch_session.                                                          *)

Over(t) == record[t] = "over"

\* A mutant: the session is inserted without looking for it.
MutTouchInserts(t) ==
  /\ record[t] = "idle"
  /\ before' = [before EXCEPT ![t] = {u \in Turns : Over(u)}]
  /\ MoveTo(t, "insert")
  /\ UNCHANGED <<session, transcript, traced, top, cut>>

\* The row of the session is looked for, and updated if it is there.
Touch(t) ==
  /\ record[t] = "idle"
  /\ before' = [before EXCEPT ![t] = {u \in Turns : Over(u)}]
  /\ MoveTo(t, IF session THEN ReadStep("buyer") ELSE "insert")
  /\ UNCHANGED <<session, transcript, traced, top, cut>>

\* It was not there.  If it is by now, its key makes the insert raise, and
\* nothing of the turn is recorded.
InsertSession(t) ==
  /\ record[t] = "insert"
  /\ session' = TRUE
  /\ MoveTo(t, IF session THEN "over" ELSE ReadStep("buyer"))
  /\ UNCHANGED <<transcript, traced, top, before, cut>>

-----------------------------------------------------------------------------
(* append_turn, for the question and then for the answer.                  *)

Indexes == {m.index : m \in transcript}

\* A mutant: the rows are counted, from zero.
MutHighest == Cardinality(Indexes) - 1

\* max(turn_index) or 0.
Highest == Max(Indexes \union {0})

ReadMax(t, role) ==
  /\ record[t] = ReadStep(role)
  /\ top' = [top EXCEPT ![t] = Highest]
  /\ MoveTo(t, WriteStep(role))
  /\ UNCHANGED <<session, transcript, traced, before, cut>>

\* A mutant: the answer gets the index of the question, as parts of one turn.
MutAppendPerTurn(t, role) ==
  /\ record[t] = WriteStep(role)
  /\ transcript' = transcript \union
       {[turn |-> t, role |-> role,
         index |-> IF role = "buyer" THEN top[t] + 1 ELSE top[t]]}
  /\ top' = [top EXCEPT ![t] = 0]
  /\ MoveTo(t, IF role = "buyer" THEN ReadStep("agent") ELSE "events")
  /\ UNCHANGED <<session, traced, before, cut>>

\* Nothing keeps two rows of a session from the same index.
AppendMessage(t, role) ==
  /\ record[t] = WriteStep(role)
  /\ transcript' =
       transcript \union {[turn |-> t, role |-> role, index |-> top[t] + 1]}
  /\ top' = [top EXCEPT ![t] = 0]
  /\ MoveTo(t, IF role = "buyer" THEN ReadStep("agent") ELSE "events")
  /\ UNCHANGED <<session, traced, before, cut>>

\* A mutant: the events are written before the answer.
MutEventsFirst(t) ==
  /\ record[t] \in {"read agent", "events"}
  /\ traced' = traced \union {t}
  /\ MoveTo(t, IF record[t] = "events" THEN "over" ELSE record[t])
  /\ UNCHANGED <<session, transcript, top, before, cut>>

\* What draining the trace of a turn leaves to be written: its events but the
\* tokens, or nothing if there is no trace or only tokens in it.
Drained == {"events", "nothing"}

\* append_events writes nothing for no events.
AppendEvents(t) ==
  /\ record[t] = "events"
  /\ \E rest \in Drained :
       traced' = IF rest = "nothing" THEN traced ELSE traced \union {t}
  /\ MoveTo(t, "over")
  /\ UNCHANGED <<session, transcript, top, before, cut>>

\* Any error is logged and ends the record, and a crash ends it too; what was
\* committed stays.
CutShort(t) ==
  /\ record[t] \notin {"idle", "over"}
  /\ Cardinality(cut) < MaxCuts
  /\ cut' = cut \union {t}
  /\ top' = [top EXCEPT ![t] = 0]
  /\ MoveTo(t, "over")
  /\ UNCHANGED <<session, transcript, traced, before>>

-----------------------------------------------------------------------------
TranscriptNext ==
  \E t \in Turns :
    \/ Touch(t)
    \/ InsertSession(t)
    \/ \E role \in Roles : ReadMax(t, role) \/ AppendMessage(t, role)
    \/ AppendEvents(t)
    \/ CutShort(t)

TranscriptSpec == TranscriptInit /\ [][TranscriptNext]_transcriptVars

-----------------------------------------------------------------------------
(* Properties.                                                             *)

Steps == {"idle", "insert", "events", "over"}
           \union {ReadStep(role) : role \in Roles}
           \union {WriteStep(role) : role \in Roles}

Rows == [turn : Turns, role : Roles, index : Nat \ {0}]

TranscriptTypeOK ==
  /\ session \in BOOLEAN
  /\ transcript \in SUBSET Rows
  /\ traced \in SUBSET Turns
  /\ record \in [Turns -> Steps]
  /\ top \in [Turns -> Nat]
  /\ before \in [Turns -> SUBSET Turns]
  /\ cut \in SUBSET Turns

\* However turns overlap and are cut short, list_turns shows a turn's question
\* before its answer, and both after the messages of every turn that was over
\* before it began.
TranscriptInOrder ==
  \A m, n \in transcript :
    \/ m.turn \in before[n.turn]
    \/ m.turn = n.turn /\ m.role = "buyer" /\ n.role = "agent"
    => m.index < n.index

Overlap(t, u) ==
  /\ t # u
  /\ record[t] # "idle" /\ record[u] # "idle"
  /\ t \notin before[u] /\ u \notin before[t]

Recorded(t) == \A role \in Roles : \E m \in transcript : m.turn = t /\ m.role = role

\* Without an error or a crash a turn that is over is missing from the
\* transcript only if it overlapped one that is recorded, or will be: two
\* turns never drop each other, though both may have found no session.  And
\* the events of a turn are there only if its messages are.
DroppedOnlyInRaces ==
  /\ \A t \in traced : Recorded(t)
  /\ \A t \in Turns :
       Over(t) /\ t \notin cut =>
         \/ Recorded(t)
         \/ \E u \in Turns :
              /\ Overlap(t, u)
              /\ u \in cut \/ ~Over(u) \/ Recorded(u)
=============================================================================

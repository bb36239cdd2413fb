-------------------------- MODULE IntentQueueProofs --------------------------
(***************************************************************************)
(* Proofs about IntentQueue, for any number of requests, questions and     *)
(* workers and any bound on faults.                                        *)
(*                                                                         *)
(* The inductive invariant IInv has a part for each side of the queue.     *)
(* ClientsFit: whoever is about to push, or has pushed, the task of a      *)
(* question holds its key as long as no key of the question lapsed, and    *)
(* every task, key, event and answer belongs to the question it was made   *)
(* for.  HandlersFit: how far a handler has come says where its message    *)
(* is, how often its agent ran and what the status may be.  StreamsFit:    *)
(* the unread messages of a stream are in a strict order, so COUNT n takes *)
(* at most n of them.  SlotsFit: so no worker has too many in flight.      *)
(***************************************************************************)
EXTENDS IntentQueue, FiniteSetTheorems, TLAPS

\* A request that has not pushed its task has no task and no answer yet.
BeforePush == {"idle", "claim", "previous", "push"}

StepsFit ==
  \A c \in Requests :
    /\ pc[c] # "idle" => asked[c] \in Calls
    /\ pc[c] \in BeforePush =>
         place[c] = "none" /\ task[c] = None /\ reply[c] = None
    /\ pc[c] = "wait" => task[c] # None

\* Tasks, keys, events and done statuses name requests that asked the same.
TasksFit ==
  /\ \A c \in Requests : task[c] # None =>
       pc[task[c]] # "idle" /\ Question(task[c]) = Question(c)
  /\ \A q \in Questions : idem[q] # None =>
       pc[idem[q]] # "idle" /\ Question(idem[q]) = q
  /\ \A e \in wire : pc[e] # "idle"
  /\ \A t \in Requests : status[t].state = "done" => status[t].text = t

\* While no key of its question lapsed, a request on its way to push or past
\* it is the one its key names.
KeysFit ==
  \A c \in Requests : pc[c] # "idle" /\ Question(c) \notin lapsed =>
    /\ pc[c] = "push" \/ place[c] # "none" => idem[Question(c)] = c
    /\ pc[c] = "previous" => idem[Question(c)] # None

AnswersFit ==
  \A c \in Requests : reply[c] \in Requests =>
    /\ pc[reply[c]] # "idle"
    /\ SessionOfTask(reply[c]) = SessionOf[Question(c)]

ClientsFit == StepsFit /\ TasksFit /\ KeysFit /\ AnswersFit

\* A handler runs its agent once, in the middle, and its message is pending
\* until the handler is over.
HandlerFits(t) ==
  /\ place[t] \in {"none", "unread"} => handler[t] = "none" /\ runs[t] = 0
  /\ handler[t] \in Live => place[t] = "pending"
  /\ handler[t] \in {"start", "run"} => runs[t] = 0
  /\ handler[t] \in {"done", "failed", "ack"} => runs[t] = 1
  /\ runs[t] <= 1
  /\ handler[t] = "ack" => status[t].state \in {"done", "queued"}
  /\ handler[t] \in {"failed", "nack", "killed"} => faults > 0
  /\ place[t] = "acked" =>
       /\ handler[t] = "over" /\ runs[t] # 0
       /\ status[t].state \in {"done", "queued"}

HandlersFit == \A t \in Requests : HandlerFits(t)

\* Of two unread messages of a stream one was ahead of the other, never the
\* other way round, and what was ahead of the first was ahead of the second.
StreamsFit ==
  /\ \A t \in Requests : \A u \in ahead[t] : place[u] # "none"
  /\ \A t \in Requests : t \notin ahead[t]
  /\ \A s \in Streams : \A t, u \in Unread(s) :
       /\ t = u \/ t \in ahead[u] \/ u \in ahead[t]
       /\ \A v \in Unread(s) : v \in ahead[u] /\ u \in ahead[t] => v \in ahead[t]

SlotsFit ==
  /\ \A w \in Workers : \A t \in flight[w] : place[t] \notin {"none", "unread"}
  /\ FlightBounded

IInv == TypeOK /\ ClientsFit /\ HandlersFit /\ StreamsFit /\ SlotsFit
-----------------------------------------------------------------------------
(* The first n of a stream are at most n.                                  *)

\* How many unread messages are ahead of t in its stream.
Rank(t, s) == Cardinality(ahead[t] \intersect Unread(s))

\* Two unread messages of a stream have different ranks.
LEMMA RanksDiffer ==
  ASSUME IInv, NEW s \in Streams, NEW t \in Unread(s), NEW u \in Unread(s),
         u \in ahead[t]
  PROVE  Rank(u, s) < Rank(t, s) /\ Rank(u, s) \in Nat /\ Rank(t, s) \in Nat
<1> DEFINE U == ahead[u] \intersect Unread(s)
           T == ahead[t] \intersect Unread(s)
<1>1. U \subseteq T /\ u \in T /\ u \notin U
  BY DEF IInv, StreamsFit, Unread
<1>2. IsFiniteSet(T)
  BY QueueAssumption, FS_Subset DEF Unread
<1>3. IsFiniteSet(U) /\ Cardinality(U) <= Cardinality(T) /\ Cardinality(U) # Cardinality(T)
  BY <1>1, <1>2, FS_Subset
<1>4. Cardinality(U) \in Nat /\ Cardinality(T) \in Nat
  BY <1>2, <1>3, FS_CardinalityType
<1> QED BY <1>3, <1>4 DEF Rank

\* XREADGROUP with COUNT n takes at most n messages of a stream.
LEMMA OldestBounded ==
  ASSUME IInv, NEW s \in Streams, NEW n \in Nat
  PROVE  IsFiniteSet(Oldest(s, n)) /\ Cardinality(Oldest(s, n)) <= n
<1> DEFINE S == Oldest(s, n)
           f == [t \in S |-> Rank(t, s)]
<1>1. S \subseteq Unread(s) /\ Unread(s) \subseteq Requests
  BY DEF Oldest, Unread
<1>2. ASSUME NEW t \in S PROVE Rank(t, s) \in 0..(n - 1)
  <2>1. IsFiniteSet(ahead[t] \intersect Unread(s))
    BY <1>1, QueueAssumption, FS_Subset
  <2>2. Rank(t, s) \in Nat
    BY <2>1, FS_CardinalityType DEF Rank
  <2>3. Rank(t, s) < n
    BY DEF Oldest, Rank
  <2> QED BY <2>2, <2>3
<1>3. f \in [S -> 0..(n - 1)]
  BY <1>2
<1>4. ASSUME NEW t \in S, NEW u \in S, f[t] = f[u] PROVE t = u
  <2>1. Rank(t, s) = Rank(u, s)
    BY <1>4
  <2>2. t \in Unread(s) /\ u \in Unread(s)
    BY <1>1
  <2>3. t = u \/ t \in ahead[u] \/ u \in ahead[t]
    BY <2>2 DEF IInv, StreamsFit
  <2>4. CASE t \in ahead[u]
    <3>1. Rank(t, s) < Rank(u, s) /\ Rank(u, s) \in Nat
      BY <2>2, <2>4, RanksDiffer
    <3> QED BY <2>1, <3>1
  <2>5. CASE u \in ahead[t]
    <3>1. Rank(u, s) < Rank(t, s) /\ Rank(t, s) \in Nat
      BY <2>2, <2>5, RanksDiffer
    <3> QED BY <2>1, <3>1
  <2> QED BY <2>3, <2>4, <2>5
<1> HIDE DEF f
<1>5. f \in Injection(S, 0..(n - 1))
  BY <1>3, <1>4 DEF Injection, IsInjective
<1>6. IsFiniteSet(0..(n - 1)) /\ Cardinality(0..(n - 1)) = n
  <2>1. n - 1 \in Int
    OBVIOUS
  <2>2. /\ IsFiniteSet(0..(n - 1))
        /\ Cardinality(0..(n - 1)) = IF 0 > n - 1 THEN 0 ELSE (n - 1) - 0 + 1
    BY <2>1, FS_Interval
  <2> QED BY <2>2
<1> QED BY <1>5, <1>6, FS_Injection

-----------------------------------------------------------------------------
(* Types.                                                                  *)

\* _enqueue's return keeps the types of the request's variables.
LEMMA EnqueuedType ==
  ASSUME TypeOK, NEW c \in Requests, NEW t \in Requests, Enqueued(c, t)
  PROVE  /\ pc' \in [Requests -> {"idle", "claim", "previous", "push", "status",
                                 "wait", "over", "lost"}]
         /\ task' \in [Requests -> Requests \union {None}]
         /\ reply' = reply
BY DEF TypeOK, Enqueued

\* A fault, or another bounded event, keeps the bound.
LEMMA EventsType ==
  ASSUME TypeOK, Fault \/ OtherEvent
  PROVE  faults' \in Nat /\ others' \in Nat /\ faults' + others' <= MaxEvents
BY QueueAssumption DEF TypeOK, Fault, OtherEvent

\* A request that was sent has a question.
LEMMA AskedType ==
  ASSUME IInv, NEW c \in Requests, pc[c] # "idle"
  PROVE  asked[c] \in Calls /\ Question(c) \in Questions
BY DEF IInv, ClientsFit, StepsFit, Calls, Question

\* The steps of the API process and of its clients keep the types.
LEMMA ApiType ==
  ASSUME IInv, NEW c \in Requests,
         Submit(c) \/ Call(c) \/ QueryTask(c) \/ ClaimUnprotected(c) \/ ApiRedisError(c)
  PROVE  TypeOK'
<1> USE DEF IInv, TypeOK, redis, stream, workers, history
<1>0. pc[c] # "idle" => Question(c) \in Questions
  BY AskedType
<1>1. CASE Submit(c)
  BY <1>1 DEF Submit, Calls
<1>2. CASE Claim(c)
  <2>1. idem' \in [Questions -> Requests \union {None}]
    BY <1>2 DEF Claim
  <2> QED BY <1>2, <2>1 DEF Claim
<1>3. CASE ReadPrevious(c)
  <2>1. CASE idem[Question(c)] # None /\ Enqueued(c, idem[Question(c)])
    <3>1. idem[Question(c)] \in Requests
      BY <1>0, <1>3, <2>1 DEF ReadPrevious
    <3> QED BY <1>3, <2>1, <3>1, EnqueuedType DEF ReadPrevious
  <2> QED BY <1>3, <2>1 DEF ReadPrevious
<1>4. CASE Push(c)
  BY <1>4 DEF Push, StreamOf, Streams, Unread, Places
<1>5. CASE SetQueued(c)
  BY <1>5, EnqueuedType DEF SetQueued, States
<1>6. CASE Poll(c) \/ GiveUp(c) \/ QueryTask(c)
  <2>1. pc[c] = "wait" => task[c] \in Requests
    BY DEF ClientsFit, StepsFit
  <2>2. task[c] \in Requests => status[task[c]].text \in Requests \union {None}
    BY DEF NoText
  <2>3. CASE Poll(c)
    <3>1. PICK answer \in Requests \union {Error, None} : Answer(c, answer)
      BY <2>1, <2>2, <2>3 DEF Poll, Waiting
    <3> QED BY <2>3, <3>1 DEF Poll, Answer
  <2>4. CASE GiveUp(c)
    BY <2>4 DEF GiveUp, Answer
  <2>5. CASE QueryTask(c)
    BY <2>2, <2>5 DEF QueryTask
  <2> QED BY <1>6, <2>3, <2>4, <2>5
<1>7. CASE ClaimUnprotected(c)
  BY <1>0, <1>7, EventsType DEF ClaimUnprotected
<1>8. CASE ApiRedisError(c)
  BY <1>8, EventsType DEF ApiRedisError, Answer
<1> QED BY <1>1, <1>2, <1>3, <1>4, <1>5, <1>6, <1>7, <1>8 DEF Call

\* The steps of a worker's loop keep the types.
LEMMA WorkerType ==
  ASSUME TypeOK, NEW w \in Workers, Consume(w) \/ Stop(w) \/ Crash(w)
  PROVE  TypeOK'
<1> USE DEF TypeOK, redis, stream, api, history
<1>1. CASE FullLoop(w) \/ LeaveLoop(w) \/ Start(w)
  BY <1>1 DEF FullLoop, LeaveLoop, Start, Running
<1>2. CASE EmptyRead(w)
  BY <1>2 DEF EmptyRead, AfterRead, Running
<1>3. CASE Read(w)
  <2>1. Batch(FreeSlots(w)) \subseteq Requests
    BY DEF Batch, Oldest, Unread
  <2> QED BY <1>3, <2>1 DEF Read, AfterRead, Places, HandlerSteps, Live
<1>4. CASE Exit(w) \/ Crash(w)
  BY <1>4, EventsType DEF Exit, Crash, Down, HandlerSteps, Live
<1>5. CASE Stop(w)
  BY <1>5, EventsType DEF Stop
<1> QED BY <1>1, <1>2, <1>3, <1>4, <1>5 DEF Consume

\* The steps of a handler keep the types.
LEMMA HandlerType ==
  ASSUME TypeOK, NEW t \in Requests, Work(t) \/ HandlerRedisError(t)
  PROVE  TypeOK'
<1> USE DEF TypeOK, redis, stream, api, history, HandlerFrame, Goto, SetStatus,
            HandlerSteps, Live, States, NoText
<1>1. CASE SetRunning(t)
  BY <1>1 DEF SetRunning
<1>2. CASE RunAgent(t)
  BY <1>2 DEF RunAgent, Broadcast
<1>3. CASE SetDone(t) \/ SetFailed(t)
  <2>1. \E state \in {"done", "failed"}, text \in {t, None} :
          status' = [status EXCEPT ![t] = [state |-> state, text |-> text]]
    BY <1>3 DEF SetDone, SetFailed
  <2>2. status' \in [Requests -> [state : States, text : Requests \union {None}]]
    BY <2>1
  <2>3. handler' \in [Requests -> HandlerSteps]
    BY <1>3 DEF SetDone, SetFailed
  <2> QED BY <1>3, <2>2, <2>3 DEF SetDone, SetFailed
<1>4. CASE Ack(t) \/ Nack(t)
  BY <1>4 DEF Ack, Nack, Places
<1>5. CASE HandlerRedisError(t)
  BY <1>5, EventsType DEF HandlerRedisError
<1> QED BY <1>1, <1>2, <1>3, <1>4, <1>5 DEF Work

LEMMA TypeStep ==
  ASSUME IInv, [Next]_vars
  PROVE  TypeOK'
<1>1. ASSUME NEW e \in wire, Deliver(e) \/ LoseEvent(e)
      PROVE  TypeOK'
  BY <1>1, EventsType
     DEF IInv, TypeOK, redis, stream, api, workers, history, Deliver, Forward, LoseEvent
<1>2. ASSUME NEW q \in Questions, Lapse(q)
      PROVE  TypeOK'
  BY <1>2, EventsType DEF IInv, TypeOK, stream, api, workers, Lapse
<1>3. CASE ApiCrash
  BY <1>3, EventsType DEF IInv, TypeOK, redis, stream, workers, ApiCrash
<1>4. CASE UNCHANGED vars
  BY <1>4 DEF IInv, TypeOK, vars, redis, stream, api, workers, history
<1> QED
  BY <1>1, <1>2, <1>3, <1>4, ApiType, WorkerType, HandlerType DEF IInv, Next, Failure

-----------------------------------------------------------------------------
(* What a step may do without touching a part of the invariant.            *)

LEMMA ClientsFrame ==
  ASSUME IInv, UNCHANGED <<idem, pc, asked, task, reply, lapsed>>,
         \A e \in wire' : e \in wire \/ (e \in Requests /\ place[e] # "none"),
         \A t \in Requests : place'[t] = "none" <=> place[t] = "none",
         \A t \in Requests : status'[t].state = "done" => status'[t].text = t
  PROVE  ClientsFit'
<1>1. StepsFit'
  BY DEF IInv, ClientsFit, StepsFit
<1>2. TasksFit'
  <2>1. \A e \in wire' : pc[e] # "idle"
    BY DEF IInv, TypeOK, ClientsFit, StepsFit, TasksFit, BeforePush
  <2> QED BY <2>1 DEF IInv, ClientsFit, TasksFit, Question
<1>3. KeysFit'
  BY DEF IInv, ClientsFit, KeysFit, Question
<1>4. AnswersFit'
  BY DEF IInv, ClientsFit, AnswersFit, Question, SessionOfTask
<1> QED BY <1>1, <1>2, <1>3, <1>4 DEF ClientsFit

LEMMA HandlersFrame ==
  ASSUME IInv, TypeOK', UNCHANGED <<place, handler, runs>>, faults' >= faults,
         \A t \in Requests :
           status'[t].state = status[t].state \/ status'[t].state = "queued"
  PROVE  HandlersFit'
BY DEF IInv, TypeOK, HandlersFit, HandlerFits

\* The step of one handler.
LEMMA HandlersMove ==
  ASSUME IInv, TypeOK', NEW t \in Requests, HandlerFits(t)', faults' >= faults,
         \A u \in Requests : u # t =>
           /\ place'[u] = place[u] /\ handler'[u] = handler[u]
           /\ runs'[u] = runs[u] /\ status'[u] = status[u]
  PROVE  HandlersFit'
<1>1. ASSUME NEW u \in Requests, u # t PROVE HandlerFits(u)'
  BY <1>1 DEF IInv, TypeOK, HandlersFit, HandlerFits
<1> QED BY <1>1 DEF HandlersFit

LEMMA StreamsFrame ==
  ASSUME IInv, UNCHANGED <<lane, ahead>>,
         \A t \in Requests : place[t] # "none" => place'[t] # "none",
         \A t \in Requests : place'[t] = "unread" => place[t] = "unread"
  PROVE  StreamsFit'
<1>1. \A s \in Streams : Unread(s)' \subseteq Unread(s)
  BY DEF Unread
<1>2. \A t \in Requests : \A u \in ahead[t] : u \in Requests
  BY DEF IInv, TypeOK
<1> QED BY <1>1, <1>2 DEF IInv, StreamsFit

LEMMA SlotsFrame ==
  ASSUME IInv, TypeOK', UNCHANGED lane,
         \A w \in Workers : flight'[w] \subseteq flight[w],
         \A t \in Requests :
           place[t] \notin {"none", "unread"} => place'[t] \notin {"none", "unread"}
  PROVE  SlotsFit'
<1>1. \A w \in Workers : \A t \in flight'[w] : place'[t] \notin {"none", "unread"}
  BY DEF IInv, TypeOK, SlotsFit
<1>2. ASSUME NEW w \in Workers, NEW s \in Streams
      PROVE  Cardinality({t \in flight'[w] : lane'[t] = s}) <= Concurrency
  <2> DEFINE old == {t \in flight[w] : lane[t] = s}
             new == {t \in flight'[w] : lane'[t] = s}
  <2>1. new \subseteq old /\ old \subseteq Requests
    BY DEF IInv, TypeOK
  <2>2. IsFiniteSet(old)
    BY <2>1, QueueAssumption, FS_Subset
  <2>3. IsFiniteSet(new) /\ Cardinality(new) <= Cardinality(old)
    BY <2>1, <2>2, FS_Subset
  <2>4. Cardinality(old) <= Concurrency
    BY DEF IInv, SlotsFit, FlightBounded
  <2>5. Cardinality(old) \in Nat /\ Cardinality(new) \in Nat
    BY <2>2, <2>3, FS_CardinalityType
  <2> QED BY <2>3, <2>4, <2>5, QueueAssumption
<1> QED BY <1>1, <1>2 DEF SlotsFit, FlightBounded

\* The workers' side of a step of the API process that pushes nothing.
LEMMA WorkersFrame ==
  ASSUME IInv, TypeOK', UNCHANGED <<stream, workers, runs>>, faults' >= faults,
         \A t \in Requests :
           status'[t].state = status[t].state \/ status'[t].state = "queued"
  PROVE  HandlersFit' /\ StreamsFit' /\ SlotsFit'
<1> USE DEF stream, workers
<1>1. HandlersFit'
  BY HandlersFrame
<1>2. StreamsFit' /\ SlotsFit'
  BY StreamsFrame, SlotsFrame
<1> QED BY <1>1, <1>2

-----------------------------------------------------------------------------
(* The API process.                                                        *)

LEMMA SubmitStep ==
  ASSUME IInv, TypeOK', NEW c \in Requests, Submit(c)
  PROVE  ClientsFit'
<1> USE DEF IInv, ClientsFit, redis, stream
<1>1. /\ UNCHANGED <<idem, place, status, wire, task, reply, lapsed>>
      /\ \A d \in Requests : d # c => pc'[d] = pc[d] /\ asked'[d] = asked[d]
      /\ pc[c] = "idle" /\ pc'[c] = "claim" /\ asked'[c] \in Calls
  BY DEF Submit, TypeOK, history, Calls
<1>2. place[c] = "none" /\ task[c] = None /\ reply[c] = None
  BY <1>1 DEF StepsFit, BeforePush
<1>3. StepsFit'
  BY <1>1, <1>2 DEF StepsFit, BeforePush
<1>4. TasksFit'
  <2>1. ASSUME NEW d \in Requests, pc[d] # "idle"
        PROVE  pc'[d] # "idle" /\ Question(d)' = Question(d)
    BY <1>1, <2>1 DEF Question
  <2>2. ASSUME NEW d \in Requests, task'[d] # None
        PROVE  pc'[task'[d]] # "idle" /\ Question(task[d])' = Question(d)'
    <3>1. d # c /\ task[d] \in Requests /\ pc[task[d]] # "idle"
      BY <1>1, <1>2, <2>2 DEF TasksFit, TypeOK
    <3>2. Question(task[d]) = Question(d) /\ Question(d)' = Question(d)
      BY <1>1, <2>2, <3>1 DEF TasksFit, Question
    <3> QED BY <1>1, <2>1, <3>1, <3>2
  <2>3. ASSUME NEW q \in Questions, idem'[q] # None
        PROVE  pc'[idem'[q]] # "idle" /\ Question(idem[q])' = q
    <3>1. idem[q] \in Requests /\ pc[idem[q]] # "idle" /\ Question(idem[q]) = q
      BY <1>1, <2>3 DEF TasksFit, TypeOK
    <3> QED BY <1>1, <2>1, <3>1
  <2>4. \A e \in wire' : pc'[e] # "idle"
    BY <1>1, <2>1 DEF TasksFit, TypeOK
  <2> QED BY <1>1, <2>2, <2>3, <2>4 DEF TasksFit
<1>5. KeysFit'
  BY <1>1, <1>2 DEF KeysFit, Question
<1>6. AnswersFit'
  BY <1>1, <1>2, QueueAssumption DEF AnswersFit, Question, SessionOfTask
<1> QED BY <1>3, <1>4, <1>5, <1>6

\* A request moves on without a task or an answer.
LEMMA ClaimStep ==
  ASSUME IInv, TypeOK', NEW c \in Requests,
         \/ Claim(c) \/ ClaimUnprotected(c)
         \/ (ReadPrevious(c) /\ idem[Question(c)] = None)
  PROVE  ClientsFit'
<1> USE DEF IInv, ClientsFit, redis, stream
<1>1. /\ UNCHANGED <<place, status, wire, asked, task, reply>>
      /\ pc[c] \in {"claim", "previous"}
      /\ pc'[c] \in {"previous", "push"}
      /\ \A d \in Requests : d # c => pc'[d] = pc[d]
      /\ lapsed \subseteq lapsed'
  BY QueueAssumption
     DEF Claim, ClaimUnprotected, ReadPrevious, Enqueued, TypeOK, history
<1>2. asked[c] \in Calls /\ Question(c) \in Questions /\ place[c] = "none"
  BY <1>1, AskedType DEF StepsFit, BeforePush
<1>3. \A q \in Questions :
        idem'[q] = idem[q] \/ (idem[q] = None /\ idem'[q] = c /\ q = Question(c))
  BY <1>1, <1>2 DEF Claim, ClaimUnprotected, ReadPrevious, TypeOK
<1>4. Question(c) \notin lapsed' =>
        /\ pc'[c] = "push" => idem'[Question(c)] = c
        /\ pc'[c] = "previous" => idem'[Question(c)] # None
  <2>1. CASE Claim(c)
    BY <1>2, <2>1 DEF Claim, TypeOK
  <2>2. CASE ClaimUnprotected(c)
    BY <2>2 DEF ClaimUnprotected
  <2>3. CASE ReadPrevious(c) /\ idem[Question(c)] = None
    BY <1>1, <2>3 DEF ReadPrevious, KeysFit, history
  <2> QED BY <2>1, <2>2, <2>3
<1>5. StepsFit'
  BY <1>1, <1>2 DEF StepsFit, BeforePush
<1>6. TasksFit'
  BY <1>1, <1>3 DEF TasksFit, Question, TypeOK
<1>7. KeysFit'
  <2> SUFFICES ASSUME NEW d \in Requests, pc'[d] # "idle", Question(d)' \notin lapsed'
               PROVE  /\ pc'[d] = "push" \/ place'[d] # "none" => idem'[Question(d)'] = d
                      /\ pc'[d] = "previous" => idem'[Question(d)'] # None
    BY DEF KeysFit
  <2>1. Question(d)' = Question(d) /\ Question(d) \notin lapsed
    BY <1>1 DEF Question
  <2>2. CASE d = c
    BY <1>1, <1>2, <1>4, <2>1, <2>2
  <2>3. CASE d # c
    <3>1. pc[d] # "idle" /\ Question(d) \in Questions
      BY <1>1, <2>3, AskedType
    <3> QED BY <1>1, <1>3, <2>1, <2>3, <3>1, QueueAssumption DEF KeysFit
  <2> QED BY <2>2, <2>3
<1>8. AnswersFit'
  BY <1>1 DEF AnswersFit, Question, SessionOfTask, TypeOK
<1> QED BY <1>5, <1>6, <1>7, <1>8

\* A request gets the task it waits for, or answers with.
LEMMA EnqueuedStep ==
  ASSUME IInv, TypeOK', NEW c \in Requests, NEW t \in Requests, Enqueued(c, t),
         pc[c] \in {"previous", "status"}, pc[t] # "idle", Question(t) = Question(c),
         UNCHANGED <<idem, place, wire, asked, lapsed>>,
         \A u \in Requests : status'[u].state = "done" => status'[u].text = u
  PROVE  ClientsFit'
<1> USE DEF IInv, ClientsFit
<1>1. /\ reply' = reply /\ task'[c] = t /\ pc'[c] \in {"wait", "over"}
      /\ \A d \in Requests : d # c => pc'[d] = pc[d] /\ task'[d] = task[d]
  BY DEF Enqueued, TypeOK
<1>2. \A d \in Requests : pc[d] # "idle" => pc'[d] # "idle"
  BY <1>1
<1>3. StepsFit'
  BY <1>1, QueueAssumption DEF StepsFit, BeforePush
<1>4. TasksFit'
  <2>1. \A d : Question(d)' = Question(d)
    BY DEF Question
  <2>2. ASSUME NEW d \in Requests, task'[d] # None
        PROVE  pc'[task'[d]] # "idle" /\ Question(task'[d]) = Question(d)
    <3>1. CASE d = c
      BY <1>1, <1>2, <3>1
    <3>2. CASE d # c
      BY <1>1, <1>2, <2>2, <3>2 DEF TasksFit, TypeOK
    <3> QED BY <3>1, <3>2
  <2>3. \A q \in Questions : idem'[q] # None => pc'[idem'[q]] # "idle"
    BY <1>2 DEF TasksFit, TypeOK
  <2>4. \A e \in wire' : pc'[e] # "idle"
    BY <1>2 DEF TasksFit, TypeOK
  <2>5. ASSUME NEW d \in Requests, task'[d] # None
        PROVE  (Question(task[d]) = Question(d))'
    BY <2>2, <2>5 DEF Question
  <2>6. ASSUME NEW q \in Questions, idem'[q] # None
        PROVE  (Question(idem[q]) = q)'
    BY <2>6 DEF TasksFit, Question
  <2> QED BY <2>2, <2>3, <2>4, <2>5, <2>6 DEF TasksFit
<1>5. KeysFit'
  BY <1>1 DEF KeysFit, Question
<1>6. AnswersFit'
  BY <1>1, <1>2 DEF AnswersFit, Question, SessionOfTask, TypeOK
<1> QED BY <1>3, <1>4, <1>5, <1>6

\* Requests are answered with an error, with nothing or with what belongs to
\* their session, and no request moves back.
LEMMA AnswerStep ==
  ASSUME IInv, TypeOK', UNCHANGED <<place, status, asked, task>>,
         wire' \subseteq wire, lapsed \subseteq lapsed',
         \A c \in Requests :
           pc'[c] = pc[c] \/ (pc[c] # "idle" /\ pc'[c] \in {"over", "lost"}),
         \A q \in Questions :
           idem'[q] = idem[q] \/ (idem'[q] = None /\ q \in lapsed'),
         \A c \in Requests : reply'[c] # reply[c] =>
           /\ pc'[c] \notin BeforePush
           /\ reply'[c] \in Requests =>
                /\ pc[reply'[c]] # "idle"
                /\ SessionOfTask(reply'[c]) = SessionOf[Question(c)]
  PROVE  ClientsFit'
<1> USE DEF IInv, ClientsFit
<1>1. \A c \in Requests : pc[c] # "idle" <=> pc'[c] # "idle"
  OBVIOUS
<1>2. StepsFit'
  BY <1>1 DEF StepsFit, BeforePush
<1>3. TasksFit'
  BY <1>1 DEF TasksFit, Question, TypeOK
<1>4. KeysFit'
  <2> SUFFICES ASSUME NEW d \in Requests, pc'[d] # "idle", Question(d)' \notin lapsed'
               PROVE  /\ pc'[d] = "push" \/ place'[d] # "none" => idem'[Question(d)'] = d
                      /\ pc'[d] = "previous" => idem'[Question(d)'] # None
    BY DEF KeysFit
  <2>1. Question(d)' = Question(d) /\ Question(d) \notin lapsed /\ Question(d) \in Questions
    BY <1>1, AskedType DEF Question
  <2>2. idem'[Question(d)] = idem[Question(d)]
    BY <2>1
  <2> QED BY <1>1, <2>1, <2>2 DEF KeysFit
<1>5. AnswersFit'
  <2> SUFFICES ASSUME NEW c \in Requests, reply'[c] \in Requests
               PROVE  /\ pc'[reply'[c]] # "idle"
                      /\ (SessionOfTask(reply[c]) = SessionOf[Question(c)])'
    BY DEF AnswersFit
  <2>1. pc[reply'[c]] # "idle" /\ SessionOfTask(reply'[c]) = SessionOf[Question(c)]
    BY DEF AnswersFit
  <2> QED BY <1>1, <2>1 DEF SessionOfTask, Question
<1> QED BY <1>2, <1>3, <1>4, <1>5

\* A fault or another bounded event never lowers the count of faults.
LEMMA FaultsGrow ==
  ASSUME IInv
  PROVE  /\ Fault => faults' = faults + 1 /\ faults' >= faults /\ faults' > 0
         /\ OtherEvent => faults' >= faults
         /\ faults' = faults => faults' >= faults
BY DEF IInv, TypeOK, Fault, OtherEvent

\* What a poll answers with, or a client of the asynchronous route is told.
LEMMA StatusOfTask ==
  ASSUME IInv, NEW c \in Requests, task[c] # None, status[task[c]].state = "done"
  PROVE  LET text == status[task[c]].text
         IN  text \in Requests /\ pc[text] # "idle"
             /\ SessionOfTask(text) = SessionOf[Question(c)]
<1>1. task[c] \in Requests /\ status[task[c]].text = task[c]
  BY DEF IInv, TypeOK, ClientsFit, TasksFit
<1>2. pc[task[c]] # "idle" /\ Question(task[c]) = Question(c)
  BY DEF IInv, ClientsFit, TasksFit
<1> QED BY <1>1, <1>2 DEF SessionOfTask, Question

\* Every step of the API process but the push keeps the invariant.
LEMMA ApiStep ==
  ASSUME IInv, TypeOK', NEW c \in Requests,
         \/ Submit(c) \/ Claim(c) \/ ReadPrevious(c) \/ SetQueued(c) \/ Poll(c)
         \/ GiveUp(c) \/ QueryTask(c) \/ ClaimUnprotected(c) \/ ApiRedisError(c)
  PROVE  IInv'
<1>1. ClientsFit'
  <2>1. CASE Submit(c)
    BY <2>1, SubmitStep
  <2>2. CASE Claim(c) \/ ClaimUnprotected(c) \/ (ReadPrevious(c) /\ idem[Question(c)] = None)
    BY <2>2, ClaimStep
  <2>3. CASE ReadPrevious(c) /\ idem[Question(c)] # None
    <3> DEFINE t == idem[Question(c)]
    <3>1. Enqueued(c, t) /\ pc[c] = "previous" /\ Question(c) \in Questions
      BY <2>3, AskedType DEF ReadPrevious
    <3>2. t \in Requests /\ pc[t] # "idle" /\ Question(t) = Question(c)
      BY <2>3, <3>1 DEF IInv, TypeOK, ClientsFit, TasksFit
    <3>3. UNCHANGED <<idem, place, wire, asked, lapsed, status>>
      BY <2>3 DEF ReadPrevious, redis, stream, history
    <3>4. \A u \in Requests : status'[u].state = "done" => status'[u].text = u
      BY <3>3 DEF IInv, ClientsFit, TasksFit
    <3> QED BY <3>1, <3>2, <3>3, <3>4, EnqueuedStep
  <2>4. CASE SetQueued(c)
    <3>1. Enqueued(c, c) /\ pc[c] = "status"
      BY <2>4 DEF SetQueued
    <3>2. UNCHANGED <<idem, place, wire, asked, lapsed>>
      BY <2>4 DEF SetQueued, stream, history
    <3>3. \A u \in Requests : status'[u].state = "done" => status'[u].text = u
      BY <2>4 DEF SetQueued, IInv, TypeOK, ClientsFit, TasksFit
    <3> QED BY <3>1, <3>2, <3>3, EnqueuedStep
  <2>5. CASE Poll(c) \/ GiveUp(c) \/ QueryTask(c) \/ ApiRedisError(c)
    <3>1. /\ UNCHANGED <<idem, place, status, wire, asked, task, lapsed>>
          /\ \A d \in Requests : d # c => pc'[d] = pc[d] /\ reply'[d] = reply[d]
      BY <2>5 DEF Poll, GiveUp, QueryTask, ApiRedisError, Answer, redis, stream,
                  history, IInv, TypeOK
    <3>2. /\ pc'[c] = pc[c] \/ (pc[c] # "idle" /\ pc'[c] = "over")
          /\ reply'[c] # reply[c] =>
               \/ reply'[c] = Error
               \/ /\ task[c] # None /\ status[task[c]].state = "done"
                  /\ reply'[c] = status[task[c]].text
      <4>1. CASE Poll(c)
        BY <4>1 DEF Poll, Answer, Waiting, IInv, TypeOK, ClientsFit, StepsFit
      <4>2. CASE GiveUp(c)
        BY <4>2 DEF GiveUp, Answer, Waiting, IInv, TypeOK
      <4>3. CASE QueryTask(c)
        BY <4>3 DEF QueryTask, IInv, TypeOK
      <4>4. CASE ApiRedisError(c)
        BY <4>4 DEF ApiRedisError, Answer, IInv, TypeOK
      <4> QED BY <2>5, <4>1, <4>2, <4>3, <4>4
    <3>3. pc'[c] \notin BeforePush
      <4>1. CASE Poll(c) \/ GiveUp(c) \/ ApiRedisError(c)
        <5>1. pc'[c] = "over"
          BY <4>1 DEF Poll, GiveUp, ApiRedisError, Answer, IInv, TypeOK
        <5> QED BY <5>1 DEF BeforePush
      <4>2. CASE QueryTask(c)
        BY <4>2 DEF QueryTask, BeforePush
      <4> QED BY <2>5, <4>1, <4>2
    <3> QED BY <3>1, <3>2, <3>3, StatusOfTask, AnswerStep, QueueAssumption
  <2> QED BY <2>1, <2>2, <2>3, <2>4, <2>5
<1>2. UNCHANGED <<stream, workers, runs>> /\ faults' >= faults
  BY FaultsGrow DEF Submit, Claim, ReadPrevious, SetQueued, Poll, GiveUp, QueryTask,
                    ClaimUnprotected, ApiRedisError, redis, history
<1>3. \A t \in Requests :
        status'[t].state = status[t].state \/ status'[t].state = "queued"
  <2>1. CASE SetQueued(c)
    BY <2>1 DEF SetQueued, IInv, TypeOK
  <2>2. CASE ~SetQueued(c)
    <3>1. status' = status
      BY <2>2 DEF Submit, Claim, ReadPrevious, Poll, GiveUp, QueryTask,
                  ClaimUnprotected, ApiRedisError, redis
    <3> QED BY <3>1
  <2> QED BY <2>1, <2>2
<1> QED BY <1>1, <1>2, <1>3, WorkersFrame DEF IInv

\* The same for events, for the death of the API process and for the TTL.
LEMMA EventStep ==
  ASSUME IInv, TypeOK',
         \/ \E e \in wire : Deliver(e) \/ LoseEvent(e)
         \/ ApiCrash
         \/ \E q \in Questions : Lapse(q)
  PROVE  IInv'
<1>1. UNCHANGED <<stream, status, workers, runs, asked, task>> /\ faults' >= faults
  BY FaultsGrow DEF Deliver, Forward, LoseEvent, ApiCrash, Lapse, redis, api, history
<1>2. UNCHANGED <<place, status, asked, task>> /\ wire' \subseteq wire
      /\ lapsed \subseteq lapsed'
  BY <1>1 DEF Deliver, Forward, LoseEvent, ApiCrash, Lapse, redis, api, stream, history
<1>3. \A c \in Requests :
        pc'[c] = pc[c] \/ (pc[c] # "idle" /\ pc'[c] \in {"over", "lost"})
  BY DEF Deliver, LoseEvent, ApiCrash, Lapse, api, Waiting
<1>4. \A q \in Questions :
        idem'[q] = idem[q] \/ (idem'[q] = None /\ q \in lapsed')
  BY DEF Deliver, LoseEvent, ApiCrash, Lapse, redis, IInv, TypeOK
<1>5. ASSUME NEW c \in Requests, reply'[c] # reply[c]
      PROVE  /\ pc'[c] \notin BeforePush
             /\ pc[reply'[c]] # "idle"
             /\ SessionOfTask(reply'[c]) = SessionOf[Question(c)]
  <2>1. PICK e \in wire : Deliver(e)
    BY <1>5 DEF LoseEvent, ApiCrash, Lapse, api
  <2>2. pc'[c] = "over" /\ reply'[c] = e /\ SessionOf[Question(c)] = SessionOfTask(e)
    BY <1>5, <2>1 DEF Deliver
  <2> QED BY <2>2 DEF BeforePush, IInv, ClientsFit, TasksFit
<1>6. ClientsFit'
  BY <1>2, <1>3, <1>4, <1>5, AnswerStep
<1> QED BY <1>1, <1>6, WorkersFrame DEF IInv

\* The push puts a message behind the unread ones of its stream.
LEMMA PushStep ==
  ASSUME IInv, TypeOK', NEW c \in Requests, Push(c)
  PROVE  IInv'
<1> USE DEF IInv
<1>1. PICK lane1 \in Streams :
        /\ lane' = [lane EXCEPT ![c] = lane1]
        /\ ahead' = [ahead EXCEPT ![c] = Unread(lane1)]
  BY DEF Push, StreamOf, Streams
<1>2. /\ pc[c] = "push" /\ pc'[c] = "status" /\ place'[c] = "unread"
      /\ \A d \in Requests : d # c => pc'[d] = pc[d] /\ place'[d] = place[d]
      /\ UNCHANGED <<idem, status, wire, asked, task, reply, workers, history>>
  BY DEF Push, TypeOK
<1>3. asked[c] \in Calls /\ place[c] = "none"
  BY <1>2, AskedType DEF ClientsFit, StepsFit, BeforePush
<1>4. ClientsFit'
  <2> USE <1>2, <1>3 DEF ClientsFit, history
  <2>1. StepsFit'
    BY DEF StepsFit, BeforePush
  <2>2. TasksFit'
    <3>1. \A d \in Requests : pc[d] # "idle" => pc'[d] # "idle"
      OBVIOUS
    <3> QED BY <3>1 DEF TasksFit, Question, TypeOK
  <2>3. KeysFit'
    BY DEF KeysFit, Question
  <2>4. AnswersFit'
    BY DEF AnswersFit, Question, SessionOfTask, TypeOK
  <2> QED BY <2>1, <2>2, <2>3, <2>4
<1>5. HandlersFit'
  BY <1>2, <1>3 DEF HandlersFit, HandlerFits, Live, workers, history
<1>6. StreamsFit'
  <2>1. ASSUME NEW t \in Requests PROVE c \notin ahead[t]
    BY <1>3 DEF StreamsFit
  <2>2. \A s \in Streams : Unread(s)' = IF s = lane1 THEN Unread(s) \union {c} ELSE Unread(s)
    BY <1>1, <1>2, <1>3 DEF Unread, TypeOK
  <2>3. \A s \in Streams : c \notin Unread(s)
    BY <1>3 DEF Unread
  <2>4. /\ ahead'[c] = Unread(lane1)
        /\ \A t \in Requests : t # c => ahead'[t] = ahead[t]
    BY <1>1 DEF TypeOK
  <2>5. \A t \in Requests : \A u \in ahead'[t] : place'[u] # "none"
    <3>1. \A u \in Unread(lane1) : u \in Requests /\ place[u] # "none"
      BY DEF Unread
    <3>2. \A t \in Requests : \A u \in ahead[t] : u \in Requests /\ place[u] # "none"
      BY DEF TypeOK, StreamsFit
    <3>3. \A u \in Requests : place[u] # "none" => place'[u] # "none"
      BY <1>2
    <3> QED BY <2>4, <3>1, <3>2, <3>3
  <2>6. \A t \in Requests : t \notin ahead'[t]
    BY <2>3, <2>4 DEF StreamsFit
  <2>7. ASSUME NEW s \in Streams, NEW t \in Unread(s)', NEW u \in Unread(s)'
        PROVE  /\ t = u \/ t \in ahead'[u] \/ u \in ahead'[t]
               /\ \A v \in Unread(s)' :
                    v \in ahead'[u] /\ u \in ahead'[t] => v \in ahead'[t]
    <3>1. \A x \in Unread(s)' : x = c \/ (x \in Unread(s) /\ x # c)
      BY <2>2, <2>3
    <3>2. Unread(s) \subseteq Requests
      BY DEF Unread
    <3>3. c \in Unread(s)' => s = lane1
      BY <2>2, <2>3
    <3>4. t = u \/ t \in ahead'[u] \/ u \in ahead'[t]
      BY <2>4, <3>1, <3>2, <3>3 DEF StreamsFit
    <3>5. ASSUME NEW v \in Unread(s)', v \in ahead'[u], u \in ahead'[t]
          PROVE  v \in ahead'[t]
      <4>1. v # c /\ u # c
        BY <2>1, <2>3, <2>4, <2>6, <3>1, <3>2, <3>5
      <4>2. v \in Unread(s) /\ u \in Unread(s) /\ v \in ahead[u]
        BY <2>4, <3>1, <3>2, <3>5, <4>1
      <4>3. CASE t = c
        BY <2>4, <3>3, <4>2, <4>3
      <4>4. CASE t # c
        BY <2>4, <3>1, <3>2, <3>5, <4>2, <4>4 DEF StreamsFit
      <4> QED BY <4>3, <4>4
    <3> QED BY <3>4, <3>5
  <2> QED BY <2>5, <2>6, <2>7 DEF StreamsFit
<1>7. SlotsFit'
  <2>1. \A w \in Workers : flight'[w] = flight[w] /\ c \notin flight[w] /\ flight[w] \subseteq Requests
    BY <1>2, <1>3 DEF workers, SlotsFit, TypeOK
  <2>2. \A w \in Workers, s \in Streams :
          {t \in flight'[w] : lane'[t] = s} = {t \in flight[w] : lane[t] = s}
    BY <1>1, <2>1 DEF TypeOK
  <2>3. FlightBounded'
    BY <2>2 DEF SlotsFit, FlightBounded
  <2>4. \A w \in Workers : \A t \in flight'[w] : place'[t] \notin {"none", "unread"}
    BY <1>2, <2>1 DEF SlotsFit
  <2> QED BY <2>3, <2>4 DEF SlotsFit
<1> QED BY <1>4, <1>5, <1>6, <1>7

-----------------------------------------------------------------------------
(* The loops of the workers.                                               *)

\* Every step of a loop but the read only forgets handlers, and only a crash
\* cuts one short.
LEMMA LoopFrames ==
  ASSUME IInv, NEW w \in Workers,
         \/ FullLoop(w) \/ EmptyRead(w) \/ LeaveLoop(w) \/ Exit(w) \/ Start(w)
         \/ Stop(w) \/ Crash(w)
  PROVE  /\ UNCHANGED <<idem, pc, asked, task, reply, lapsed, wire, place, status>>
         /\ UNCHANGED <<lane, ahead, runs>>
         /\ \A v \in Workers : flight'[v] \subseteq flight[v]
         /\ \A t \in Requests :
              \/ handler'[t] = handler[t]
              \/ handler[t] \in Live /\ handler'[t] = "killed" /\ faults' > 0
         /\ faults' >= faults
<1>1. /\ UNCHANGED <<idem, pc, asked, task, reply, lapsed, wire, place, status>>
      /\ UNCHANGED <<lane, ahead, runs>>
  BY DEF FullLoop, EmptyRead, LeaveLoop, Exit, Start, Stop, Crash, redis, stream, api,
         history
<1>2. \A v \in Workers : flight'[v] \subseteq flight[v]
  <2>1. CASE FullLoop(w) \/ EmptyRead(w)
    BY <2>1 DEF FullLoop, EmptyRead, Running, IInv, TypeOK
  <2>2. CASE Exit(w) \/ Crash(w)
    BY <2>2 DEF Exit, Crash, Down, IInv, TypeOK
  <2>3. CASE LeaveLoop(w) \/ Start(w) \/ Stop(w)
    BY <2>3 DEF LeaveLoop, Start, Stop
  <2> QED BY <2>1, <2>2, <2>3
<1>3. \A t \in Requests :
        \/ handler'[t] = handler[t]
        \/ handler[t] \in Live /\ handler'[t] = "killed" /\ faults' > 0
  <2>1. CASE Crash(w)
    BY <2>1, FaultsGrow DEF Crash, Down, Running
  <2>2. CASE Exit(w)
    BY <2>2 DEF Exit, Down, IInv, TypeOK
  <2>3. CASE ~Crash(w) /\ ~Exit(w)
    BY <2>3 DEF FullLoop, EmptyRead, LeaveLoop, Start, Stop
  <2> QED BY <2>1, <2>2, <2>3
<1>4. faults' >= faults
  BY FaultsGrow DEF FullLoop, EmptyRead, LeaveLoop, Exit, Start, Stop, Crash, history
<1> QED BY <1>1, <1>2, <1>3, <1>4

\* They keep the invariant.
LEMMA LoopStep ==
  ASSUME IInv, TypeOK', NEW w \in Workers,
         \/ FullLoop(w) \/ EmptyRead(w) \/ LeaveLoop(w) \/ Exit(w) \/ Start(w)
         \/ Stop(w) \/ Crash(w)
  PROVE  IInv'
<1>1. /\ UNCHANGED <<idem, pc, asked, task, reply, lapsed, wire, place, status>>
      /\ UNCHANGED <<lane, ahead, runs>>
  BY LoopFrames
<1>2. \A v \in Workers : flight'[v] \subseteq flight[v]
  BY LoopFrames
<1>3. \A t \in Requests :
        \/ handler'[t] = handler[t]
        \/ handler[t] \in Live /\ handler'[t] = "killed" /\ faults' > 0
  BY LoopFrames
<1>4. faults' >= faults
  BY LoopFrames
<1>5. ClientsFit'
  BY <1>1, ClientsFrame DEF IInv, ClientsFit, TasksFit
<1>6. HandlersFit'
  <2> SUFFICES ASSUME NEW t \in Requests PROVE HandlerFits(t)'
    BY DEF HandlersFit
  <2>1. HandlerFits(t)
    BY DEF IInv, HandlersFit
  <2>2. CASE handler'[t] = handler[t]
    <3>1. faults > 0 => faults' > 0
      BY <1>4 DEF IInv, TypeOK
    <3> QED BY <1>1, <2>1, <2>2, <3>1 DEF HandlerFits
  <2>3. CASE handler[t] \in Live /\ handler'[t] = "killed" /\ faults' > 0
    BY <1>1, <2>1, <2>3 DEF HandlerFits, Live
  <2> QED BY <1>3, <2>2, <2>3
<1>7. StreamsFit'
  BY <1>1, StreamsFrame
<1>8. SlotsFit'
  BY <1>1, <1>2, SlotsFrame
<1> QED BY <1>5, <1>6, <1>7, <1>8 DEF IInv

\* The slots that are free.
LEMMA SlotsLeft ==
  ASSUME IInv, NEW w \in Workers
  PROVE  /\ IsFiniteSet(flight[w]) /\ Cardinality(flight[w]) \in Nat
         /\ FreeSlots(w) \in Nat
         /\ FreeSlots(w) > 0 => FreeSlots(w) + Cardinality(flight[w]) = Concurrency
<1>1. IsFiniteSet(flight[w]) /\ Cardinality(flight[w]) \in Nat
  BY QueueAssumption, FS_Subset, FS_CardinalityType DEF IInv, TypeOK
<1> QED BY <1>1, QueueAssumption DEF FreeSlots, Full

\* A read takes at most FreeSlots(w) unread messages of each stream, starts a
\* handler for each, and leaves the order of the others as it was.
LEMMA ReadStep ==
  ASSUME IInv, TypeOK', NEW w \in Workers, Read(w)
  PROVE  IInv'
<1> DEFINE n == FreeSlots(w)
           batch == Batch(n)
<1>1. \A t \in batch : t \in Requests /\ place[t] = "unread" /\ lane[t] \in Streams
                       /\ t \in Oldest(lane[t], n)
  BY DEF Batch, Oldest, Unread
<1>2. /\ UNCHANGED <<idem, pc, asked, task, reply, lapsed, wire, status, lane, runs, faults>>
      /\ \A t \in Requests : place'[t] = IF t \in batch THEN "pending" ELSE place[t]
      /\ \A t \in Requests : ahead'[t] = IF t \in batch THEN {} ELSE ahead[t]
      /\ \A t \in Requests : handler'[t] = IF t \in batch THEN "start" ELSE handler[t]
      /\ \A v \in Workers : flight'[v] = IF v = w THEN flight[w] \union batch ELSE flight[v]
  BY DEF Read, api, history, IInv, TypeOK
<1> HIDE DEF batch, n
<1>3. ClientsFit'
  <2>1. \A t \in Requests : place'[t] = "none" <=> place[t] = "none"
    BY <1>1, <1>2
  <2>2. \A t \in Requests : status'[t].state = "done" => status'[t].text = t
    BY <1>2 DEF IInv, ClientsFit, TasksFit
  <2> QED BY <1>2, <2>1, <2>2, ClientsFrame
<1>4. HandlersFit'
  <2> SUFFICES ASSUME NEW t \in Requests PROVE HandlerFits(t)'
    BY DEF HandlersFit
  <2>1. HandlerFits(t)
    BY DEF IInv, HandlersFit
  <2>2. CASE t \in batch
    BY <1>1, <1>2, <2>1, <2>2 DEF HandlerFits, Live
  <2>3. CASE t \notin batch
    BY <1>2, <2>1, <2>3 DEF HandlerFits
  <2> QED BY <2>2, <2>3
<1>5. StreamsFit'
  <2>1. \A s \in Streams : Unread(s)' = Unread(s) \ batch
    BY <1>1, <1>2 DEF Unread
  <2>2. \A t \in Requests : ahead[t] \subseteq Requests /\ ahead'[t] \subseteq ahead[t]
    BY <1>2 DEF IInv, TypeOK
  <2>3. \A t \in Requests : \A u \in ahead'[t] : place'[u] # "none"
    BY <1>2, <2>2 DEF IInv, StreamsFit
  <2>4. \A t \in Requests : t \notin ahead'[t]
    BY <2>2 DEF IInv, StreamsFit
  <2>5. ASSUME NEW s \in Streams, NEW t \in Unread(s)', NEW u \in Unread(s)'
        PROVE  /\ t = u \/ t \in ahead'[u] \/ u \in ahead'[t]
               /\ \A v \in Unread(s)' :
                    v \in ahead'[u] /\ u \in ahead'[t] => v \in ahead'[t]
    <3>1. t \in Unread(s) /\ u \in Unread(s) /\ t \notin batch /\ u \notin batch
      BY <2>1
    <3>2. ahead'[t] = ahead[t] /\ ahead'[u] = ahead[u]
      BY <1>2, <3>1 DEF Unread
    <3> QED BY <2>1, <3>1, <3>2 DEF IInv, StreamsFit
  <2> QED BY <2>3, <2>4, <2>5 DEF StreamsFit
<1>6. SlotsFit'
  <2>1. \A v \in Workers : \A t \in flight'[v] : place'[t] \notin {"none", "unread"}
    <3>1. \A v \in Workers : flight[v] \subseteq Requests
      BY DEF IInv, TypeOK
    <3> QED BY <1>1, <1>2, <3>1 DEF IInv, SlotsFit
  <2>2. ASSUME NEW v \in Workers, NEW s \in Streams
        PROVE  Cardinality({t \in flight'[v] : lane'[t] = s}) <= Concurrency
    <3> DEFINE old == {t \in flight[v] : lane[t] = s}
    <3>1. Cardinality(old) <= Concurrency
      BY DEF IInv, SlotsFit, FlightBounded
    <3>2. CASE v # w
      BY <1>2, <3>1, <3>2
    <3>3. CASE v = w
      <4>1. n \in Nat /\ IsFiniteSet(flight[w]) /\ Cardinality(flight[w]) \in Nat
        BY SlotsLeft DEF n
      <4>2. IsFiniteSet(Oldest(s, n)) /\ Cardinality(Oldest(s, n)) <= n
        BY <4>1, OldestBounded
      <4>3. Cardinality(Oldest(s, n)) \in Nat
        BY <4>2, FS_CardinalityType
      <4>4. n > 0
        <5>1. PICK t \in batch : t \in Oldest(lane[t], n)
          BY <1>1 DEF Read, batch, n
        <5>2. Cardinality(ahead[t] \intersect Unread(lane[t])) < n
          BY <5>1 DEF Oldest
        <5>3. IsFiniteSet(ahead[t] \intersect Unread(lane[t]))
          BY QueueAssumption, FS_Subset DEF Unread
        <5>4. Cardinality(ahead[t] \intersect Unread(lane[t])) \in Nat
          BY <5>3, FS_CardinalityType
        <5> QED BY <4>1, <5>2, <5>4
      <4>5. n + Cardinality(flight[w]) = Concurrency
        BY <4>4, SlotsLeft DEF n
      <4>6. IsFiniteSet(old) /\ Cardinality(old) <= Cardinality(flight[w])
        BY <3>3, <4>1, FS_Subset
      <4>7. Cardinality(old) \in Nat
        BY <4>6, FS_CardinalityType
      <4>8. {t \in flight'[w] : lane'[t] = s} \subseteq old \union Oldest(s, n)
        BY <1>1, <1>2, <3>3
      <4>9. /\ IsFiniteSet(old \union Oldest(s, n))
            /\ Cardinality(old \union Oldest(s, n)) <= Cardinality(old) + Cardinality(Oldest(s, n))
        <5>1. IsFiniteSet(old \intersect Oldest(s, n))
          BY <4>6, FS_Subset
        <5>2. Cardinality(old \intersect Oldest(s, n)) \in Nat
          BY <5>1, FS_CardinalityType
        <5>3. /\ IsFiniteSet(old \union Oldest(s, n))
              /\ Cardinality(old \union Oldest(s, n)) =
                   Cardinality(old) + Cardinality(Oldest(s, n))
                     - Cardinality(old \intersect Oldest(s, n))
          BY <4>2, <4>6, FS_Union
        <5> HIDE DEF old
        <5> QED BY <4>3, <4>7, <5>2, <5>3
      <4>10. /\ Cardinality({t \in flight'[w] : lane'[t] = s})
                  <= Cardinality(old \union Oldest(s, n))
             /\ IsFiniteSet({t \in flight'[w] : lane'[t] = s})
        BY <4>8, <4>9, FS_Subset
      <4>11. /\ Cardinality({t \in flight'[w] : lane'[t] = s}) \in Nat
             /\ Cardinality(old \union Oldest(s, n)) \in Nat
        BY <4>9, <4>10, FS_CardinalityType
      <4> HIDE DEF old
      <4> QED
        BY <3>3, <4>1, <4>2, <4>3, <4>5, <4>6, <4>7, <4>9, <4>10, <4>11, QueueAssumption
    <3> QED BY <3>2, <3>3
  <2> QED BY <2>1, <2>2 DEF SlotsFit, FlightBounded
<1> QED BY <1>3, <1>4, <1>5, <1>6 DEF IInv

-----------------------------------------------------------------------------
(* The handlers.                                                           *)

\* What a step of the handler of t leaves alone.
LEMMA HandlerFrames ==
  ASSUME IInv, TypeOK', NEW t \in Requests, Work(t) \/ HandlerRedisError(t)
  PROVE  /\ UNCHANGED <<idem, lane, ahead, pc, asked, task, reply, lapsed, mode, flight>>
         /\ wire' \subseteq wire \union {t}
         /\ faults' >= faults
         /\ \A u \in Requests : u # t =>
              /\ place'[u] = place[u] /\ handler'[u] = handler[u]
              /\ runs'[u] = runs[u] /\ status'[u] = status[u]
         /\ place[t] = "pending" /\ place'[t] \in {"pending", "acked", "dead"}
         /\ handler[t] \in Live
<1>1. /\ UNCHANGED <<idem, lane, ahead, pc, asked, task, reply, lapsed, mode, flight>>
      /\ wire' \subseteq wire \union {t}
  BY DEF Work, SetRunning, RunAgent, SetDone, SetFailed, Ack, Nack, HandlerRedisError,
         HandlerFrame, Broadcast, redis, stream, api, history
<1>2. faults' >= faults
  BY FaultsGrow
     DEF Work, SetRunning, RunAgent, SetDone, SetFailed, Ack, Nack, HandlerRedisError,
         history
<1>3. handler[t] \in Live
  BY DEF Work, SetRunning, RunAgent, SetDone, SetFailed, Ack, Nack, HandlerRedisError,
         Live
<1>4. place[t] = "pending"
  BY <1>3 DEF IInv, HandlersFit, HandlerFits
<1>5. ASSUME NEW u \in Requests, u # t
      PROVE  /\ place'[u] = place[u] /\ handler'[u] = handler[u]
             /\ runs'[u] = runs[u] /\ status'[u] = status[u]
  <2> USE <1>5 DEF Goto, SetStatus, redis, stream, history, IInv, TypeOK
  <2>1. CASE SetRunning(t) \/ RunAgent(t)
    BY <2>1 DEF SetRunning, RunAgent
  <2>2. CASE SetDone(t) \/ SetFailed(t)
    BY <2>2 DEF SetDone, SetFailed
  <2>3. CASE Ack(t) \/ Nack(t)
    BY <2>3 DEF Ack, Nack
  <2>4. CASE HandlerRedisError(t)
    BY <2>4 DEF HandlerRedisError
  <2> QED BY <2>1, <2>2, <2>3, <2>4 DEF Work
<1>6. place'[t] \in {"pending", "acked", "dead"}
  BY <1>4 DEF Work, SetRunning, RunAgent, SetDone, SetFailed, Ack, Nack,
              HandlerRedisError, redis, stream, IInv, TypeOK
<1> QED BY <1>1, <1>2, <1>3, <1>4, <1>5, <1>6

LEMMA HandlerStep ==
  ASSUME IInv, TypeOK', NEW t \in Requests, Work(t) \/ HandlerRedisError(t)
  PROVE  IInv'
<1>1. /\ UNCHANGED <<idem, lane, ahead, pc, asked, task, reply, lapsed, mode, flight>>
      /\ wire' \subseteq wire \union {t}
      /\ faults' >= faults
      /\ \A u \in Requests : u # t =>
           /\ place'[u] = place[u] /\ handler'[u] = handler[u]
           /\ runs'[u] = runs[u] /\ status'[u] = status[u]
      /\ place[t] = "pending" /\ place'[t] \in {"pending", "acked", "dead"}
  BY HandlerFrames
<1>2. HandlerFits(t)
  BY DEF IInv, HandlersFit
<1>3. HandlerFits(t)' /\ (status'[t].state = "done" => status'[t].text = t)
  <2> USE <1>1, <1>2 DEF HandlerFits, Live, Goto, SetStatus, HandlerFrame, redis, stream,
                         history
  <2>0. status[t].state = "done" => status[t].text = t
    BY DEF IInv, ClientsFit, TasksFit
  <2>1. CASE SetRunning(t)
    BY <2>1 DEF SetRunning, IInv, TypeOK
  <2>2. CASE RunAgent(t)
    BY <2>0, <2>2 DEF RunAgent, IInv, TypeOK
  <2>3. CASE SetDone(t)
    BY <2>3 DEF SetDone, IInv, TypeOK
  <2>4. CASE SetFailed(t)
    BY <2>4 DEF SetFailed, IInv, TypeOK
  <2>5. CASE Ack(t)
    BY <2>0, <2>5 DEF Ack, IInv, TypeOK
  <2>6. CASE Nack(t)
    BY <2>0, <2>6 DEF Nack, IInv, TypeOK
  <2>7. CASE HandlerRedisError(t)
    <3>1. faults' > 0
      BY <2>7, FaultsGrow DEF HandlerRedisError
    <3> QED BY <2>0, <2>7, <3>1 DEF HandlerRedisError, IInv, TypeOK
  <2> QED BY <2>1, <2>2, <2>3, <2>4, <2>5, <2>6, <2>7 DEF Work
<1>4. ClientsFit'
  <2>1. \A e \in wire' : e \in wire \/ (e \in Requests /\ place[e] # "none")
    BY <1>1
  <2>2. \A u \in Requests : place'[u] = "none" <=> place[u] = "none"
    BY <1>1
  <2>3. \A u \in Requests : status'[u].state = "done" => status'[u].text = u
    BY <1>1, <1>3 DEF IInv, ClientsFit, TasksFit
  <2> QED BY <1>1, <2>1, <2>2, <2>3, ClientsFrame
<1>5. HandlersFit'
  BY <1>1, <1>3, HandlersMove
<1>6. StreamsFit'
  BY <1>1, StreamsFrame
<1>7. SlotsFit'
  BY <1>1, SlotsFrame
<1> QED BY <1>4, <1>5, <1>6, <1>7 DEF IInv

-----------------------------------------------------------------------------
(* The theorems.                                                           *)

LEMMA InitIInv == Init => IInv
<1> SUFFICES ASSUME Init PROVE IInv
  OBVIOUS
<1> USE DEF Init
<1>1. TypeOK
  BY QueueAssumption DEF TypeOK, Places, States, NoStatus, NoText, HandlerSteps
<1>2. ClientsFit
  BY QueueAssumption
     DEF ClientsFit, StepsFit, TasksFit, KeysFit, AnswersFit, BeforePush, NoStatus
<1>3. HandlersFit
  BY DEF HandlersFit, HandlerFits, Live
<1>4. StreamsFit
  BY DEF StreamsFit, Unread
<1>5. SlotsFit
  <2>1. ASSUME NEW w \in Workers, NEW s \in Streams
        PROVE  Cardinality({t \in flight[w] : lane[t] = s}) <= Concurrency
    <3>1. {t \in flight[w] : lane[t] = s} = {}
      OBVIOUS
    <3> QED BY <3>1, FS_EmptySet, QueueAssumption
  <2> QED BY <2>1 DEF SlotsFit, FlightBounded
<1> QED BY <1>1, <1>2, <1>3, <1>4, <1>5 DEF IInv

LEMMA NextIInv == IInv /\ [Next]_vars => IInv'
<1> SUFFICES ASSUME IInv, [Next]_vars PROVE IInv'
  OBVIOUS
<1>1. TypeOK'
  BY TypeStep
<1>2. CASE UNCHANGED vars
  <2>1. UNCHANGED <<idem, pc, asked, task, reply, lapsed, wire, place, status>>
        /\ UNCHANGED <<lane, ahead, runs, handler, faults, flight>>
    BY <1>2 DEF vars, redis, stream, api, workers, history
  <2>2. ClientsFit'
    BY <2>1, ClientsFrame DEF IInv, ClientsFit, TasksFit
  <2>3. HandlersFit'
    BY <1>1, <2>1, HandlersFrame DEF IInv, TypeOK
  <2>4. StreamsFit'
    BY <2>1, StreamsFrame
  <2>5. SlotsFit'
    BY <1>1, <2>1, SlotsFrame
  <2> QED BY <1>1, <2>2, <2>3, <2>4, <2>5 DEF IInv
<1>3. ASSUME NEW c \in Requests,
             \/ Submit(c) \/ Call(c) \/ QueryTask(c)
             \/ ClaimUnprotected(c) \/ ApiRedisError(c)
      PROVE  IInv'
  BY <1>1, <1>3, ApiStep, PushStep DEF Call
<1>4. ASSUME NEW w \in Workers, Consume(w) \/ Stop(w) \/ Crash(w)
      PROVE  IInv'
  BY <1>1, <1>4, LoopStep, ReadStep DEF Consume
<1>5. ASSUME NEW t \in Requests, Work(t) \/ HandlerRedisError(t)
      PROVE  IInv'
  BY <1>1, <1>5, HandlerStep
<1>6. ASSUME \/ \E e \in wire : Deliver(e) \/ LoseEvent(e)
             \/ ApiCrash
             \/ \E q \in Questions : Lapse(q)
      PROVE  IInv'
  BY <1>1, <1>6, EventStep
<1> QED BY <1>2, <1>3, <1>4, <1>5, <1>6 DEF Next, Failure

THEOREM Invariant == Spec => []IInv
BY InitIInv, NextIInv, PTL DEF Spec

\* The variables keep their types; crashes, failed commands, stops and lapses
\* stay within their bound.
THEOREM TypeCorrect == Spec => []TypeOK
<1>1. IInv => TypeOK
  BY DEF IInv
<1> QED BY <1>1, Invariant, PTL

\* A message is acknowledged (redis_stream_queue.py: _handle_one) only when its
\* agent has run and its text was written for the polls.
THEOREM AckedRecorded == Spec => []AckedIsRecorded
<1>1. IInv => AckedIsRecorded
  BY DEF IInv, HandlersFit, HandlerFits, AckedIsRecorded
<1> QED BY <1>1, Invariant, PTL

\* Whatever crashes, no task is run twice; no worker has more than Concurrency
\* messages of a stream in flight; only a fault cuts a handler short.
THEOREM RunOnce == Spec => []RunAtMostOnce
<1>1. IInv => RunAtMostOnce
  BY DEF IInv, HandlersFit, HandlerFits, SlotsFit, RunAtMostOnce, StopIsGraceful
<1> QED BY <1>1, Invariant, PTL

\* Equal questions are enqueued once while the idempotency key of the question
\* lives, however the requests interleave.
THEOREM OneTask == Spec => []OneTaskPerQuestion
<1>1. IInv => OneTaskPerQuestion
  <2> SUFFICES ASSUME IInv, NEW c \in Requests, NEW d \in Requests,
                      c # d, place[c] # "none", place[d] # "none",
                      asked[c].question = asked[d].question,
                      asked[c].question \notin lapsed
               PROVE  FALSE
    BY DEF OneTaskPerQuestion
  <2>1. pc[c] # "idle" /\ pc[d] # "idle"
    BY DEF IInv, ClientsFit, StepsFit, BeforePush
  <2>2. idem[Question(c)] = c /\ idem[Question(d)] = d
    BY <2>1 DEF IInv, ClientsFit, KeysFit, Question
  <2> QED BY <2>2 DEF Question
<1> QED BY <1>1, Invariant, PTL

\* Whether an answer comes as an event or by a poll, it is the text of a task
\* of the client's own session.
THEOREM AnswersBelong == Spec => []AnswerOfSession
<1>1. IInv => AnswerOfSession
  BY DEF IInv, ClientsFit, AnswersFit, AnswerOfSession, Question
<1> QED BY <1>1, Invariant, PTL

-----------------------------------------------------------------------------
(* The refinement of TaskDelivery.                                         *)

LEMMA InitDelivery == Init => Delivery!DeliveryInit
BY QueueAssumption DEF Init, Delivery!DeliveryInit, Stage, Older

\* A step that leaves the messages alone is no step of the queue, but that
\* something breaks.
LEMMA DeliveryStutters ==
  ASSUME IInv, UNCHANGED <<lane, runs>>, faults' \in Nat, faults' >= faults,
         \A t \in Requests : Stage(t)' = Stage(t) /\ Older(t)' = Older(t)
  PROVE  [Delivery!DeliveryNext]_(Delivery!delivery)
<1>1. UNCHANGED <<[t \in Requests |-> Stage(t)], [t \in Requests |-> Older(t)], lane, runs>>
  OBVIOUS
<1>2. CASE faults' > 0
  <2>1. Delivery!Abandon({})
    BY <1>1, <1>2 DEF Delivery!Abandon, Delivery!Moved, Delivery!Held
  <2> QED BY <2>1 DEF Delivery!DeliveryNext
<1>3. CASE ~(faults' > 0)
  <2>1. ~(faults > 0)
    BY <1>3 DEF IInv, TypeOK
  <2> QED BY <1>1, <1>3, <2>1 DEF Delivery!delivery
<1> QED BY <1>2, <1>3

\* Where a message is and what its handler does decide its stage, and the place
\* of the messages that came before what is ahead of it.
LEMMA PlacesDecide ==
  ASSUME IInv, NEW t \in Requests, UNCHANGED <<lane, ahead>>,
         \A u \in Requests : place'[u] = "unread" <=> place[u] = "unread"
  PROVE  /\ Older(t)' = Older(t)
         /\ place'[t] = place[t] /\ (handler'[t] \in Live <=> handler[t] \in Live)
              => Stage(t)' = Stage(t)
<1>1. ahead[t] \subseteq Requests
  BY DEF IInv, TypeOK
<1> QED BY <1>1 DEF Older, Stage

\* The XADD sends the task.
LEMMA PushDelivers ==
  ASSUME IInv, NEW c \in Requests, Push(c)
  PROVE  Delivery!DeliveryNext
<1> USE DEF IInv
<1>1. PICK s \in Streams :
        /\ lane' = [lane EXCEPT ![c] = s]
        /\ ahead' = [ahead EXCEPT ![c] = Unread(s)]
  BY DEF Push, StreamOf, Streams
<1>2. /\ pc[c] = "push" /\ place' = [place EXCEPT ![c] = "unread"]
      /\ UNCHANGED <<handler, runs, faults>>
  BY DEF Push, workers, history
<1>3. place[c] = "none"
  BY <1>2 DEF ClientsFit, StepsFit, BeforePush
<1>4. \A u \in Requests : u # c =>
        place'[u] = place[u] /\ lane'[u] = lane[u] /\ ahead'[u] = ahead[u]
  BY <1>1, <1>2 DEF TypeOK
<1>5. place'[c] = "unread" /\ lane'[c] = s /\ ahead'[c] = Unread(s)
  BY <1>1, <1>2 DEF TypeOK
<1>6. \A u \in Requests : Stage(u) = "waiting" <=> place[u] = "unread"
  BY DEF Stage
<1>7. Delivery!WaitingIn(s) = Unread(s)
  BY <1>6 DEF Delivery!WaitingIn, Unread
<1>8. \A u \in Requests : Stage(u)' = IF u \in {c} THEN "waiting" ELSE Stage(u)
  BY <1>2, <1>4, <1>5 DEF Stage
<1>9. ASSUME NEW u \in Requests
      PROVE  Older(u)' = IF u = c THEN Unread(s) ELSE Older(u)
  <2>1. c \notin ahead[u] /\ ahead[u] \subseteq Requests
    BY <1>3 DEF StreamsFit, TypeOK
  <2>2. CASE u = c
    BY <1>3, <1>4, <1>5, <2>2 DEF Older, Unread
  <2>3. CASE u # c
    BY <1>4, <2>1, <2>3 DEF Older
  <2> QED BY <2>2, <2>3
<1>10. Stage(c) = "unsent"
  BY <1>3 DEF Stage
<1>11. Delivery!Send(c, s)
  BY <1>1, <1>2, <1>7, <1>8, <1>9, <1>10 DEF Delivery!Send, Delivery!Moved
<1> QED BY <1>11 DEF Delivery!DeliveryNext

\* XREADGROUP hands out a batch, and with a task all that wait ahead of it.
LEMMA ReadDelivers ==
  ASSUME IInv, NEW w \in Workers, Read(w)
  PROVE  Delivery!DeliveryNext
<1> USE DEF IInv
<1> DEFINE n == FreeSlots(w)
           batch == Batch(n)
<1>1. \A t \in batch : t \in Requests /\ place[t] = "unread" /\ lane[t] \in Streams
                       /\ t \in Oldest(lane[t], n)
  BY DEF Batch, Oldest, Unread
<1>2. \A s \in Streams : Oldest(s, n) \subseteq batch
  BY DEF Batch
<1>3. /\ UNCHANGED <<lane, runs, faults>>
      /\ \A t \in Requests : place'[t] = IF t \in batch THEN "pending" ELSE place[t]
      /\ \A t \in Requests : ahead'[t] = IF t \in batch THEN {} ELSE ahead[t]
      /\ \A t \in Requests : handler'[t] = IF t \in batch THEN "start" ELSE handler[t]
  BY DEF Read, history, TypeOK
<1>4. n \in Nat
  BY SlotsLeft
<1> HIDE DEF batch, n
<1>5. ASSUME NEW t \in batch PROVE Stage(t) = "waiting" /\ Older(t) \subseteq batch
  <2>1. t \in Requests /\ place[t] = "unread" /\ lane[t] \in Streams
        /\ t \in Oldest(lane[t], n)
    BY <1>1
  <2>2. ASSUME NEW u \in Older(t) PROVE u \in Oldest(lane[t], n)
    <3>1. t \in Unread(lane[t]) /\ u \in Unread(lane[t]) /\ u \in ahead[t]
      BY <2>1 DEF Older, Unread, TypeOK
    <3>2. /\ Rank(u, lane[t]) < Rank(t, lane[t])
          /\ Rank(u, lane[t]) \in Nat /\ Rank(t, lane[t]) \in Nat
      BY <2>1, <3>1, RanksDiffer
    <3>3. Rank(t, lane[t]) < n
      BY <2>1 DEF Oldest, Rank
    <3>4. Rank(u, lane[t]) < n
      BY <1>4, <3>2, <3>3
    <3> QED BY <3>1, <3>4 DEF Oldest, Rank
  <2> QED BY <1>2, <2>1, <2>2 DEF Stage
<1>6. \A t \in Requests : Stage(t)' = IF t \in batch THEN "held" ELSE Stage(t)
  BY <1>3 DEF Stage, Live
<1>7. ASSUME NEW t \in Requests PROVE Older(t)' = Older(t) \ batch
  <2>1. ahead[t] \subseteq Requests
    BY DEF TypeOK
  <2>2. CASE t \in batch
    BY <1>3, <1>5, <2>2 DEF Older
  <2>3. CASE t \notin batch
    BY <1>1, <1>3, <2>1, <2>3 DEF Older
  <2> QED BY <2>2, <2>3
<1>8. batch \in SUBSET Requests
  BY <1>1
<1>9. Delivery!Take(batch)
  BY <1>1, <1>3, <1>5, <1>6, <1>7 DEF Delivery!Take, Delivery!Moved
<1> QED BY <1>8, <1>9 DEF Delivery!DeliveryNext

\* The other steps of a loop, and the death of its process, can only cut
\* handlers short.
LEMMA LoopDelivers ==
  ASSUME IInv, TypeOK', NEW w \in Workers,
         \/ FullLoop(w) \/ EmptyRead(w) \/ LeaveLoop(w) \/ Exit(w) \/ Start(w)
         \/ Stop(w) \/ Crash(w)
  PROVE  [Delivery!DeliveryNext]_(Delivery!delivery)
<1> DEFINE S == {t \in Requests : handler'[t] # handler[t]}
<1>1. UNCHANGED <<place, lane, ahead, runs>> /\ faults' >= faults
  BY LoopFrames
<1>2. \A t \in Requests :
        \/ handler'[t] = handler[t]
        \/ handler[t] \in Live /\ handler'[t] = "killed" /\ faults' > 0
  BY LoopFrames
<1>3. \A t \in Requests : Older(t)' = Older(t)
  BY <1>1, PlacesDecide
<1>4. \A t \in Requests : t \notin S => Stage(t)' = Stage(t)
  BY <1>1 DEF Stage
<1>5. faults' \in Nat
  BY DEF TypeOK
<1>6. CASE S = {}
  BY <1>1, <1>3, <1>4, <1>5, <1>6, DeliveryStutters
<1>7. CASE S # {}
  <2>1. faults' > 0
    BY <1>2, <1>7
  <2>2. \A t \in S : t \in Requests /\ Stage(t) = "held" /\ Stage(t)' = "abandoned"
    <3>1. \A t \in S : place[t] = "pending" /\ handler[t] \in Live /\ handler'[t] = "killed"
      BY <1>2 DEF IInv, HandlersFit, HandlerFits
    <3> QED BY <1>1, <3>1 DEF Stage, Live
  <2> HIDE DEF S
  <2>3. S \subseteq Delivery!Held
    BY <2>2 DEF Delivery!Held
  <2>4. \A t \in Requests : Stage(t)' = IF t \in S THEN "abandoned" ELSE Stage(t)
    BY <1>4, <2>2
  <2>5. Delivery!Abandon(S)
    BY <1>1, <1>3, <2>1, <2>3, <2>4 DEF Delivery!Abandon, Delivery!Moved
  <2>6. S \in SUBSET Requests
    BY <2>2
  <2> QED BY <2>5, <2>6 DEF Delivery!DeliveryNext
<1> QED BY <1>6, <1>7

\* The step of one handler, when nothing else moves.
LEMMA OneMoves ==
  ASSUME IInv, NEW t \in Requests, Work(t) \/ HandlerRedisError(t), TypeOK'
  PROVE  /\ UNCHANGED lane /\ Stage(t) = "held"
         /\ \A u \in Requests : Older(u)' = Older(u)
         /\ \A u \in Requests : u # t => Stage(u)' = Stage(u)
<1>1. /\ UNCHANGED <<lane, ahead>>
      /\ \A u \in Requests : u # t => place'[u] = place[u] /\ handler'[u] = handler[u]
      /\ place[t] = "pending" /\ place'[t] \in {"pending", "acked", "dead"}
      /\ handler[t] \in Live
  BY HandlerFrames
<1>2. \A u \in Requests : place'[u] = "unread" <=> place[u] = "unread"
  BY <1>1
<1>3. \A u \in Requests : Older(u)' = Older(u)
  BY <1>1, <1>2, PlacesDecide
<1>4. \A u \in Requests : u # t => Stage(u)' = Stage(u)
  BY <1>1 DEF Stage
<1>5. Stage(t) = "held"
  BY <1>1 DEF Stage
<1> QED BY <1>1, <1>3, <1>4, <1>5

\* A handler runs the agent, finishes its task or gives it up; its other steps
\* are about the status alone.
LEMMA HandlerDelivers ==
  ASSUME IInv, TypeOK', NEW t \in Requests, Work(t) \/ HandlerRedisError(t)
  PROVE  [Delivery!DeliveryNext]_(Delivery!delivery)
<1>1. /\ UNCHANGED lane /\ Stage(t) = "held"
      /\ \A u \in Requests : Older(u)' = Older(u)
      /\ \A u \in Requests : u # t => Stage(u)' = Stage(u)
  BY OneMoves
<1>2. faults' >= faults /\ faults' \in Nat
  BY HandlerFrames DEF TypeOK
<1>3. HandlerFits(t) /\ place[t] = "pending"
  BY HandlerFrames DEF IInv, HandlersFit
<1>4. CASE SetRunning(t) \/ SetDone(t) \/ SetFailed(t) \/ HandlerRedisError(t)
  <2>1. UNCHANGED <<place, runs>> /\ handler'[t] \in Live
    BY <1>4 DEF SetRunning, SetDone, SetFailed, HandlerRedisError, Goto, Live, IInv,
                TypeOK, redis, stream, history
  <2>2. Stage(t)' = Stage(t)
    BY <1>1, <1>3, <2>1 DEF Stage
  <2> QED BY <1>1, <1>2, <2>1, <2>2, DeliveryStutters
<1>5. CASE RunAgent(t)
  <2>1. /\ UNCHANGED <<place, faults>> /\ handler'[t] \in Live /\ handler[t] = "run"
        /\ runs' = [runs EXCEPT ![t] = runs[t] + 1]
    BY <1>5 DEF RunAgent, Goto, Live, IInv, TypeOK, redis, stream
  <2>2. Stage(t)' = Stage(t)
    BY <1>1, <1>3, <2>1 DEF Stage
  <2>3. runs[t] = 0 /\ runs' = [runs EXCEPT ![t] = 1]
    <3>1. runs[t] = 0
      BY <1>3, <2>1 DEF HandlerFits
    <3>2. runs[t] + 1 = 1
      BY <3>1
    <3> QED BY <2>1, <3>1, <3>2
  <2>4. Delivery!Answer(t)
    BY <1>1, <2>1, <2>2, <2>3 DEF Delivery!Answer
  <2> QED BY <2>4 DEF Delivery!DeliveryNext
<1>6. CASE Ack(t)
  <2>1. UNCHANGED <<runs, faults>> /\ place'[t] = "acked" /\ handler[t] = "ack"
    BY <1>6 DEF Ack, IInv, TypeOK, history
  <2>2. runs[t] = 1
    BY <1>3, <2>1 DEF HandlerFits
  <2>3. \A u \in Requests : Stage(u)' = IF u \in {t} THEN "finished" ELSE Stage(u)
    BY <1>1, <2>1 DEF Stage
  <2>4. Delivery!Finish(t)
    BY <1>1, <2>1, <2>2, <2>3 DEF Delivery!Finish, Delivery!Moved
  <2> QED BY <2>4 DEF Delivery!DeliveryNext
<1>7. CASE Nack(t)
  <2>1. /\ UNCHANGED <<runs, faults>> /\ place'[t] \in {"pending", "dead"}
        /\ handler[t] = "nack" /\ handler'[t] = "over"
    BY <1>3, <1>7 DEF Nack, Goto, IInv, TypeOK, history
  <2>2. faults' > 0
    BY <1>3, <2>1 DEF HandlerFits
  <2>3. \A u \in Requests : Stage(u)' = IF u \in {t} THEN "abandoned" ELSE Stage(u)
    BY <1>1, <2>1 DEF Stage, Live
  <2>4. Delivery!Abandon({t})
    BY <1>1, <2>1, <2>2, <2>3 DEF Delivery!Abandon, Delivery!Moved, Delivery!Held
  <2> QED BY <2>4 DEF Delivery!DeliveryNext
<1> QED BY <1>4, <1>5, <1>6, <1>7 DEF Work

\* The API process, its clients and their events only read or write what the
\* queue does not see, the push excepted.
LEMMA ApiDelivers ==
  ASSUME IInv, TypeOK',
         \/ \E c \in Requests :
              \/ Submit(c) \/ Claim(c) \/ ReadPrevious(c) \/ SetQueued(c) \/ Poll(c)
              \/ GiveUp(c) \/ QueryTask(c) \/ ClaimUnprotected(c) \/ ApiRedisError(c)
         \/ \E e \in wire : Deliver(e) \/ LoseEvent(e)
         \/ ApiCrash
         \/ \E q \in Questions : Lapse(q)
         \/ UNCHANGED vars
  PROVE  [Delivery!DeliveryNext]_(Delivery!delivery)
<1>1. UNCHANGED <<place, lane, ahead, handler, runs>>
  BY DEF Submit, Claim, ReadPrevious, SetQueued, Poll, GiveUp, QueryTask,
         ClaimUnprotected, ApiRedisError, Deliver, Forward, LoseEvent, ApiCrash, Lapse,
         vars, redis, stream, workers, history
<1>2. faults' >= faults /\ faults' \in Nat
  <2>1. faults' = faults \/ Fault \/ OtherEvent
    BY DEF Submit, Claim, ReadPrevious, SetQueued, Poll, GiveUp, QueryTask,
           ClaimUnprotected, ApiRedisError, Deliver, Forward, LoseEvent, ApiCrash, Lapse,
           vars, history
  <2> QED BY <2>1, FaultsGrow DEF TypeOK
<1>3. \A t \in Requests : Stage(t)' = Stage(t) /\ Older(t)' = Older(t)
  BY <1>1, PlacesDecide
<1> QED BY <1>1, <1>2, <1>3, DeliveryStutters

LEMMA StepDelivery == IInv /\ [Next]_vars => [Delivery!DeliveryNext]_(Delivery!delivery)
<1> SUFFICES ASSUME IInv, [Next]_vars
             PROVE  [Delivery!DeliveryNext]_(Delivery!delivery)
  OBVIOUS
<1>1. TypeOK'
  BY TypeStep
<1> QED
  BY <1>1, ApiDelivers, PushDelivers, LoopDelivers, ReadDelivers, HandlerDelivers
     DEF Next, Call, Consume, Failure

\* The endpoints, the streams and the workers implement the queue of
\* TaskDelivery: whatever is stopped or dies, each task is handed out at most
\* once and in the order of its stream, its agent runs at most once, it is
\* acknowledged only after that run and given up only after a fault.
THEOREM ImplementsDelivery == Spec => DeliveryRefined
<1>1. Init => Delivery!DeliveryInit
  BY InitDelivery
<1>2. IInv /\ [Next]_vars => [Delivery!DeliveryNext]_(Delivery!delivery)
  BY StepDelivery
<1> QED
  BY <1>1, <1>2, Invariant, PTL DEF Spec, DeliveryRefined, Delivery!DeliverySpec

=============================================================================

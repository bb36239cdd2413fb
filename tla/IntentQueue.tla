----------------------------- MODULE IntentQueue -----------------------------
(***************************************************************************)
(* Intents through the Redis queue: the API process (server.py: _enqueue,  *)
(* _await_result), the two streams with their consumer group               *)
(* (redis_stream_queue.py) and the worker processes (worker.py).           *)
(*                                                                         *)
(* Every action is the code between two awaits on Redis, so it holds one   *)
(* Redis command.  A task is named by the request that minted its id.      *)
(*                                                                         *)
(* Abstractions.  A question is the fingerprint of session and text.  The  *)
(* turn counter that picks the stream is a free choice of the stream.  Of  *)
(* the events only final.result is kept: the others restart a poll timer.  *)
(* The text an agent returns is named by its task.                         *)
(* Statuses are kept (their TTL of 3600 s exceeds the 300 s wait).  The    *)
(* producer writes every payload, so each one can be parsed.  A command    *)
(* that raises had no effect.                                              *)
(***************************************************************************)
EXTENDS Naturals, FiniteSets

CONSTANTS
  Requests,       \* HTTP requests to /commerce/intents and /intents/async
  Questions,      \* sha256 of session id and raw query
  Sessions,
  SessionOf,      \* the session of each question
  Workers,        \* worker processes
  Concurrency,    \* WORKER_CONCURRENCY
  MaxDeliveries,  \* deliveries after which a failing message is dead
  MaxEvents,      \* bound on crashes, failed commands, SIGTERMs and lapses
  Error,          \* an error text or an error status
  None

ASSUME QueueAssumption ==
  /\ SessionOf \in [Questions -> Sessions]
  /\ IsFiniteSet(Requests)
  /\ Concurrency \in Nat \ {0}
  /\ MaxDeliveries \in Nat \ {0}
  /\ MaxEvents \in Nat
  /\ None \notin Requests \union Questions \union {Error}
  /\ Error \notin Requests

Streams == {"intents", "large"}

\* A message is unread; read and in the group's pending list; acknowledged;
\* copied to the dead-letter stream and acknowledged.
Places == {"none", "unread", "pending", "acked", "dead"}

VARIABLES
  \* Redis: idempotency keys; the stream of each task's message, where in it
  \* the message is, the unread ones that were ahead of it when it came and how
  \* often it was delivered; the task statuses
  idem, lane, place, ahead, times, status,
  \* final.result events on their way to the API process
  wire,
  \* API: where each request is, its question, the task it waits for, answer
  pc, asked, task, reply,
  \* workers: mode, the set in_flight of consume(), and where the handler of
  \* each message is
  mode, flight, handler,
  \* history: runs of the agent per task, questions whose key lapsed, faults
  \* and other bounded events so far
  runs, lapsed, faults, others

stream  == <<lane, place, ahead, times>>
redis   == <<idem, stream, status>>
api     == <<pc, asked, task, reply>>
workers == <<mode, flight, handler>>
history == <<runs, lapsed, faults, others>>
vars    == <<redis, wire, api, workers, history>>

NoText   == None
NoStatus == [state |-> "none", text |-> NoText]

\* A handler that has not come back.
Live == {"start", "run", "done", "failed", "ack", "nack"}

\* The last two: it returned; its process died.
HandlerSteps == Live \union {"none", "over", "killed"}

Running(w) == {t \in flight[w] : handler[t] \in Live}

Waiting(c) == pc[c] = "wait"

SessionOfTask(t) == SessionOf[asked[t].question]

\* Only MaxEvents of these happen; a stop or a lapsed key is not a fault.
Fault == faults + others < MaxEvents /\ faults' = faults + 1 /\ UNCHANGED others

OtherEvent == faults + others < MaxEvents /\ others' = others + 1 /\ UNCHANGED faults

-----------------------------------------------------------------------------
Init ==
  /\ idem = [q \in Questions |-> None]
  /\ lane = [t \in Requests |-> None]
  /\ place = [t \in Requests |-> "none"]
  /\ ahead = [t \in Requests |-> {}]
  /\ times = [t \in Requests |-> 0]
  /\ status = [t \in Requests |-> NoStatus]
  /\ wire = {}
  /\ pc = [c \in Requests |-> "idle"]
  /\ asked = [c \in Requests |-> None]
  /\ task = [c \in Requests |-> None]
  /\ reply = [c \in Requests |-> None]
  /\ mode = [w \in Workers |-> "up"]
  /\ flight = [w \in Workers |-> {}]
  /\ handler = [t \in Requests |-> "none"]
  /\ runs = [t \in Requests |-> 0]
  /\ lapsed = {}
  /\ faults = 0 /\ others = 0

-----------------------------------------------------------------------------
(* The API process.                                                        *)

\* POST /commerce/intents waits for the answer, /intents/async does not.
Submit(c) ==
  /\ pc[c] = "idle"
  /\ \E q \in Questions, sync \in BOOLEAN :
       asked' = [asked EXCEPT ![c] = [question |-> q, sync |-> sync]]
  /\ pc' = [pc EXCEPT ![c] = "claim"]
  /\ UNCHANGED <<redis, wire, task, reply, workers, history>>

Question(c) == asked[c].question

Answer(c, answer) ==
  /\ pc' = [pc EXCEPT ![c] = "over"]
  /\ reply' = [reply EXCEPT ![c] = answer]

\* _enqueue returned task t.  The asynchronous route answers at once; the
\* synchronous one subscribes to the session before its next await.
Enqueued(c, t) ==
  /\ task' = [task EXCEPT ![c] = t]
  /\ \/ asked[c].sync /\ pc' = [pc EXCEPT ![c] = "wait"] /\ UNCHANGED reply
     \/ ~asked[c].sync /\ pc' = [pc EXCEPT ![c] = "over"] /\ UNCHANGED reply

\* A mutant: SET without NX.
MutClaimOverwrites(c) ==
  /\ pc[c] = "claim"
  /\ idem' = [idem EXCEPT ![Question(c)] = c]
  /\ pc' = [pc EXCEPT ![c] = "push"]
  /\ UNCHANGED <<stream, status, wire, asked, task, reply, workers, history>>

\* SET NX of the idempotency key.
Claim(c) ==
  LET q == Question(c) IN
  /\ pc[c] = "claim"
  /\ \/ /\ idem[q] = None
        /\ idem' = [idem EXCEPT ![q] = c]
        /\ pc' = [pc EXCEPT ![c] = "push"]
     \/ /\ idem[q] # None
        /\ pc' = [pc EXCEPT ![c] = "previous"]
        /\ UNCHANGED idem
  /\ UNCHANGED <<stream, status, wire, asked, task, reply, workers, history>>

\* set_if_absent passes a failed SET NX as acquired, and get_raw a failed GET
\* as a key that is not there.
ClaimUnprotected(c) ==
  /\ pc[c] \in {"claim", "previous"}
  /\ Fault
  /\ pc' = [pc EXCEPT ![c] = "push"]
  /\ lapsed' = lapsed \union {Question(c)}
  /\ UNCHANGED <<redis, wire, asked, task, reply, workers, runs>>

\* The key was taken: its value is the task to wait for.  If it has lapsed by
\* now the request goes on to enqueue a task that no key protects.
ReadPrevious(c) ==
  LET q == Question(c) IN
  /\ pc[c] = "previous"
  /\ \/ idem[q] # None /\ Enqueued(c, idem[q])
     \/ idem[q] = None /\ pc' = [pc EXCEPT ![c] = "push"] /\ UNCHANGED <<task, reply>>
  /\ UNCHANGED <<redis, wire, asked, workers, history>>

Unread(s) == {t \in Requests : place[t] = "unread" /\ lane[t] = s}

\* The priority of a task is 1 from some number of turns of its session on; the
\* count is a heuristic that loses turns, so either may come out.
Priorities == {0, 1}

StreamOf(priority) == IF priority > 0 THEN "large" ELSE "intents"

\* XADD to the stream of the task's priority.
Push(c) ==
  /\ pc[c] = "push"
  /\ \E priority \in Priorities :
       /\ lane' = [lane EXCEPT ![c] = StreamOf(priority)]
       /\ ahead' = [ahead EXCEPT ![c] = Unread(StreamOf(priority))]
  /\ place' = [place EXCEPT ![c] = "unread"]
  /\ pc' = [pc EXCEPT ![c] = "status"]
  /\ UNCHANGED <<idem, times, status, wire, asked, task, reply, workers, history>>

\* The status "queued" is written after the message: a worker may have
\* written another one in between.
SetQueued(c) ==
  /\ pc[c] = "status"
  /\ status' = [status EXCEPT ![c] = [state |-> "queued", text |-> NoText]]
  /\ Enqueued(c, c)
  /\ UNCHANGED <<idem, stream, wire, asked, workers, history>>

\* A mutant: one subscription for all sessions.
MutDeliverAnySession(e) ==
  /\ e \in wire
  /\ wire' = wire \ {e}
  /\ pc' = [c \in Requests |-> IF Waiting(c) THEN "over" ELSE pc[c]]
  /\ reply' = [c \in Requests |-> IF Waiting(c) THEN e ELSE reply[c]]
  /\ UNCHANGED <<redis, asked, task, workers, history>>

\* The task of the API process that forwards remote events takes one.
Forward(e) == e \in wire /\ wire' = wire \ {e}

\* It hands a final.result to the subscribers of the session; each takes the
\* first one it gets for its answer.
Deliver(e) ==
  LET takes(c) == Waiting(c) /\ SessionOf[Question(c)] = SessionOfTask(e) IN
  /\ Forward(e)
  /\ pc' = [c \in Requests |-> IF takes(c) THEN "over" ELSE pc[c]]
  /\ reply' = [c \in Requests |-> IF takes(c) THEN e ELSE reply[c]]
  /\ UNCHANGED <<redis, asked, task, workers, history>>

\* Every 2 s without an event the status is read.
Poll(c) ==
  LET st == status[task[c]] IN
  /\ Waiting(c)
  /\ \/ st.state = "done" /\ Answer(c, st.text)
     \/ st.state = "failed" /\ Answer(c, Error)
  /\ UNCHANGED <<redis, wire, asked, task, workers, history>>

\* GET /commerce/tasks/{id}: the client of the asynchronous route asks for the
\* status until the task is over.
QueryTask(c) ==
  LET st == status[task[c]] IN
  /\ pc[c] = "over" /\ task[c] # None /\ ~asked[c].sync /\ reply[c] = None
  /\ st.state \in {"done", "failed"}
  /\ reply' = [reply EXCEPT ![c] = IF st.state = "done" THEN st.text ELSE Error]
  /\ UNCHANGED <<redis, wire, pc, asked, task, workers, history>>

\* QUEUE_WAIT_SECONDS are over.
GiveUp(c) ==
  /\ Waiting(c)
  /\ Answer(c, Error)
  /\ UNCHANGED <<redis, wire, asked, task, workers, history>>

\* XADD, SET or the GET of a poll raises: the request is answered 500.
ApiRedisError(c) ==
  /\ pc[c] \in {"push", "status", "wait"}
  /\ Fault
  /\ Answer(c, Error)
  /\ UNCHANGED <<redis, wire, asked, task, workers, runs, lapsed>>

\* The API process dies: its requests are never answered, and what was
\* published to it is gone (Pub/Sub keeps nothing).
ApiCrash ==
  /\ Fault
  /\ pc' = [c \in Requests |-> IF pc[c] \in {"idle", "over"} THEN pc[c] ELSE "lost"]
  /\ wire' = {}
  /\ UNCHANGED <<redis, asked, task, reply, workers, runs, lapsed>>

\* A broadcast fails, or the forwarder has stopped listening.
LoseEvent(e) ==
  /\ e \in wire
  /\ Fault
  /\ wire' = wire \ {e}
  /\ UNCHANGED <<redis, api, workers, runs, lapsed>>

\* The idempotency key reaches its TTL of 600 s.
Lapse(q) ==
  /\ idem[q] # None
  /\ OtherEvent
  /\ idem' = [idem EXCEPT ![q] = None]
  /\ lapsed' = lapsed \union {q}
  /\ UNCHANGED <<stream, status, wire, api, workers, runs>>

-----------------------------------------------------------------------------
(* consume(): the loop of a worker.                                        *)

\* The loop runs, or it was told to stop while it waited for a read.
Looping(w) == mode[w] \in {"up", "stopping"}

Full(w) == Cardinality(flight[w]) >= Concurrency

Finished(w) == flight[w] \ Running(w)

\* A mutant: the full branch forgets to drop what is done.
MutFullKeepsFinished(w) ==
  /\ mode[w] = "up" /\ Full(w) /\ Finished(w) # {}
  /\ UNCHANGED vars

\* No free slot: wait for the first handler to come back, drop what is done.
FullLoop(w) ==
  /\ mode[w] = "up" /\ Full(w) /\ Finished(w) # {}
  /\ flight' = [flight EXCEPT ![w] = Running(w)]
  /\ UNCHANGED <<redis, wire, api, mode, handler, history>>

\* max(0, concurrency - len(in_flight)), the COUNT of the next read.
FreeSlots(w) == IF Full(w) THEN 0 ELSE Concurrency - Cardinality(flight[w])

Oldest(s, n) ==
  {t \in Unread(s) : Cardinality(ahead[t] \intersect Unread(s)) < n}

\* A mutant: pending messages are claimed before each read.
MutBatchTakesPending(n) ==
  UNION {Oldest(s, n) : s \in Streams} \union
  {t \in Requests : place[t] = "pending" /\ handler[t] \notin Live}

\* The ids ">" are the messages delivered to no consumer so far, and COUNT is
\* a limit per stream: up to n of each of the two.
Batch(n) == UNION {Oldest(s, n) : s \in Streams}

\* After the read a worker that was told to stop leaves the loop.
AfterRead(w) == mode' = [mode EXCEPT ![w] = IF @ = "stopping" THEN "draining" ELSE @]

\* XREADGROUP returns: a handler is started for each message of the batch.
Read(w) ==
  LET batch == Batch(FreeSlots(w)) IN
  /\ Looping(w) /\ batch # {}
  /\ place' = [t \in Requests |-> IF t \in batch THEN "pending" ELSE place[t]]
  /\ times' = [t \in Requests |-> IF t \in batch THEN times[t] + 1 ELSE times[t]]
  /\ ahead' = [t \in Requests |-> IF t \in batch THEN {} ELSE ahead[t]]
  /\ handler' = [t \in Requests |-> IF t \in batch THEN "start" ELSE handler[t]]
  /\ flight' = [flight EXCEPT ![w] = @ \union batch]
  /\ AfterRead(w)
  /\ UNCHANGED <<idem, lane, status, wire, api, history>>

\* block_ms passed without a message: drop the handlers that are done.
EmptyRead(w) ==
  /\ Looping(w) /\ ~Full(w) /\ Batch(FreeSlots(w)) = {}
  /\ flight' = [flight EXCEPT ![w] = Running(w)]
  /\ AfterRead(w)
  /\ UNCHANGED <<redis, wire, api, handler, history>>

\* XREADGROUP raises: sleep and try again, or leave the loop.  The loop is
\* also left when it had no free slot and so no read in progress.
LeaveLoop(w) ==
  /\ mode[w] = "stopping"
  /\ mode' = [mode EXCEPT ![w] = "draining"]
  /\ UNCHANGED <<redis, wire, api, flight, handler, history>>

\* SIGTERM or SIGINT.
Stop(w) ==
  /\ mode[w] = "up"
  /\ OtherEvent
  /\ mode' = [mode EXCEPT ![w] = "stopping"]
  /\ UNCHANGED <<redis, wire, api, flight, handler, runs, lapsed>>

\* The process ends and takes the handlers that are still live with it.
Down(w) ==
  /\ mode' = [mode EXCEPT ![w] = "down"]
  /\ flight' = [flight EXCEPT ![w] = {}]
  /\ handler' = [t \in Requests |-> IF t \in Running(w) THEN "killed" ELSE handler[t]]

\* Out of the loop, consume() waits for the handlers in flight.
Exit(w) ==
  /\ mode[w] = "draining" /\ Running(w) = {}
  /\ Down(w)
  /\ UNCHANGED <<redis, wire, api, history>>

Crash(w) ==
  /\ mode[w] # "down"
  /\ Fault
  /\ Down(w)
  /\ UNCHANGED <<redis, wire, api, runs, lapsed>>

\* A new process with a new consumer name.
Start(w) ==
  /\ mode[w] = "down"
  /\ mode' = [mode EXCEPT ![w] = "up"]
  /\ UNCHANGED <<redis, wire, api, flight, handler, history>>

Consume(w) ==
  \/ FullLoop(w)
  \/ Read(w)
  \/ EmptyRead(w)
  \/ LeaveLoop(w)
  \/ Exit(w)
  \/ Start(w)

-----------------------------------------------------------------------------
(* _handle_one and the handler of worker.py, for the message of task t.    *)

Goto(t, step) == handler' = [handler EXCEPT ![t] = step]

SetStatus(t, state, text) ==
  status' = [status EXCEPT ![t] = [state |-> state, text |-> text]]

HandlerFrame == UNCHANGED <<mode, flight>>

SetRunning(t) ==
  /\ handler[t] = "start"
  /\ SetStatus(t, "running", NoText)
  /\ Goto(t, "run")
  /\ UNCHANGED <<idem, stream, wire, api, history>> /\ HandlerFrame

\* publish(): a worker has no subscribers, so the event is only broadcast, by a
\* task of its own that nobody waits for.
Broadcast(t) == wire' = wire \union {t}

\* handle_intent catches whatever the agent raises: a turn that failed returns
\* a text as well, but publishes no final.result.
RunAgent(t) ==
  /\ handler[t] = "run"
  /\ runs' = [runs EXCEPT ![t] = @ + 1]
  /\ Broadcast(t) \/ UNCHANGED wire
  /\ Goto(t, "done")
  /\ UNCHANGED <<redis, api, lapsed, faults, others>> /\ HandlerFrame

SetDone(t) ==
  /\ handler[t] = "done"
  /\ SetStatus(t, "done", t)
  /\ Goto(t, "ack")
  /\ UNCHANGED <<idem, stream, wire, api, history>> /\ HandlerFrame

\* The write of "done" raised: "failed" is written and the error goes on.
SetFailed(t) ==
  /\ handler[t] = "failed"
  /\ SetStatus(t, "failed", NoText)
  /\ Goto(t, "nack")
  /\ UNCHANGED <<idem, stream, wire, api, history>> /\ HandlerFrame

\* A mutant: a message is acknowledged before its handler is awaited.
MutAckBeforeHandler(t) ==
  /\ handler[t] \in {"start", "ack"}
  /\ place' = [place EXCEPT ![t] = "acked"]
  /\ Goto(t, IF handler[t] = "ack" THEN "over" ELSE "start")
  /\ UNCHANGED <<idem, lane, ahead, times, status, wire, api, history>>
  /\ HandlerFrame

Ack(t) ==
  /\ handler[t] = "ack"
  /\ place' = [place EXCEPT ![t] = "acked"]
  /\ Goto(t, "over")
  /\ UNCHANGED <<idem, lane, ahead, times, status, wire, api, history>>
  /\ HandlerFrame

\* A mutant: a failed message goes back to the end of its stream.
MutNackPutsBack(t) ==
  /\ handler[t] = "nack"
  /\ place' = [place EXCEPT ![t] = "unread"]
  /\ ahead' = [ahead EXCEPT ![t] = Unread(lane[t])]
  /\ Goto(t, "over")
  /\ UNCHANGED <<idem, lane, times, status, wire, api, history>>
  /\ HandlerFrame

\* The handler raised: a message delivered too often goes to the dead-letter
\* stream, any other one stays pending.
Nack(t) ==
  /\ handler[t] = "nack"
  /\ place' = [place EXCEPT ![t] = IF times[t] >= MaxDeliveries THEN "dead" ELSE @]
  /\ Goto(t, "over")
  /\ UNCHANGED <<idem, lane, ahead, times, status, wire, api, history>>
  /\ HandlerFrame

\* A Redis command of the handler raises.  Writing "running" is outside the
\* try block, so no status tells of that failure.
HandlerRedisError(t) ==
  /\ handler[t] \in {"start", "done", "failed", "ack"}
  /\ Fault
  /\ Goto(t, IF handler[t] = "done" THEN "failed" ELSE "nack")
  /\ UNCHANGED <<redis, wire, api, runs, lapsed>> /\ HandlerFrame

Work(t) ==
  \/ SetRunning(t)
  \/ RunAgent(t)
  \/ SetDone(t)
  \/ SetFailed(t)
  \/ Ack(t)
  \/ Nack(t)

-----------------------------------------------------------------------------
Call(c) ==
  \/ Claim(c)
  \/ ReadPrevious(c)
  \/ Push(c)
  \/ SetQueued(c)
  \/ Poll(c)
  \/ GiveUp(c)

Failure ==
  \/ \E c \in Requests : ClaimUnprotected(c) \/ ApiRedisError(c)
  \/ ApiCrash
  \/ \E e \in wire : LoseEvent(e)
  \/ \E w \in Workers : Crash(w)
  \/ \E t \in Requests : HandlerRedisError(t)

Next ==
  \/ \E c \in Requests : Submit(c) \/ Call(c) \/ QueryTask(c)
  \/ \E e \in wire : Deliver(e)
  \/ \E q \in Questions : Lapse(q)
  \/ \E w \in Workers : Consume(w) \/ Stop(w)
  \/ \E t \in Requests : Work(t)
  \/ Failure

\* Both event loops run their coroutines, and Docker restarts a worker that
\* ended (restart: unless-stopped).  Nothing makes a client send a request
\* or ask for a status.
Fairness ==
  /\ \A c \in Requests : WF_vars(Call(c))
  /\ \A w \in Workers : WF_vars(Consume(w))
  /\ \A t \in Requests : WF_vars(Work(t))

Spec == Init /\ [][Next]_vars /\ Fairness

-----------------------------------------------------------------------------
(* Properties.                                                             *)

Calls == [question : Questions, sync : BOOLEAN]

States == {"none", "queued", "running", "done", "failed"}

TypeOK ==
  /\ idem \in [Questions -> Requests \union {None}]
  /\ lane \in [Requests -> Streams \union {None}]
  /\ place \in [Requests -> Places]
  /\ ahead \in [Requests -> SUBSET Requests]
  /\ times \in [Requests -> Nat]
  /\ status \in [Requests -> [state : States, text : Requests \union {NoText}]]
  /\ wire \subseteq Requests
  /\ pc \in [Requests -> {"idle", "claim", "previous", "push", "status", "wait",
                          "over", "lost"}]
  /\ asked \in [Requests -> Calls \union {None}]
  /\ task \in [Requests -> Requests \union {None}]
  /\ reply \in [Requests -> Requests \union {Error, None}]
  /\ mode \in [Workers -> {"up", "stopping", "draining", "down"}]
  /\ flight \in [Workers -> SUBSET Requests]
  /\ handler \in [Requests -> HandlerSteps]
  /\ runs \in [Requests -> Nat]
  /\ lapsed \subseteq Questions
  /\ faults \in Nat /\ others \in Nat /\ faults + others <= MaxEvents

\* A message is acknowledged only when its agent has run and its text has been
\* written for the polls, so no crash loses a text that was acknowledged.
AckedIsRecorded ==
  \A t \in Requests : place[t] = "acked" =>
    /\ runs[t] # 0
    /\ status[t].state \in {"done", "queued"}
    /\ handler[t] = "over"

\* A worker never has more than the configured number of messages of one
\* stream in flight: COUNT is what is left of it, but for each of the streams.
FlightBounded ==
  \A w \in Workers, s \in Streams :
    Cardinality({t \in flight[w] : lane[t] = s}) <= Concurrency

\* Nothing but a crash cuts a handler short: a stopping worker waits.
StopIsGraceful ==
  (\E t \in Requests : handler[t] = "killed") => faults > 0

\* Reading only new messages keeps a task from being run twice, whatever
\* crashes: what is pending is never handed out again.  Its run has a slot of
\* its stream, and a worker that is told to stop lets it come to its end.
RunAtMostOnce ==
  /\ \A t \in Requests : runs[t] <= 1
  /\ FlightBounded
  /\ StopIsGraceful

\* While its key lives a question is enqueued once, however often it is sent.
OneTaskPerQuestion ==
  \A c, d \in Requests :
    /\ c # d /\ place[c] # "none" /\ place[d] # "none"
    /\ asked[c].question = asked[d].question
    => asked[c].question \in lapsed

\* No client is told a text of another session.
AnswerOfSession ==
  \A c \in Requests : reply[c] \in Requests =>
    SessionOfTask(reply[c]) = SessionOf[asked[c].question]

\* Without faults every message that was enqueued is acknowledged, through
\* any number of full worker slots, stops and restarts.
EnqueuedIsAcked ==
  \A t \in Requests :
    place[t] = "unread" ~> (place[t] = "acked" \/ faults > 0)

\* How far the task of a message has come.  One whose handler gave up or died
\* stays in the pending list, where nothing takes it from.
Stage(t) ==
  CASE place[t] = "none" -> "unsent"
    [] place[t] = "unread" -> "waiting"
    [] place[t] = "acked" -> "finished"
    [] place[t] = "pending" /\ handler[t] \in Live -> "held"
    [] OTHER -> "abandoned"

Older(t) == {u \in ahead[t] : place[u] = "unread" /\ lane[u] = lane[t]}

\* The queue with its workers is the queue of TaskDelivery: the tasks of a
\* stream are handed out once and in their order, an agent runs at most once for
\* a task, a message is acknowledged only after that run, and only a fault makes
\* the workers give up a task they hold.
Delivery == INSTANCE TaskDelivery WITH
  Tasks <- Requests,
  Lanes <- Streams,
  stage <- [t \in Requests |-> Stage(t)],
  older <- [t \in Requests |-> Older(t)],
  answers <- runs,
  broken <- faults > 0

DeliveryRefined == Delivery!DeliverySpec

\* redis_stream_queue.py:112-115 and worker.py:14: a message that was not
\* acknowledged is delivered again by the pending mechanism.
PendingIsRedelivered ==
  \A t \in Requests :
    (place[t] = "pending" /\ handler[t] \notin Live)
      ~> ~(place[t] = "pending" /\ handler[t] \notin Live)

=============================================================================

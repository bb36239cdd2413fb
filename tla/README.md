# Globex: a TLA+ verification project

Globex is a shopping assistant: a FastAPI server, worker processes that run the
agents, SQLite for what must last, Redis for the queue, events and caches, Qdrant
for the catalogue, and a React page. This directory holds TLA+ models of the parts
of it where concurrency, failures and retries decide whether it is correct, TLC
configurations that check them on small instances, and TLAPS proofs, about the order
book, the queue, the breaker, the sessions and their transcript, the reply cache, the
gateway and the order page, for any number of requests, turns, workers and agents. Paths below are relative to the
repository (`src/` in `PROJECT.json`).

## 1. Inventory

### Components, their state and their operations

| component | code (`app/`) | state | operations |
|---|---|---|---|
| order aggregate | `domain/order/order.py` | status, kind, frozen pricing, token digest | `place_simulation`, `cancel`, `delete`, guards, masked views |
| order use cases and store | `application/usecases/order_usecases.py`, `presentation/server.py`, `persistence/sql/repositories.py` | tables `orders`, `order_lines`, `order_idempotency_keys` | create with idempotency key, cancel, delete, detail, list, quote |
| intent queue | `presentation/server.py` (`_enqueue`, `_await_result`), `queue/redis_stream_queue.py`, `worker.py` | idempotency keys, two streams with a consumer group, task statuses, `in_flight` | submit (waiting or not), read, handle, ack, dead letter, stop, wait by event and by poll |
| event bus and backplane | `infrastructure/eventbus.py`, `redis_stream_queue.py` | subscriptions per session | publish, broadcast, listen, deliver |
| circuit breaker | `infrastructure/resilience.py`, `shared_breaker.py` | count, opened-at, half-open flag per tool, in a process or in Redis | allow, record success, record failure |
| sessions | `agents/main_agent.py`, `agents/orchestrator.py`, `SqlSessionStore` | agents per process, snapshot per session | get or create, reply, persist |
| transcript | `agents/orchestrator.py` (`_record_conversation`), `SqlConversationStore` | a row per session, its messages | touch session, append turn |
| semantic reply cache | `cache/semantic_cache.py` | buckets per buyer and preference scope | lookup, remember |
| model gateway | `throttle.py`, `llm.py`, `transient.py`, `budget.py` | slots, time of the last start, tokens spent | slot, call with retries, fallback, charge |
| preferences | `domain/buyer`, `application/memory`, two tools | preferences per buyer, hint last injected per session | remember, forget, select, inject |
| pricing | `domain/catalog/money.py`, `exchange_rate.py`, `domain/shipping/*` | none | convert, quote fees and taxes |
| catalogue search | `usecases/catalog_search.py`, `vector/`, `rerank/` | index | recall, rerank, filter, degrade |
| harness | `application/harness/*`, `harness_middleware.py`, `security/*` | trackers per session | order check, loop and drift detection, filters |
| startup | `composition.py`, `bootstrap_schema`, `seed_*`, index bootstraps | the tables | migrate, seed, synchronise, index |
| frontend | `frontend/src` | keys and control tokens in memory | quote, confirm, retry, cancel, delete |

### How they interact

```
 page --HTTP--> server.py --> order use cases --> SQLite <--+
   |               |                                        |
   |               +--> _enqueue --> Redis streams --> worker.py --> orchestrator
   |               |                  statuses, keys        |         | agents, tools
   +<--WebSocket---+<-- bus <-- Redis Pub/Sub <-------------+         | breaker, harness
                                                                      | throttle -> LLM
```

Each process (API, workers) is one asyncio event loop. A coroutine is interrupted
only at an `await`, so the modules make the code between two awaits one action, with
at most one transaction or Redis command in it. Processes share SQLite and Redis and
nothing else. Both run `Container.startup()` on the same database.

### What is hard, and what correctness means

* **Orders.** Creations with one key race; a cancellation and a deletion both pass
  the check on what they read; a response is lost after the commit; the catalogue
  changes between a creation and its retry. Correct: one order per key, committed
  with it; effects at most once; the token leaves the server once; a price is frozen;
  deletion is final and hidden; an error code tells the truth.
* **Queue.** A worker dies or is told to stop at any point between reading and
  acknowledging; a key lapses; events are lost; two requests of a session wait at the
  same time. Correct: no agent runs twice, nothing is acknowledged before its result
  is stored, the concurrency limit holds, no answer goes to another session, a
  message is eventually acknowledged.
* **Breaker.** Calls admitted in one state end in another; probes overlap or vanish;
  shared state is loaded, changed and saved without atomicity. Correct: it opens at the
  threshold and not before, refuses while it cools down and not longer, and closes
  when the tool is well again.
* **Sessions.** Turns of a session overlap, in one process or in several; the registry
  is checked, awaits and is set; agents are saved over each other; a crash falls
  between an answer and its save. Correct: the agent is asked with every earlier answer
  in its context.
* **Transcript.** The highest index is read and used without a lock; the session's row
  is looked for and then inserted; a record is cut short. Correct: the transcript reads
  in the order of the conversation, and nothing is dropped without a cause.
* **Reply cache and preferences.** Preferences change while a turn is under way; a bucket
  is read, changed and written back; hints are left out when they repeat the last one.
  Correct: a reused reply fits its buyer, question and preferences, an agent knows what
  its buyer dislikes, a cached reply is lost only in a race.
* **Gateway.** A slot is held to the end of a stream, through back-off and fallback, and
  every way out must give it back once; main agents wait for sub-agents that wait for
  slots; the tier is read before a call and charged after it. Correct: slots are
  accounted for, starts are spaced, the budget is overrun by overlapping calls only,
  every turn ends.
* **Search.** Recall, tie-break, reranking, constraints and `top_k` in a fixed order, over
  an index and a table of different releases. Correct: the hits fit and are ordered
  without regard to the order of the index, and what a card offers can be ordered.
* **Pricing.** Rounding, one amount at a time, in currencies of different minor units.
  Correct: a quote costs the same in each, and a further piece never makes it cheaper.
* **Harness.** Trackers shared by the turns of a session, cleared when any of them ends;
  one counts the calls of three tools, the other watches the results of all tools of the
  main agent, several of which may run side by side. Correct: a turn is judged by what it
  did itself.
* **Order page.** Answers that are lost, late, or come for a form that is gone; inputs
  edited while a quote is under way. Correct: one order for one confirmed quote, for the
  inputs the quote was shown for, and no control token lost or mixed up.

`PROJECT.json` lists each hazard with its line and the properties that cover it.

## 2. Plan

| order | module | subject | state |
|---|---|---|---|
| 1 | `OrderLifecycle` | abstract: what the order book promises | done |
| 2 | `Orders`, `MCOrders`, `OrdersProofs` | the order endpoints over the tables; implements 1 | done, proved |
| 3 | `TaskDelivery`, `IntentQueue`, `MCIntentQueue`, `IntentQueueProofs` | abstract: what the queue does; producer, streams, workers, answers, which implement it | done, safety proved |
| 4 | `CircuitBreaker`, `MCCircuitBreaker`, `TurnProofs` | local and shared breaker | done, safety proved |
| 5 | `Sessions`, `MCSessions`, `SessionsProofs` | agent registry and snapshots under overlapping turns | done, proved |
| 6 | `Transcript`, `MCTranscript`, `TurnProofs` | the record of the turns | done, proved |
| 7 | `Replies`, `MCReplies`, `RepliesProofs` | preferences and the semantic cache under turns that overlap | done, proved |
| 8 | `ModelGateway`, `MCModelGateway`, `ModelGatewayProofs` | throttle, retries, fallback, budget, sub-agents | done, safety proved |
| 9 | `OrderPage`, `MCOrderPage`, `OrderPageProofs` | the two forms of the page as clients of `OrderLifecycle` | done, proved |
| 10 | `Pricing`, `Shopping`, `MCShopping`, `ShoppingProofs` | money rules; search, index and quotes | done, proved |
| 11 | `Harness`, `MCHarness`, `TurnProofs` | loop and drift trackers of a session | done, proved |

Composition: `Orders` implements `OrderLifecycle`, `IntentQueue` implements `TaskDelivery`, and `OrderPage` takes `OrderLifecycle`
for its server (`Book == INSTANCE OrderLifecycle`), so that what is shown of the page
rests on the order book that the endpoints implement. `Shopping` extends `Pricing`. `Sessions`, `Replies`,
`ModelGateway`, `Harness` and `Transcript` are views of `handle_intent`, each with the
state it is about and a free choice for the rest: `Transcript` begins where `Sessions`
ends, and what a turn of `Sessions` takes for a cached or a given answer is decided in
`Replies`. All of them let any turn begin at any time, which is all that `IntentQueue`
promises of two tasks of one session.

A module of its own for the start of a process is not planned. Its id migration and its
seeds may be repeated; what reaches others, a catalogue that changes while they serve, is in
`Orders` and `Shopping`; only the first start on an empty database can collide, and
then the loser goes on from the tables of the winner.

Abstract specifications: the life cycle of the order book, and a queue that hands out each
task at most once, both done. The breaker has none of its own: `OpensAtThreshold` states,
with history variables for the recorded results, when it is open.

Every safety property of the modules 2 to 11 is a theorem; nothing of the plan is left but
what section 5 says the prover cannot treat. None of the modules declares a RECURSIVE
operator.

## 3. The modules and the code

### OrderLifecycle, the abstract specification

State: the life-cycle state of each order and the order each idempotency key created.
Steps: `Place` (an order and its key appear together), `Cancel`, `Delete`. It is the
state machine of `order.py`; seeded orders never move.

### Orders, the endpoints over the tables

| variable | code |
|---|---|
| `status`, `deletedAt`, `tokenHash`, `pricing` | the columns of `orders` |
| `keyOrder`, `keyBody` | `order_idempotency_keys` |
| `catalog` | the release the products table was synchronised with |
| `pc`, `call`, `local`, `reply` | the coroutine of each request: its next await, its input, its locals, its response |
| `took`, `gone` | history: requests whose write took effect, orders deleted before a request arrived |

The steps of a creation are `CreateFreshKey`/`CreateKnownKey`/`CreateKeyMisused`
(`find_idempotency`), `CreateReuse` (`find_by_id`), `CreateQuote`, `CreateCommit` or
`CreateRollback` (the transaction of `save_new_with_idempotency`), `CreateLostRace`
and its siblings (the read after the rollback) and `CreateRespond`. Cancellation and
deletion are find, conditional UPDATE, refresh or read-back. `DatabaseError` lets any
access raise, `Restart` kills the API (its requests are never answered) or another
process and synchronises the catalogue with a release.

A step that ends with a lock or I/O error wrote nothing. Clients present only tokens
that a response gave out, or a wrong one. The items of a quote are read in one step;
the code reads the products one after the other, so a quote during a re-synchronisation
may mix two releases, which the model does not show. `Constructible` is the constructor of
`Order`, which every read of a row runs again; that no row fails it is part of `TypeOK`.

### TaskDelivery, the abstract queue

State: how far each task has come (unsent, waiting, held, finished, abandoned), its lane,
the tasks that wait ahead of it, how often an agent ran for it, and whether anything broke.
Steps: `Send`, `Take` (some tasks, none before one that waits ahead of it), `Answer`,
`Finish` (after the answer), `Abandon` (only when something broke). It has no step that
hands a task out again. The port `task_queue.py` announces delivery at least once; what the
program has is delivery at most once, which finding 1 shows from the other side.

### IntentQueue

| variable | code |
|---|---|
| `idem` | keys `idem:<fingerprint>` (SET NX, 600 s) |
| `lane`, `place`, `ahead`, `times` | the stream of a message, whether it is unread, pending, acknowledged or dead, its order, its delivery count |
| `status` | `globex:task:<id>` |
| `wire` | `final.result` events in Pub/Sub |
| `pc`, `asked`, `task`, `reply` | a request in `_enqueue` and `_await_result` |
| `mode`, `flight`, `handler` | a worker: loop, stopping, draining or down; `in_flight`; the step of each handler |

`Read` takes up to the free slots from *each* stream, as XREADGROUP does. `Stop` is
SIGTERM, after which a read in progress may still hand out messages. `QueryTask` is the
status route, which the client of an asynchronous request asks. `claim_stale` has
no caller and is not an action. A Redis command that raises is taken to have had no
effect. For `TaskDelivery`, `Stage` says how far a task is: a message is held as long as it is
pending and its handler lives; one whose handler gave up or died is abandoned, in the
pending list or in the dead-letter stream.

### CircuitBreaker

`state` holds the state in each registry: one per process, and the one in Redis.
Calls of processes that are composed with the shared registry (`sharing`) load a copy
in one step and save it in another; the local registry does both in one. Time is a
countdown: `cool` is what is left of `reset_seconds`, `ttl` what is left of the
expiry. The history variables `streak`, `ever` and `recent` record what happened,
whatever the registry believes. The clocks of the processes agree, and processes are
not restarted (a restart empties the registry of one process).

### Sessions

| variable | code |
|---|---|
| `snapshot` | the row of the session in `agent_session_states` |
| `cached`, `context` | `SessionRegistry._agents` of each process, `state.context` of each agent |
| `pc`, `proc`, `agent`, `outcome` | `handle_intent`: its next await, its process, its agent, whether the final text is the agent's |
| `draft`, `base` | the state read or dumped, and what `merge()` decided to do with it |
| `seen`, `before`, `crashes`, `life`, `raced`, `failed` | history |

The steps are those of `get_or_create` (`BeginCached`, or `BeginLoading`, `Load` and
`Install`), of the reply (`ReplyCached`, or `Ask` and `Answer`, or `Fail`) and of
`persist` (`Dump`, `Merge`, `Save`). A context is the set of messages in it; one that was
compressed into the summary counts as being in it. A turn whose task is cancelled
without its process ending is not modelled.

### Transcript

`session` and `transcript` are the rows of the session and of its messages; `pc`, `top`
are the record of each turn in `_record_conversation`, one action per await: `Touch`,
`InsertSession`, for each of the two messages `ReadMax` and `AppendMessage`, and at last
`AppendEvents`, whose rows of a turn are one member of `traced`. `CutShort` is an error,
which is logged and ends the record, or a crash.

In both modules a turn counts as over, or begins, a little too early or late, always so
that more turns are "over before": the properties only get stronger.

### Replies

| variable | code |
|---|---|
| `prefs` | the rows of each buyer in `buyer_preferences` |
| `bucket` | the buckets of `semantic_cache.py`, named by buyer and preference scope |
| `injected` | `_injected_preferences` of the orchestrator |
| `context` | whether the agent of a session was asked anything, and what it was told of preferences |
| `turn` | `handle_intent`: its step, its locals, and what its reply was made from |

`Begin` computes `has_history` and the scope; `Hit` and `Miss` are the lookup;
`Select` and `Ask` choose the hint and inject it; `Remember` and `Forget` are the two
tools; `Answer` computes the scope again, `Load` and `Save` are the two halves of
`remember`. A fingerprint is the list of preferences it is made from, a reply the turn
that made it, the similarity of two questions a number from a table. The table keeps a
preference of a buyer once, so a list of preferences is given as its order, a set of pairs:
to filter it is to intersect, and two lists are equal exactly when their orders are. (A
filter of sequences is recursive in the library, and nothing could be proved of it.) Which
likes are most relevant to a question is a free choice. One process.

### ModelGateway

| variable | code |
|---|---|
| `free`, `queue` | the semaphore of `throttle.py` and who waits for it |
| `line`, `since` | the lock that spaces starts, and the time since `_last_start` |
| `agent` | each agent: its step, attempt, sleep, model, and the retries of its turn |
| `used` | the tokens each intent spent (`budget.py`) |
| `lost` | history: slots of streams nobody will read |

`Wait`, `Acquire`, `SpaceOut` and `Start` are `slot()`; `Respond`, `Stream`, `Read`,
`BreakOff`, `BackOff`, `Retry`, `FallBack` and `Fail` are the call in `llm.py`; `Dispatch`,
`Collect`, `Cancel` the dispatch tool and its time-out; `TryAgain` the retry of a turn.
`Drop` is a stream that is never started, which Python never closes. Time is counted in
ticks, of which every pause is a whole number. There is a fallback when a second model is
named that is not the first (`llm.py:235`).

### OrderPage

| variable | code |
|---|---|
| `state`, `owner`, `made` | the order book, as `OrderLifecycle`, and the write that made each order |
| `view`, `draft`, `tokens`, `first` | `App.tsx` |
| `form` | the mounted instance of `OrderCenter.tsx` and of `ChatOrderDraft.tsx` |
| `selected`, `detail`, `load` | selection, order shown and pending GET of the order centre |
| `write` | each write the page has sent, its answer, and how its fetch ended |

A request is served in one step, before or after the page has given it up (`Serve`,
`Fails`), and its answer may find the form gone (`Comes`). A quote carries the inputs it was
asked for; what it costs is not modelled here. `late` marks a quote that arrived when the
inputs said something else.

### Pricing and Shopping

`Pricing` holds the rules of `exchange_rate.py`, `simulated_fee_rules.py` and
`tariff_schedule.py` with their numbers. The code multiplies binary fractions and rounds;
the module computes exactly and allows both neighbours of a half, so an amount is a set of
one or, seldom, two values.

| variable of `Shopping` | code |
|---|---|
| `table`, `index` | the products table, the points of the vector index |
| `search` | `CatalogSearchUseCase.execute`: its step and its locals |
| `quote` | `QuoteSimulatedOrderUseCase.execute`, of a card or of the form |

`Resync` and `BootstrapIndex` are the start of another process. Similarity, relevance and
keyword overlap come from services or text and are freely chosen; the index lists ties in
any order. What the constructors of a product and of a search refuse (`WellFormedProduct`,
`WellFormedSpec`) is assumed of the constants; with it that a product has a market, as all
of the seeds do, so that the fallback of a card to all fee markets is in `Offered` but never
taken. A product has one SKU. A search and a card know only the primary one; to a quote
another SKU of a product is like another product of the same markets: a SKU that does not
exist is refused as a product that does not exist is (`order_usecases.py:93-97`), and two
SKUs of one product are no duplicates (`:83`). Products of one query are read in one step; the
code reads them with several SELECTs. A sort key is a tuple, compared as Python does
(`Exceeds`); `list.sort` is stable, so of two equal keys the earlier one stays in front
(`Before`), and a filter is a sort without keys (`Those`). A quote carries the sums of its
lines so far: `pieces` is `total_quantity`, `subtotal` the code's second loop, drawn into the
first, and `inCny` a history, the same lines at prices in CNY. A form has up to `MaxItems`
items; an empty one is refused.

### Harness

| variable | code |
|---|---|
| `called` | `LoopDetector._calls` of each session |
| `trace` | the trace of each session in `DriftDetector` |
| `turn`, `running`, `budget` | the turns, how many calls of the main agent are in progress, the bound |
| `alone`, `made`, `hinted`, `results`, `reported` | history |

`Watched` are the tools that carry `HarnessToolMiddleware`: `task_dispatch`,
`remember_preference` and `forget_preference` of the main agent (`main_agent.py:88-142`).
Its business tools carry the breaker and the time-out alone, its Task tools nothing: these
are `Unwatched`. The tools of a sub-agent carry no harness either and its stream is not
watched, so its calls reach neither tracker and are not in the module; what a dispatch brings
back is its result. `Call` is the start of a call with what the middleware does before it runs
the tool, also when the breaker behind it then refuses (`harness_middleware.py`); `Return` is
the result as the orchestrator observes it, an error and a time-out included. The calls of one
round of the agent run side by side (`is_concurrency_safe`), so `Call` and `Return` come in
any order. `Reply` is the judgement, `End` the clean-up after any way out. The order check is
left out: the tools its rules name are given to no agent. Both trackers are modelled switched
on (`HARNESS_ENABLED`, `DRIFT_DETECT_ENABLED`).

## 4. What the runs check

| run | instance | shows |
|---|---|---|
| `orders` | 3 requests, 2 new ids, 1 seeded order, 2 keys, 3 bodies (one that no quote accepts), 2 releases | all properties of the order book and the refinement |
| `queue` | 2 requests, 2 questions, 2 sessions, 1 worker of concurrency 1, 1 event | safety and, without faults, liveness of the queue, and the refinement |
| `queue_redelivery` | the same | finding 1 |
| `breaker` | 3 slots, 2 processes, threshold 2, cooldown 2, expiry 3, 1 fault | the breaker, local and shared |
| `sessions` | 3 turns, 2 at once, 2 processes, 2 faults | what is remembered, and when |
| `transcript` | 4 turns at once, 2 faults | order and completeness of the transcript |
| `replies` | 3 turns, 2 at once, 2 buyers, 2 sessions, 3 questions (2 alike), 2 statements, 1 like in a hint, buckets of 2, 1 write, 1 fault | the reply cache and the preferences |
| `gateway` | a main agent, 2 sub-agents, 2 slots, interval 1, 1 retry, 1 retry of the turn, a fallback, budget 2, 2 calls each, 1 fault | throttle, budget, and that turns end |
| `order_page` | 2 bodies, 2 orders, 3 writes, 2 quotes, 1 edit, 2 instances of a form | the page over the abstract order book |
| `stale_quote` | the same | finding 2 |
| `shopping` | 3 products, 2 releases, 4 kinds of search, recall of 2, scores 0 and 1, quantities 0, 1, 9, 10, forms of up to 2 items, 3 currencies | search, cards and quotes |
| `harness` | 2 turns of a session, 2 watched tools and 1 other, threshold 2, window 3, interval 2, 4 calls a turn | the trackers |

**orders.** `CommittedTogether`, `OneOrderPerKey`, `TokenIssuedOnce`,
`EffectsAtMostOnce`, `NoReadAfterDelete`, `OnlyHolderMoves`, `PricingFrozen`,
`RefusedHasNoEffect`, and `LifecycleRefined`. Three requests are what the races need:
a creation and two that compete for its order, or two creations and a retry. Two ids
let an id collide or not; two keys and three bodies give every outcome of the key
check. Requests and ids are interchangeable (SYMMETRY; all the properties are safety
properties). Deadlock is not checked in the order and queue runs: when all requests
are served the system stops.

**queue.** `MaxEvents` bounds crashes, failed commands, lost events, SIGTERMs and
lapsed keys together; it is 1, which any of them may be, at any point. Two requests
reach the repeated question, the full worker, the two streams and the answer of a
neighbour. The constraint `InOrder` only fixes which of two interchangeable requests
comes first. `MaxDeliveries` is the 3 of the code; no message is ever delivered twice,
so the dead-letter branch is not reached, which is finding 1. `DeliveryRefined` is the
refinement of `TaskDelivery`. The types of the variables are left to `TypeCorrect`. The run
takes about three minutes, most of them for `EnqueuedIsAcked`.

**breaker.** Calls go on for ever: a slot that is done is used again, and counts stop
at the threshold, past which one more changes no decision. Three slots let two updates
overlap while a third call judges the result, within one process or across two. The
expiry is longer than the cooldown, as `_TTL_MULTIPLIER` demands. What is said of the
shared breaker is said of times when updates do not overlap. Deadlock is checked.

**sessions.** `RememberedInProcess` holds although turns overlap, saves fail and other
processes save over the snapshot, because a process keeps its agent; it excludes the
lives of a process in which two turns built one at the same time, which is the race of
`get_or_create`. `RememberedAfterRestart` holds when turns come one at a time to one
process; without either condition it fails. Three turns are an answer, a turn
that overlaps it, and a question after it, or an answer, a crash and two questions.
`MaxOpen` bounds the turns in progress at once. Turns and processes are interchangeable.

**transcript.** `TranscriptInOrder` speaks of any two messages whose order the buyer
could know; messages of overlapping turns may mix and share an index. Of two first turns
that end together one may find the row of the session inserted by the other and drop its
record: `DroppedOnlyInRaces` says that this is the only way, and that two turns never
drop each other; and no turn has event rows without its messages.

**replies.** `ReuseIsSound`: a buyer answered from the cache gets a reply that was made
for the same buyer, as a first answer, to a question similar enough and under the
preferences the lookup went by; the exceptions it names (another turn changed them while
the reply was made, a read failed) are real, see below. `DislikesReachAgent`: an agent that is asked knows
every dislike of its buyer, although hints are cut to `TopK` likes and left out when they
repeat the last one. `LostOnlyInRaces` lists every way a reply leaves its bucket: as the
oldest of a full one, or by a turn that had loaded the bucket before the reply was put
there, or put *back*: a save may bring back what was lost or expired meanwhile, so that the
same reply can be lost twice. Three turns are one that fills a bucket, one that races with it, and one that reads it; one
write and one fault may fall anywhere among them.

**gateway.** `SlotsAccounted` is the conservation of slots through streams, back-off,
fallback, errors and cancellation. `MainSpendBounded` bounds what the main model is
asked for beyond half of the budget by the number of agents that ask at once.
`StartsSpaced` is about first attempts. `TurnsEnd` is the absence of deadlock and
starvation between main agents, sub-agents, slots and the lock. Two slots for three
agents make them wait for each other; a budget of two is past its half after one reply.

**order_page.** `OneOrderPerQuote`, `CreatedAsQuotedUnlessLate`, `TokensUsable`. Three
writes are a creation, a retry and a cancellation or deletion; two instances of a form
let an answer find another instance than the one that asked.

**shopping.** `HitsSound` compares the answer of a search, which the model computes
step by step as the code does, with its definition as a set: all candidates that fit, in
the one order that score, similarity, overlap and id determine. Which of two equally near
points is recalled at the limit is left to the index, in the model as in the code. `OfferedIsQuotable`
connects the search, the catalogue and the quote while releases change. `QuoteIsFair`
compares a quote with the same lines priced in CNY, with a quote of one piece more, and
with the freight of the card. The second release adds a product, changes a price and takes
a market away; 9 and 10 pieces are the limit of an order and one below it.

**harness.** Both properties compare what a turn is told with what it did, for turns that
were alone in their session. `LoopsAreHinted` is stated over all calls of the turn: hinted are
the watched ones that end a row of equal watched ones (`InRow`), whatever unwatched calls
stand between them. Two turns one after the other show that nothing of the first is
left; two at once clear each other's trackers. The numbers are smaller than those of the
code (3, 6, 3, 3) so that four calls reach every one of them.

Searches and quotes follow each other for ever, so deadlock is checked in `shopping` as
in `breaker`; all the other systems stop when their turns or writes are over.

### Fairness

* `IntentQueue`: weak fairness of each request in the API, of each worker loop and of
  each handler. Both event loops run their coroutines; a worker that ended is started
  again (`restart: unless-stopped` in `docker/docker-compose.yaml`, and a SIGTERM is a
  redeploy). Clients, events, faults and lapses have none; the delivery of an event
  has none either, Pub/Sub promises nothing.
* `CircuitBreaker`: weak fairness of the end of each call (every tool has a timeout)
  and of time. That calls keep coming is the premise of `Recovers`, not an assumption
  of the specification.
* `ModelGateway`: weak fairness of time and of the steps of each agent: the event loop
  runs what is ready, the gateway answers or its client times out, a stream that is
  read ends. Cancellation and streams nobody reads have none, and `TurnsEnd` is
  conditional on a slot that is left.
* All other modules: safety only.

### Findings

1. `queue_redelivery`: a message that was not acknowledged is never delivered again:
   the loop reads only new messages and nothing calls `claim_stale`.
2. `stale_quote`: the inputs of a form stay enabled while a quote is under way, and the
   quote that arrives is shown without comparing it with them. The confirmation sends
   the inputs, so the order is not the one the quote was shown for.

### Remarks without a run

Orders. A cancellation with the right token that loses to a deletion is answered 403,
which the design (`docs/SIMULATED_ORDERS_V1_DESIGN.md:280`) keeps for an invalid token
(`order_usecases.py:291`). One that took effect is answered 409 when a deletion lands
before its read-back (`order_usecases.py:292-294`); this is why `RefusedHasNoEffect` speaks
of creations and deletions. The design speaks of idempotency keys kept for 24 hours
(line 245); they never expire.

Queue. One read of two streams starts up to twice the free slots, because COUNT is per
stream (`redis_stream_queue.py:131`), although `concurrency` is documented as the limit
(line 114). A waiting request takes the first `final.result` of its session for its own,
also when it answers another question (`server.py:407`); `AnswerOfSession` therefore speaks of
the session.

Breaker. After the cooldown every call is a probe (`resilience.py:79`, "one probe" at
line 8). Overlapping failures are counted once in Redis, so the shared breaker may stay
closed at the threshold (`shared_breaker.py:87`). There the mark of a probe can be saved
over the delete of a success, so it reopens now and then; `Recovers` says of it that it
closes again and again, and of a process that it closes for good.

Sessions. Two processes that serve a session in turn save their agents over each other,
and the answer only one of them heard is lost at the next restart (`main_agent.py:179`,
against line 13).

Replies. The scope a reply is filed under is computed when its turn ends, so a reply made
under a preference that another turn withdraws meanwhile is filed under the new ones,
which `semantic_cache.py:104-108` means to exclude. A failed read of the preferences counts
as "no preferences" for the lookup and for the filing.

Gateway. The tier "fallback" is documented as making no call of the model
(`budget.py:14`, line 44); the model is still called. Retries and fallbacks start inside
their slot and past the spacing of starts.

Order page. `README.md:66` says that the key prevents duplicate orders; the chat card draws
a new key for every click (`ChatOrderDraft.tsx:107`), so a retry after a lost answer is
a second order. `OneOrderPerQuote` speaks of the order centre.

Shopping. The landed price of a card follows the tariff rules (with SG, without GB), the
quote of an order the fee rules (with GB, without SG). The price cap is compared with the
price, not with the landed price. A product that is in the table and not in the index
is not found as long as the vectors answer. No start takes a product away.

Harness. The main agent's business tools and all tools of the sub-agents are outside the loop
detector (`main_agent.py:111-117`, `search_agent.py:54-81`): three `product_search` in a row are
never hinted at, though the settings say that the same tool called so often in a row is
(`docs/教程实现对齐清单.md:129`) and a test shows it of a `product_search_tool` that it wraps in
the middleware itself (`tests/test_harness_middleware.py:144-166`). `LoopsAreHinted` therefore
speaks of watched calls. The rules of the order check name two tools that no agent is given. A
`LOOP_REPEAT_THRESHOLD` above the window of 6 never gives a hint, which
`HarnessAssumption` excludes. Drift is judged only when a turn ends and only if its
results are a multiple of three, so a turn with four empty searches in a row is not
judged, though `drift_detector.py:11` names three in a row. Because other tools are not
counted, three dispatches with searches or `TaskUpdate` between them get the hint "已连续 3 次"
(three times in a row); so do three dispatches of one round, which the tool itself asks to make
at once (`task_dispatch_tool.py:81`). Two turns of a session at once share the trackers, and
the one that ends first clears them.

### Mutants

Each property of a passing run has a mutant: a variant of one definition, named
`Mut...` and placed before it, that a plausible bug would produce. The property fails
when the mutant takes the place of the definition.

## 5. What is proved

`OrdersProofs` proves, for any sets of requests, ids, keys, bodies and releases and
from `OrdersAssumption` alone (constants are disjoint where the code keeps them apart,
`Api` is a server, there is a release):

* `TypeCorrect`, `OrderAndKeyTogether`, `IdempotentCreation`, `TokenGivenOnce`,
  `OneEffect`, `HolderMoves`, `DeletedStaysHidden`, `PriceFrozen`,
  `RefusalWritesNothing`: `Spec => []P` for every invariant of the run `orders`;
* `ImplementsLifecycle`: `Spec => LifecycleRefined`. Initial states map to initial
  states; a commit maps to `Place`, the two conditional UPDATEs to `Cancel` and
  `Delete`, every other step to a stutter.

No property is inductive as it stands: that two answers name one order, say, depends
on what the coroutines hold between their awaits. The inductive invariant `IInv` is
the conjunction of ten named parts:

| part | says |
|---|---|
| `TypeOK` | types, and `deleted_at` is set with the status DELETED |
| `StepsFit` | the step a request is at fits its call, and says whether its write took effect |
| `LocalsFit` | what a creation holds between two awaits is still true of the tables |
| `RepliesFit` | an answer stays true of the tables, whatever happens after it |
| `Unanswered` | a request still at work has no answer |
| `GoneFits` | what was deleted when a request arrived is still deleted |
| `TablesAgree` | a key points to a committed order, an order is the one of exactly one key |
| `TokensAgree` | a committed order carries the digest of the request that created it |
| `EffectsFit` | what the requests whose write took effect left in the tables |
| `MovesFit` | `EffectsAtMostOnce` and `OnlyHolderMoves`, inductive with the rest |

`Inductive` proves that `Init` implies `IInv` and that each step preserves it. Most steps
write no table and are covered by two lemmas (`QuietGoto`, `QuietAnswer`); the arrival of
a request, the three writes and a restart have a lemma each. Every theorem then follows
from `IInv` in a few steps.

`TurnProofs` holds the proofs about three modules that share no state, each about what goes
with a turn. Its part on `Transcript` proves `TranscriptTypeCorrect` and `Ordered` for any number of turns and faults. `TranscriptInOrder` is not inductive: that an index
read earlier is still high enough when it is used needs `Reads` (it is at least the index
of every row the new one must follow), which holds because the rows of a turn that is
over no longer change (`History`) and a turn writes its question before it reads for its
answer (`Written`). `Topped` says that a highest index exists, which `max` relies on and
which cannot be had by induction on the set. The four steps that write no message share
`QuietKeeps`; `AppendStep` is the one that matters. `DropsAreRaces` (`DroppedOnlyInRaces`)
needs two more parts: `Progress`, how much of a turn is recorded at each of its steps, and
`Creator`, that a session row was inserted by a turn that is recorded, will be, or was cut
short; the turn whose own insertion fails overlapped that one.

`IntentQueueProofs` (`TypeCorrect`, `AckedRecorded`, `RunOnce`, `OneTask`, `AnswersBelong`,
`ImplementsDelivery`) assumes finitely many requests, so that what a worker has in flight can be counted, and
nothing of their number, of the workers or of the faults. `IInv` has a part for each side:
`ClientsFit`, that whoever pushes the task of a question holds its key unless one lapsed,
and that tasks, keys, events and answers belong to the question they were made for;
`HandlersFit`, that the step of a handler says where its message is and how often its agent
ran; `StreamsFit`, that the unread messages of a stream are strictly ordered, without which
COUNT n does not bound what is read; `SlotsFit`, the limit itself. `RunOnce` rests on the
first three parts of `HandlerFits`: a message that was read never becomes unread again.
`ImplementsDelivery` is `Spec => DeliveryRefined`: the XADD maps to `Send`, XREADGROUP to
`Take`, the run of the agent to `Answer`, the acknowledgement to `Finish`, a crash and a
handler that failed to `Abandon`; all else is a stutter, or a fault that no task notices. That a batch takes with
a message all that are ahead of it follows from the order of `StreamsFit` (`RanksDiffer`);
that only a fault makes a handler fail is a part of `HandlerFits` that this proof added.

The part of `TurnProofs` on `CircuitBreaker` (`TypeCorrect`, `RefusedWithCause`,
`OpenAtThreshold`, `CooldownHolds`) is about both registries, for any threshold, cooldown and expiry longer
than it. What survives a lost update is `AllJustified`: a state, and a copy on its way to be
saved, tells of no more failures than there were. What does not survive is `Counted`, which
therefore speaks of copies only while nothing was written since they were loaded.
`CooldownHolds` is an action property; it needs `ClocksAgree`, that in one process the
cooldown and the time since the last failure are the same.

Its part on `Harness` (`HarnessTypeCorrect`, `LoopsHinted`, `DriftOwn`) is for any sessions,
turns, tools (watched or not) and calls, and any window that a repetition fits in.
`HarnessIInv` says what a turn alone in its session is: the only open one (`Lonely`), one that
found both trackers cleared (`Clean`), so that they tell of what it did and nothing else
(`Tracked`); `Unnoted` is the state of a turn that has not begun. Of the results the trackers
hold the last ones: the last of the last are the last of all (`LastOfAppend`). Of the calls
the window holds the watched ones alone; what agrees is, for every tool and every length up to the window, whether the window ends in so many calls of it and whether the
last so many watched calls of the turn are calls of it. One call more lengthens both or breaks
both (`EndsAfterCall`, `WatchedRow`), or leaves both alone (`UnwatchedKeepsRow`).

`ModelGatewayProofs` (`SlotsKept`, `SpendBounded`, `SpacingHolds`) assumes a finite set of
agents, of which sub-agents have no sub-agents, and pauses of whole ticks. Slots are
counted, so most of the work is about cardinalities: `InHolding` is the set of those that
hold one, and each step adds or removes one member at most. `LinesFit` (nobody is twice in
a queue) lets the head of a queue be removed without a second entry of it staying behind;
`SpacingFits` says that who sleeps for the spacing will not wake too early, whatever the
clock does; `CallsFit` and `TeamsFit` that a main agent and its team never ask at once,
which is where the bound on the budget comes from.

`SessionsProofs` (`RemembersInProcess`, `RemembersAfterRestart`) is for any number of turns,
processes, crashes and failed accesses. Both properties speak of the moment a question is
put, long after the answers that must be there, so `IInv` says where an answer is kept
meanwhile: `OneAgent`, in the one agent of a life in which no two turns built one;
`AnswersStored` and `OwnKept`, as long as turns are serial, in the snapshot, in everything
read from it, and in what is about to be saved. `LivesFit` ties a turn to a life of its
process; `RegistryFits` an agent to the process that keeps it.

`OrderPageProofs` (`OneOrder`, `AsQuotedUnlessLate`, `HoldsTokens`) is about the page over
`OrderLifecycle`, for any number of orders, writes, quotes, edits and instances. A write is
sent, served and heard of in three steps, or never heard of; the parts of `IInv` say what it
carries (`CreatesFit`, `ActsFit`), what its answer means for the book (`AnswersFit`,
`BookFits`) and what a form shows (`FormsFit`, `ShownFit`). `NumbersFit`, that the two forms
never show quotes of one number, is what makes the key of a quote a key of one form.

`ShoppingProofs` (`AnswersAreSound`, `OffersAreQuotable`, `QuotesAreFair`) is for any seeds
and releases, searches, scores, quantities and limits; the currencies, fee rules and tariffs
are those of the source. Its lemmas are of three kinds.

* Lists. A sort is defined by ranks; when the keys put all indices in one order
  (`Orderly`), every rank is taken once, and the sort lists every element once, in order
  (`SortedLists`). That the code's keys do is why the order of what the index recalled cannot
  show: similarity, overlap and id decide before, and equal relevance keeps that order.
* Money. A conversion is off by half a minor unit at most (`ConvertBounds`). Two quotes of
  the same lines differ by the rounding of their pieces, freight, threshold and tax, and by a
  fifth more for the tax on that (`TotalsAgree`), which is within the tolerance of
  `QuoteIsFair` (`TotalsTolerated`).
  The freight of a further piece is 15 CNY at least and outweighs every rounding
  (`NeverCheaper`); freight itself is never halfway between two amounts (`FreightIs`).
* The invariant (`ShoppingInvariant`). `ScoredFits`: what the vectors found and the table has
  is listed once each, in the order of the keys. `LinesFit` and `SumsFit`: each line has a
  price converted from the product it was read from, and the sums of a quote in its currency
  and in CNY stay within what its pieces may be rounded by. `CardFits`: a card asks for
  something its own table offers, so that a refusal means another table.

Sums are kept line by line as the loop of the code does, since a sum over a sequence is
a recursive function, of which nothing can be had without induction over data.

`RepliesProofs` (`TypeCorrect`, `SoundReuse`, `DislikesKnown`, `LossesAreRaces`) is for any
turns, preferences, similarities and limits. `SoundReuse` is decided when a reply is filed:
`EntryFits` says of every entry of a bucket, and of every loaded copy, what the turn was
that left it, and such a turn does not change any more. `DislikesKnown` needs the converse
of a hint that is left out: what was injected last is known (`InjectedFits`).
`LossesAreRaces` is an action property; it needs `SinceFits`, that what a turn would
overwrite was loaded by it or was put there since, and `NewestKeeps`, that one more entry
pushes out the oldest of a full bucket and no other. It was stated more narrowly once, of
replies that others *made* since the bucket was loaded; the proof failed for a reply that an
overlapping save brings back, and a run with buckets of three shows such a loss.

The proofs take their assumptions on constants from the `ASSUME` of each module, which the
runs evaluate. They say what the code says: limits and thresholds are positive, `None` is
no value of a set, tables have entries for all their arguments.

Only model-checked: liveness (`EnqueuedIsAcked`, `Recovers`, `TurnsEnd`), which this prover
cannot treat. Every safety property of a passing run, invariant or action property, is the
statement of a theorem.

## 6. What is not modelled

* Formatting, logging, wording and HTML; the text models return, embeddings, reranking
  and relevance (free choices where they matter); regular expressions of the filters and
  the judge of drift.
* The file and in-memory stores: one process, for development, without concurrency.
* Startup beyond the catalogue and the index: schema, the one-time migration of ids, the
  seeds of orders, the knowledge base.
* The event bus beyond `final.result`, and the chat of the page, which only display.
* In `Pricing`, nine currencies and three categories that add no rule.
* The tiers of the budget below the first, which only add a hint to the prompt.
* Scripts, evaluation and load tests.

## 7. Running

```
tlc -workers 2 -config Orders.cfg MCOrders.tla
tlc -workers 2 -config IntentQueue.cfg MCIntentQueue.tla
tlc -workers 2 -config CircuitBreaker.cfg MCCircuitBreaker.tla
tlc -workers 2 -config Sessions.cfg MCSessions.tla
tlc -workers 2 -config Transcript.cfg MCTranscript.tla
tlc -workers 2 -config Replies.cfg MCReplies.tla
tlc -workers 2 -config ModelGateway.cfg MCModelGateway.tla
tlc -workers 2 -config OrderPage.cfg MCOrderPage.tla
tlc -workers 2 -config Shopping.cfg MCShopping.tla
tlc -workers 2 -config Harness.cfg MCHarness.tla
tlapm OrdersProofs.tla
tlapm IntentQueueProofs.tla
tlapm SessionsProofs.tla
tlapm TurnProofs.tla
tlapm RepliesProofs.tla
tlapm ModelGatewayProofs.tla
tlapm OrderPageProofs.tla
tlapm ShoppingProofs.tla
```

`QueueRedelivery.cfg` (with `MCIntentQueue`) and `StaleQuote.cfg` (with `MCOrderPage`) end
with a counterexample, which is their point.

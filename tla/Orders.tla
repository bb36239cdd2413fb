------------------------------- MODULE Orders -------------------------------
(***************************************************************************)
(* The order endpoints of app/presentation/server.py running concurrently  *)
(* over the SQLite tables `orders` and `order_idempotency_keys`.           *)
(*                                                                         *)
(* A request is a coroutine: it can be interleaved with the others at      *)
(* every `await` on the repository, so each action below is the code       *)
(* between two awaits and holds exactly one database transaction.  The     *)
(* columns of the two tables are variables of their own; `kind` is fixed   *)
(* by the id, because demo ids and random runtime ids never coincide.      *)
(*                                                                         *)
(* Abstractions.  An order has one line (the quote loop repeats one read). *)
(* A price is the version of the catalogue it was computed from.  The      *)
(* control token minted by request r is r itself: the code draws 32 random *)
(* bytes, so tokens of different requests differ and nobody guesses one.   *)
(***************************************************************************)
EXTENDS Naturals, FiniteSets

CONSTANTS
  Requests,        \* HTTP requests, each served once
  Servers,         \* processes that run startup(): the API and the worker
  Api,             \* the one of them that serves the requests
  OrderIds,        \* ids next_order_id can draw
  SeedIds,         \* ids of build_demo_orders
  CancelledSeeds,  \* the demo orders that are imported as CANCELLED
  Keys,            \* sha256 of the Idempotency-Key header
  Bodies,          \* sha256 of the normalised request body
  Quotable,        \* the bodies that a quote accepts
  Versions,        \* catalogue releases (prices and rules)
  Guess,           \* a control token no order was created with
  None

Tokens == Requests \union {Guess}

\* Only the digest of a token is stored.  Distinct tokens have distinct
\* digests, and no digest equals the NULL column of a demo order.
TokenHash(t) == <<"sha256", t>>

Hashes == {TokenHash(t) : t \in Tokens}

ASSUME OrdersAssumption ==
  /\ OrderIds \intersect SeedIds = {}
  /\ CancelledSeeds \subseteq SeedIds
  /\ Quotable \subseteq Bodies
  /\ Versions # {}
  /\ Api \in Servers
  /\ Guess \notin Requests
  /\ None \notin Requests \union OrderIds \union SeedIds \union Keys
              \union Bodies \union Versions \union {Guess} \union Hashes

VARIABLES
  \* table orders, by order id
  status, deletedAt, tokenHash, pricing,
  \* table order_idempotency_keys, by key hash
  keyOrder, keyBody,
  \* the catalogue release the products table currently holds
  catalog,
  \* requests: where each one is, what it asks, what it has read, its answer
  pc, call, local, reply,
  \* history: requests whose write took effect; orders deleted before r began
  took, gone

rows  == <<status, deletedAt, tokenHash, pricing>>
keys  == <<keyOrder, keyBody>>
vars  == <<status, deletedAt, tokenHash, pricing, keyOrder, keyBody, catalog,
           pc, call, local, reply, took, gone>>

AllIds == OrderIds \union SeedIds

\* The demo orders are in the table before the first request is served.
SeedStatus(o) ==
  IF o \in OrderIds THEN "ABSENT"
  ELSE IF o \in CancelledSeeds THEN "CANCELLED" ELSE "CONFIRMED"

Statuses == {"ABSENT", "CONFIRMED", "CANCELLED", "DELETED"}

Kind(o) == IF o \in SeedIds THEN "SEEDED_DEMO" ELSE "USER_SIMULATION"

\* Mutant of Visible: the deleted_at filter is forgotten.
MutVisibleUnfiltered(o) == status[o] # "ABSENT"

\* find_by_id and list_orders hide rows with deleted_at set.
Visible(o) == status[o] # "ABSENT" /\ ~deletedAt[o]

IsCancellable(o) == Kind(o) = "USER_SIMULATION" /\ status[o] = "CONFIRMED"

IsDeletable(o) ==
  Kind(o) = "USER_SIMULATION" /\ status[o] \in {"CONFIRMED", "CANCELLED"}

\* What the constructor of Order accepts, which every read of a row runs again.
Constructible(o) ==
  /\ Kind(o) = "USER_SIMULATION" =>
       /\ pricing[o] # None /\ tokenHash[o] # None
       /\ status[o] \in {"CONFIRMED", "CANCELLED", "DELETED"}
  /\ status[o] = "DELETED" => deletedAt[o]

\* The WHERE clauses share this: a live row whose digest is the caller's.
Controls(t, o) == ~deletedAt[o] /\ tokenHash[o] = TokenHash(t)

CreateCalls == [op : {"create"}, key : Keys, body : Bodies]
TokenCalls  == [op : {"cancel", "delete"}, order : AllIds, token : Tokens]
GetCalls    == [op : {"get"}, order : AllIds]
ListCalls   == [op : {"list"}]
NoCall      == [op |-> "none"]
Calls       == CreateCalls \union TokenCalls \union GetCalls \union ListCalls

Codes == {"201", "200", "204", "403", "404", "409", "422", "500", "none"}

\* What a client sees: the status code, the orders shown, the control token
\* of a creation and the price of the one order a detail response shows.
Reply(code, shown, token, price) ==
  [code |-> code, shown |-> shown, token |-> token, price |-> price]

Refusal(code) == Reply(code, {}, None, None)

Detail(code, o, token) == Reply(code, {o}, token, pricing[o])

NoReply == Refusal("none")

\* A client can only present a token that a creation response gave out.
Issued == {reply[q].token : q \in Requests} \ {None}

Waiting == {"idle", "done", "lost"}

Steps == {"c_find", "c_load", "c_quote", "c_save", "c_conflict", "c_ok",
          "x_find", "x_update", "x_refresh", "x_read",
          "d_find", "d_update", "d_refresh", "d_ok", "g_find", "l_find"}

First(op) ==
  CASE op = "create" -> "c_find"
    [] op = "cancel" -> "x_find"
    [] op = "delete" -> "d_find"
    [] op = "get"    -> "g_find"
    [] op = "list"   -> "l_find"

At(r, step) == pc[r] = step

\* Go on to the next await, with no new local but those `locals` keeps.
Goto(r, step, locals) ==
  /\ pc' = [pc EXCEPT ![r] = step]
  /\ local' = [local EXCEPT ![r] = locals]
  /\ UNCHANGED reply

NoLocal == [order |-> None, price |-> None]

\* The coroutine returns: its locals are gone.
Answer(r, rep) ==
  /\ pc' = [pc EXCEPT ![r] = "done"]
  /\ reply' = [reply EXCEPT ![r] = rep]
  /\ local' = [local EXCEPT ![r] = NoLocal]

TookEffect(r) == took' = took \union {r}

\* Everything but the request's own control state.
Untouched == UNCHANGED <<rows, keys, catalog, call, took, gone>>

-----------------------------------------------------------------------------
Init ==
  /\ status = [o \in AllIds |-> SeedStatus(o)]
  /\ deletedAt = [o \in AllIds |-> FALSE]
  /\ tokenHash = [o \in AllIds |-> None]
  /\ pricing = [o \in AllIds |-> None]
  /\ keyOrder = [k \in Keys |-> None]
  /\ keyBody = [k \in Keys |-> None]
  /\ catalog \in Versions
  /\ pc = [r \in Requests |-> "idle"]
  /\ call = [r \in Requests |-> NoCall]
  /\ local = [r \in Requests |-> NoLocal]
  /\ reply = [r \in Requests |-> NoReply]
  /\ took = {}
  /\ gone = [r \in Requests |-> {}]

-----------------------------------------------------------------------------
(* Arrival of a request: the route is entered.                             *)

Receive(r) ==
  /\ At(r, "idle")
  /\ \E c \in Calls :
       /\ c.op \in {"cancel", "delete"} => c.token \in Issued \union {Guess}
       /\ call' = [call EXCEPT ![r] = c]
       /\ Goto(r, First(c.op), NoLocal)
  /\ gone' = [gone EXCEPT ![r] = {o \in AllIds : deletedAt[o]}]
  /\ UNCHANGED <<rows, keys, catalog, took>>

-----------------------------------------------------------------------------
(* POST /commerce/orders: execute_with_idempotency.                        *)

Key(r)  == call[r].key
Body(r) == call[r].body

\* find_idempotency: no row for this key, go on to quote.
CreateFreshKey(r) ==
  /\ At(r, "c_find")
  /\ keyOrder[Key(r)] = None
  /\ Goto(r, "c_quote", NoLocal)
  /\ Untouched

\* The fast retry path: the key already created an order from this body.
CreateKnownKey(r) ==
  /\ At(r, "c_find")
  /\ keyOrder[Key(r)] # None
  /\ keyBody[Key(r)] = Body(r)
  /\ Goto(r, "c_load", [NoLocal EXCEPT !.order = keyOrder[Key(r)]])
  /\ Untouched

\* The key was used for a different body.
CreateKeyMisused(r) ==
  /\ At(r, "c_find")
  /\ keyOrder[Key(r)] # None
  /\ keyBody[Key(r)] # Body(r)
  /\ Answer(r, Refusal("409"))
  /\ Untouched

\* Mutants of CreateReuse: the retry is answered with the token it minted
\* itself; with the stored token; with the price of a new quote.
MutReuseIssuesToken(r) ==
  /\ At(r, "c_load")
  /\ Answer(r, Detail("200", local[r].order, r))
  /\ Untouched

MutReuseReturnsStoredToken(r) ==
  LET o == local[r].order IN
  /\ At(r, "c_load")
  /\ Answer(r, Detail("200", o, CHOOSE t \in Requests : TokenHash(t) = tokenHash[o]))
  /\ Untouched

MutReuseQuotesAgain(r) ==
  /\ At(r, "c_load")
  /\ Answer(r, Reply("200", {local[r].order}, None, catalog))
  /\ Untouched

\* find_by_id of the order the key created: the answer to a retry shows the
\* stored order and no token; a deleted order is not created again.
CreateReuse(r) ==
  /\ At(r, "c_load")
  /\ LET o == local[r].order IN
       \/ Visible(o) /\ Answer(r, Detail("200", o, None))
       \/ ~Visible(o) /\ Answer(r, Refusal("409"))
  /\ Untouched

\* The quote reads the catalogue; a body it refuses is answered 422.  The
\* order gets a random id, which may be one that is taken.
CreateQuote(r) ==
  /\ At(r, "c_quote")
  /\ Body(r) \in Quotable
  /\ \E o \in OrderIds : Goto(r, "c_save", [order |-> o, price |-> catalog])
  /\ Untouched

CreateUnquotable(r) ==
  /\ At(r, "c_quote")
  /\ Body(r) \notin Quotable
  /\ Answer(r, Refusal("422"))
  /\ Untouched

\* Mutants of CreateCommit: the key row is merged, not inserted; a row that is
\* logically deleted is replaced.
MutCommitMergesKey(r) ==
  LET o == local[r].order IN
  /\ At(r, "c_save")
  /\ status[o] = "ABSENT"
  /\ status' = [status EXCEPT ![o] = "CONFIRMED"]
  /\ tokenHash' = [tokenHash EXCEPT ![o] = TokenHash(r)]
  /\ pricing' = [pricing EXCEPT ![o] = local[r].price]
  /\ keyOrder' = [keyOrder EXCEPT ![Key(r)] = o]
  /\ keyBody' = [keyBody EXCEPT ![Key(r)] = Body(r)]
  /\ Goto(r, "c_ok", local[r])
  /\ TookEffect(r)
  /\ UNCHANGED <<deletedAt, catalog, call, gone>>

MutCommitReplacesDeleted(r) ==
  LET o == local[r].order IN
  /\ At(r, "c_save")
  /\ status[o] \in {"ABSENT", "DELETED"}
  /\ keyOrder[Key(r)] = None
  /\ status' = [status EXCEPT ![o] = "CONFIRMED"]
  /\ deletedAt' = [deletedAt EXCEPT ![o] = FALSE]
  /\ tokenHash' = [tokenHash EXCEPT ![o] = TokenHash(r)]
  /\ pricing' = [pricing EXCEPT ![o] = local[r].price]
  /\ keyOrder' = [keyOrder EXCEPT ![Key(r)] = o]
  /\ keyBody' = [keyBody EXCEPT ![Key(r)] = Body(r)]
  /\ Goto(r, "c_ok", local[r])
  /\ TookEffect(r)
  /\ UNCHANGED <<catalog, call, gone>>

\* One transaction inserts the order, its lines and the idempotency row.
CreateCommit(r) ==
  LET o == local[r].order IN
  /\ At(r, "c_save")
  /\ status[o] = "ABSENT"
  /\ keyOrder[Key(r)] = None
  /\ status' = [status EXCEPT ![o] = "CONFIRMED"]
  /\ tokenHash' = [tokenHash EXCEPT ![o] = TokenHash(r)]
  /\ pricing' = [pricing EXCEPT ![o] = local[r].price]
  /\ keyOrder' = [keyOrder EXCEPT ![Key(r)] = o]
  /\ keyBody' = [keyBody EXCEPT ![Key(r)] = Body(r)]
  /\ Goto(r, "c_ok", local[r])
  /\ TookEffect(r)
  /\ UNCHANGED <<deletedAt, catalog, call, gone>>

\* Mutant of CreateRollback: the order is committed in a transaction of its
\* own, so it stays when the key turns out to be taken.
MutRollbackKeepsOrder(r) ==
  LET o == local[r].order IN
  /\ At(r, "c_save")
  /\ status[o] = "ABSENT" /\ keyOrder[Key(r)] # None
  /\ status' = [status EXCEPT ![o] = "CONFIRMED"]
  /\ tokenHash' = [tokenHash EXCEPT ![o] = TokenHash(r)]
  /\ Goto(r, "c_conflict", NoLocal)
  /\ UNCHANGED <<deletedAt, pricing, keys, catalog, call, took, gone>>

\* A unique key is taken (IntegrityError): the whole transaction rolls back.
CreateRollback(r) ==
  /\ At(r, "c_save")
  /\ status[local[r].order] # "ABSENT" \/ keyOrder[Key(r)] # None
  /\ Goto(r, "c_conflict", NoLocal)
  /\ Untouched

\* After the rollback the idempotency row is read in a new session.  No row
\* means that only the order id collided: the error is raised again (500).
CreateIdCollision(r) ==
  /\ At(r, "c_conflict")
  /\ keyOrder[Key(r)] = None
  /\ Answer(r, Refusal("500"))
  /\ Untouched

CreateLostRace(r) ==
  /\ At(r, "c_conflict")
  /\ keyOrder[Key(r)] # None
  /\ keyBody[Key(r)] = Body(r)
  /\ Goto(r, "c_load", [NoLocal EXCEPT !.order = keyOrder[Key(r)]])
  /\ Untouched

CreateRaceMisused(r) ==
  /\ At(r, "c_conflict")
  /\ keyOrder[Key(r)] # None
  /\ keyBody[Key(r)] # Body(r)
  /\ Answer(r, Refusal("409"))
  /\ Untouched

\* The creation response: the only message that carries the control token.
\* It is built from the order object that was saved.
CreateRespond(r) ==
  /\ At(r, "c_ok")
  /\ Answer(r, Reply("201", {local[r].order}, r, local[r].price))
  /\ Untouched

Create(r) ==
  \/ CreateFreshKey(r)
  \/ CreateKnownKey(r)
  \/ CreateKeyMisused(r)
  \/ CreateReuse(r)
  \/ CreateQuote(r)
  \/ CreateUnquotable(r)
  \/ CreateCommit(r)
  \/ CreateRollback(r)
  \/ CreateIdCollision(r)
  \/ CreateLostRace(r)
  \/ CreateRaceMisused(r)
  \/ CreateRespond(r)

-----------------------------------------------------------------------------
(* POST /commerce/orders/{id}/cancellations.                               *)

Target(r) == call[r].order
Token(r)  == call[r].token

CancelFind(r) ==
  LET o == Target(r) IN
  /\ At(r, "x_find")
  /\ \/ ~Visible(o) /\ Answer(r, Refusal("404"))
     \/ Visible(o) /\ ~IsCancellable(o) /\ Answer(r, Refusal("409"))
     \/ Visible(o) /\ IsCancellable(o) /\ tokenHash[o] # TokenHash(Token(r))
          /\ Answer(r, Refusal("403"))
     \/ Visible(o) /\ IsCancellable(o) /\ tokenHash[o] = TokenHash(Token(r))
          /\ Goto(r, "x_update", NoLocal)
  /\ Untouched

\* Mutant of CancelUpdate: the UPDATE trusts the status that was read before.
MutCancelTrustsRead(r) ==
  LET o == Target(r) IN
  /\ At(r, "x_update")
  /\ Controls(Token(r), o)
  /\ status' = [status EXCEPT ![o] = "CANCELLED"]
  /\ Goto(r, "x_read", NoLocal)
  /\ TookEffect(r)
  /\ UNCHANGED <<deletedAt, tokenHash, pricing, keys, catalog, call, gone>>

\* cancel_if_confirmed: one conditional UPDATE.
CancelUpdate(r) ==
  LET o == Target(r) IN
  /\ At(r, "x_update")
  /\ IsCancellable(o)
  /\ Controls(Token(r), o)
  /\ status' = [status EXCEPT ![o] = "CANCELLED"]
  /\ Goto(r, "x_read", NoLocal)
  /\ TookEffect(r)
  /\ UNCHANGED <<deletedAt, tokenHash, pricing, keys, catalog, call, gone>>

CancelNoRow(r) ==
  /\ At(r, "x_update")
  /\ ~(IsCancellable(Target(r)) /\ Controls(Token(r), Target(r)))
  /\ Goto(r, "x_refresh", NoLocal)
  /\ Untouched

\* The update matched no row: a second read chooses the answer.
CancelRefresh(r) ==
  LET o == Target(r) IN
  /\ At(r, "x_refresh")
  /\ \/ Visible(o) /\ status[o] = "CANCELLED" /\ Answer(r, Refusal("409"))
     \/ ~(Visible(o) /\ status[o] = "CANCELLED") /\ Answer(r, Refusal("403"))
  /\ Untouched

\* The cancelled order is read again for the answer; it may be gone by now.
CancelReadBack(r) ==
  LET o == Target(r) IN
  /\ At(r, "x_read")
  /\ \/ Visible(o) /\ Answer(r, Detail("200", o, None))
     \/ ~Visible(o) /\ Answer(r, Refusal("409"))
  /\ Untouched

Cancel(r) ==
  \/ CancelFind(r)
  \/ CancelUpdate(r)
  \/ CancelNoRow(r)
  \/ CancelRefresh(r)
  \/ CancelReadBack(r)

-----------------------------------------------------------------------------
(* DELETE /commerce/orders/{id}: a logical deletion.                       *)

DeleteFind(r) ==
  LET o == Target(r) IN
  /\ At(r, "d_find")
  /\ \/ ~Visible(o) /\ Answer(r, Refusal("404"))
     \/ Visible(o) /\ ~IsDeletable(o) /\ Answer(r, Refusal("409"))
     \/ Visible(o) /\ IsDeletable(o) /\ tokenHash[o] # TokenHash(Token(r))
          /\ Answer(r, Refusal("403"))
     \/ Visible(o) /\ IsDeletable(o) /\ tokenHash[o] = TokenHash(Token(r))
          /\ Goto(r, "d_update", NoLocal)
  /\ Untouched

\* Mutant of DeleteUpdate: deleted_at is not written.
MutDeleteKeepsTimestamp(r) ==
  /\ At(r, "d_update")
  /\ IsDeletable(Target(r))
  /\ Controls(Token(r), Target(r))
  /\ status' = [status EXCEPT ![Target(r)] = "DELETED"]
  /\ Goto(r, "d_ok", NoLocal)
  /\ TookEffect(r)
  /\ UNCHANGED <<deletedAt, tokenHash, pricing, keys, catalog, call, gone>>

\* delete_if_allowed: one conditional UPDATE; the row and its key stay.
DeleteUpdate(r) ==
  LET o == Target(r) IN
  /\ At(r, "d_update")
  /\ IsDeletable(o)
  /\ Controls(Token(r), o)
  /\ status' = [status EXCEPT ![o] = "DELETED"]
  /\ deletedAt' = [deletedAt EXCEPT ![o] = TRUE]
  /\ Goto(r, "d_ok", NoLocal)
  /\ TookEffect(r)
  /\ UNCHANGED <<tokenHash, pricing, keys, catalog, call, gone>>

DeleteNoRow(r) ==
  /\ At(r, "d_update")
  /\ ~(IsDeletable(Target(r)) /\ Controls(Token(r), Target(r)))
  /\ Goto(r, "d_refresh", NoLocal)
  /\ Untouched

DeleteRefresh(r) ==
  /\ At(r, "d_refresh")
  /\ \/ ~Visible(Target(r)) /\ Answer(r, Refusal("404"))
     \/ Visible(Target(r)) /\ Answer(r, Refusal("409"))
  /\ Untouched

\* Mutant of DeleteRespond: the deleted order is read again for the answer.
MutDeleteReadsBack(r) ==
  /\ At(r, "d_ok")
  /\ Answer(r, Refusal(IF Visible(Target(r)) THEN "204" ELSE "404"))
  /\ Untouched

DeleteRespond(r) ==
  /\ At(r, "d_ok")
  /\ Answer(r, Refusal("204"))
  /\ Untouched

Delete(r) ==
  \/ DeleteFind(r)
  \/ DeleteUpdate(r)
  \/ DeleteNoRow(r)
  \/ DeleteRefresh(r)
  \/ DeleteRespond(r)

-----------------------------------------------------------------------------
(* GET /commerce/orders/{id} and GET /commerce/orders.                     *)

GetOrder(r) ==
  LET o == Target(r) IN
  /\ At(r, "g_find")
  /\ \/ Visible(o) /\ Answer(r, Detail("200", o, None))
     \/ ~Visible(o) /\ Answer(r, Refusal("404"))
  /\ Untouched

\* The page limit is taken to be larger than the table.
ListOrders(r) ==
  /\ At(r, "l_find")
  /\ Answer(r, Reply("200", {o \in AllIds : Visible(o)}, None, None))
  /\ Untouched

-----------------------------------------------------------------------------
(* Failures.                                                               *)

\* A step's database access raises (a write lock held for more than the
\* busy_timeout, say): the request ends with 500 and that step wrote nothing.
DatabaseError(r) ==
  /\ pc[r] \in Steps \ {"c_ok", "d_ok"}
  /\ Answer(r, Refusal("500"))
  /\ Untouched

\* Process s dies and runs startup() again.  With the API die the requests it
\* was serving: none of them is ever answered.  Startup synchronises the
\* products table with the release v that the new process ships (the rest of
\* startup() is the subject of module Startup).
Restart(s, v) ==
  /\ pc' = IF s = Api
           THEN [r \in Requests |-> IF pc[r] \in Steps THEN "lost" ELSE pc[r]]
           ELSE pc
  /\ catalog' = v
  /\ local' = [r \in Requests |-> IF pc'[r] = "lost" THEN NoLocal ELSE local[r]]
  /\ UNCHANGED <<rows, keys, call, reply, took, gone>>

-----------------------------------------------------------------------------
Handle(r) ==
  \/ Receive(r)
  \/ Create(r)
  \/ Cancel(r)
  \/ Delete(r)
  \/ GetOrder(r)
  \/ ListOrders(r)
  \/ DatabaseError(r)

Next ==
  \/ \E r \in Requests : Handle(r)
  \/ \E s \in Servers, v \in Versions : Restart(s, v)

Spec == Init /\ [][Next]_vars

-----------------------------------------------------------------------------
(* Properties.                                                             *)

\* Every variable has its type; deleted_at is set exactly with the status
\* DELETED, which __post_init__ of the Order aggregate demands.
TypeOK ==
  /\ status \in [AllIds -> Statuses]
  /\ deletedAt \in [AllIds -> BOOLEAN]
  /\ tokenHash \in [AllIds -> Hashes \union {None}]
  /\ pricing \in [AllIds -> Versions \union {None}]
  /\ keyOrder \in [Keys -> OrderIds \union {None}]
  /\ keyBody \in [Keys -> Bodies \union {None}]
  /\ catalog \in Versions
  /\ pc \in [Requests -> Steps \union Waiting]
  /\ call \in [Requests -> Calls \union {NoCall}]
  /\ local \in [Requests -> [order : OrderIds \union {None},
                             price : Versions \union {None}]]
  /\ reply \in [Requests -> [code : Codes, shown : SUBSET AllIds,
                             token : Requests \union {None},
                             price : Versions \union {None}]]
  /\ took \subseteq Requests
  /\ gone \in [Requests -> SUBSET AllIds]
  /\ \A o \in AllIds : deletedAt[o] <=> status[o] = "DELETED"

\* The idempotency row and the order it points to are committed together: no
\* key without its order, no runtime order without exactly one key, whatever
\* crashes or fails between two steps (save_new_with_idempotency).  A row is
\* whole: no later read of it fails in the constructor.
CommittedTogether ==
  /\ \A k \in Keys : keyOrder[k] # None => status[keyOrder[k]] # "ABSENT"
  /\ \A o \in OrderIds : status[o] # "ABSENT" =>
       \E k \in Keys : \A j \in Keys : keyOrder[j] = o <=> j = k
  /\ \A o \in AllIds : status[o] # "ABSENT" => Constructible(o)

Created(r) == call[r].op = "create" /\ reply[r].code \in {"200", "201"}

\* However creations, retries and lost races interleave, all the requests of
\* one key that succeed are told the same order, and sent the same body.
OneOrderPerKey ==
  \A q, r \in Requests :
    Created(q) /\ Created(r) /\ Key(q) = Key(r) =>
      reply[q].shown = reply[r].shown /\ Body(q) = Body(r)

\* The control token of an order is given out once, by the 201 of the request
\* that created it; neither a retry nor the loser of a race gets one.
TokenIssuedOnce ==
  /\ \A q, r \in Requests :
       /\ reply[q].token # None /\ reply[r].token # None
       /\ reply[q].shown = reply[r].shown
       => q = r
  /\ \A r \in Requests : reply[r].token # None =>
       \A o \in reply[r].shown : tokenHash[o] = TokenHash(reply[r].token)

\* Each key creates at most once and each order is cancelled at most once and
\* deleted at most once; who is told so is the one whose write took effect.
EffectsAtMostOnce ==
  /\ \A q, r \in took :
       q # r /\ call[q].op = call[r].op =>
         IF call[q].op = "create" THEN Key(q) # Key(r) ELSE Target(q) # Target(r)
  /\ \A r \in Requests :
       reply[r].code \in {"201", "204"} \/ (call[r].op = "cancel" /\ reply[r].code = "200")
         => r \in took

\* An order that was deleted before a request began is not in its answer, be
\* it a read, a list, a cancellation or the retry of the creation.
NoReadAfterDelete == \A r \in Requests : reply[r].shown \intersect gone[r] = {}

\* An order moves only if its creation response was delivered: when the token
\* was lost with a crash, no retry recovers it and nobody cancels or deletes.
OnlyHolderMoves ==
  \A o \in OrderIds : status[o] \in {"CANCELLED", "DELETED"} =>
    \E r \in Requests : reply[r].code = "201" /\ o \in reply[r].shown

\* Every answer that shows the price of an order shows the same one, also when
\* the catalogue changed between the creation and the retry or the read.
PricingFrozen ==
  \A q, r \in Requests :
    reply[q].price # None /\ reply[r].price # None /\ reply[q].shown = reply[r].shown
      => reply[q].price = reply[r].price

\* A creation or deletion that is refused left nothing behind.
RefusedHasNoEffect ==
  \A r \in Requests :
    call[r].op \in {"create", "delete"}
      /\ reply[r].code \in {"403", "404", "409", "422", "500"}
      => r \notin took

\* The tables implement the life cycle of OrderLifecycle, where deleted_at
\* alone decides that an order is deleted and a demo order never changes.
Lifecycle == INSTANCE OrderLifecycle WITH
  state <- [o \in AllIds |-> IF deletedAt[o] THEN "DELETED" ELSE status[o]],
  owner <- keyOrder

LifecycleRefined == Lifecycle!BookSpec

=============================================================================

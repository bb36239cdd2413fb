----------------------------- MODULE OrderPage -----------------------------
(***************************************************************************)
(* One browser page (src/frontend) as a client of the order endpoints: the *)
(* order centre (OrderCenter.tsx) and the order card of the chat           *)
(* (ChatOrderDraft.tsx), both under App.tsx, which keeps the control       *)
(* tokens in memory.                                                       *)
(*                                                                         *)
(* The server is the abstract order book OrderLifecycle, which Orders is   *)
(* shown to implement: a request takes effect in one step.  The network    *)
(* may lose a request or its answer, and may carry a request out after the *)
(* page has given it up.                                                   *)
(*                                                                         *)
(* A form is mounted and unmounted with the view it belongs to: `inst`     *)
(* tells its instances apart, because an answer that comes for an          *)
(* unmounted instance changes App's state but not the form's.              *)
(*                                                                         *)
(* Abstractions.  What a quote costs is the body it was computed for.  The *)
(* list of orders is read in one step.  A token is the write that minted   *)
(* it.                                                                     *)
(***************************************************************************)
EXTENDS Naturals, FiniteSets

CONSTANTS
  Bodies,      \* contents of a form: items, destination, currency
  Default,     \* what the form of the order centre starts with
  OrderIds,
  MaxWrites,   \* bounds: creations, cancellations, deletions sent
  MaxQuotes,   \* quotes received
  MaxEdits,    \* edits of a form
  MaxMounts,   \* instances of each form
  None

ASSUME PageAssumption ==
  /\ Default \in Bodies
  /\ {MaxWrites, MaxQuotes, MaxEdits, MaxMounts} \subseteq Nat
  /\ None \notin Bodies \union OrderIds \union Nat

VARIABLES
  state, owner,   \* the order book: the server's side
  made,           \* made[o]: the write that created order o; its token
  view, draft,    \* App: the view shown; is an order card open?
  tokens,         \* App: tokens[o], the control token held of order o
  first,          \* App: the order last created from the chat
  form,           \* form[f]: the state of the mounted instance of a form
  selected, detail, load,   \* order centre: selection, order shown, order asked for
  write,          \* write[w]: the writes the page has sent
  quotes, edits   \* counters of the bounds

server  == <<state, owner, made>>
app     == <<view, draft, tokens, first>>
shown   == <<selected, detail, load>>
bounds  == <<quotes, edits>>
vars    == <<server, app, form, shown, write, bounds>>

Forms  == {"center", "card"}
Writes == 1 .. MaxWrites
\* The centre draws the key of a quote, the card that of a click.
Keys   == ({"quote"} \X (1 .. MaxQuotes)) \union ({"click"} \X Writes)

Book == INSTANCE OrderLifecycle WITH SeedIds <- {}

\* A quote shown: what it was asked for, its number, and whether it arrived
\* when the inputs already said something else.
Quotes == [body : Bodies, no : 1 .. MaxQuotes, late : BOOLEAN]

NoWrite == [op |-> "none"]

Fresh(i, b) ==
  [inst |-> i, body |-> b, quote |-> None, key |-> None, asking |-> None,
   busy |-> "no"]

Mounted(f) == IF f = "center" THEN view = "orders" ELSE view = "chat" /\ draft

Init ==
  /\ Book!BookInit
  /\ made = [o \in OrderIds |-> None]
  /\ view = "chat" /\ draft = FALSE
  /\ tokens = [o \in OrderIds |-> None] /\ first = None
  /\ form = [f \in Forms |-> Fresh(0, Default)]
  /\ selected = None /\ detail = None /\ load = None
  /\ write = [w \in Writes |-> NoWrite]
  /\ quotes = 0 /\ edits = 0

-----------------------------------------------------------------------------
(* Mounting and unmounting.                                                *)

Mount(f, b) ==
  /\ form[f].inst < MaxMounts
  /\ form' = [form EXCEPT ![f] = Fresh(form[f].inst + 1, b)]

\* What an unmounted form held is gone.
Unmount(f) == form' = [form EXCEPT ![f] = Fresh(form[f].inst, Default)]

\* The card is keyed by its product, so another product is a new instance.
OpenCard(b) ==
  /\ view = "chat"
  /\ draft' = TRUE /\ first' = None
  /\ Mount("card", b)
  /\ UNCHANGED <<server, view, tokens, shown, write, bounds>>

Dismiss ==
  /\ Mounted("card") /\ form["card"].quote # None /\ form["card"].busy = "no"
  /\ draft' = FALSE
  /\ Unmount("card")
  /\ UNCHANGED <<server, view, tokens, first, shown, write, bounds>>

\* The receipt of an order created from the chat is closed.
CloseReceipt ==
  /\ view = "chat" /\ first # None
  /\ first' = None
  /\ UNCHANGED <<server, view, draft, tokens, form, shown, write, bounds>>

\* The GET of a newly selected order, and the order's status when it is sent.
LoadOf(o) == IF o = None THEN None ELSE [order |-> o, since |-> state[o]]

ShowOrders ==
  /\ view = "chat"
  /\ view' = "orders"
  /\ form["center"].inst < MaxMounts
  /\ form' = [form EXCEPT !["center"] = Fresh(form["center"].inst + 1, Default),
                          !["card"]   = Fresh(form["card"].inst, Default)]
  /\ selected' = first /\ load' = LoadOf(first) /\ UNCHANGED detail
  /\ UNCHANGED <<server, draft, tokens, first, write, bounds>>

\* An open card comes back empty.
ShowChat ==
  /\ view = "orders"
  /\ view' = "chat"
  /\ draft => form["card"].inst < MaxMounts
  /\ form' = [form EXCEPT
       !["center"] = Fresh(form["center"].inst, Default),
       !["card"]   = Fresh(IF draft THEN form["card"].inst + 1 ELSE @.inst, Default)]
  /\ selected' = None /\ detail' = None /\ load' = None
  /\ UNCHANGED <<server, draft, tokens, first, write, bounds>>

-----------------------------------------------------------------------------
(* Quote and inputs.  The inputs stay enabled while a request is under     *)
(* way; only the buttons are disabled.                                     *)

\* Mutant of Edit: the quote of the order centre survives an edit.
MutEditKeepsQuote(f, b) ==
  /\ Mounted(f) /\ b # form[f].body /\ edits < MaxEdits
  /\ edits' = edits + 1
  /\ form' = [form EXCEPT ![f].body = b, ![f].key = None]
  /\ UNCHANGED <<server, app, shown, write, quotes>>

Edit(f, b) ==
  /\ Mounted(f) /\ b # form[f].body /\ edits < MaxEdits
  /\ edits' = edits + 1
  /\ form' = [form EXCEPT ![f].body = b, ![f].quote = None, ![f].key = None]
  /\ UNCHANGED <<server, app, shown, write, quotes>>

AskQuote(f) ==
  /\ Mounted(f) /\ form[f].busy = "no"
  /\ f = "card" => form[f].quote = None
  /\ form' = [form EXCEPT ![f].busy = "quote", ![f].asking = form[f].body]
  /\ UNCHANGED <<server, app, shown, write, bounds>>

\* setQuote, whatever the inputs say by now; the centre draws a key for it.
QuoteComes(f) ==
  LET body == form[f].asking IN
  /\ Mounted(f) /\ form[f].busy = "quote" /\ quotes < MaxQuotes
  /\ quotes' = quotes + 1
  /\ form' = [form EXCEPT
       ![f].quote  = [body |-> body, no |-> quotes + 1, late |-> body # form[f].body],
       ![f].key    = IF f = "center" THEN <<"quote", quotes + 1>> ELSE None,
       ![f].asking = None,
       ![f].busy   = "no"]
  /\ UNCHANGED <<server, app, shown, write, edits>>

QuoteFails(f) ==
  /\ Mounted(f) /\ form[f].busy = "quote"
  /\ form' = [form EXCEPT ![f].quote = None, ![f].asking = None, ![f].busy = "no"]
  /\ UNCHANGED <<server, app, shown, write, bounds>>

-----------------------------------------------------------------------------
(* Writes, as the page sends them.                                         *)

Sent(w) == write[w].op # "none"

\* A write: what it carries, the quote shown when it was sent, the answer of
\* the server (with the status of the order) and how the page's fetch ended.
Send(w, op, f, quote, body, key, order, token) ==
  /\ ~Sent(w) /\ \A v \in Writes : v < w => Sent(v)
  /\ form' = [form EXCEPT ![f].busy = "write"]
  /\ write' = [write EXCEPT ![w] =
       [op |-> op, form |-> f, inst |-> form[f].inst, quote |-> quote, body |-> body,
        key |-> key, order |-> order, token |-> token,
        answer |-> "none", status |-> None, end |-> "waiting"]]

\* Mutant of KeyOf: the order centre draws a key per click too.
MutKeyPerClick(f, w) == <<"click", w>>

KeyOf(f, w) == IF f = "center" THEN form[f].key ELSE <<"click", w>>

\* createOrder, confirm: the body is read from the inputs, not from the quote.
Confirm(f, w) ==
  /\ Mounted(f) /\ form[f].busy = "no" /\ form[f].quote # None
  /\ f = "center" => form[f].key # None
  /\ Send(w, "create", f, form[f].quote, form[f].body, KeyOf(f, w), None, None)
  /\ UNCHANGED <<server, app, shown, bounds>>

\* cancelOrder and deleteOrder act on the order shown, with the token held.
Act(op, w) ==
  /\ Mounted("center") /\ form["center"].busy = "no" /\ detail # None
  /\ detail.status \in IF op = "cancel" THEN {"CONFIRMED"} ELSE {"CONFIRMED", "CANCELLED"}
  /\ tokens[detail.order] # None
  /\ Send(w, op, "center", None, None, None, detail.order, tokens[detail.order])
  /\ UNCHANGED <<server, app, shown, bounds>>

-----------------------------------------------------------------------------
(* The server.                                                             *)

Accept(w, order, token, status) ==
  write' = [write EXCEPT ![w].answer = "ok", ![w].order = order,
                         ![w].token = token, ![w].status = status]

Refuse(w) ==
  /\ write' = [write EXCEPT ![w].answer = "refused"]
  /\ UNCHANGED server

\* The first request with a key creates the order; a later one with the same
\* body is shown it, without the token; else it is refused.
ServeCreate(w) ==
  LET o == owner[write[w].key] IN
  \/ \E new \in OrderIds :
       /\ Book!Place(write[w].key, new)
       /\ made' = [made EXCEPT ![new] = w]
       /\ Accept(w, new, w, "CONFIRMED")
  \/ /\ o # None /\ write[made[o]].body = write[w].body /\ state[o] # "DELETED"
     /\ Accept(w, o, None, state[o])
     /\ UNCHANGED server
  \/ /\ o # None /\ (write[made[o]].body # write[w].body \/ state[o] = "DELETED")
     /\ Refuse(w)

ServeAct(w) ==
  LET o == write[w].order
      t == write[w].token
  IN
  \/ /\ write[w].op = "cancel" /\ made[o] = t
     /\ Book!Cancel(o)
     /\ Accept(w, o, t, "CANCELLED")
     /\ UNCHANGED made
  \/ /\ write[w].op = "delete" /\ made[o] = t
     /\ Book!Delete(o)
     /\ Accept(w, o, t, "DELETED")
     /\ UNCHANGED made
  \/ /\ state[o] = "DELETED" \/ (write[w].op = "cancel" /\ state[o] = "CANCELLED")
        \/ made[o] # t
     /\ Refuse(w)

Serve(w) ==
  /\ Sent(w) /\ write[w].answer = "none"
  /\ IF write[w].op = "create" THEN ServeCreate(w) ELSE ServeAct(w)
  /\ UNCHANGED <<app, form, shown, bounds>>

-----------------------------------------------------------------------------
(* The answer, or its loss, as the page takes it.                          *)

\* Is the instance that sent w still there?
Live(w) == Mounted(write[w].form) /\ form[write[w].form].inst = write[w].inst

\* No instance waits for w any more.
Ended(w, how) == write' = [write EXCEPT ![w].end = how, ![w].inst = 0]

\* setSelectedId: if the selection changes, the GET under way is disregarded
\* and another one sent.
Selecting(o) ==
  /\ selected' = o
  /\ load' = IF o = selected THEN load ELSE LoadOf(o)

\* Mutant of Keep: the form keeps the tokens, and loses them with its view.
MutKeepIfMounted(w) ==
  tokens' = IF write[w].token = None \/ ~Live(w) THEN tokens
            ELSE [tokens EXCEPT ![write[w].order] = write[w].token]

\* App keeps a token that is not empty, whether or not the form is still there.
Keep(w) ==
  tokens' = IF write[w].token = None THEN tokens
            ELSE [tokens EXCEPT ![write[w].order] = write[w].token]

\* The centre shows the order and reads its list again before it lets go.
CreatedInCenter(w) ==
  /\ write[w].form = "center"
  /\ IF Live(w)
       THEN /\ Selecting(write[w].order)
            /\ detail' = [order |-> write[w].order, status |-> write[w].status]
            /\ form' = [form EXCEPT !["center"].quote = None, !["center"].key = None,
                                    !["center"].busy = "list"]
       ELSE UNCHANGED <<shown, form>>
  /\ UNCHANGED <<draft, first>>

\* The card tells App, which closes whatever card is open by then; an order
\* centre that is shown by then selects the order.
CreatedInCard(w) ==
  /\ write[w].form = "card"
  /\ first' = write[w].order /\ draft' = FALSE
  /\ Unmount("card")
  /\ IF Mounted("center") THEN Selecting(first') ELSE UNCHANGED <<selected, load>>
  /\ UNCHANGED detail

CreateComes(w) ==
  /\ write[w].op = "create"
  /\ Keep(w)
  /\ CreatedInCenter(w) \/ CreatedInCard(w)

CancelComes(w) ==
  /\ write[w].op = "cancel"
  /\ IF Live(w)
       THEN /\ detail' = [order |-> write[w].order, status |-> write[w].status]
            /\ form' = [form EXCEPT !["center"].busy = "list"]
       ELSE UNCHANGED <<detail, form>>
  /\ UNCHANGED <<draft, first, tokens, selected, load>>

DeleteComes(w) ==
  /\ write[w].op = "delete"
  /\ tokens' = [tokens EXCEPT ![write[w].order] = None]
  /\ IF Live(w)
       THEN /\ detail' = None /\ selected' = None /\ load' = None
            /\ form' = [form EXCEPT !["center"].busy = "list"]
       ELSE UNCHANGED <<shown, form>>
  /\ UNCHANGED <<draft, first>>

Comes(w) ==
  /\ Sent(w) /\ write[w].end = "waiting" /\ write[w].answer = "ok"
  /\ CreateComes(w) \/ CancelComes(w) \/ DeleteComes(w)
  /\ Ended(w, "heard")
  /\ UNCHANGED <<server, view, bounds>>

\* The fetch fails, whether or not the server has carried the write out, or
\* the answer is an error: quote, key and tokens stay for another try.
Fails(w) ==
  /\ Sent(w) /\ write[w].end = "waiting"
  /\ form' = IF Live(w) THEN [form EXCEPT ![write[w].form].busy = "no"] ELSE form
  /\ Ended(w, "failed")
  /\ UNCHANGED <<server, app, shown, bounds>>

-----------------------------------------------------------------------------
(* List and detail of the order centre.                                    *)

Rows == {o \in OrderIds : state[o] \in {"CONFIRMED", "CANCELLED"}}

\* loadOrders after a write: an empty selection falls to the first row.
Listed ==
  /\ Mounted("center") /\ form["center"].busy = "list"
  /\ \E o \in IF selected = None THEN Rows \union {None} ELSE {selected} : Selecting(o)
  /\ form' = [form EXCEPT !["center"].busy = "no"]
  /\ UNCHANGED <<server, app, detail, write, bounds>>

\* A row of the list the page last read, perhaps of an order deleted since.
Select(o) ==
  /\ Mounted("center") /\ state[o] # "ABSENT" /\ o # selected
  /\ Selecting(o)
  /\ UNCHANGED <<server, app, form, detail, write, bounds>>

\* The answer may be older than the book, and land on a newer display.
DetailComes ==
  /\ Mounted("center") /\ load # None
  /\ \E status \in {load.since, state[load.order]} \ {"DELETED"} :
       detail' = [order |-> load.order, status |-> status]
  /\ load' = None
  /\ UNCHANGED <<server, app, form, selected, write, bounds>>

\* An error, or a deleted order: what was shown stays.
DetailFails ==
  /\ Mounted("center") /\ load # None
  /\ load' = None
  /\ UNCHANGED <<server, app, form, selected, detail, write, bounds>>

-----------------------------------------------------------------------------
Next ==
  \/ \E b \in Bodies : OpenCard(b)
  \/ Dismiss \/ CloseReceipt \/ ShowOrders \/ ShowChat
  \/ \E f \in Forms :
       \/ \E b \in Bodies : Edit(f, b)
       \/ AskQuote(f) \/ QuoteComes(f) \/ QuoteFails(f)
       \/ \E w \in Writes : Confirm(f, w)
  \/ \E w \in Writes :
       \/ Act("cancel", w) \/ Act("delete", w)
       \/ Serve(w) \/ Comes(w) \/ Fails(w)
  \/ Listed \/ DetailComes \/ DetailFails
  \/ \E o \in OrderIds : Select(o)

Spec == Init /\ [][Next]_vars

-----------------------------------------------------------------------------
(* Properties.                                                             *)

Statuses == {"CONFIRMED", "CANCELLED", "DELETED"}

\* Types of the page and of its requests; the book is the abstract one.
TypeOK ==
  /\ state \in [OrderIds -> Statuses \union {"ABSENT"}]
  /\ owner \in [Keys -> OrderIds \union {None}]
  /\ made \in [OrderIds -> Writes \union {None}]
  /\ view \in {"chat", "orders"} /\ draft \in BOOLEAN
  /\ tokens \in [OrderIds -> Writes \union {None}]
  /\ first \in OrderIds \union {None}
  /\ form \in [Forms -> [inst : 0 .. MaxMounts, body : Bodies,
                         quote : Quotes \union {None}, key : Keys \union {None},
                         asking : Bodies \union {None},
                         busy : {"no", "quote", "write", "list"}]]
  /\ selected \in OrderIds \union {None}
  /\ detail \in [order : OrderIds, status : {"CONFIRMED", "CANCELLED"}] \union {None}
  /\ load \in [order : OrderIds, since : Statuses] \union {None}
  /\ \A w \in Writes : Sent(w) =>
       write[w] \in [op : {"create", "cancel", "delete"}, form : Forms,
                     inst : 0 .. MaxMounts, quote : Quotes \union {None},
                     body : Bodies \union {None}, key : Keys \union {None},
                     order : OrderIds \union {None}, token : Writes \union {None},
                     answer : {"none", "ok", "refused"},
                     status : Statuses \union {None},
                     end : {"waiting", "heard", "failed"}]
  /\ quotes \in 0 .. MaxQuotes /\ edits \in 0 .. MaxEdits

MadeFrom(o) == write[made[o]].quote

\* However often the confirmation of one quote of the order centre is lost and
\* clicked again, at most one order comes of it (the comment at
\* OrderCenter.tsx:66: the key is reused only while retrying one quote).
OneOrderPerQuote ==
  \A o, p \in OrderIds :
    /\ made[o] # None /\ made[p] # None
    /\ write[made[o]].form = "center" /\ MadeFrom(o).no = MadeFrom(p).no
    => o = p

\* An order is created for the very inputs its quote was shown for, unless
\* they were edited while the quote was under way: then the late quote is
\* shown beside inputs it was not asked for.
CreatedAsQuotedUnlessLate ==
  \A o \in OrderIds : made[o] # None =>
    MadeFrom(o).late \/ MadeFrom(o).body = write[made[o]].body

\* The page holds the token of every order whose first creation answer it
\* got, until the deletion: no retry, replayed answer, change of view or
\* failed request loses it or puts another in its place.
TokensUsable ==
  /\ TypeOK
  /\ \A o \in OrderIds :
     /\ tokens[o] # None => tokens[o] = made[o]
     /\ made[o] # None /\ write[made[o]].end = "heard" /\ state[o] # "DELETED"
          => tokens[o] # None
     /\ tokens[o] # None /\ state[o] = "DELETED"
          => \E w \in Writes : /\ Sent(w) /\ write[w].op = "delete"
                              /\ write[w].order = o /\ write[w].end # "heard"

\* docs/SIMULATED_ORDERS_V1_DESIGN.md:58: on the explicit click the front end
\* requests the creation with the same items, destination and currency.
CreatedAsQuoted ==
  \A o \in OrderIds : made[o] # None => MadeFrom(o).body = write[made[o]].body
=============================================================================

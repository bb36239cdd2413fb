--------------------------- MODULE OrderPageProofs ---------------------------
(***************************************************************************)
(* Proofs about module OrderPage: the page types, at most one order per    *)
(* quote of the order centre, orders created as quoted, and the tokens the *)
(* page holds, for any number of orders, writes, quotes and edits.         *)
(*                                                                         *)
(* A write is sent in one step, served in another and heard of in a third, *)
(* or never.  IInv therefore says of every write sent what it carries and  *)
(* what the book says of it by now, of every form what the quote it shows  *)
(* is worth, and that the numbers of quotes tell the two forms apart.      *)
(***************************************************************************)
EXTENDS OrderPage, TLAPS

Recs ==
  [op : {"create", "cancel", "delete"}, form : Forms,
   inst : 0 .. MaxMounts, quote : Quotes \union {None},
   body : Bodies \union {None}, key : Keys \union {None},
   order : OrderIds \union {None}, token : Writes \union {None},
   answer : {"none", "ok", "refused"},
   status : Statuses \union {None},
   end : {"waiting", "heard", "failed"}]

FormRecs ==
  [inst : 0 .. MaxMounts, body : Bodies, quote : Quotes \union {None},
   key : Keys \union {None}, asking : Bodies \union {None},
   busy : {"no", "quote", "write", "list"}]

Creates(w) == Sent(w) /\ write[w].op = "create"

Heard(w) == write[w].end = "heard"

\* A quote is for the inputs beside it, unless it came late.
Fits(quote, body) ==
  /\ quote \in Quotes /\ quote.no <= quotes
  /\ quote.late \/ quote.body = body

\* The quote a form shows, and the key drawn for it.
FormsFit ==
  \A f \in Forms :
    /\ form[f].quote # None =>
         /\ Fits(form[f].quote, form[f].body)
         /\ f = "center" => form[f].key = <<"quote", form[f].quote.no>>
    /\ form[f].busy = "quote" => form[f].asking \in Bodies

\* What a creation carries, and what its answer gave it.
CreatesFit ==
  \A w \in Writes : Creates(w) =>
    /\ Fits(write[w].quote, write[w].body)
    /\ write[w].key = IF write[w].form = "center"
                      THEN <<"quote", write[w].quote.no>> ELSE <<"click", w>>
    /\ write[w].token # None =>
         /\ write[w].token = w /\ write[w].answer = "ok"
         /\ made[write[w].order] = w

\* A cancellation or deletion is of an order whose creation was heard of.
ActsFit ==
  \A w \in Writes : Sent(w) /\ write[w].op # "create" =>
    /\ write[w].order \in OrderIds
    /\ made[write[w].order] # None /\ Heard(made[write[w].order])

\* What an answer says has happened.
AnswersFit ==
  \A w \in Writes : Sent(w) =>
    /\ write[w].answer = "ok" =>
         /\ write[w].order \in OrderIds /\ state[write[w].order] # "ABSENT"
         /\ write[w].op # "delete" => write[w].status \in {"CONFIRMED", "CANCELLED"}
         /\ write[w].op = "delete" => state[write[w].order] = "DELETED"
    /\ Heard(w) => write[w].answer = "ok"

\* The number of a quote tells which form it was shown in.
NumbersFit ==
  /\ \A w, v \in Writes : Creates(w) /\ Creates(v) /\ write[w].quote.no = write[v].quote.no
       => write[w].form = write[v].form
  /\ \A w \in Writes, f \in Forms :
       Creates(w) /\ form[f].quote # None /\ write[w].quote.no = form[f].quote.no
       => write[w].form = f
  /\ \A f, g \in Forms :
       form[f].quote # None /\ form[g].quote # None /\ form[f].quote.no = form[g].quote.no
       => f = g

\* An order is in the book exactly when a write made it, under its key.
BookFits ==
  /\ \A o \in OrderIds :
       /\ state[o] = "ABSENT" <=> made[o] = None
       /\ made[o] # None =>
            /\ Creates(made[o]) /\ write[made[o]].answer = "ok"
            /\ write[made[o]].order = o /\ write[made[o]].token = made[o]
            /\ owner[write[made[o]].key] = o
       /\ state[o] = "DELETED" =>
            \E w \in Writes : /\ Sent(w) /\ write[w].op = "delete"
                              /\ write[w].order = o
       /\ tokens[o] # None => Heard(made[o])
  /\ \A k \in Keys : owner[k] # None => state[owner[k]] # "ABSENT"

\* The centre never shows or asks for an order that is not in the book.
ShownFit ==
  /\ first # None => state[first] # "ABSENT"
  /\ selected # None => state[selected] # "ABSENT"
  /\ load # None => state[load.order] # "ABSENT"

IInv ==
  /\ TokensUsable
  /\ write \in [Writes -> Recs \union {NoWrite}]
  /\ FormsFit
  /\ CreatesFit
  /\ ActsFit
  /\ AnswersFit
  /\ NumbersFit
  /\ BookFits
  /\ ShownFit
-----------------------------------------------------------------------------
(* What every step shares.                                                 *)

\* The parts of TypeOK, with the forms and the writes as records.
LEMMA Types ==
  ASSUME IInv
  PROVE  /\ state \in [OrderIds -> Statuses \union {"ABSENT"}]
         /\ owner \in [Keys -> OrderIds \union {None}]
         /\ made \in [OrderIds -> Writes \union {None}]
         /\ view \in {"chat", "orders"} /\ draft \in BOOLEAN
         /\ tokens \in [OrderIds -> Writes \union {None}]
         /\ first \in OrderIds \union {None}
         /\ form \in [Forms -> FormRecs]
         /\ selected \in OrderIds \union {None}
         /\ detail \in [order : OrderIds, status : {"CONFIRMED", "CANCELLED"}] \union {None}
         /\ load \in [order : OrderIds, since : Statuses] \union {None}
         /\ write \in [Writes -> Recs \union {NoWrite}]
         /\ \A w \in Writes : Sent(w) => write[w] \in Recs
         /\ quotes \in 0 .. MaxQuotes /\ edits \in 0 .. MaxEdits
<1>1. \A w \in Writes : Sent(w) => write[w] \in Recs
  BY DEF IInv, Sent, NoWrite
<1> QED BY <1>1 DEF IInv, TokensUsable, TypeOK, FormRecs

\* TypeOK from its parts.
LEMMA Typed ==
  ASSUME state' \in [OrderIds -> Statuses \union {"ABSENT"}],
         owner' \in [Keys -> OrderIds \union {None}],
         made' \in [OrderIds -> Writes \union {None}],
         view' \in {"chat", "orders"}, draft' \in BOOLEAN,
         tokens' \in [OrderIds -> Writes \union {None}],
         first' \in OrderIds \union {None},
         form' \in [Forms -> FormRecs],
         selected' \in OrderIds \union {None},
         detail' \in [order : OrderIds, status : {"CONFIRMED", "CANCELLED"}] \union {None},
         load' \in [order : OrderIds, since : Statuses] \union {None},
         write' \in [Writes -> Recs \union {NoWrite}],
         quotes' \in 0 .. MaxQuotes, edits' \in 0 .. MaxEdits
  PROVE  TypeOK'
<1>1. \A w \in Writes : Sent(w)' => write'[w] \in Recs
  BY DEF Sent, NoWrite
<1> QED BY <1>1 DEF TypeOK, FormRecs, Recs

\* Forms that keep their quote and what belongs to it, or lose the quote.
LEMMA FormsKept ==
  ASSUME IInv, quotes' \in Nat, quotes <= quotes',
         \A f \in Forms :
           /\ form'[f].quote # None =>
                form'[f].quote = form[f].quote /\ form'[f].body = form[f].body
                /\ form'[f].key = form[f].key
           /\ form'[f].busy = "quote" => form'[f].asking \in Bodies
  PROVE  FormsFit'
<1> SUFFICES ASSUME NEW f \in Forms
             PROVE  /\ form'[f].quote # None =>
                         /\ Fits(form[f].quote, form[f].body)'
                         /\ f = "center" => form'[f].key = <<"quote", form'[f].quote.no>>
                    /\ form'[f].busy = "quote" => form'[f].asking \in Bodies
  BY DEF FormsFit
<1>1. ASSUME form'[f].quote # None
      PROVE  Fits(form[f].quote, form[f].body)' /\ (f = "center" => form'[f].key = <<"quote", form'[f].quote.no>>)
  <2>1. /\ Fits(form[f].quote, form[f].body)
        /\ f = "center" => form[f].key = <<"quote", form[f].quote.no>>
    BY <1>1 DEF IInv, FormsFit
  <2>2. form[f].quote.no \in Nat /\ quotes \in Nat
    BY <2>1, Types, PageAssumption DEF Fits, Quotes
  <2> QED BY <1>1, <2>1, <2>2 DEF Fits
<1> QED BY <1>1

\* And writes that do not change what they were sent with.
LEMMA NumbersKept ==
  ASSUME IInv,
         \A f \in Forms : form'[f].quote # None => form'[f].quote = form[f].quote,
         \A w \in Writes : Creates(w)' =>
           Creates(w) /\ write'[w].quote = write[w].quote /\ write'[w].form = write[w].form
  PROVE  NumbersFit'
BY DEF IInv, NumbersFit

\* A step of the page alone.
LEMMA PageStep ==
  ASSUME IInv, UNCHANGED <<server, tokens, write>>, quotes <= quotes',
         TypeOK', FormsFit', NumbersFit', ShownFit'
  PROVE  IInv'
<1>1. UNCHANGED <<state, owner, made, tokens, write>>
  BY DEF server
<1>2. TokensUsable'
  BY <1>1 DEF IInv, TokensUsable, Sent
<1>3. CreatesFit'
  <2> SUFFICES ASSUME NEW w \in Writes, Creates(w)
               PROVE  Fits(write[w].quote, write[w].body)'
    BY <1>1 DEF IInv, CreatesFit, Creates, Sent
  <2>1. Fits(write[w].quote, write[w].body)
    BY DEF IInv, CreatesFit
  <2>2. write[w].quote.no \in Nat /\ quotes \in Nat /\ quotes' \in Nat
    BY <2>1, Types, PageAssumption DEF Fits, Quotes, TypeOK
  <2> QED BY <1>1, <2>1, <2>2 DEF Fits
<1>4. ActsFit' /\ AnswersFit' /\ BookFits'
  BY <1>1 DEF IInv, ActsFit, AnswersFit, BookFits, Sent, Creates, Heard
<1> QED BY <1>1, <1>2, <1>3, <1>4 DEF IInv

-----------------------------------------------------------------------------
(* Steps of the page alone.                                                *)

LEMMA FreshForm ==
  ASSUME NEW i \in 0 .. MaxMounts, NEW b \in Bodies
  PROVE  /\ Fresh(i, b) \in FormRecs /\ Fresh(i, b).quote = None
         /\ Fresh(i, b).busy = "no"
BY DEF Fresh, FormRecs

\* Forms that stay as they are or begin afresh.
LEMMA FormsEmptied ==
  ASSUME IInv, UNCHANGED <<write, quotes>>,
         form' = [f \in Forms |-> form'[f]],
         \A f \in Forms : \/ form'[f] = form[f]
                          \/ \E i \in 0 .. MaxMounts, b \in Bodies : form'[f] = Fresh(i, b)
  PROVE  form' \in [Forms -> FormRecs] /\ FormsFit' /\ NumbersFit'
<1>1. \A f \in Forms : form'[f] \in FormRecs
  BY FreshForm, Types
<1>2. \A f \in Forms : form'[f] = form[f] \/ (form'[f].quote = None /\ form'[f].busy = "no")
  BY FreshForm
<1>3. form' \in [Forms -> FormRecs]
  BY <1>1
<1>4. NumbersFit'
  BY <1>2, NumbersKept DEF Creates, Sent
<1>5. \A f \in Forms : form[f].busy = "quote" => form[f].asking \in Bodies
  BY DEF IInv, FormsFit
<1>6. quotes' \in Nat /\ quotes <= quotes'
  BY Types, PageAssumption
<1>7. FormsFit'
  BY <1>2, <1>5, <1>6, FormsKept
<1> QED BY <1>3, <1>4, <1>7

\* What is selected is asked for, with the status the book has of it.
LEMMA LoadType ==
  ASSUME IInv, NEW o \in OrderIds \union {None}, o # None => state[o] # "ABSENT"
  PROVE  /\ LoadOf(o) \in [order : OrderIds, since : Statuses] \union {None}
         /\ LoadOf(o) # None => o # None /\ LoadOf(o).order = o
<1>1. CASE o = None
  BY <1>1 DEF LoadOf
<1>2. CASE o # None
  <2>1. state[o] \in Statuses
    BY <1>2, Types
  <2>2. LoadOf(o) = [order |-> o, since |-> state[o]]
    BY <1>2 DEF LoadOf
  <2> QED BY <1>2, <2>1, <2>2
<1> QED BY <1>1, <1>2

\* A card is opened, dismissed, or its receipt closed.
LEMMA CardStep ==
  ASSUME IInv, (\E b \in Bodies : OpenCard(b)) \/ Dismiss \/ CloseReceipt
  PROVE  IInv'
<1>1. UNCHANGED <<state, owner, made, view, tokens, selected, detail, load, write, quotes, edits>>
  BY DEF OpenCard, Dismiss, CloseReceipt, server, shown, bounds
<1>2. /\ form' = [f \in Forms |-> form'[f]]
      /\ \A f \in Forms : \/ form'[f] = form[f]
                          \/ \E i \in 0 .. MaxMounts, b \in Bodies : form'[f] = Fresh(i, b)
  <2>1. form \in [Forms -> FormRecs] /\ form["card"].inst \in 0 .. MaxMounts /\ MaxMounts \in Nat
    BY Types, PageAssumption DEF Forms, FormRecs
  <2>2. CASE \E b \in Bodies : OpenCard(b)
    <3>1. PICK b \in Bodies : OpenCard(b)
      BY <2>2
    <3>2. /\ form["card"].inst + 1 \in 0 .. MaxMounts
          /\ form' = [form EXCEPT !["card"] = Fresh(form["card"].inst + 1, b)]
      BY <2>1, <3>1 DEF OpenCard, Mount
    <3> QED BY <2>1, <3>2
  <2>3. CASE Dismiss
    <3>1. /\ form' = [form EXCEPT !["card"] = Fresh(form["card"].inst, Default)]
          /\ Default \in Bodies
      BY <2>3, PageAssumption DEF Dismiss, Unmount
    <3> QED BY <2>1, <3>1
  <2>4. CASE CloseReceipt
    BY <2>1, <2>4 DEF CloseReceipt
  <2> QED BY <2>2, <2>3, <2>4
<1>3. form' \in [Forms -> FormRecs] /\ FormsFit' /\ NumbersFit'
  BY <1>1, <1>2, FormsEmptied
<1>4. draft' \in BOOLEAN
  <2>1. CASE \E b \in Bodies : OpenCard(b)
    BY <2>1 DEF OpenCard
  <2>2. CASE Dismiss
    BY <2>2 DEF Dismiss
  <2>3. CASE CloseReceipt
    BY <2>3, Types DEF CloseReceipt
  <2> QED BY <2>1, <2>2, <2>3
<1>5. first' = None \/ first' = first
  BY DEF OpenCard, Dismiss, CloseReceipt
<1>6. first' \in OrderIds \union {None}
  BY <1>5, Types
<1>7. TypeOK'
  BY <1>1, <1>3, <1>4, <1>6, Types, Typed
<1>8. ShownFit'
  BY <1>1, <1>5 DEF IInv, ShownFit
<1>9. quotes <= quotes'
  BY <1>1, Types, PageAssumption
<1> QED BY <1>1, <1>3, <1>7, <1>8, <1>9, PageStep DEF server

\* The views change places: what one held is gone with it.
LEMMA ViewStep ==
  ASSUME IInv, ShowOrders \/ ShowChat
  PROVE  IInv'
<1>1. UNCHANGED <<state, owner, made, draft, tokens, first, write, quotes, edits>>
  BY DEF ShowOrders, ShowChat, server, bounds
<1>2. /\ form \in [Forms -> FormRecs] /\ MaxMounts \in Nat /\ Default \in Bodies
      /\ form["card"].inst \in 0 .. MaxMounts /\ form["center"].inst \in 0 .. MaxMounts
  BY Types, PageAssumption DEF Forms, FormRecs
<1>3. PICK i \in 0 .. MaxMounts, j \in 0 .. MaxMounts :
        form' = [form EXCEPT !["center"] = Fresh(i, Default), !["card"] = Fresh(j, Default)]
  <2>1. CASE ShowOrders
    <3>1. /\ form["center"].inst + 1 \in 0 .. MaxMounts
          /\ form' = [form EXCEPT !["center"] = Fresh(form["center"].inst + 1, Default),
                                 !["card"] = Fresh(form["card"].inst, Default)]
      BY <1>2, <2>1 DEF ShowOrders
    <3> QED BY <1>2, <3>1
  <2>2. CASE ShowChat /\ draft
    <3>1. form["card"].inst + 1 \in 0 .. MaxMounts
      BY <1>2, <2>2 DEF ShowChat
    <3>2. form' = [form EXCEPT !["center"] = Fresh(form["center"].inst, Default),
                               !["card"] = Fresh(form["card"].inst + 1, Default)]
      BY <1>2, <2>2 DEF ShowChat
    <3> QED BY <1>2, <3>1, <3>2
  <2>3. CASE ShowChat /\ ~draft
    <3>1. form' = [form EXCEPT !["center"] = Fresh(form["center"].inst, Default),
                               !["card"] = Fresh(form["card"].inst, Default)]
      BY <1>2, <2>3 DEF ShowChat
    <3> QED BY <1>2, <3>1
  <2> QED BY <2>1, <2>2, <2>3
<1>4. /\ form' = [f \in Forms |-> form'[f]]
      /\ \A f \in Forms : \E k \in 0 .. MaxMounts, b \in Bodies : form'[f] = Fresh(k, b)
  BY <1>2, <1>3 DEF Forms
<1>5. form' \in [Forms -> FormRecs] /\ FormsFit' /\ NumbersFit'
  BY <1>1, <1>4, FormsEmptied
<1>6. /\ view' \in {"chat", "orders"} /\ selected' \in OrderIds \union {None}
      /\ detail' \in [order : OrderIds, status : {"CONFIRMED", "CANCELLED"}] \union {None}
      /\ load' \in [order : OrderIds, since : Statuses] \union {None}
      /\ ShownFit'
  <2>1. first # None => state[first] # "ABSENT"
    BY DEF IInv, ShownFit
  <2>2. CASE ShowOrders
    <3>1. view' = "orders" /\ selected' = first /\ load' = LoadOf(first) /\ detail' = detail
      BY <2>2 DEF ShowOrders
    <3>2. /\ load' \in [order : OrderIds, since : Statuses] \union {None}
          /\ load' # None => first # None /\ load'.order = first
      BY <2>1, <3>1, Types, LoadType
    <3> QED BY <1>1, <2>1, <3>1, <3>2, Types DEF ShownFit
  <2>3. CASE ShowChat
    BY <1>1, <2>1, <2>3 DEF ShowChat, ShownFit
  <2> QED BY <2>2, <2>3
<1>7. TypeOK'
  BY <1>1, <1>5, <1>6, Types, Typed
<1>8. quotes <= quotes'
  BY <1>1, Types, PageAssumption
<1> QED BY <1>1, <1>5, <1>6, <1>7, <1>8, PageStep DEF server

\* A form loses its quote, or asks for one.
LEMMA InputStep ==
  ASSUME IInv, NEW f \in Forms,
         (\E b \in Bodies : Edit(f, b)) \/ AskQuote(f) \/ QuoteFails(f)
  PROVE  IInv'
<1>1. UNCHANGED <<state, owner, made, view, draft, tokens, first, selected, detail, load,
                  write, quotes>>
  BY DEF Edit, AskQuote, QuoteFails, server, app, shown, bounds
<1>2. form \in [Forms -> FormRecs] /\ form[f] \in FormRecs
  BY Types
<1>3. PICK new \in FormRecs :
        /\ form' = [form EXCEPT ![f] = new]
        /\ new.quote # None => new.quote = form[f].quote /\ new.body = form[f].body
                               /\ new.key = form[f].key
        /\ new.busy = "quote" => new.asking \in Bodies
  <2>1. CASE \E b \in Bodies : Edit(f, b)
    <3>1. PICK b \in Bodies : Edit(f, b)
      BY <2>1
    <3> DEFINE new == [form[f] EXCEPT !.body = b, !.quote = None, !.key = None]
    <3>2. form' = [form EXCEPT ![f] = new]
      BY <1>2, <3>1 DEF Edit
    <3>3. new \in FormRecs /\ new.quote = None /\ new.busy = form[f].busy /\ new.asking = form[f].asking
      BY <1>2 DEF FormRecs
    <3>4. form[f].busy = "quote" => form[f].asking \in Bodies
      BY DEF IInv, FormsFit
    <3> QED BY <3>2, <3>3, <3>4
  <2>2. CASE AskQuote(f)
    <3> DEFINE new == [form[f] EXCEPT !.busy = "quote", !.asking = form[f].body]
    <3>1. form' = [form EXCEPT ![f] = new]
      BY <1>2, <2>2 DEF AskQuote
    <3>2. /\ new \in FormRecs /\ new.asking = form[f].body /\ form[f].body \in Bodies
          /\ new.quote = form[f].quote /\ new.body = form[f].body /\ new.key = form[f].key
      BY <1>2 DEF FormRecs
    <3> QED BY <3>1, <3>2
  <2>3. CASE QuoteFails(f)
    <3> DEFINE new == [form[f] EXCEPT !.quote = None, !.asking = None, !.busy = "no"]
    <3>1. form' = [form EXCEPT ![f] = new]
      BY <1>2, <2>3 DEF QuoteFails
    <3>2. new \in FormRecs /\ new.quote = None /\ new.busy = "no"
      BY <1>2 DEF FormRecs
    <3> QED BY <3>1, <3>2
  <2> QED BY <2>1, <2>2, <2>3
<1>4. form' \in [Forms -> FormRecs] /\ form'[f] = new
      /\ \A g \in Forms : g # f => form'[g] = form[g]
  BY <1>2, <1>3
<1>5. \A g \in Forms :
           /\ form'[g].quote # None =>
                form'[g].quote = form[g].quote /\ form'[g].body = form[g].body
                /\ form'[g].key = form[g].key
           /\ form'[g].busy = "quote" => form'[g].asking \in Bodies
  BY <1>3, <1>4 DEF IInv, FormsFit
<1>6. quotes' \in Nat /\ quotes <= quotes'
  BY <1>1, Types, PageAssumption
<1>7. FormsFit'
  BY <1>5, <1>6, FormsKept
<1>8. NumbersFit'
  BY <1>1, <1>5, NumbersKept DEF Creates, Sent
<1>9. edits' \in 0 .. MaxEdits
  <2>1. CASE \E b \in Bodies : Edit(f, b)
    <3>1. edits < MaxEdits /\ edits' = edits + 1 /\ edits \in 0 .. MaxEdits /\ MaxEdits \in Nat
      BY <2>1, Types, PageAssumption DEF Edit
    <3> QED BY <3>1
  <2>2. CASE AskQuote(f) \/ QuoteFails(f)
    BY <2>2, Types DEF AskQuote, QuoteFails, bounds
  <2> QED BY <2>1, <2>2
<1>10. TypeOK'
  BY <1>1, <1>4, <1>9, Types, Typed
<1>11. ShownFit'
  BY <1>1 DEF IInv, ShownFit
<1> QED BY <1>1, <1>6, <1>7, <1>8, <1>10, <1>11, PageStep DEF server

\* A quote has a number of its own, and is shown with it.
LEMMA QuoteComesStep ==
  ASSUME IInv, NEW f \in Forms, QuoteComes(f)
  PROVE  IInv'
<1> DEFINE body  == form[f].asking
           quote == [body |-> body, no |-> quotes + 1, late |-> body # form[f].body]
           key   == IF f = "center" THEN <<"quote", quotes + 1>> ELSE None
           new   == [form[f] EXCEPT !.quote = quote, !.key = key, !.asking = None, !.busy = "no"]
<1>1. UNCHANGED <<state, owner, made, view, draft, tokens, first, selected, detail, load,
                  write, edits>>
  BY DEF QuoteComes, server, app, shown
<1>2. /\ form \in [Forms -> FormRecs] /\ form[f] \in FormRecs /\ quotes \in 0 .. MaxQuotes
      /\ MaxQuotes \in Nat
  BY Types, PageAssumption
<1>3. body \in Bodies /\ quotes < MaxQuotes /\ quotes' = quotes + 1
      /\ quotes + 1 \in 1 .. MaxQuotes
  BY <1>2 DEF QuoteComes, IInv, FormsFit
<1>4. quote \in Quotes /\ quote.no = quotes + 1 /\ (quote.late \/ quote.body = form[f].body)
  BY <1>3 DEF Quotes
<1>5. key \in Keys \union {None}
  BY <1>3 DEF Keys
<1>6. form' = [form EXCEPT ![f] = new]
  BY <1>2 DEF QuoteComes
<1> HIDE DEF quote, key, body
<1>7. /\ new \in FormRecs /\ new.quote = quote /\ new.key = key /\ new.busy = "no"
      /\ new.body = form[f].body
  BY <1>2, <1>4, <1>5 DEF FormRecs
<1> HIDE DEF new
<1>8. form' \in [Forms -> FormRecs] /\ form'[f] = new
      /\ \A g \in Forms : g # f => form'[g] = form[g]
  BY <1>2, <1>6, <1>7
<1>9. TypeOK'
  BY <1>1, <1>2, <1>3, <1>8, Types, Typed
<1>10. \A g \in Forms : form[g].quote # None => form[g].quote.no \in Nat /\ form[g].quote.no <= quotes
  BY <1>2 DEF IInv, FormsFit, Fits, Quotes
<1>11. \A w \in Writes : Creates(w) => write[w].quote.no \in Nat /\ write[w].quote.no <= quotes
  <2>1. \A w \in Writes : Creates(w) => Fits(write[w].quote, write[w].body)
    BY DEF IInv, CreatesFit
  <2> QED BY <1>2, <2>1 DEF Fits, Quotes
<1>12. FormsFit'
  <2>1. f = "center" => new.key = <<"quote", new.quote.no>>
    BY <1>4, <1>7 DEF key
  <2> SUFFICES ASSUME NEW g \in Forms
               PROVE  /\ form'[g].quote # None =>
                           /\ Fits(form[g].quote, form[g].body)'
                           /\ g = "center" => form'[g].key = <<"quote", form'[g].quote.no>>
                      /\ form'[g].busy = "quote" => form'[g].asking \in Bodies
    BY DEF FormsFit
  <2>2. CASE g = f
    <3>1. form'[f].quote = quote /\ form'[f].body = form[f].body /\ form'[f].busy = "no"
      BY <1>7, <1>8
    <3>2. Fits(form[f].quote, form[f].body)'
      BY <1>2, <1>3, <1>4, <3>1 DEF Fits
    <3>3. f = "center" => form'[f].key = <<"quote", form'[f].quote.no>>
      BY <1>8, <2>1
    <3> QED BY <2>2, <3>1, <3>2, <3>3
  <2>3. CASE g # f
    <3>1. form'[g] = form[g]
      BY <1>8, <2>3
    <3>2. /\ form[g].quote # None =>
               /\ Fits(form[g].quote, form[g].body)
               /\ g = "center" => form[g].key = <<"quote", form[g].quote.no>>
          /\ form[g].busy = "quote" => form[g].asking \in Bodies
      BY DEF IInv, FormsFit
    <3>3. form[g].quote # None => Fits(form[g].quote, form[g].body)'
      BY <1>2, <1>3, <1>10, <3>1, <3>2 DEF Fits
    <3> QED BY <3>1, <3>2, <3>3
  <2> QED BY <2>2, <2>3
<1>13. NumbersFit'
  <2>1. \A w \in Writes : Creates(w)' = Creates(w)
    BY <1>1 DEF Creates, Sent
  <2>2. \A w \in Writes, g \in Forms :
          Creates(w) /\ form'[g].quote # None /\ write[w].quote.no = form'[g].quote.no
          => write[w].form = g
    BY <1>2, <1>4, <1>7, <1>8, <1>11 DEF IInv, NumbersFit
  <2>3. \A g, h \in Forms :
          form'[g].quote # None /\ form'[h].quote # None /\ form'[g].quote.no = form'[h].quote.no
          => g = h
    BY <1>2, <1>4, <1>7, <1>8, <1>10 DEF IInv, NumbersFit
  <2> QED BY <1>1, <2>1, <2>2, <2>3 DEF IInv, NumbersFit
<1>14. ShownFit'
  BY <1>1 DEF IInv, ShownFit
<1>15. quotes <= quotes'
  BY <1>2, <1>3
<1> QED BY <1>1, <1>9, <1>12, <1>13, <1>14, <1>15, PageStep DEF server

\* A selection: the order selected and the one asked for are in the book.
LEMMA SelectingTypes ==
  ASSUME IInv, NEW o \in OrderIds \union {None}, o # None => state[o] # "ABSENT", Selecting(o)
  PROVE  /\ selected' \in OrderIds \union {None}
         /\ load' \in [order : OrderIds, since : Statuses] \union {None}
         /\ selected' # None => state[selected'] # "ABSENT"
         /\ load' # None => state[load'.order] # "ABSENT"
<1>1. selected' = o /\ load' = IF o = selected THEN load ELSE LoadOf(o)
  BY DEF Selecting
<1>2. /\ LoadOf(o) \in [order : OrderIds, since : Statuses] \union {None}
      /\ LoadOf(o) # None => o # None /\ LoadOf(o).order = o
  BY LoadType
<1>3. load # None => state[load.order] # "ABSENT"
  BY DEF IInv, ShownFit
<1>4. CASE o = selected
  BY <1>1, <1>3, <1>4, Types
<1>5. CASE o # selected
  BY <1>1, <1>2, <1>5
<1> QED BY <1>4, <1>5

\* What the centre shows: a list read, a row selected, a detail that comes or not.
LEMMA ShowStep ==
  ASSUME IInv, Listed \/ (\E o \in OrderIds : Select(o)) \/ DetailComes \/ DetailFails
  PROVE  IInv'
<1>1. UNCHANGED <<state, owner, made, view, draft, tokens, first, write, quotes, edits>>
  BY DEF Listed, Select, DetailComes, DetailFails, server, app, bounds
<1>2. form \in [Forms -> FormRecs] /\ form["center"] \in FormRecs
  BY Types DEF Forms
<1>3. /\ form' \in [Forms -> FormRecs]
      /\ \A f \in Forms :
           /\ form'[f].quote = form[f].quote /\ form'[f].body = form[f].body
           /\ form'[f].key = form[f].key
           /\ form'[f].busy = "quote" => form'[f].asking \in Bodies
  <2>1. \A f \in Forms : form[f].busy = "quote" => form[f].asking \in Bodies
    BY DEF IInv, FormsFit
  <2>2. CASE Listed
    <3> DEFINE new == [form["center"] EXCEPT !.busy = "no"]
    <3>1. form' = [form EXCEPT !["center"] = new]
      BY <1>2, <2>2 DEF Listed
    <3>2. /\ new \in FormRecs /\ new.quote = form["center"].quote /\ new.body = form["center"].body
          /\ new.key = form["center"].key /\ new.busy = "no"
      BY <1>2 DEF FormRecs
    <3> HIDE DEF new
    <3> QED BY <1>2, <2>1, <3>1, <3>2
  <2>3. CASE form' = form
    BY <1>2, <2>1, <2>3
  <2> QED BY <2>2, <2>3 DEF Select, DetailComes, DetailFails
<1>4. quotes' \in Nat /\ quotes <= quotes'
  BY <1>1, Types, PageAssumption
<1>5. FormsFit'
  BY <1>3, <1>4, FormsKept
<1>6. NumbersFit'
  BY <1>1, <1>3, NumbersKept DEF Creates, Sent
<1>7. load # None => state[load.order] # "ABSENT"
  BY DEF IInv, ShownFit
<1>8. /\ selected' \in OrderIds \union {None}
      /\ load' \in [order : OrderIds, since : Statuses] \union {None}
      /\ selected' # None => state[selected'] # "ABSENT"
      /\ load' # None => state[load'.order] # "ABSENT"
  <2>1. selected # None => state[selected] # "ABSENT"
    BY DEF IInv, ShownFit
  <2>2. CASE Listed
    <3>1. PICK o \in (IF selected = None THEN Rows \union {None} ELSE {selected}) : Selecting(o)
      BY <2>2 DEF Listed
    <3>2. o \in OrderIds \union {None} /\ (o # None => state[o] # "ABSENT")
      <4>1. CASE selected = None
        BY <3>1, <4>1 DEF Rows
      <4>2. CASE selected # None
        BY <2>1, <3>1, <4>2, Types
      <4> QED BY <4>1, <4>2
    <3> QED BY <3>1, <3>2, SelectingTypes
  <2>3. CASE \E o \in OrderIds : Select(o)
    BY <2>3, SelectingTypes DEF Select
  <2>4. CASE DetailComes \/ DetailFails
    BY <2>1, <2>4, Types DEF DetailComes, DetailFails
  <2> QED BY <2>2, <2>3, <2>4
<1>9. detail' \in [order : OrderIds, status : {"CONFIRMED", "CANCELLED"}] \union {None}
  <2>1. CASE DetailComes
    <3>1. load \in [order : OrderIds, since : Statuses]
      BY <2>1, Types DEF DetailComes
    <3>2. state[load.order] \in Statuses
      BY <1>7, <2>1, <3>1, Types DEF DetailComes
    <3>3. PICK status \in {load.since, state[load.order]} \ {"DELETED"} :
            detail' = [order |-> load.order, status |-> status]
      BY <2>1 DEF DetailComes
    <3>4. status \in {"CONFIRMED", "CANCELLED"}
      BY <3>1, <3>2 DEF Statuses
    <3> QED BY <3>1, <3>3, <3>4
  <2>2. CASE detail' = detail
    BY <2>2, Types
  <2> QED BY <2>1, <2>2 DEF Listed, Select, DetailFails
<1>10. TypeOK'
  BY <1>1, <1>3, <1>8, <1>9, Types, Typed
<1>11. ShownFit'
  BY <1>1, <1>8 DEF IInv, ShownFit
<1> QED BY <1>1, <1>4, <1>5, <1>6, <1>10, <1>11, PageStep DEF server

-----------------------------------------------------------------------------
(* Writes are sent.                                                        *)

\* What is sent is a new write; the writes sent before, and the book, stay.
LEMMA SendStep ==
  ASSUME IInv, NEW w \in Writes, NEW op \in {"create", "cancel", "delete"}, NEW f \in Forms,
         NEW quote \in Quotes \union {None}, NEW body \in Bodies \union {None},
         NEW key \in Keys \union {None}, NEW order \in OrderIds \union {None},
         NEW token \in Writes \union {None},
         Send(w, op, f, quote, body, key, order, token),
         UNCHANGED <<server, app, shown, bounds>>,
         op = "create" => /\ Fits(quote, body) /\ quote = form[f].quote
                          /\ form[f].quote # None /\ token = None
                          /\ key = IF f = "center" THEN <<"quote", quote.no>> ELSE <<"click", w>>,
         op # "create" => /\ order \in OrderIds
                          /\ made[order] # None /\ Heard(made[order])
  PROVE  IInv'
<1> DEFINE rec == [op |-> op, form |-> f, inst |-> form[f].inst, quote |-> quote,
                   body |-> body, key |-> key, order |-> order, token |-> token,
                   answer |-> "none", status |-> None, end |-> "waiting"]
           new == [form[f] EXCEPT !.busy = "write"]
<1>1. /\ UNCHANGED <<state, owner, made, view, draft, tokens, first, selected, detail, load,
                     quotes, edits>>
      /\ ~Sent(w)
      /\ write' = [write EXCEPT ![w] = rec]
  BY DEF Send, server, app, shown, bounds
<1>2. form \in [Forms -> FormRecs] /\ form[f] \in FormRecs
  BY Types
<1>3. form' = [form EXCEPT ![f] = new]
  BY <1>2 DEF Send
<1>4. rec \in Recs /\ rec.op = op /\ rec.form = f /\ rec.quote = quote /\ rec.body = body
      /\ rec.key = key /\ rec.order = order /\ rec.token = token /\ rec.answer = "none"
      /\ rec.end = "waiting"
  BY <1>2 DEF Recs, FormRecs
<1>5. /\ new \in FormRecs /\ new.quote = form[f].quote /\ new.body = form[f].body
      /\ new.key = form[f].key /\ new.busy = "write"
  BY <1>2 DEF FormRecs
<1> HIDE DEF rec, new
<1>6. /\ write' \in [Writes -> Recs \union {NoWrite}] /\ write'[w] = rec
      /\ \A v \in Writes : v # w => write'[v] = write[v]
  BY <1>1, <1>4, Types
<1>7. \A g \in Forms :
           /\ form'[g].quote = form[g].quote /\ form'[g].body = form[g].body
           /\ form'[g].key = form[g].key
           /\ form'[g].busy = "quote" => form'[g].asking \in Bodies
  BY <1>2, <1>3, <1>5 DEF IInv, FormsFit
<1>8. form' \in [Forms -> FormRecs]
  BY <1>2, <1>3, <1>5
<1>9. quotes' \in Nat /\ quotes <= quotes'
  BY <1>1, Types, PageAssumption
<1>10. FormsFit'
  BY <1>7, <1>9, FormsKept
<1>11. TypeOK'
  BY <1>1, <1>6, <1>8, Types, Typed
<1>12. /\ Sent(w)' /\ (Creates(w)' <=> op = "create")
       /\ \A v \in Writes : v # w => (Sent(v)' <=> Sent(v)) /\ (Creates(v)' <=> Creates(v))
       /\ \A v \in Writes : Sent(v) => v # w
  BY <1>1, <1>4, <1>6 DEF Sent, Creates
<1>13. CreatesFit'
  <2> SUFFICES ASSUME NEW v \in Writes, Creates(v)'
               PROVE  /\ Fits(write[v].quote, write[v].body)'
                      /\ write'[v].key = IF write'[v].form = "center"
                                         THEN <<"quote", write'[v].quote.no>> ELSE <<"click", v>>
                      /\ write'[v].token # None =>
                           /\ write'[v].token = v /\ write'[v].answer = "ok"
                           /\ made[write'[v].order] = v
    BY <1>1 DEF CreatesFit
  <2>1. CASE v = w
    <3>1. op = "create"
      BY <1>12, <2>1
    <3>2. Fits(quote, body) /\ token = None
          /\ key = IF f = "center" THEN <<"quote", quote.no>> ELSE <<"click", w>>
      BY <3>1
    <3> QED BY <1>1, <1>4, <1>6, <2>1, <3>2 DEF Fits
  <2>2. CASE v # w
    <3>1. write'[v] = write[v] /\ Creates(v)
      BY <1>6, <1>12, <2>2
    <3> QED BY <1>1, <3>1 DEF IInv, CreatesFit, Fits
  <2> QED BY <2>1, <2>2
<1>14. \A o \in OrderIds : made[o] # None => made[o] \in Writes /\ made[o] # w /\ write'[made[o]] = write[made[o]]
  BY <1>6, <1>12, Types DEF IInv, BookFits, Creates
<1>15. ActsFit'
  <2> SUFFICES ASSUME NEW v \in Writes, Sent(v)', write'[v].op # "create"
               PROVE  /\ write'[v].order \in OrderIds
                      /\ made[write'[v].order] # None
                      /\ write'[made[write'[v].order]].end = "heard"
    BY <1>1 DEF ActsFit, Heard
  <2>1. write'[v].order \in OrderIds /\ made[write'[v].order] # None
        /\ write[made[write'[v].order]].end = "heard"
    BY <1>4, <1>6, <1>12 DEF IInv, ActsFit, Heard
  <2> QED BY <1>14, <2>1
<1>16. AnswersFit'
  BY <1>1, <1>4, <1>6, <1>12 DEF IInv, AnswersFit, Heard
<1>17. NumbersFit'
  <2>1. \A v \in Writes, g \in Forms :
          Creates(v)' /\ form[g].quote # None /\ write'[v].quote.no = form[g].quote.no
          => write'[v].form = g
    BY <1>4, <1>6, <1>12 DEF IInv, NumbersFit
  <2>2. \A u, v \in Writes : Creates(u)' /\ Creates(v)' /\ write'[u].quote.no = write'[v].quote.no
          => write'[u].form = write'[v].form
    BY <1>4, <1>6, <1>12 DEF IInv, NumbersFit
  <2> QED BY <1>7, <2>1, <2>2 DEF IInv, NumbersFit
<1>18. BookFits'
  <2>1. \A o \in OrderIds : made[o] # None =>
            /\ Creates(made[o])' /\ write'[made[o]].answer = "ok"
            /\ write'[made[o]].order = o /\ write'[made[o]].token = made[o]
            /\ owner[write'[made[o]].key] = o
    <3> SUFFICES ASSUME NEW o \in OrderIds, made[o] # None
                 PROVE  /\ Creates(made[o])' /\ write'[made[o]].answer = "ok"
                        /\ write'[made[o]].order = o /\ write'[made[o]].token = made[o]
                        /\ owner[write'[made[o]].key] = o
      BY <1>1
    <3>1. /\ Creates(made[o]) /\ write[made[o]].answer = "ok"
          /\ write[made[o]].order = o /\ write[made[o]].token = made[o]
          /\ owner[write[made[o]].key] = o
      BY DEF IInv, BookFits
    <3>2. write'[made[o]] = write[made[o]]
      BY <1>14
    <3> QED BY <1>1, <3>1, <3>2 DEF Creates, Sent
  <2>2. \A o \in OrderIds : state[o] = "DELETED" =>
            \E v \in Writes : Sent(v)' /\ write'[v].op = "delete" /\ write'[v].order = o
    <3> SUFFICES ASSUME NEW o \in OrderIds, state[o] = "DELETED"
                 PROVE  \E v \in Writes : Sent(v)' /\ write'[v].op = "delete" /\ write'[v].order = o
      OBVIOUS
    <3>1. PICK v \in Writes : Sent(v) /\ write[v].op = "delete" /\ write[v].order = o
      BY DEF IInv, BookFits
    <3>2. write'[v] = write[v] /\ Sent(v)'
      BY <1>6, <1>12, <3>1
    <3> QED BY <3>1, <3>2
  <2>3. \A o \in OrderIds : tokens[o] # None => Heard(made[o])'
    <3> SUFFICES ASSUME NEW o \in OrderIds, tokens[o] # None PROVE write'[made[o]].end = "heard"
      BY <1>1 DEF Heard
    <3>1. made[o] # None
      BY DEF IInv, TokensUsable
    <3> QED BY <1>14, <3>1 DEF IInv, BookFits, Heard
  <2> QED BY <1>1, <2>1, <2>2, <2>3 DEF IInv, BookFits, Heard
<1>19. TokensUsable'
  <2> SUFFICES ASSUME NEW o \in OrderIds
               PROVE  /\ tokens[o] # None => tokens[o] = made[o]
                      /\ made[o] # None /\ write'[made[o]].end = "heard" /\ state[o] # "DELETED"
                           => tokens[o] # None
                      /\ tokens[o] # None /\ state[o] = "DELETED"
                           => \E v \in Writes : /\ Sent(v)' /\ write'[v].op = "delete"
                                                /\ write'[v].order = o /\ write'[v].end # "heard"
    BY <1>1, <1>11 DEF TokensUsable
  <2>1. /\ tokens[o] # None => tokens[o] = made[o]
        /\ made[o] # None /\ write'[made[o]].end = "heard" /\ state[o] # "DELETED"
             => tokens[o] # None
    BY <1>14 DEF IInv, TokensUsable
  <2>2. ASSUME tokens[o] # None, state[o] = "DELETED"
        PROVE  \E v \in Writes : /\ Sent(v)' /\ write'[v].op = "delete"
                                 /\ write'[v].order = o /\ write'[v].end # "heard"
    <3>1. PICK v \in Writes : Sent(v) /\ write[v].op = "delete" /\ write[v].order = o
                              /\ write[v].end # "heard"
      BY <2>2 DEF IInv, TokensUsable
    <3>2. write'[v] = write[v] /\ Sent(v)'
      BY <1>6, <1>12, <3>1
    <3> QED BY <3>1, <3>2
  <2> QED BY <2>1, <2>2
<1>20. ShownFit'
  BY <1>1 DEF IInv, ShownFit
<1> QED BY <1>6, <1>10, <1>13, <1>15, <1>16, <1>17, <1>18, <1>19, <1>20 DEF IInv

\* A creation is sent with the quote its form shows.
LEMMA ConfirmStep ==
  ASSUME IInv, NEW f \in Forms, NEW w \in Writes, Confirm(f, w)
  PROVE  IInv'
<1>1. /\ form[f].quote # None
      /\ Send(w, "create", f, form[f].quote, form[f].body, KeyOf(f, w), None, None)
      /\ UNCHANGED <<server, app, shown, bounds>>
  BY DEF Confirm
<1>2. form[f] \in FormRecs
  BY Types
<1>3. Fits(form[f].quote, form[f].body)
      /\ (f = "center" => form[f].key = <<"quote", form[f].quote.no>>)
  BY <1>1 DEF IInv, FormsFit
<1>4. /\ form[f].quote \in Quotes \union {None} /\ form[f].body \in Bodies \union {None}
      /\ form[f].key \in Keys \union {None}
  BY <1>2 DEF FormRecs
<1>5. KeyOf(f, w) = IF f = "center" THEN <<"quote", form[f].quote.no>> ELSE <<"click", w>>
  BY <1>3 DEF KeyOf
<1>6. KeyOf(f, w) \in Keys \union {None}
  BY <1>4 DEF KeyOf, Keys
<1> QED BY <1>1, <1>3, <1>4, <1>5, <1>6, SendStep

\* A cancellation or deletion is sent with a token, so its creation was heard of.
LEMMA ActStep ==
  ASSUME IInv, NEW op \in {"cancel", "delete"}, NEW w \in Writes, Act(op, w)
  PROVE  IInv'
<1>1. /\ detail # None /\ tokens[detail.order] # None
      /\ Send(w, op, "center", None, None, None, detail.order, tokens[detail.order])
      /\ UNCHANGED <<server, app, shown, bounds>>
  BY DEF Act
<1>2. detail.order \in OrderIds /\ tokens[detail.order] \in Writes \union {None}
  BY <1>1, Types
<1>3. made[detail.order] # None /\ Heard(made[detail.order])
  BY <1>1, <1>2 DEF IInv, TokensUsable, BookFits
<1>4. "center" \in Forms /\ op \in {"create", "cancel", "delete"} /\ op # "create"
  BY DEF Forms
<1> QED BY <1>1, <1>2, <1>3, <1>4, SendStep

-----------------------------------------------------------------------------
(* Writes are served, and heard of.                                        *)

\* A write that was sent keeps what it was sent with.
LEMMA WriteKept ==
  ASSUME IInv, NEW w \in Writes, Sent(w), NEW rec \in Recs,
         write' = [write EXCEPT ![w] = rec],
         rec.op = write[w].op, rec.form = write[w].form, rec.quote = write[w].quote,
         \A f \in Forms : form'[f].quote # None => form'[f].quote = form[f].quote
  PROVE  /\ write' \in [Writes -> Recs \union {NoWrite}] /\ write'[w] = rec
         /\ \A v \in Writes : v # w => write'[v] = write[v]
         /\ \A v \in Writes : (Sent(v)' <=> Sent(v)) /\ (Creates(v)' <=> Creates(v))
         /\ \A v \in Writes : write'[v].op = write[v].op
         /\ NumbersFit'
<1>1. /\ write' \in [Writes -> Recs \union {NoWrite}] /\ write'[w] = rec
      /\ \A v \in Writes : v # w => write'[v] = write[v]
  BY Types
<1>2. \A v \in Writes : write'[v].op = write[v].op
  BY <1>1
<1>3. \A v \in Writes : (Sent(v)' <=> Sent(v)) /\ (Creates(v)' <=> Creates(v))
  BY <1>2 DEF Sent, Creates
<1>4. \A v \in Writes : write'[v].quote = write[v].quote /\ write'[v].form = write[v].form
  BY <1>1
<1>5. NumbersFit'
  BY <1>3, <1>4, NumbersKept
<1> QED BY <1>1, <1>2, <1>3, <1>5

\* A write that places no order is served: what its answer says, and what is
\* deleted with it.
LEMMA ServedStep ==
  ASSUME IInv, NEW w \in Writes, Sent(w), write[w].answer = "none", NEW rec \in Recs,
         write' = [write EXCEPT ![w] = rec],
         rec.op = write[w].op, rec.form = write[w].form, rec.quote = write[w].quote,
         rec.body = write[w].body, rec.key = write[w].key, rec.end = write[w].end,
         rec.op = "create" => rec.token = None,
         rec.op # "create" => rec.order = write[w].order,
         UNCHANGED <<owner, made, app, form, shown, bounds>>,
         state' \in [OrderIds -> Statuses \union {"ABSENT"}],
         \A o \in OrderIds :
           /\ state'[o] = "ABSENT" <=> state[o] = "ABSENT"
           /\ state[o] = "DELETED" => state'[o] = "DELETED"
           /\ state'[o] = "DELETED" /\ state[o] # "DELETED" => rec.op = "delete" /\ rec.order = o,
         rec.answer = "ok" =>
           /\ rec.order \in OrderIds /\ state'[rec.order] # "ABSENT"
           /\ rec.op # "delete" => rec.status \in {"CONFIRMED", "CANCELLED"}
           /\ rec.op = "delete" => state'[rec.order] = "DELETED"
  PROVE  IInv'
<1>1. UNCHANGED <<owner, made, view, draft, tokens, first, form, selected, detail, load,
                  quotes, edits>>
  BY DEF app, shown, bounds
<1>2. /\ write' \in [Writes -> Recs \union {NoWrite}] /\ write'[w] = rec
      /\ \A v \in Writes : v # w => write'[v] = write[v]
      /\ \A v \in Writes : (Sent(v)' <=> Sent(v)) /\ (Creates(v)' <=> Creates(v))
      /\ \A v \in Writes : write'[v].op = write[v].op
      /\ NumbersFit'
  BY <1>1, WriteKept
<1>3. TypeOK'
  BY <1>1, <1>2, Types, Typed
<1>4. ~Heard(w) /\ rec.end # "heard"
  BY DEF IInv, AnswersFit, Heard
<1>5. \A o \in OrderIds : made[o] # None =>
        made[o] \in Writes /\ made[o] # w /\ write'[made[o]] = write[made[o]]
  BY <1>2, Types DEF IInv, BookFits
<1>6. FormsFit'
  <2>1. \A f \in Forms : form[f].busy = "quote" => form[f].asking \in Bodies
    BY DEF IInv, FormsFit
  <2>2. quotes' \in Nat /\ quotes <= quotes'
    BY <1>1, Types, PageAssumption
  <2> QED BY <1>1, <2>1, <2>2, FormsKept
<1>7. CreatesFit'
  <2> SUFFICES ASSUME NEW v \in Writes, Creates(v)
               PROVE  /\ Fits(write'[v].quote, write'[v].body)
                      /\ write'[v].key = IF write'[v].form = "center"
                                         THEN <<"quote", write'[v].quote.no>> ELSE <<"click", v>>
                      /\ write'[v].token # None =>
                           /\ write'[v].token = v /\ write'[v].answer = "ok"
                           /\ made[write'[v].order] = v
    BY <1>1, <1>2 DEF CreatesFit, Fits
  <2>1. /\ Fits(write[v].quote, write[v].body)
        /\ write[v].key = IF write[v].form = "center"
                          THEN <<"quote", write[v].quote.no>> ELSE <<"click", v>>
        /\ write[v].token # None =>
             /\ write[v].token = v /\ write[v].answer = "ok"
             /\ made[write[v].order] = v
    BY DEF IInv, CreatesFit
  <2>2. CASE v = w
    BY <1>2, <2>1, <2>2 DEF Creates
  <2>3. CASE v # w
    BY <1>2, <2>1, <2>3
  <2> QED BY <2>2, <2>3
<1>8. ActsFit'
  <2> SUFFICES ASSUME NEW v \in Writes, Sent(v), write[v].op # "create"
               PROVE  /\ write'[v].order \in OrderIds
                      /\ made[write'[v].order] # None
                      /\ write'[made[write'[v].order]].end = "heard"
    BY <1>1, <1>2 DEF ActsFit, Heard
  <2>1. /\ write[v].order \in OrderIds /\ made[write[v].order] # None
        /\ write[made[write[v].order]].end = "heard"
    BY DEF IInv, ActsFit, Heard
  <2>2. write'[v].order = write[v].order
    BY <1>2
  <2> QED BY <1>5, <2>1, <2>2
<1>9. AnswersFit'
  <2> SUFFICES ASSUME NEW v \in Writes, Sent(v)
               PROVE  /\ write'[v].answer = "ok" =>
                           /\ write'[v].order \in OrderIds /\ state'[write'[v].order] # "ABSENT"
                           /\ write'[v].op # "delete" => write'[v].status \in {"CONFIRMED", "CANCELLED"}
                           /\ write'[v].op = "delete" => state'[write'[v].order] = "DELETED"
                      /\ write'[v].end = "heard" => write'[v].answer = "ok"
    BY <1>2 DEF AnswersFit, Heard
  <2>1. CASE v = w
    BY <1>2, <1>4, <2>1
  <2>2. CASE v # w
    BY <1>2, <2>2 DEF IInv, AnswersFit, Heard
  <2> QED BY <2>1, <2>2
<1>10. \A o \in OrderIds : state'[o] = "DELETED" =>
         \E v \in Writes : Sent(v)' /\ write'[v].op = "delete" /\ write'[v].order = o
  <2> SUFFICES ASSUME NEW o \in OrderIds, state'[o] = "DELETED"
               PROVE  \E v \in Writes : Sent(v)' /\ write'[v].op = "delete" /\ write'[v].order = o
    OBVIOUS
  <2>1. CASE state[o] # "DELETED"
    BY <1>2, <2>1
  <2>2. CASE state[o] = "DELETED"
    <3>1. PICK v \in Writes : Sent(v) /\ write[v].op = "delete" /\ write[v].order = o
      BY <2>2 DEF IInv, BookFits
    <3>2. write'[v].order = o
      BY <1>2, <3>1
    <3> QED BY <1>2, <3>1, <3>2
  <2> QED BY <2>1, <2>2
<1>11. BookFits'
  <2>1. \A o \in OrderIds : made[o] # None =>
            /\ Creates(made[o])' /\ write'[made[o]].answer = "ok"
            /\ write'[made[o]].order = o /\ write'[made[o]].token = made[o]
            /\ owner[write'[made[o]].key] = o
    <3> SUFFICES ASSUME NEW o \in OrderIds, made[o] # None
                 PROVE  /\ Creates(made[o])' /\ write'[made[o]].answer = "ok"
                        /\ write'[made[o]].order = o /\ write'[made[o]].token = made[o]
                        /\ owner[write'[made[o]].key] = o
      BY <1>1
    <3>1. /\ Creates(made[o]) /\ write[made[o]].answer = "ok"
          /\ write[made[o]].order = o /\ write[made[o]].token = made[o]
          /\ owner[write[made[o]].key] = o
      BY DEF IInv, BookFits
    <3>2. write'[made[o]] = write[made[o]]
      BY <1>5
    <3> QED BY <1>1, <3>1, <3>2 DEF Creates, Sent
  <2>2. \A o \in OrderIds : tokens[o] # None => write'[made[o]].end = "heard"
    <3> SUFFICES ASSUME NEW o \in OrderIds, tokens[o] # None PROVE write'[made[o]].end = "heard"
      OBVIOUS
    <3>1. made[o] # None
      BY DEF IInv, TokensUsable
    <3> QED BY <1>5, <3>1 DEF IInv, BookFits, Heard
  <2>3. \A o \in OrderIds : state'[o] = "ABSENT" <=> made[o] = None
    BY DEF IInv, BookFits
  <2>4. \A k \in Keys : owner[k] # None => state'[owner[k]] # "ABSENT"
    BY Types DEF IInv, BookFits
  <2> QED BY <1>1, <1>10, <2>1, <2>2, <2>3, <2>4 DEF BookFits, Heard
<1>12. TokensUsable'
  <2> SUFFICES ASSUME NEW o \in OrderIds
               PROVE  /\ tokens[o] # None => tokens[o] = made[o]
                      /\ made[o] # None /\ write'[made[o]].end = "heard" /\ state'[o] # "DELETED"
                           => tokens[o] # None
                      /\ tokens[o] # None /\ state'[o] = "DELETED"
                           => \E v \in Writes : /\ Sent(v)' /\ write'[v].op = "delete"
                                                /\ write'[v].order = o /\ write'[v].end # "heard"
    BY <1>1, <1>3 DEF TokensUsable
  <2>1. /\ tokens[o] # None => tokens[o] = made[o]
        /\ made[o] # None /\ write'[made[o]].end = "heard" /\ state'[o] # "DELETED"
             => tokens[o] # None
    BY <1>5 DEF IInv, TokensUsable
  <2>2. ASSUME tokens[o] # None, state'[o] = "DELETED"
        PROVE  \E v \in Writes : /\ Sent(v)' /\ write'[v].op = "delete"
                                 /\ write'[v].order = o /\ write'[v].end # "heard"
    <3>1. CASE state[o] # "DELETED"
      BY <1>2, <1>4, <2>2, <3>1
    <3>2. CASE state[o] = "DELETED"
      <4>1. PICK v \in Writes : Sent(v) /\ write[v].op = "delete" /\ write[v].order = o
                                /\ write[v].end # "heard"
        BY <2>2, <3>2 DEF IInv, TokensUsable
      <4>2. write'[v].order = o /\ write'[v].end # "heard"
        BY <1>2, <1>4, <4>1
      <4> QED BY <1>2, <4>1, <4>2
    <3> QED BY <3>1, <3>2
  <2> QED BY <2>1, <2>2
<1>13. ShownFit'
  <2>1. selected # None => selected \in OrderIds
    BY Types
  <2>2. first # None => first \in OrderIds
    BY Types
  <2>3. load # None => load.order \in OrderIds
    BY Types
  <2> QED BY <1>1, <2>1, <2>2, <2>3 DEF IInv, ShownFit
<1> QED BY <1>2, <1>6, <1>7, <1>8, <1>9, <1>11, <1>12, <1>13 DEF IInv

\* The first request with a key places an order: nothing was known of it.
LEMMA PlacedStep ==
  ASSUME IInv, NEW w \in Writes, NEW new \in OrderIds, Creates(w), write[w].answer = "none",
         Book!Place(write[w].key, new), made' = [made EXCEPT ![new] = w],
         Accept(w, new, w, "CONFIRMED"), UNCHANGED <<app, form, shown, bounds>>
  PROVE  IInv'
<1> DEFINE rec == [write[w] EXCEPT !.answer = "ok", !.order = new, !.token = w,
                                   !.status = "CONFIRMED"]
           k == write[w].key
<1>1. /\ UNCHANGED <<view, draft, tokens, first, form, selected, detail, load, quotes, edits>>
      /\ Sent(w) /\ write[w].op = "create" /\ write[w] \in Recs
      /\ owner[k] = None /\ state[new] = "ABSENT"
      /\ state' = [state EXCEPT ![new] = "CONFIRMED"]
      /\ owner' = [owner EXCEPT ![k] = new]
  BY Types DEF app, shown, bounds, Creates, Book!Place
<1>2. write' = [write EXCEPT ![w] = rec]
  BY <1>1, Types DEF Accept
<1>3. /\ rec \in Recs /\ rec.op = "create" /\ rec.form = write[w].form /\ rec.quote = write[w].quote
      /\ rec.body = write[w].body /\ rec.key = k /\ rec.end = write[w].end
      /\ rec.answer = "ok" /\ rec.order = new /\ rec.token = w /\ rec.status = "CONFIRMED"
  BY <1>1 DEF Recs, Statuses
<1> HIDE DEF rec
<1>4. k \in Keys
  <2>1. Fits(write[w].quote, write[w].body)
        /\ k = IF write[w].form = "center" THEN <<"quote", write[w].quote.no>> ELSE <<"click", w>>
    BY DEF IInv, CreatesFit
  <2>2. write[w].quote.no \in 1 .. MaxQuotes
    BY <2>1 DEF Fits, Quotes
  <2> QED BY <2>1, <2>2 DEF Keys
<1>5. /\ write' \in [Writes -> Recs \union {NoWrite}] /\ write'[w] = rec
      /\ \A v \in Writes : v # w => write'[v] = write[v]
      /\ \A v \in Writes : (Sent(v)' <=> Sent(v)) /\ (Creates(v)' <=> Creates(v))
      /\ \A v \in Writes : write'[v].op = write[v].op
      /\ NumbersFit'
  BY <1>1, <1>2, <1>3, WriteKept
<1>6. /\ state' \in [OrderIds -> Statuses \union {"ABSENT"}] /\ state'[new] = "CONFIRMED"
      /\ owner' \in [Keys -> OrderIds \union {None}] /\ owner'[k] = new
      /\ made' \in [OrderIds -> Writes \union {None}] /\ made'[new] = w
      /\ \A o \in OrderIds : o # new => state'[o] = state[o] /\ made'[o] = made[o]
      /\ \A j \in Keys : j # k => owner'[j] = owner[j]
  BY <1>1, <1>4, Types DEF Statuses
<1>7. TypeOK'
  BY <1>1, <1>5, <1>6, Types, Typed
<1>8. /\ made[new] = None /\ tokens[new] = None /\ ~Heard(w) /\ rec.end # "heard"
      /\ None \notin Writes /\ None \notin OrderIds
  BY <1>1, <1>3, PageAssumption DEF IInv, BookFits, TokensUsable, AnswersFit, Heard, Writes
<1>9. \A o \in OrderIds : made[o] # None =>
        made[o] \in Writes /\ made[o] # w /\ o # new /\ write'[made[o]] = write[made[o]]
  BY <1>5, <1>8, Types DEF IInv, BookFits
<1>10. FormsFit'
  <2>1. \A f \in Forms : form[f].busy = "quote" => form[f].asking \in Bodies
    BY DEF IInv, FormsFit
  <2>2. quotes' \in Nat /\ quotes <= quotes'
    BY <1>1, Types, PageAssumption
  <2> QED BY <1>1, <2>1, <2>2, FormsKept
<1>11. CreatesFit'
  <2> SUFFICES ASSUME NEW v \in Writes, Creates(v)
               PROVE  /\ Fits(write'[v].quote, write'[v].body)
                      /\ write'[v].key = IF write'[v].form = "center"
                                         THEN <<"quote", write'[v].quote.no>> ELSE <<"click", v>>
                      /\ write'[v].token # None =>
                           /\ write'[v].token = v /\ write'[v].answer = "ok"
                           /\ made'[write'[v].order] = v
    BY <1>1, <1>5 DEF CreatesFit, Fits
  <2>1. /\ Fits(write[v].quote, write[v].body)
        /\ write[v].key = IF write[v].form = "center"
                          THEN <<"quote", write[v].quote.no>> ELSE <<"click", v>>
        /\ write[v].token # None =>
             /\ write[v].token = v /\ write[v].answer = "ok"
             /\ made[write[v].order] = v
    BY DEF IInv, CreatesFit
  <2>2. CASE v = w
    BY <1>3, <1>5, <1>6, <2>1, <2>2
  <2>3. CASE v # w
    <3>1. write[v].token # None => write[v].order \in OrderIds /\ write[v].order # new
      BY <1>8, <2>1 DEF IInv, AnswersFit, Creates
    <3> QED BY <1>5, <1>6, <2>1, <2>3, <3>1
  <2> QED BY <2>2, <2>3
<1>12. ActsFit'
  <2> SUFFICES ASSUME NEW v \in Writes, Sent(v), write[v].op # "create"
               PROVE  /\ write'[v].order \in OrderIds
                      /\ made'[write'[v].order] # None
                      /\ write'[made'[write'[v].order]].end = "heard"
    BY <1>5 DEF ActsFit, Heard
  <2>1. /\ write[v].order \in OrderIds /\ made[write[v].order] # None
        /\ write[made[write[v].order]].end = "heard"
    BY DEF IInv, ActsFit, Heard
  <2>2. write'[v] = write[v]
    BY <1>1, <1>5
  <2> QED BY <1>6, <1>9, <2>1, <2>2
<1>13. AnswersFit'
  <2> SUFFICES ASSUME NEW v \in Writes, Sent(v)
               PROVE  /\ write'[v].answer = "ok" =>
                           /\ write'[v].order \in OrderIds /\ state'[write'[v].order] # "ABSENT"
                           /\ write'[v].op # "delete" => write'[v].status \in {"CONFIRMED", "CANCELLED"}
                           /\ write'[v].op = "delete" => state'[write'[v].order] = "DELETED"
                      /\ write'[v].end = "heard" => write'[v].answer = "ok"
    BY <1>5 DEF AnswersFit, Heard
  <2>1. CASE v = w
    BY <1>3, <1>5, <1>6, <1>8, <2>1
  <2>2. CASE v # w
    BY <1>1, <1>5, <1>6, <2>2 DEF IInv, AnswersFit, Heard
  <2> QED BY <2>1, <2>2
<1>14. BookFits'
  <2>1. ASSUME NEW o \in OrderIds, made'[o] # None
        PROVE  /\ Creates(made'[o]) /\ write'[made'[o]].answer = "ok"
               /\ write'[made'[o]].order = o /\ write'[made'[o]].token = made'[o]
               /\ owner'[write'[made'[o]].key] = o /\ made'[o] \in Writes
    <3>1. CASE o = new
      BY <1>3, <1>5, <1>6, <3>1
    <3>2. CASE o # new
      <4>1. /\ Creates(made[o]) /\ write[made[o]].answer = "ok"
            /\ write[made[o]].order = o /\ write[made[o]].token = made[o]
            /\ owner[write[made[o]].key] = o /\ made[o] \in Writes
        BY <1>6, <2>1, <3>2, Types DEF IInv, BookFits
      <4>2. write[made[o]].key # k
        BY <1>1, <1>8, <4>1
      <4>3. write[made[o]].key \in Keys
        <5>1. Fits(write[made[o]].quote, write[made[o]].body)
              /\ write[made[o]].key = IF write[made[o]].form = "center"
                   THEN <<"quote", write[made[o]].quote.no>> ELSE <<"click", made[o]>>
          BY <4>1 DEF IInv, CreatesFit
        <5>2. write[made[o]].quote.no \in 1 .. MaxQuotes
          BY <5>1 DEF Fits, Quotes
        <5> QED BY <4>1, <5>1, <5>2 DEF Keys
      <4> QED BY <1>6, <1>9, <2>1, <3>2, <4>1, <4>2, <4>3
    <3> QED BY <3>1, <3>2
  <2>2. \A o \in OrderIds : state'[o] = "ABSENT" <=> made'[o] = None
    BY <1>6, <1>8 DEF IInv, BookFits
  <2>3. \A o \in OrderIds : state'[o] = "DELETED" =>
          \E v \in Writes : Sent(v)' /\ write'[v].op = "delete" /\ write'[v].order = o
    <3> SUFFICES ASSUME NEW o \in OrderIds, state'[o] = "DELETED"
                 PROVE  \E v \in Writes : Sent(v)' /\ write'[v].op = "delete" /\ write'[v].order = o
      OBVIOUS
    <3>1. PICK v \in Writes : Sent(v) /\ write[v].op = "delete" /\ write[v].order = o
      BY <1>6 DEF IInv, BookFits
    <3>2. write'[v] = write[v]
      BY <1>1, <1>5, <3>1
    <3> QED BY <1>5, <3>1, <3>2
  <2>4. \A o \in OrderIds : tokens[o] # None => write'[made'[o]].end = "heard"
    <3> SUFFICES ASSUME NEW o \in OrderIds, tokens[o] # None PROVE write'[made'[o]].end = "heard"
      OBVIOUS
    <3>1. made[o] # None
      BY DEF IInv, TokensUsable
    <3> QED BY <1>6, <1>9, <3>1 DEF IInv, BookFits, Heard
  <2>5. \A j \in Keys : owner'[j] # None => state'[owner'[j]] # "ABSENT"
    BY <1>1, <1>6, Types DEF IInv, BookFits
  <2>6. \A o \in OrderIds : made'[o] # None => Creates(made[o])'
    BY <1>5, <2>1 DEF Creates, Sent
  <2> QED BY <1>1, <2>1, <2>2, <2>3, <2>4, <2>5, <2>6 DEF BookFits, Heard
<1>15. TokensUsable'
  <2> SUFFICES ASSUME NEW o \in OrderIds
               PROVE  /\ tokens[o] # None => tokens[o] = made'[o]
                      /\ made'[o] # None /\ write'[made'[o]].end = "heard" /\ state'[o] # "DELETED"
                           => tokens[o] # None
                      /\ tokens[o] # None /\ state'[o] = "DELETED"
                           => \E v \in Writes : /\ Sent(v)' /\ write'[v].op = "delete"
                                                /\ write'[v].order = o /\ write'[v].end # "heard"
    BY <1>1, <1>7 DEF TokensUsable
  <2>1. CASE o = new
    BY <1>5, <1>6, <1>8, <2>1
  <2>2. CASE o # new
    <3>1. /\ tokens[o] # None => tokens[o] = made'[o]
          /\ made'[o] # None /\ write'[made'[o]].end = "heard" /\ state'[o] # "DELETED"
               => tokens[o] # None
      BY <1>6, <1>9, <2>2 DEF IInv, TokensUsable
    <3>2. ASSUME tokens[o] # None, state'[o] = "DELETED"
          PROVE  \E v \in Writes : /\ Sent(v)' /\ write'[v].op = "delete"
                                   /\ write'[v].order = o /\ write'[v].end # "heard"
      <4>1. PICK v \in Writes : Sent(v) /\ write[v].op = "delete" /\ write[v].order = o
                                /\ write[v].end # "heard"
        BY <1>6, <2>2, <3>2 DEF IInv, TokensUsable
      <4>2. write'[v] = write[v]
        BY <1>1, <1>5, <4>1
      <4> QED BY <1>5, <4>1, <4>2
    <3> QED BY <3>1, <3>2
  <2> QED BY <2>1, <2>2
<1>16. ShownFit'
  <2>1. \A o \in OrderIds : state[o] # "ABSENT" => state'[o] # "ABSENT"
    BY <1>6
  <2>2. /\ selected # None => selected \in OrderIds
        /\ first # None => first \in OrderIds
        /\ load # None => load.order \in OrderIds
    BY Types
  <2> QED BY <1>1, <2>1, <2>2 DEF IInv, ShownFit
<1> QED BY <1>5, <1>10, <1>11, <1>12, <1>13, <1>14, <1>15, <1>16 DEF IInv

\* A creation is served: an order is placed, shown again, or refused.
LEMMA ServeCreateStep ==
  ASSUME IInv, NEW w \in Writes, Sent(w), write[w].answer = "none", write[w].op = "create",
         ServeCreate(w), UNCHANGED <<app, form, shown, bounds>>
  PROVE  IInv'
<1> DEFINE o == owner[write[w].key]
<1>1. write[w] \in Recs /\ Creates(w)
  BY Types DEF Creates
<1>2. write[w].token = None
  BY <1>1 DEF IInv, CreatesFit
<1>3. o # None => o \in OrderIds /\ state[o] # "ABSENT"
  <2>1. Fits(write[w].quote, write[w].body)
        /\ write[w].key = IF write[w].form = "center" THEN <<"quote", write[w].quote.no>>
                                                      ELSE <<"click", w>>
    BY <1>1 DEF IInv, CreatesFit
  <2>2. write[w].quote.no \in 1 .. MaxQuotes
    BY <2>1 DEF Fits, Quotes
  <2>3. write[w].key \in Keys
    BY <2>1, <2>2 DEF Keys
  <2> QED BY <2>3, Types DEF IInv, BookFits
<1>4. CASE \E new \in OrderIds :
             /\ Book!Place(write[w].key, new) /\ made' = [made EXCEPT ![new] = w]
             /\ Accept(w, new, w, "CONFIRMED")
  BY <1>1, <1>4, PlacedStep
<1>5. CASE o # None /\ state[o] # "DELETED" /\ Accept(w, o, None, state[o]) /\ UNCHANGED server
  <2> DEFINE rec == [write[w] EXCEPT !.answer = "ok", !.order = o, !.token = None,
                                     !.status = state[o]]
  <2>1. write' = [write EXCEPT ![w] = rec]
    BY <1>1, <1>5, Types DEF Accept
  <2>2. state[o] \in {"CONFIRMED", "CANCELLED"}
    BY <1>3, <1>5, Types DEF Statuses
  <2>3. /\ rec \in Recs /\ rec.op = "create" /\ rec.form = write[w].form
        /\ rec.quote = write[w].quote /\ rec.body = write[w].body /\ rec.key = write[w].key
        /\ rec.end = write[w].end /\ rec.token = None /\ rec.order = o /\ rec.status = state[o]
    BY <1>1, <1>3, <1>5, <2>2 DEF Recs, Statuses
  <2> HIDE DEF rec
  <2>4. UNCHANGED <<state, owner, made>>
    BY <1>5 DEF server
  <2> QED BY <1>3, <1>5, <2>1, <2>2, <2>3, <2>4, Types, ServedStep
<1>6. CASE Refuse(w)
  <2> DEFINE rec == [write[w] EXCEPT !.answer = "refused"]
  <2>1. write' = [write EXCEPT ![w] = rec]
    BY <1>1, <1>6, Types DEF Refuse
  <2>2. /\ rec \in Recs /\ rec.op = "create" /\ rec.form = write[w].form
        /\ rec.quote = write[w].quote /\ rec.body = write[w].body /\ rec.key = write[w].key
        /\ rec.end = write[w].end /\ rec.token = None /\ rec.answer = "refused"
    BY <1>1, <1>2 DEF Recs
  <2> HIDE DEF rec
  <2>3. UNCHANGED <<state, owner, made>>
    BY <1>6 DEF Refuse, server
  <2> QED BY <2>1, <2>2, <2>3, Types, ServedStep
<1> QED BY <1>4, <1>5, <1>6 DEF ServeCreate

\* A cancellation or deletion is served: it takes effect, or is refused.
LEMMA ServeActStep ==
  ASSUME IInv, NEW w \in Writes, Sent(w), write[w].answer = "none", write[w].op # "create",
         ServeAct(w), UNCHANGED <<app, form, shown, bounds>>
  PROVE  IInv'
<1> DEFINE o == write[w].order
           t == write[w].token
<1>1. write[w] \in Recs /\ o \in OrderIds /\ t \in Writes \union {None}
  BY Types DEF IInv, ActsFit, Recs
<1>2. CASE write[w].op = "cancel" /\ Book!Cancel(o) /\ Accept(w, o, t, "CANCELLED") /\ UNCHANGED made
  <2> DEFINE rec == [write[w] EXCEPT !.answer = "ok", !.order = o, !.token = t,
                                     !.status = "CANCELLED"]
  <2>1. write' = [write EXCEPT ![w] = rec]
    BY <1>1, <1>2, Types DEF Accept
  <2>2. /\ rec \in Recs /\ rec.op = "cancel" /\ rec.form = write[w].form
        /\ rec.quote = write[w].quote /\ rec.body = write[w].body /\ rec.key = write[w].key
        /\ rec.end = write[w].end /\ rec.order = o /\ rec.status = "CANCELLED"
    BY <1>1, <1>2 DEF Recs, Statuses
  <2> HIDE DEF rec
  <2>3. /\ state[o] = "CONFIRMED" /\ state' = [state EXCEPT ![o] = "CANCELLED"]
        /\ UNCHANGED <<owner, made>>
    BY <1>2 DEF Book!Cancel
  <2>4. /\ state' \in [OrderIds -> Statuses \union {"ABSENT"}] /\ state'[o] = "CANCELLED"
        /\ \A p \in OrderIds : p # o => state'[p] = state[p]
    BY <1>1, <2>3, Types DEF Statuses
  <2> QED BY <1>1, <1>2, <2>1, <2>2, <2>3, <2>4, ServedStep
<1>3. CASE write[w].op = "delete" /\ Book!Delete(o) /\ Accept(w, o, t, "DELETED") /\ UNCHANGED made
  <2> DEFINE rec == [write[w] EXCEPT !.answer = "ok", !.order = o, !.token = t,
                                     !.status = "DELETED"]
  <2>1. write' = [write EXCEPT ![w] = rec]
    BY <1>1, <1>3, Types DEF Accept
  <2>2. /\ rec \in Recs /\ rec.op = "delete" /\ rec.form = write[w].form
        /\ rec.quote = write[w].quote /\ rec.body = write[w].body /\ rec.key = write[w].key
        /\ rec.end = write[w].end /\ rec.order = o
    BY <1>1, <1>3 DEF Recs, Statuses
  <2> HIDE DEF rec
  <2>3. /\ state[o] \in {"CONFIRMED", "CANCELLED"} /\ state' = [state EXCEPT ![o] = "DELETED"]
        /\ UNCHANGED <<owner, made>>
    BY <1>3 DEF Book!Delete
  <2>4. /\ state' \in [OrderIds -> Statuses \union {"ABSENT"}] /\ state'[o] = "DELETED"
        /\ \A p \in OrderIds : p # o => state'[p] = state[p]
    BY <1>1, <2>3, Types DEF Statuses
  <2>5. \A p \in OrderIds :
           /\ state'[p] = "ABSENT" <=> state[p] = "ABSENT"
           /\ state[p] = "DELETED" => state'[p] = "DELETED"
           /\ state'[p] = "DELETED" /\ state[p] # "DELETED" => rec.op = "delete" /\ rec.order = p
    BY <2>2, <2>3, <2>4
  <2>6. rec.order \in OrderIds /\ state'[rec.order] # "ABSENT" /\ state'[rec.order] = "DELETED"
    BY <1>1, <2>2, <2>4
  <2>7. rec \in Recs /\ rec.op = write[w].op /\ rec.op = "delete" /\ rec.form = write[w].form
        /\ rec.quote = write[w].quote /\ rec.body = write[w].body /\ rec.key = write[w].key
        /\ rec.end = write[w].end /\ rec.order = write[w].order
    BY <1>3, <2>2
  <2>8. UNCHANGED <<owner, made>> /\ state' \in [OrderIds -> Statuses \union {"ABSENT"}]
    BY <2>3, <2>4
  <2> QED BY <2>1, <2>5, <2>6, <2>7, <2>8, ServedStep
<1>4. CASE Refuse(w)
  <2> DEFINE rec == [write[w] EXCEPT !.answer = "refused"]
  <2>1. write' = [write EXCEPT ![w] = rec]
    BY <1>1, <1>4, Types DEF Refuse
  <2>2. /\ rec \in Recs /\ rec.op = write[w].op /\ rec.form = write[w].form
        /\ rec.quote = write[w].quote /\ rec.body = write[w].body /\ rec.key = write[w].key
        /\ rec.end = write[w].end /\ rec.order = o /\ rec.answer = "refused"
    BY <1>1 DEF Recs
  <2> HIDE DEF rec
  <2>3. UNCHANGED <<state, owner, made>>
    BY <1>4 DEF Refuse, server
  <2> QED BY <2>1, <2>2, <2>3, Types, ServedStep
<1> QED BY <1>2, <1>3, <1>4 DEF ServeAct

LEMMA ServeStep ==
  ASSUME IInv, NEW w \in Writes, Serve(w)
  PROVE  IInv'
BY ServeCreateStep, ServeActStep DEF Serve

\* A write ends: its answer is heard, or it fails, for all the page knows.
LEMMA EndedStep ==
  ASSUME IInv, NEW w \in Writes, Sent(w), write[w].end = "waiting",
         NEW how \in {"heard", "failed"}, Ended(w, how),
         UNCHANGED <<server, view, bounds>>,
         how = "heard" => write[w].answer = "ok",
         tokens' \in [OrderIds -> Writes \union {None}],
         \A o \in OrderIds :
           /\ \/ tokens'[o] = tokens[o]
              \/ how = "heard" /\ made[o] = w /\ tokens'[o] = w
              \/ how = "heard" /\ tokens'[o] = None /\ state[o] = "DELETED"
           /\ how = "heard" /\ made[o] = w => tokens'[o] = w
           /\ how = "heard" /\ write[w].op = "delete" /\ write[w].order = o => tokens'[o] = None,
         form' \in [Forms -> FormRecs],
         \A f \in Forms :
           /\ form'[f].quote # None =>
                form'[f].quote = form[f].quote /\ form'[f].body = form[f].body
                /\ form'[f].key = form[f].key
           /\ form'[f].busy = "quote" => form'[f].asking \in Bodies,
         draft' \in BOOLEAN,
         first' \in OrderIds \union {None},
         selected' \in OrderIds \union {None},
         detail' \in [order : OrderIds, status : {"CONFIRMED", "CANCELLED"}] \union {None},
         load' \in [order : OrderIds, since : Statuses] \union {None},
         ShownFit'
  PROVE  IInv'
<1> DEFINE rec == [write[w] EXCEPT !.end = how, !.inst = 0]
<1>1. UNCHANGED <<state, owner, made, view, quotes, edits>>
  BY DEF server, bounds
<1>2. write[w] \in Recs /\ 0 \in 0 .. MaxMounts
  BY Types, PageAssumption
<1>3. write' = [write EXCEPT ![w] = rec]
  BY <1>2, Types DEF Ended
<1>4. /\ rec \in Recs /\ rec.op = write[w].op /\ rec.form = write[w].form
      /\ rec.quote = write[w].quote /\ rec.body = write[w].body /\ rec.key = write[w].key
      /\ rec.order = write[w].order /\ rec.token = write[w].token
      /\ rec.answer = write[w].answer /\ rec.status = write[w].status /\ rec.end = how
  BY <1>2 DEF Recs
<1> HIDE DEF rec
<1>5. /\ write' \in [Writes -> Recs \union {NoWrite}] /\ write'[w] = rec
      /\ \A v \in Writes : v # w => write'[v] = write[v]
      /\ \A v \in Writes : (Sent(v)' <=> Sent(v)) /\ (Creates(v)' <=> Creates(v))
      /\ NumbersFit'
  BY <1>3, <1>4, WriteKept
<1>6. \A v \in Writes :
        /\ write'[v].op = write[v].op /\ write'[v].form = write[v].form
        /\ write'[v].quote = write[v].quote /\ write'[v].body = write[v].body
        /\ write'[v].key = write[v].key /\ write'[v].order = write[v].order
        /\ write'[v].token = write[v].token /\ write'[v].answer = write[v].answer
        /\ write'[v].status = write[v].status
        /\ write[v].end = "heard" => v # w /\ write'[v].end = "heard"
        /\ write'[v].end # write[v].end => v = w /\ write'[v].end = how
  BY <1>4, <1>5
<1>7. TypeOK'
  BY <1>1, <1>5, Types, Typed
<1>8. FormsFit'
  <2>1. quotes' \in Nat /\ quotes <= quotes'
    BY <1>1, Types, PageAssumption
  <2> QED BY <2>1, FormsKept
<1>9. CreatesFit'
  BY <1>1, <1>5, <1>6 DEF IInv, CreatesFit, Fits
<1>10. \A o \in OrderIds : made[o] # None => made[o] \in Writes
  BY Types
<1>11. ActsFit'
  <2> SUFFICES ASSUME NEW v \in Writes, Sent(v), write[v].op # "create"
               PROVE  /\ write[v].order \in OrderIds
                      /\ made[write[v].order] # None
                      /\ write'[made[write[v].order]].end = "heard"
    BY <1>1, <1>5, <1>6 DEF ActsFit, Heard
  <2>1. /\ write[v].order \in OrderIds /\ made[write[v].order] # None
        /\ write[made[write[v].order]].end = "heard"
    BY DEF IInv, ActsFit, Heard
  <2> QED BY <1>6, <1>10, <2>1
<1>12. AnswersFit'
  <2> SUFFICES ASSUME NEW v \in Writes, Sent(v)
               PROVE  /\ write[v].answer = "ok" =>
                           /\ write[v].order \in OrderIds /\ state[write[v].order] # "ABSENT"
                           /\ write[v].op # "delete" => write[v].status \in {"CONFIRMED", "CANCELLED"}
                           /\ write[v].op = "delete" => state[write[v].order] = "DELETED"
                      /\ write'[v].end = "heard" => write[v].answer = "ok"
    BY <1>1, <1>5, <1>6 DEF AnswersFit, Heard
  <2>1. write'[v].end = "heard" => write[v].answer = "ok"
    BY <1>6 DEF IInv, AnswersFit, Heard
  <2> QED BY <2>1 DEF IInv, AnswersFit
<1>13. \A o \in OrderIds : tokens[o] # None =>
         tokens[o] = made[o] /\ made[o] \in Writes /\ write[made[o]].end = "heard"
  BY Types DEF IInv, TokensUsable, BookFits, Heard
<1>14. BookFits'
  <2>1. \A o \in OrderIds : made[o] # None =>
            /\ Creates(made[o])' /\ write'[made[o]].answer = "ok"
            /\ write'[made[o]].order = o /\ write'[made[o]].token = made[o]
            /\ owner[write'[made[o]].key] = o
    <3> SUFFICES ASSUME NEW o \in OrderIds, made[o] # None
                 PROVE  /\ Creates(made[o])' /\ write'[made[o]].answer = "ok"
                        /\ write'[made[o]].order = o /\ write'[made[o]].token = made[o]
                        /\ owner[write'[made[o]].key] = o
      BY <1>1
    <3>1. /\ Creates(made[o]) /\ write[made[o]].answer = "ok"
          /\ write[made[o]].order = o /\ write[made[o]].token = made[o]
          /\ owner[write[made[o]].key] = o
      BY DEF IInv, BookFits
    <3> QED BY <1>1, <1>6, <1>10, <3>1 DEF Creates, Sent
  <2>2. \A o \in OrderIds : state[o] = "DELETED" =>
          \E v \in Writes : Sent(v)' /\ write'[v].op = "delete" /\ write'[v].order = o
    BY <1>5, <1>6 DEF IInv, BookFits
  <2>3. ASSUME NEW o \in OrderIds, tokens'[o] # None
        PROVE  write'[made[o]].end = "heard"
    <3>1. CASE tokens'[o] = tokens[o]
      BY <1>6, <1>13, <2>3, <3>1
    <3>2. CASE how = "heard" /\ made[o] = w
      BY <1>4, <1>5, <3>2
    <3> QED BY <2>3, <3>1, <3>2
  <2> QED BY <1>1, <2>1, <2>2, <2>3 DEF IInv, BookFits, Heard
<1>15. TokensUsable'
  <2> SUFFICES ASSUME NEW o \in OrderIds
               PROVE  /\ tokens'[o] # None => tokens'[o] = made[o]
                      /\ made[o] # None /\ write'[made[o]].end = "heard" /\ state[o] # "DELETED"
                           => tokens'[o] # None
                      /\ tokens'[o] # None /\ state[o] = "DELETED"
                           => \E v \in Writes : /\ Sent(v)' /\ write'[v].op = "delete"
                                                /\ write'[v].order = o /\ write'[v].end # "heard"
    BY <1>1, <1>7 DEF TokensUsable
  <2>1. tokens'[o] # None => tokens'[o] = made[o]
    BY <1>13
  <2>2. ASSUME made[o] # None, write'[made[o]].end = "heard", state[o] # "DELETED"
        PROVE  tokens'[o] # None
    <3>1. CASE made[o] = w
      BY <1>4, <1>5, <2>2, <3>1
    <3>2. CASE made[o] # w
      <4>1. write[made[o]].end = "heard"
        BY <1>5, <1>10, <2>2, <3>2
      <4> QED BY <2>2, <3>2, <4>1 DEF IInv, TokensUsable
    <3> QED BY <3>1, <3>2
  <2>3. ASSUME tokens'[o] # None, state[o] = "DELETED"
        PROVE  \E v \in Writes : /\ Sent(v)' /\ write'[v].op = "delete"
                                 /\ write'[v].order = o /\ write'[v].end # "heard"
    <3>1. CASE tokens'[o] = tokens[o]
      <4>1. PICK v \in Writes : Sent(v) /\ write[v].op = "delete" /\ write[v].order = o
                                /\ write[v].end # "heard"
        BY <2>3, <3>1 DEF IInv, TokensUsable
      <4>2. write'[v].end # "heard"
        BY <1>6, <2>3, <4>1
      <4> QED BY <1>5, <1>6, <4>1, <4>2
    <3>2. CASE how = "heard" /\ made[o] = w
      <4>1. PICK v \in Writes : Sent(v) /\ write[v].op = "delete" /\ write[v].order = o
        BY <2>3 DEF IInv, BookFits
      <4>2. write[w].end = "heard"
        BY <3>2, <4>1 DEF IInv, ActsFit, Heard
      <4> QED BY <4>2
    <3> QED BY <2>3, <3>1, <3>2
  <2> QED BY <2>1, <2>2, <2>3
<1> QED BY <1>5, <1>8, <1>9, <1>11, <1>12, <1>14, <1>15 DEF IInv

\* What a form is given when an answer comes: it waits for nothing, or for the
\* list, and may lose its quote.
LEMMA FormLetGo ==
  ASSUME IInv, NEW f \in Forms, NEW new \in FormRecs,
         new.quote # None => new.quote = form[f].quote /\ new.body = form[f].body
                             /\ new.key = form[f].key,
         new.busy # "quote",
         form' = form \/ form' = [form EXCEPT ![f] = new]
  PROVE  /\ form' \in [Forms -> FormRecs]
         /\ \A g \in Forms :
              /\ form'[g].quote # None =>
                   form'[g].quote = form[g].quote /\ form'[g].body = form[g].body
                   /\ form'[g].key = form[g].key
              /\ form'[g].busy = "quote" => form'[g].asking \in Bodies
<1>1. form \in [Forms -> FormRecs]
  BY Types
<1>2. \A g \in Forms : form[g].busy = "quote" => form[g].asking \in Bodies
  BY DEF IInv, FormsFit
<1>3. CASE form' = form
  BY <1>1, <1>2, <1>3
<1>4. CASE form' = [form EXCEPT ![f] = new]
  <2>1. form'[f] = new /\ \A g \in Forms : g # f => form'[g] = form[g]
    BY <1>1, <1>4
  <2>2. form' \in [Forms -> FormRecs]
    BY <1>1, <1>4
  <2> QED BY <1>2, <2>1, <2>2
<1> QED BY <1>3, <1>4

\* The answer of a creation: App keeps its token, if it has one.
LEMMA CreateComesStep ==
  ASSUME IInv, NEW w \in Writes, Sent(w), write[w].end = "waiting", write[w].answer = "ok",
         CreateComes(w), Ended(w, "heard"), UNCHANGED <<server, view, bounds>>
  PROVE  IInv'
<1> DEFINE o == write[w].order
<1>1. /\ Creates(w) /\ o \in OrderIds /\ state[o] # "ABSENT"
      /\ write[w].status \in {"CONFIRMED", "CANCELLED"} /\ write[w].token \in Writes \union {None}
  BY Types DEF CreateComes, Creates, IInv, AnswersFit, Recs
<1>2. write[w].token # None => write[w].token = w /\ made[o] = w
  BY <1>1 DEF IInv, CreatesFit
<1>3. \A p \in OrderIds : made[p] = w => p = o /\ write[w].token = w
  BY PageAssumption DEF IInv, BookFits, Writes
<1>4. /\ tokens' \in [OrderIds -> Writes \union {None}]
      /\ \A p \in OrderIds :
           /\ tokens'[p] = tokens[p] \/ (made[p] = w /\ tokens'[p] = w)
           /\ made[p] = w => tokens'[p] = w
  <2>1. tokens' = IF write[w].token = None THEN tokens
                  ELSE [tokens EXCEPT ![o] = write[w].token]
    BY DEF CreateComes, Keep
  <2>2. w # None
    BY PageAssumption DEF Writes
  <2> QED BY <1>1, <1>2, <1>3, <2>1, <2>2, Types
<1>5. /\ selected # None => state[selected] # "ABSENT"
      /\ first # None => state[first] # "ABSENT"
      /\ load # None => state[load.order] # "ABSENT"
  BY DEF IInv, ShownFit
<1>6. UNCHANGED <<state, owner, made>> /\ "heard" \in {"heard", "failed"}
  BY DEF server
<1>7. write[w].op # "delete"
  BY <1>1 DEF Creates
<1>8. Selecting(o) => /\ selected' \in OrderIds \union {None}
                      /\ load' \in [order : OrderIds, since : Statuses] \union {None}
                      /\ selected' # None => state[selected'] # "ABSENT"
                      /\ load' # None => state[load'.order] # "ABSENT"
  BY <1>1, SelectingTypes
<1>9. CASE CreatedInCenter(w)
  <2> DEFINE new == [form["center"] EXCEPT !.quote = None, !.key = None, !.busy = "list"]
  <2>1. new \in FormRecs /\ new.quote = None /\ new.busy = "list" /\ "center" \in Forms
    BY Types DEF FormRecs, Forms
  <2>2. form' = form \/ form' = [form EXCEPT !["center"] = new]
    BY <1>9, <2>1, Types DEF CreatedInCenter
  <2> HIDE DEF new
  <2>3. /\ form' \in [Forms -> FormRecs]
        /\ \A g \in Forms :
             /\ form'[g].quote # None =>
                  form'[g].quote = form[g].quote /\ form'[g].body = form[g].body
                  /\ form'[g].key = form[g].key
             /\ form'[g].busy = "quote" => form'[g].asking \in Bodies
    BY <2>1, <2>2, FormLetGo
  <2>4. /\ selected' \in OrderIds \union {None}
        /\ load' \in [order : OrderIds, since : Statuses] \union {None}
        /\ selected' # None => state[selected'] # "ABSENT"
        /\ load' # None => state[load'.order] # "ABSENT"
        /\ detail' \in [order : OrderIds, status : {"CONFIRMED", "CANCELLED"}] \union {None}
    <3>1. CASE Live(w)
      <4>1. Selecting(o) /\ detail' = [order |-> o, status |-> write[w].status]
        BY <1>9, <3>1 DEF CreatedInCenter
      <4> QED BY <1>1, <1>8, <4>1
    <3>2. CASE ~Live(w)
      BY <1>5, <1>9, <3>2, Types DEF CreatedInCenter, shown
    <3> QED BY <3>1, <3>2
  <2>5. UNCHANGED <<draft, first>>
    BY <1>9 DEF CreatedInCenter
  <2>6. ShownFit'
    BY <1>5, <1>6, <2>4, <2>5 DEF ShownFit
  <2>7. draft' \in BOOLEAN /\ first' \in OrderIds \union {None}
    BY <2>5, Types
  <2> QED BY <1>4, <1>6, <1>7, <2>3, <2>4, <2>6, <2>7, EndedStep
<1>10. CASE CreatedInCard(w)
  <2> DEFINE new == Fresh(form["card"].inst, Default)
  <2>1. new \in FormRecs /\ new.quote = None /\ new.busy = "no" /\ "card" \in Forms
    <3>1. form["card"].inst \in 0 .. MaxMounts /\ Default \in Bodies
      BY Types, PageAssumption DEF FormRecs, Forms
    <3> QED BY <3>1, FreshForm DEF Forms
  <2>2. form' = [form EXCEPT !["card"] = new]
    BY <1>10 DEF CreatedInCard, Unmount
  <2> HIDE DEF new
  <2>3. /\ form' \in [Forms -> FormRecs]
        /\ \A g \in Forms :
             /\ form'[g].quote # None =>
                  form'[g].quote = form[g].quote /\ form'[g].body = form[g].body
                  /\ form'[g].key = form[g].key
             /\ form'[g].busy = "quote" => form'[g].asking \in Bodies
    BY <2>1, <2>2, FormLetGo
  <2>4. first' = o /\ draft' = FALSE /\ detail' = detail
        /\ (Selecting(o) \/ (selected' = selected /\ load' = load))
    BY <1>10 DEF CreatedInCard
  <2>5. /\ selected' \in OrderIds \union {None}
        /\ load' \in [order : OrderIds, since : Statuses] \union {None}
        /\ selected' # None => state[selected'] # "ABSENT"
        /\ load' # None => state[load'.order] # "ABSENT"
    <3>1. CASE Selecting(o)
      BY <1>8, <3>1
    <3>2. CASE selected' = selected /\ load' = load
      BY <1>5, <3>2, Types
    <3> QED BY <2>4, <3>1, <3>2
  <2>6. ShownFit'
    BY <1>1, <1>6, <2>4, <2>5 DEF ShownFit
  <2>7. /\ draft' \in BOOLEAN /\ first' \in OrderIds \union {None}
        /\ detail' \in [order : OrderIds, status : {"CONFIRMED", "CANCELLED"}] \union {None}
    BY <1>1, <2>4, Types
  <2> QED BY <1>4, <1>6, <1>7, <2>3, <2>5, <2>6, <2>7, EndedStep
<1> QED BY <1>9, <1>10 DEF CreateComes

\* The answer of a cancellation or of a deletion, which drops the token.
LEMMA ActComesStep ==
  ASSUME IInv, NEW w \in Writes, Sent(w), write[w].end = "waiting", write[w].answer = "ok",
         CancelComes(w) \/ DeleteComes(w), Ended(w, "heard"), UNCHANGED <<server, view, bounds>>
  PROVE  IInv'
<1> DEFINE o == write[w].order
           new == [form["center"] EXCEPT !.busy = "list"]
<1>1. /\ write[w].op \in {"cancel", "delete"} /\ o \in OrderIds
      /\ write[w].op = "cancel" => write[w].status \in {"CONFIRMED", "CANCELLED"}
      /\ write[w].op = "delete" => state[o] = "DELETED"
  BY DEF CancelComes, DeleteComes, IInv, AnswersFit
<1>2. \A p \in OrderIds : made[p] # w
  BY <1>1, PageAssumption DEF IInv, BookFits, Creates, Writes
<1>3. /\ tokens' \in [OrderIds -> Writes \union {None}]
      /\ \A p \in OrderIds :
           /\ tokens'[p] = tokens[p] \/ (tokens'[p] = None /\ state[p] = "DELETED")
           /\ write[w].op = "delete" /\ o = p => tokens'[p] = None
  <2>1. CASE CancelComes(w)
    BY <2>1, Types DEF CancelComes
  <2>2. CASE DeleteComes(w)
    BY <1>1, <2>2, Types DEF DeleteComes
  <2> QED BY <2>1, <2>2
<1>4. new \in FormRecs /\ new.busy = "list" /\ new.quote = form["center"].quote
      /\ new.body = form["center"].body /\ new.key = form["center"].key /\ "center" \in Forms
  BY Types DEF FormRecs, Forms
<1>5. form' = form \/ form' = [form EXCEPT !["center"] = new]
  BY <1>4, Types DEF CancelComes, DeleteComes
<1> HIDE DEF new
<1>6. /\ form' \in [Forms -> FormRecs]
      /\ \A g \in Forms :
           /\ form'[g].quote # None =>
                form'[g].quote = form[g].quote /\ form'[g].body = form[g].body
                /\ form'[g].key = form[g].key
           /\ form'[g].busy = "quote" => form'[g].asking \in Bodies
  BY <1>4, <1>5, FormLetGo
<1>7. detail' \in [order : OrderIds, status : {"CONFIRMED", "CANCELLED"}] \union {None}
  <2>1. CASE CancelComes(w)
    <3>1. write[w].status \in {"CONFIRMED", "CANCELLED"}
      BY <1>1, <2>1 DEF CancelComes
    <3>2. detail' = detail \/ detail' = [order |-> o, status |-> write[w].status]
      BY <2>1 DEF CancelComes
    <3> QED BY <1>1, <3>1, <3>2, Types
  <2>2. CASE DeleteComes(w)
    BY <2>2, Types DEF DeleteComes, shown
  <2> QED BY <2>1, <2>2
<1>8. /\ UNCHANGED <<draft, first, state>>
      /\ selected' = selected \/ selected' = None
      /\ load' = load \/ load' = None
  BY DEF CancelComes, DeleteComes, server, shown
<1>9. ShownFit'
  BY <1>8 DEF IInv, ShownFit
<1>10. /\ draft' \in BOOLEAN /\ first' \in OrderIds \union {None}
       /\ selected' \in OrderIds \union {None}
       /\ load' \in [order : OrderIds, since : Statuses] \union {None}
  BY <1>8, Types
<1> QED BY <1>2, <1>3, <1>6, <1>7, <1>9, <1>10, EndedStep

LEMMA ComesStep ==
  ASSUME IInv, NEW w \in Writes, Comes(w)
  PROVE  IInv'
BY CreateComesStep, ActComesStep DEF Comes

\* No answer comes, or a refusal: the page keeps what it has.
LEMMA FailsStep ==
  ASSUME IInv, NEW w \in Writes, Fails(w)
  PROVE  IInv'
<1> DEFINE f == write[w].form
           new == [form[f] EXCEPT !.busy = "no"]
<1>1. /\ Sent(w) /\ write[w].end = "waiting" /\ Ended(w, "failed")
      /\ UNCHANGED <<server, app, shown, bounds>>
  BY DEF Fails
<1>2. f \in Forms
  BY <1>1, Types DEF Recs
<1>3. new \in FormRecs /\ new.busy = "no" /\ new.quote = form[f].quote
      /\ new.body = form[f].body /\ new.key = form[f].key
  BY <1>2, Types DEF FormRecs
<1>4. form' = form \/ form' = [form EXCEPT ![f] = new]
  BY <1>2, Types DEF Fails
<1> HIDE DEF new
<1>5. /\ form' \in [Forms -> FormRecs]
      /\ \A g \in Forms :
           /\ form'[g].quote # None =>
                form'[g].quote = form[g].quote /\ form'[g].body = form[g].body
                /\ form'[g].key = form[g].key
           /\ form'[g].busy = "quote" => form'[g].asking \in Bodies
  BY <1>2, <1>3, <1>4, FormLetGo
<1>6. UNCHANGED <<state, view, draft, tokens, first, selected, detail, load>>
  BY <1>1 DEF server, app, shown
<1>7. ShownFit'
  BY <1>6 DEF IInv, ShownFit
<1>8. /\ draft' \in BOOLEAN /\ first' \in OrderIds \union {None}
      /\ selected' \in OrderIds \union {None}
      /\ load' \in [order : OrderIds, since : Statuses] \union {None}
      /\ detail' \in [order : OrderIds, status : {"CONFIRMED", "CANCELLED"}] \union {None}
      /\ tokens' \in [OrderIds -> Writes \union {None}]
  BY <1>6, Types
<1> QED BY <1>1, <1>5, <1>6, <1>7, <1>8, EndedStep

-----------------------------------------------------------------------------
(* The theorems.                                                           *)

LEMMA InitIInv == Init => IInv
<1> SUFFICES ASSUME Init PROVE IInv
  OBVIOUS
<1> USE DEF Init
<1>1. /\ state = [o \in OrderIds |-> "ABSENT"] /\ owner = [k \in Keys |-> None]
      /\ \A o \in OrderIds : state[o] = "ABSENT"
  <2>1. Book!AllIds = OrderIds
    BY DEF Book!AllIds
  <2>2. /\ state \in [OrderIds -> {"ABSENT", "CONFIRMED", "CANCELLED"}]
        /\ \A o \in OrderIds : state[o] = "ABSENT"
        /\ owner = [k \in Keys |-> None]
    BY <2>1 DEF Book!BookInit
  <2> QED BY <2>2
<1>2. 0 \in 0 .. MaxMounts /\ 0 \in 0 .. MaxQuotes /\ 0 \in 0 .. MaxEdits /\ Default \in Bodies
  BY PageAssumption
<1>3. \A f \in Forms : form[f] \in FormRecs /\ form[f].quote = None /\ form[f].busy = "no"
  BY <1>2, FreshForm
<1>4. form \in [Forms -> FormRecs]
  BY <1>3
<1>5. \A w \in Writes : ~Sent(w) /\ write[w] = NoWrite
  BY DEF Sent, NoWrite
<1>6. TypeOK
  <2>1. /\ state \in [OrderIds -> Statuses \union {"ABSENT"}]
        /\ owner \in [Keys -> OrderIds \union {None}]
        /\ made \in [OrderIds -> Writes \union {None}]
        /\ tokens \in [OrderIds -> Writes \union {None}]
    BY <1>1
  <2>2. draft \in BOOLEAN
    OBVIOUS
  <2> QED BY <1>2, <1>4, <1>5, <2>1, <2>2 DEF TypeOK, FormRecs
<1>7. TokensUsable
  BY <1>1, <1>6 DEF TokensUsable
<1>8. BookFits
  BY <1>1 DEF BookFits
<1>9. FormsFit /\ NumbersFit
  BY <1>3, <1>5 DEF FormsFit, NumbersFit, Creates
<1>10. CreatesFit /\ ActsFit /\ AnswersFit
  BY <1>5 DEF CreatesFit, ActsFit, AnswersFit, Creates
<1>11. ShownFit
  BY DEF ShownFit
<1>12. write \in [Writes -> Recs \union {NoWrite}]
  OBVIOUS
<1> QED BY <1>7, <1>8, <1>9, <1>10, <1>11, <1>12 DEF IInv

LEMMA StutterStep == IInv /\ UNCHANGED vars => IInv'
<1> SUFFICES ASSUME IInv, UNCHANGED vars PROVE IInv'
  OBVIOUS
<1> USE DEF vars, server, app, shown, bounds
<1>1. TypeOK'
  BY Types, Typed
<1>2. quotes <= quotes'
  BY Types, PageAssumption
<1>3. FormsFit' /\ NumbersFit'
  BY DEF IInv, FormsFit, NumbersFit, Fits, Creates, Sent
<1>4. ShownFit'
  BY DEF IInv, ShownFit
<1> QED BY <1>1, <1>2, <1>3, <1>4, PageStep

\* IInv is inductive.
THEOREM Invariant == Spec => []IInv
<1>1. IInv /\ [Next]_vars => IInv'
  <2> SUFFICES ASSUME IInv, [Next]_vars PROVE IInv'
    OBVIOUS
  <2>1. CASE (\E b \in Bodies : OpenCard(b)) \/ Dismiss \/ CloseReceipt
    BY <2>1, CardStep
  <2>2. CASE ShowOrders \/ ShowChat
    BY <2>2, ViewStep
  <2>3. CASE \E f \in Forms : \/ \E b \in Bodies : Edit(f, b)
                              \/ AskQuote(f) \/ QuoteComes(f) \/ QuoteFails(f)
                              \/ \E w \in Writes : Confirm(f, w)
    BY <2>3, InputStep, QuoteComesStep, ConfirmStep
  <2>4. CASE \E w \in Writes : \/ Act("cancel", w) \/ Act("delete", w)
                               \/ Serve(w) \/ Comes(w) \/ Fails(w)
    BY <2>4, ActStep, ServeStep, ComesStep, FailsStep
  <2>5. CASE Listed \/ DetailComes \/ DetailFails \/ \E o \in OrderIds : Select(o)
    BY <2>5, ShowStep
  <2>6. CASE UNCHANGED vars
    BY <2>6, StutterStep
  <2> QED BY <2>1, <2>2, <2>3, <2>4, <2>5, <2>6 DEF Next
<1> QED BY <1>1, InitIInv, PTL DEF Spec

\* However often one quote of the order centre is confirmed, one order at most
\* comes of it (OrderCenter.tsx: createIdempotencyKey).
THEOREM OneOrder == Spec => []OneOrderPerQuote
<1>1. ASSUME IInv, NEW o \in OrderIds, NEW p \in OrderIds, made[o] # None, made[p] # None,
             write[made[o]].form = "center", MadeFrom(o).no = MadeFrom(p).no
      PROVE  o = p
  <2>1. /\ Creates(made[o]) /\ Creates(made[p]) /\ made[o] \in Writes /\ made[p] \in Writes
        /\ owner[write[made[o]].key] = o /\ owner[write[made[p]].key] = p
    BY <1>1, Types DEF IInv, BookFits
  <2>2. write[made[p]].form = "center"
    BY <1>1, <2>1 DEF IInv, NumbersFit, MadeFrom
  <2>3. write[made[o]].key = write[made[p]].key
    <3>1. /\ write[made[o]].key = <<"quote", write[made[o]].quote.no>>
          /\ write[made[p]].key = <<"quote", write[made[p]].quote.no>>
      BY <1>1, <2>1, <2>2 DEF IInv, CreatesFit
    <3> QED BY <1>1, <3>1 DEF MadeFrom
  <2> QED BY <2>1, <2>3
<1>2. IInv => OneOrderPerQuote
  BY <1>1 DEF OneOrderPerQuote
<1> QED BY <1>2, Invariant, PTL

\* An order is created as quoted, unless the quote came for inputs edited since
\* (OrderCenter.tsx: requestQuote and createOrder; ChatOrderDraft.tsx: getQuote and confirm).
THEOREM AsQuotedUnlessLate == Spec => []CreatedAsQuotedUnlessLate
<1>1. ASSUME IInv, NEW o \in OrderIds, made[o] # None
      PROVE  MadeFrom(o).late \/ MadeFrom(o).body = write[made[o]].body
  <2>1. Creates(made[o]) /\ made[o] \in Writes
    BY <1>1, Types DEF IInv, BookFits
  <2> QED BY <1>1, <2>1 DEF IInv, CreatesFit, Fits, MadeFrom
<1>2. IInv => CreatedAsQuotedUnlessLate
  BY <1>1 DEF CreatedAsQuotedUnlessLate
<1> QED BY <1>2, Invariant, PTL

\* The page holds the right token of every order it can still act on
\* (App.tsx: controlTokens).
THEOREM HoldsTokens == Spec => []TokensUsable
<1>1. IInv => TokensUsable
  BY DEF IInv
<1> QED BY <1>1, Invariant, PTL
=============================================================================

---------------------------- MODULE OrdersProofs ----------------------------
(***************************************************************************)
(* Proofs about Orders, for any number of requests, keys, ids and releases.*)
(*                                                                         *)
(* The inductive invariant IInv adds to TypeOK what ties a request to the  *)
(* tables: the program point fits the call and says whether its write took *)
(* effect (StepFits), the locals read before an await still hold after it  *)
(* (LocalFits), an answer stays true of the tables (ReplyFits), and every  *)
(* committed order is owned by one key and one creation (TablesAgree,      *)
(* TokensAgree).  Most steps write no table: QuietGoto and QuietAnswer     *)
(* cover them all; the five others have a lemma each.                      *)
(***************************************************************************)
EXTENDS Orders, TLAPS

CreateSteps == {"c_find", "c_load", "c_quote", "c_save", "c_conflict", "c_ok"}
CancelSteps == {"x_find", "x_update", "x_refresh", "x_read"}
DeleteSteps == {"d_find", "d_update", "d_refresh", "d_ok"}

\* The points a request reaches only after its write.
AfterWrite == {"c_ok", "x_read", "d_ok"}

Locals == [order : OrderIds \union {None}, price : Versions \union {None}]

Replies == [code : Codes, shown : SUBSET AllIds,
            token : Requests \union {None}, price : Versions \union {None}]

\* A request at program point `step` handles the right call, presents a token
\* it can know, and has written iff the point says so.
StepFits(r, step) ==
  /\ step \in CreateSteps => call[r] \in CreateCalls
  /\ step \in CancelSteps \union DeleteSteps =>
       call[r] \in TokenCalls /\ call[r].token \in Issued \union {Guess}
  /\ step \in CancelSteps => call[r].op = "cancel"
  /\ step \in DeleteSteps => call[r].op = "delete"
  /\ step = "g_find" => call[r] \in GetCalls
  /\ step = "l_find" => call[r] \in ListCalls
  /\ step \in AfterWrite => r \in took
  /\ step \in (Steps \ AfterWrite) \union {"idle"} => r \notin took

\* What a creation knows between two awaits.
LocalFits(r, step, l) ==
  /\ step \in {"c_save", "c_ok"} => l.order \in OrderIds /\ l.price \in Versions
  /\ step \in {"c_load", "c_ok"} =>
       /\ l.order = keyOrder[Key(r)]
       /\ keyOrder[Key(r)] # None
       /\ keyBody[Key(r)] = Body(r)
  /\ step = "c_ok" =>
       /\ tokenHash[l.order] = TokenHash(r)
       /\ pricing[l.order] = l.price
       /\ l.order \notin gone[r]

Refusals == {"403", "404", "409", "422", "500"}

\* What an answer says about the tables, whatever happened since.
ReplyFits(r, rep) ==
  /\ call[r].op = "create" /\ rep.code \in {"200", "201"} =>
       /\ call[r] \in CreateCalls
       /\ keyOrder[Key(r)] # None
       /\ rep.shown = {keyOrder[Key(r)]}
       /\ keyBody[Key(r)] = Body(r)
  /\ rep.token # None =>
       /\ rep.token = r
       /\ rep.code = "201"
       /\ call[r].op = "create"
       /\ tokenHash[keyOrder[Key(r)]] = TokenHash(r)
  /\ rep.price # None =>
       \E o \in AllIds : rep.shown = {o} /\ pricing[o] = rep.price
  /\ rep.shown \intersect gone[r] = {}
  /\ rep.code \in {"201", "204"} \/ (call[r].op = "cancel" /\ rep.code = "200")
       => r \in took
  /\ call[r].op \in {"create", "delete"} /\ rep.code \in Refusals => r \notin took

StepsFit   == \A r \in Requests : StepFits(r, pc[r])
LocalsFit  == \A r \in Requests : LocalFits(r, pc[r], local[r])
RepliesFit == \A r \in Requests : ReplyFits(r, reply[r])
Unanswered == \A r \in Requests : pc[r] # "done" => reply[r] = NoReply
GoneFits   == \A r \in Requests : \A o \in gone[r] : deletedAt[o]

\* A row of the key table points to a committed order, a committed runtime
\* order is the one its key points to and has a price, and an absent one has no
\* columns.
TablesAgree ==
  /\ \A k \in Keys : keyOrder[k] # None => status[keyOrder[k]] # "ABSENT"
  /\ \A j, k \in Keys : keyOrder[j] # None /\ keyOrder[j] = keyOrder[k] => j = k
  /\ \A o \in OrderIds : status[o] # "ABSENT" => \E k \in Keys : keyOrder[k] = o
  /\ \A o \in OrderIds : status[o] # "ABSENT" => pricing[o] # None
  /\ \A o \in AllIds : status[o] = "ABSENT" => pricing[o] = None
  /\ \A o \in SeedIds : status[o] # "ABSENT" /\ pricing[o] = None

\* A committed runtime order carries the digest of the request that created
\* it, and that request's key points to it.
TokensAgree ==
  \A o \in OrderIds : status[o] # "ABSENT" =>
    \E q \in took :
      /\ tokenHash[o] = TokenHash(q)
      /\ call[q] \in CreateCalls
      /\ keyOrder[Key(q)] = o

\* What the requests whose write took effect have left in the tables.
EffectsFit ==
  \A r \in took :
    /\ call[r] \in CreateCalls \union TokenCalls
    /\ call[r].op = "create" =>
         keyOrder[Key(r)] # None /\ tokenHash[keyOrder[Key(r)]] = TokenHash(r)
    /\ call[r].op = "cancel" => status[Target(r)] \in {"CANCELLED", "DELETED"}
    /\ call[r].op = "delete" => status[Target(r)] = "DELETED"

MovesFit == EffectsAtMostOnce /\ OnlyHolderMoves

IInv ==
  /\ TypeOK
  /\ StepsFit
  /\ LocalsFit
  /\ RepliesFit
  /\ Unanswered
  /\ GoneFits
  /\ TablesAgree
  /\ TokensAgree
  /\ EffectsFit
  /\ MovesFit
-----------------------------------------------------------------------------
(* Three facts of data.                                                    *)

\* Distinct tokens have distinct digests.
LEMMA TokenHashInjective ==
  ASSUME NEW s, NEW t, TokenHash(s) = TokenHash(t)
  PROVE  s = t
BY DEF TokenHash

\* A digest is not the NULL of a column.
LEMMA HashNotNone ==
  ASSUME NEW q \in Requests
  PROVE  TokenHash(q) # None
BY OrdersAssumption DEF Hashes, Tokens

\* A creation call has a key and a body, a token call an order and a token.
LEMMA CallFields ==
  ASSUME NEW r
  PROVE  /\ call[r] \in CreateCalls =>
              Key(r) \in Keys /\ Body(r) \in Bodies /\ call[r].op = "create"
         /\ call[r] \in TokenCalls =>
              /\ Target(r) \in AllIds /\ Token(r) \in Tokens
              /\ call[r].op \in {"cancel", "delete"}
         /\ call[r] \in GetCalls => Target(r) \in AllIds /\ call[r].op = "get"
         /\ call[r] \in ListCalls => call[r].op = "list"
         /\ call[r] = NoCall => call[r].op = "none"
BY DEF CreateCalls, TokenCalls, GetCalls, ListCalls, NoCall, Key, Body, Target, Token

-----------------------------------------------------------------------------
(* The invariant holds initially.                                          *)

LEMMA InitIInv == Init => IInv
<1> SUFFICES ASSUME Init PROVE IInv
  OBVIOUS
<1> USE OrdersAssumption DEF Init
<1>1. TypeOK
  BY DEF TypeOK, AllIds, Statuses, SeedStatus, Waiting, NoCall, NoLocal,
         NoReply, Refusal, Reply, Codes
<1>2. StepsFit
  BY DEF StepsFit, StepFits, CreateSteps, CancelSteps, DeleteSteps, Steps,
         AfterWrite
<1>3. LocalsFit
  BY DEF LocalsFit, LocalFits
<1>4. RepliesFit
  BY DEF RepliesFit, ReplyFits, NoReply, Refusal, Reply, Refusals, NoCall
<1>5. Unanswered /\ GoneFits
  BY DEF Unanswered, GoneFits
<1>6. TablesAgree
  BY DEF TablesAgree, AllIds, SeedStatus
<1>7. TokensAgree /\ EffectsFit
  BY DEF TokensAgree, EffectsFit, AllIds, SeedStatus
<1>8. MovesFit
  BY DEF MovesFit, EffectsAtMostOnce, OnlyHolderMoves, AllIds, SeedStatus,
         NoReply, Refusal, Reply, NoCall
<1>9. QED
  BY <1>1, <1>2, <1>3, <1>4, <1>5, <1>6, <1>7, <1>8 DEF IInv

-----------------------------------------------------------------------------
(* A step that writes no table.                                            *)

LEMMA QuietGoto ==
  ASSUME IInv, NEW r \in Requests, NEW step \in Steps, NEW l \in Locals,
         pc[r] # "done", Untouched, Goto(r, step, l),
         StepFits(r, step), LocalFits(r, step, l)
  PROVE  IInv'
<1> USE DEF IInv, Untouched, rows, keys, Goto
<1>1. TypeOK'
  BY DEF TypeOK, Locals
<1>2. StepsFit'
  BY DEF TypeOK, StepsFit, StepFits, Issued
<1>3. LocalsFit'
  BY DEF TypeOK, LocalsFit, LocalFits, Key, Body
<1>4. RepliesFit'
  BY DEF RepliesFit, ReplyFits, Key, Body
<1>5. Unanswered' /\ GoneFits'
  BY DEF TypeOK, Unanswered, GoneFits
<1>6. TablesAgree' /\ TokensAgree' /\ EffectsFit'
  BY DEF TablesAgree, TokensAgree, EffectsFit, Key, Target
<1>7. MovesFit'
  BY DEF MovesFit, EffectsAtMostOnce, OnlyHolderMoves, Key, Target
<1>8. QED
  BY <1>1, <1>2, <1>3, <1>4, <1>5, <1>6, <1>7

LEMMA QuietAnswer ==
  ASSUME IInv, NEW r \in Requests, NEW rep \in Replies,
         pc[r] # "done", Untouched, Answer(r, rep), ReplyFits(r, rep)
  PROVE  IInv'
<1> USE OrdersAssumption DEF IInv, Untouched, rows, keys, Answer
<1>1. TypeOK'
  BY DEF TypeOK, Replies, NoLocal, Waiting
<1>2. Issued \subseteq Issued'
  <2>1. reply[r].token = None
    BY DEF Unanswered, NoReply, Refusal, Reply
  <2>2. ASSUME NEW q \in Requests, reply[q].token # None
        PROVE  reply'[q].token = reply[q].token
    BY <2>1, <2>2 DEF TypeOK
  <2>3. QED
    BY <2>2 DEF Issued
<1>3. StepsFit'
  BY <1>2 DEF TypeOK, StepsFit, StepFits, CreateSteps, CancelSteps, DeleteSteps,
              Steps, AfterWrite
<1>4. LocalsFit'
  BY DEF TypeOK, LocalsFit, LocalFits, Key, Body
<1>5. RepliesFit'
  <2>1. ReplyFits(r, rep)'
    BY DEF ReplyFits, Key, Body
  <2>2. ASSUME NEW q \in Requests
        PROVE  reply'[q] = IF q = r THEN rep ELSE reply[q]
    BY DEF TypeOK
  <2>3. ASSUME NEW q \in Requests, q # r
        PROVE  ReplyFits(q, reply[q])'
    BY <2>2, <2>3 DEF RepliesFit, ReplyFits, Key, Body
  <2>4. QED
    BY <2>1, <2>2, <2>3 DEF RepliesFit
<1>6. Unanswered' /\ GoneFits'
  BY DEF TypeOK, Unanswered, GoneFits
<1>7. TablesAgree' /\ TokensAgree' /\ EffectsFit'
  BY DEF TablesAgree, TokensAgree, EffectsFit, Key, Target
<1>8. EffectsAtMostOnce'
  <2>1. \A q \in Requests : q # r => reply'[q] = reply[q]
    BY DEF TypeOK
  <2>2. reply'[r] = rep
    BY DEF TypeOK
  <2>3. QED
    BY <2>1, <2>2 DEF MovesFit, EffectsAtMostOnce, ReplyFits, Key, Target
<1>9. OnlyHolderMoves'
  <2>1. ASSUME NEW q \in Requests, reply[q].code = "201"
        PROVE  reply'[q] = reply[q]
    BY <2>1 DEF TypeOK, Unanswered, NoReply, Refusal, Reply
  <2>2. QED
    BY <2>1 DEF MovesFit, OnlyHolderMoves
<1>10. QED
  BY <1>1, <1>3, <1>4, <1>5, <1>6, <1>7, <1>8, <1>9 DEF MovesFit
-----------------------------------------------------------------------------
(* The quiet actions: going on, refusing, showing an order.                *)

\* Going on to the next await of the same handler with no local.
LEMMA GoesOn ==
  ASSUME IInv, NEW r \in Requests, NEW step \in Steps \ AfterWrite,
         pc[r] \in Steps \ AfterWrite,
         \/ pc[r] \in CreateSteps /\ step \in CreateSteps
         \/ pc[r] \in CancelSteps /\ step \in CancelSteps
         \/ pc[r] \in DeleteSteps /\ step \in DeleteSteps,
         step \notin {"c_load", "c_save"},
         Untouched, Goto(r, step, NoLocal)
  PROVE  IInv'
<1>1. StepFits(r, pc[r])
  BY DEF IInv, StepsFit
<1>2. StepFits(r, step)
  BY <1>1 DEF StepFits, CreateSteps, CancelSteps, DeleteSteps, Steps, AfterWrite
<1>3. LocalFits(r, step, NoLocal)
  BY DEF LocalFits, AfterWrite
<1>4. NoLocal \in Locals /\ pc[r] # "done"
  BY DEF NoLocal, Locals, Steps
<1>5. QED
  BY <1>2, <1>3, <1>4, QuietGoto

\* An error answer, from any await at which a creation or a deletion has not
\* written yet.
LEMMA Refuses ==
  ASSUME IInv, NEW r \in Requests, NEW code \in Refusals,
         pc[r] \in Steps \ {"c_ok", "d_ok"},
         Untouched, Answer(r, Refusal(code))
  PROVE  IInv'
<1>1. StepFits(r, pc[r])
  BY DEF IInv, StepsFit
<1>2. call[r].op \in {"create", "delete"} => r \notin took
  BY <1>1, CallFields DEF StepFits, CreateSteps, CancelSteps, DeleteSteps,
                          Steps, AfterWrite
<1>3. Refusal(code) \in Replies
  BY DEF Refusal, Reply, Replies, Refusals, Codes
<1>4. ReplyFits(r, Refusal(code))
  BY <1>2 DEF ReplyFits, Refusal, Reply, Refusals
<1>5. pc[r] # "done"
  BY DEF Steps
<1>6. QED
  BY <1>3, <1>4, <1>5, QuietAnswer

\* A 200 that shows one visible order without its token.
LEMMA Shows ==
  ASSUME IInv, NEW r \in Requests, NEW o \in AllIds, Visible(o),
         pc[r] \in {"c_load", "x_read", "g_find"},
         pc[r] = "c_load" => o = keyOrder[Key(r)],
         Untouched, Answer(r, Detail("200", o, None))
  PROVE  IInv'
<1> DEFINE rep == Detail("200", o, None)
<1>1. StepFits(r, pc[r]) /\ LocalFits(r, pc[r], local[r])
  BY DEF IInv, StepsFit, LocalsFit
<1>2. pricing[o] \in Versions \union {None}
  BY DEF IInv, TypeOK
<1>3. rep \in Replies
  BY <1>2 DEF Detail, Reply, Replies, Codes
<1>4. o \notin gone[r]
  BY DEF IInv, GoneFits, Visible
<1>5. call[r].op = "create" =>
        /\ call[r] \in CreateCalls /\ keyOrder[Key(r)] # None
        /\ o = keyOrder[Key(r)] /\ keyBody[Key(r)] = Body(r)
  BY <1>1, CallFields DEF StepFits, LocalFits, CreateSteps, CancelSteps, DeleteSteps
<1>6. call[r].op = "cancel" => r \in took
  BY <1>1, CallFields DEF StepFits, CreateSteps, CancelSteps, AfterWrite
<1>7. ReplyFits(r, rep)
  BY <1>4, <1>5, <1>6 DEF ReplyFits, Detail, Reply, Refusals
<1>8. QED
  BY <1>3, <1>7, QuietAnswer

LEMMA CreateQuiet ==
  ASSUME IInv, NEW r \in Requests, Create(r), ~CreateCommit(r)
  PROVE  IInv'
<1> USE DEF At
<1> DEFINE Quiet == pc[r] \in Steps \ {"c_ok", "d_ok"}
<1>0. StepFits(r, pc[r]) /\ LocalFits(r, pc[r], local[r])
  BY DEF IInv, StepsFit, LocalsFit
<1>1. CASE CreateFreshKey(r)
  BY <1>1, GoesOn DEF CreateFreshKey, Steps, AfterWrite, CreateSteps
<1>2. CASE CreateKnownKey(r) \/ CreateLostRace(r)
  <2> DEFINE l == [NoLocal EXCEPT !.order = keyOrder[Key(r)]]
  <2>1. pc[r] \in {"c_find", "c_conflict"} /\ Untouched /\ Goto(r, "c_load", l)
        /\ keyOrder[Key(r)] # None /\ keyBody[Key(r)] = Body(r)
    BY <1>2 DEF CreateKnownKey, CreateLostRace
  <2>2. Key(r) \in Keys
    BY <1>0, <2>1, CallFields DEF StepFits, CreateSteps
  <2>3. l.order = keyOrder[Key(r)] /\ l \in Locals
    BY <2>2 DEF IInv, TypeOK, NoLocal, Locals
  <2>4. StepFits(r, "c_load")
    BY <1>0, <2>1 DEF StepFits, CreateSteps, CancelSteps, DeleteSteps, Steps, AfterWrite
  <2>5. LocalFits(r, "c_load", l)
    BY <2>1, <2>3 DEF LocalFits
  <2>6. QED
    BY <2>1, <2>3, <2>4, <2>5, QuietGoto DEF Steps
<1>3. CASE CreateKeyMisused(r) \/ CreateRaceMisused(r)
  BY <1>3, Refuses DEF CreateKeyMisused, CreateRaceMisused, Steps, Refusals
<1>4. CASE CreateReuse(r)
  <2>1. local[r].order = keyOrder[Key(r)] /\ keyOrder[Key(r)] \in AllIds
    BY <1>0, <1>4, CallFields
       DEF CreateReuse, StepFits, LocalFits, CreateSteps, IInv, TypeOK, AllIds
  <2>2. QED
    BY <1>4, <2>1, Shows, Refuses DEF CreateReuse, Steps, Refusals
<1>5. CASE CreateQuote(r)
  <2>1. PICK o \in OrderIds : Goto(r, "c_save", [order |-> o, price |-> catalog])
    BY <1>5 DEF CreateQuote
  <2> DEFINE l == [order |-> o, price |-> catalog]
  <2>2. l \in Locals /\ LocalFits(r, "c_save", l)
    BY DEF IInv, TypeOK, Locals, LocalFits
  <2>3. StepFits(r, "c_save")
    BY <1>0, <1>5 DEF CreateQuote, StepFits, CreateSteps, CancelSteps, DeleteSteps,
                      Steps, AfterWrite
  <2>4. QED
    BY <1>5, <2>1, <2>2, <2>3, QuietGoto DEF CreateQuote, Steps
<1>6. CASE CreateUnquotable(r) \/ CreateIdCollision(r)
  BY <1>6, Refuses DEF CreateUnquotable, CreateIdCollision, Steps, Refusals
<1>7. CASE CreateRollback(r)
  BY <1>7, GoesOn DEF CreateRollback, Steps, AfterWrite, CreateSteps
<1>8. CASE CreateRespond(r)
  <2> DEFINE rep == Reply("201", {local[r].order}, r, local[r].price)
  <2>1. pc[r] = "c_ok" /\ Untouched /\ Answer(r, rep)
    BY <1>8 DEF CreateRespond
  <2>2. call[r] \in CreateCalls /\ call[r].op = "create" /\ r \in took
    BY <1>0, <2>1, CallFields DEF StepFits, CreateSteps, AfterWrite
  <2>3. rep \in Replies
    BY <1>0, <2>1 DEF LocalFits, Reply, Replies, Codes, AllIds
  <2>4. ReplyFits(r, rep)
    BY <1>0, <2>1, <2>2 DEF LocalFits, ReplyFits, Reply, Refusals, AllIds
  <2>5. QED
    BY <2>1, <2>3, <2>4, QuietAnswer
<1>9. QED
  BY <1>1, <1>2, <1>3, <1>4, <1>5, <1>6, <1>7, <1>8 DEF Create

LEMMA CancelQuiet ==
  ASSUME IInv, NEW r \in Requests, Cancel(r), ~CancelUpdate(r)
  PROVE  IInv'
<1> USE DEF At
<1>0. StepFits(r, pc[r])
  BY DEF IInv, StepsFit
<1>1. CASE CancelFind(r)
  BY <1>1, GoesOn, Refuses DEF CancelFind, Steps, AfterWrite, CancelSteps, Refusals
<1>2. CASE CancelNoRow(r)
  BY <1>2, GoesOn DEF CancelNoRow, Steps, AfterWrite, CancelSteps
<1>3. CASE CancelRefresh(r)
  BY <1>3, Refuses DEF CancelRefresh, Steps, Refusals
<1>4. CASE CancelReadBack(r)
  <2>1. Target(r) \in AllIds
    BY <1>0, <1>4, CallFields DEF CancelReadBack, StepFits, CancelSteps
  <2>2. QED
    BY <1>4, <2>1, Shows, Refuses DEF CancelReadBack, Steps, Refusals
<1>5. QED
  BY <1>1, <1>2, <1>3, <1>4 DEF Cancel

LEMMA DeleteQuiet ==
  ASSUME IInv, NEW r \in Requests, Delete(r), ~DeleteUpdate(r)
  PROVE  IInv'
<1> USE DEF At
<1>0. StepFits(r, pc[r])
  BY DEF IInv, StepsFit
<1>1. CASE DeleteFind(r)
  BY <1>1, GoesOn, Refuses DEF DeleteFind, Steps, AfterWrite, DeleteSteps, Refusals
<1>2. CASE DeleteNoRow(r)
  BY <1>2, GoesOn DEF DeleteNoRow, Steps, AfterWrite, DeleteSteps
<1>3. CASE DeleteRefresh(r)
  BY <1>3, Refuses DEF DeleteRefresh, Steps, Refusals
<1>4. CASE DeleteRespond(r)
  <2> DEFINE rep == Refusal("204")
  <2>1. call[r].op = "delete" /\ r \in took
    BY <1>0, <1>4, CallFields DEF DeleteRespond, StepFits, DeleteSteps, AfterWrite
  <2>2. rep \in Replies /\ ReplyFits(r, rep)
    BY <2>1 DEF Refusal, Reply, Replies, Codes, ReplyFits, Refusals
  <2>3. QED
    BY <1>4, <2>2, QuietAnswer DEF DeleteRespond
<1>5. QED
  BY <1>1, <1>2, <1>3, <1>4 DEF Delete

LEMMA ReadQuiet ==
  ASSUME IInv, NEW r \in Requests, GetOrder(r) \/ ListOrders(r)
  PROVE  IInv'
<1> USE DEF At
<1>0. StepFits(r, pc[r])
  BY DEF IInv, StepsFit
<1>1. CASE GetOrder(r)
  <2>1. Target(r) \in AllIds
    BY <1>0, <1>1, CallFields DEF GetOrder, StepFits
  <2>2. QED
    BY <1>1, <2>1, Shows, Refuses DEF GetOrder, Steps, Refusals
<1>2. CASE ListOrders(r)
  <2> DEFINE rep == Reply("200", {o \in AllIds : Visible(o)}, None, None)
  <2>1. call[r].op = "list"
    BY <1>0, <1>2, CallFields DEF ListOrders, StepFits
  <2>2. rep \in Replies
    BY DEF Reply, Replies, Codes
  <2>3. rep.shown \intersect gone[r] = {}
    BY DEF IInv, GoneFits, Reply, Visible
  <2>4. ReplyFits(r, rep)
    BY <2>1, <2>3 DEF ReplyFits, Reply, Refusals
  <2>5. QED
    BY <1>2, <2>2, <2>4, QuietAnswer DEF ListOrders
<1>3. QED
  BY <1>1, <1>2
-----------------------------------------------------------------------------
(* The steps that write.                                                   *)

LEMMA ReceiveStep ==
  ASSUME IInv, NEW r \in Requests, Receive(r)
  PROVE  IInv'
<1> USE OrdersAssumption DEF IInv, rows, keys, Receive, At, Goto
<1>1. PICK c \in Calls :
        /\ c.op \in {"cancel", "delete"} => c.token \in Issued \union {Guess}
        /\ call' = [call EXCEPT ![r] = c]
        /\ Goto(r, First(c.op), NoLocal)
  OBVIOUS
<1>2. r \notin took /\ reply[r] = NoReply
  BY DEF StepsFit, StepFits, Unanswered
<1>3. /\ \A q \in Requests : call'[q] = IF q = r THEN c ELSE call[q]
      /\ \A q \in Requests : pc'[q] = IF q = r THEN First(c.op) ELSE pc[q]
      /\ \A q \in Requests : local'[q] = IF q = r THEN NoLocal ELSE local[q]
      /\ \A q \in Requests :
           gone'[q] = IF q = r THEN {o \in AllIds : deletedAt[o]} ELSE gone[q]
      /\ Issued' = Issued
  BY <1>1 DEF TypeOK, Issued
<1>4. \/ c \in CreateCalls /\ c.op = "create" /\ First(c.op) = "c_find"
      \/ c \in TokenCalls /\ c.op = "cancel" /\ First(c.op) = "x_find"
      \/ c \in TokenCalls /\ c.op = "delete" /\ First(c.op) = "d_find"
      \/ c \in GetCalls /\ c.op = "get" /\ First(c.op) = "g_find"
      \/ c \in ListCalls /\ c.op = "list" /\ First(c.op) = "l_find"
  BY DEF Calls, CreateCalls, TokenCalls, GetCalls, ListCalls, First
<1>5. First(c.op) \in Steps
  BY <1>4 DEF Steps
<1>6. TypeOK'
  BY <1>1, <1>5 DEF TypeOK, NoLocal
<1>7. StepsFit'
  <2>1. StepFits(r, First(c.op))'
    BY <1>1, <1>2, <1>3, <1>4
       DEF StepFits, CreateSteps, CancelSteps, DeleteSteps, Steps, AfterWrite
  <2>2. ASSUME NEW q \in Requests, q # r
        PROVE  StepFits(q, pc[q])'
    BY <1>3, <2>2 DEF StepsFit, StepFits
  <2>3. QED
    BY <1>3, <2>1, <2>2 DEF StepsFit
<1>8. LocalsFit'
  BY <1>3, <1>4 DEF LocalsFit, LocalFits, Key, Body
<1>9. RepliesFit'
  <2>1. ReplyFits(r, reply[r])'
    BY <1>2 DEF ReplyFits, NoReply, Refusal, Reply, Refusals
  <2>2. ASSUME NEW q \in Requests, q # r
        PROVE  ReplyFits(q, reply[q])'
    BY <1>3, <2>2 DEF RepliesFit, ReplyFits, Key, Body
  <2>3. QED
    BY <2>1, <2>2 DEF RepliesFit
<1>10. Unanswered' /\ GoneFits'
  BY <1>2, <1>3 DEF Unanswered, GoneFits
<1>11. \A q \in took : q # r /\ call'[q] = call[q]
  BY <1>2, <1>3 DEF TypeOK
<1>12. TablesAgree' /\ TokensAgree' /\ EffectsFit'
  BY <1>11 DEF TablesAgree, TokensAgree, EffectsFit, Key, Target
<1>13. MovesFit'
  <2>1. ASSUME NEW q \in Requests, reply[q].code # "none"
        PROVE  call'[q] = call[q]
    BY <1>2, <1>3, <2>1 DEF NoReply, Refusal, Reply
  <2>2. EffectsAtMostOnce'
    BY <1>11, <2>1 DEF MovesFit, EffectsAtMostOnce, Key, Target, TypeOK
  <2>3. OnlyHolderMoves'
    BY DEF MovesFit, OnlyHolderMoves
  <2>4. QED
    BY <2>2, <2>3 DEF MovesFit
<1>14. QED
  BY <1>6, <1>7, <1>8, <1>9, <1>10, <1>12, <1>13

LEMMA DatabaseErrorStep ==
  ASSUME IInv, NEW r \in Requests, DatabaseError(r)
  PROVE  IInv'
BY Refuses DEF DatabaseError, Refusals

LEMMA RestartStep ==
  ASSUME IInv, NEW s \in Servers, NEW v \in Versions, Restart(s, v)
  PROVE  IInv'
<1> USE DEF IInv, Restart, rows, keys
<1>1. \A q \in Requests :
        /\ pc'[q] = pc[q] \/ (pc[q] \in Steps /\ pc'[q] = "lost")
        /\ local'[q] = IF pc'[q] = "lost" THEN NoLocal ELSE local[q]
  BY DEF TypeOK
<1>2. TypeOK'
  <2>1. pc' \in [Requests -> Steps \union Waiting]
    BY DEF TypeOK, Waiting
  <2>2. NoLocal \in Locals
    BY DEF NoLocal, Locals
  <2>3. local' \in [Requests -> Locals]
    BY <2>2 DEF TypeOK, Locals
  <2>4. QED
    BY <2>1, <2>3 DEF TypeOK, Locals
<1>3. StepsFit'
  BY <1>1 DEF StepsFit, StepFits, Issued, CreateSteps, CancelSteps, DeleteSteps,
              Steps, AfterWrite
<1>4. LocalsFit'
  BY <1>1 DEF LocalsFit, LocalFits, Key, Body
<1>5. RepliesFit'
  BY DEF RepliesFit, ReplyFits, Key, Body
<1>6. Unanswered' /\ GoneFits'
  BY <1>1 DEF Unanswered, GoneFits, Steps
<1>7. TablesAgree' /\ TokensAgree' /\ EffectsFit'
  BY DEF TablesAgree, TokensAgree, EffectsFit, Key, Target
<1>8. MovesFit'
  BY DEF MovesFit, EffectsAtMostOnce, OnlyHolderMoves, Key, Target
<1>9. QED
  BY <1>2, <1>3, <1>4, <1>5, <1>6, <1>7, <1>8
\* A conditional UPDATE by a token holder: the order's creation was answered.
LEMMA HolderAnswered ==
  ASSUME IInv, NEW r \in Requests, pc[r] \in CancelSteps \union DeleteSteps,
         Target(r) \in OrderIds, status[Target(r)] # "ABSENT",
         Controls(Token(r), Target(r))
  PROVE  \E q \in Requests : reply[q].code = "201" /\ Target(r) \in reply[q].shown
<1> USE OrdersAssumption DEF IInv
<1>1. PICK q \in took :
        /\ tokenHash[Target(r)] = TokenHash(q)
        /\ call[q] \in CreateCalls
        /\ keyOrder[Key(q)] = Target(r)
  BY DEF TokensAgree
<1>2. q \in Requests /\ Token(r) = q
  BY <1>1, TokenHashInjective DEF TypeOK, Controls
<1>3. q \in Issued
  BY <1>2 DEF StepsFit, StepFits, Token
<1>4. PICK p \in Requests : reply[p].token = q
  BY <1>3 DEF Issued
<1>5. p = q /\ reply[q].code = "201" /\ call[q].op = "create"
  BY <1>2, <1>4 DEF RepliesFit, ReplyFits
<1>6. reply[q].shown = {Target(r)}
  BY <1>1, <1>2, <1>5 DEF RepliesFit, ReplyFits
<1>7. QED
  BY <1>2, <1>5, <1>6

\* What a request owns is untouched when another row or status changes.
LEMMA CancelUpdateStep ==
  ASSUME IInv, NEW r \in Requests, CancelUpdate(r)
  PROVE  IInv'
<1> DEFINE o == Target(r)
<1> USE OrdersAssumption DEF IInv, rows, keys, CancelUpdate, At, Goto, TookEffect
<1>1. StepFits(r, "x_update")
  BY DEF StepsFit
<1>2. /\ call[r] \in TokenCalls /\ call[r].op = "cancel"
      /\ r \notin took /\ reply[r] = NoReply /\ o \in AllIds
  BY <1>1, CallFields DEF StepFits, CancelSteps, Steps, AfterWrite, Unanswered
<1>3. o \in OrderIds /\ status[o] = "CONFIRMED"
  BY <1>2 DEF IsCancellable, Kind, AllIds
<1>4. /\ \A p \in AllIds : status'[p] = IF p = o THEN "CANCELLED" ELSE status[p]
      /\ \A q \in Requests : pc'[q] = IF q = r THEN "x_read" ELSE pc[q]
      /\ \A q \in Requests : local'[q] = IF q = r THEN NoLocal ELSE local[q]
      /\ Issued' = Issued
  BY DEF TypeOK, Issued
<1>5. TypeOK'
  BY <1>2, <1>3 DEF TypeOK, NoLocal, Statuses, Steps
<1>6. StepsFit'
  <2>1. StepFits(r, "x_read")'
    BY <1>1, <1>4 DEF StepFits, CreateSteps, CancelSteps, DeleteSteps, Steps, AfterWrite
  <2>2. ASSUME NEW q \in Requests, q # r
        PROVE  StepFits(q, pc[q])'
    BY <1>4, <2>2 DEF StepsFit, StepFits
  <2>3. QED
    BY <1>4, <2>1, <2>2 DEF StepsFit
<1>7. LocalsFit'
  BY <1>4 DEF LocalsFit, LocalFits, Key, Body
<1>8. RepliesFit'
  <2>1. ReplyFits(r, reply[r])'
    BY <1>2 DEF ReplyFits, NoReply, Refusal, Reply, Refusals
  <2>2. ASSUME NEW q \in Requests, q # r
        PROVE  ReplyFits(q, reply[q])'
    BY <2>2 DEF RepliesFit, ReplyFits, Key, Body
  <2>3. QED
    BY <2>1, <2>2 DEF RepliesFit
<1>9. Unanswered' /\ GoneFits'
  BY <1>2, <1>4 DEF Unanswered, GoneFits
<1>10. TablesAgree'
  BY <1>3, <1>4, CallFields DEF TablesAgree, TypeOK, AllIds
<1>11. TokensAgree'
  BY <1>3, <1>4 DEF TokensAgree, TypeOK, AllIds, Key
<1>12. EffectsFit'
  <2>1. ASSUME NEW q \in took
        PROVE  call[q] \in TokenCalls => Target(q) \in AllIds
    BY CallFields
  <2>2. \A q \in took :
          /\ call[q] \in CreateCalls \union TokenCalls
          /\ call[q].op \in {"cancel", "delete"} => Target(q) \in AllIds
    BY <2>1, CallFields DEF EffectsFit
  <2>3. \A q \in took : call[q].op \in {"cancel", "delete"} =>
          status'[Target(q)] = IF Target(q) = o THEN "CANCELLED"
                                                ELSE status[Target(q)]
    BY <1>4, <2>2
  <2>4. status'[o] = "CANCELLED"
    BY <1>2, <1>4
  <2>5. took' = took \union {r} /\ UNCHANGED <<call, keyOrder, tokenHash>>
    OBVIOUS
  <2>6. QED
    BY <1>2, <1>3, <2>3, <2>4, <2>5 DEF EffectsFit, Key, Target
<1>13. EffectsAtMostOnce'
  <2>1. \A q \in took : call[q].op = "cancel" => Target(q) # o
    BY <1>3 DEF EffectsFit
  <2>2. took' = took \union {r} /\ call' = call /\ reply' = reply
    OBVIOUS
  <2>3. EffectsAtMostOnce
    BY DEF MovesFit
  <2>4. QED
    BY <1>2, <2>1, <2>2, <2>3 DEF EffectsAtMostOnce, Key, Target
<1>14. OnlyHolderMoves'
  BY <1>3, <1>4, HolderAnswered DEF MovesFit, OnlyHolderMoves, CancelSteps, AllIds
<1>15. QED
  BY <1>5, <1>6, <1>7, <1>8, <1>9, <1>10, <1>11, <1>12, <1>13, <1>14 DEF MovesFit

LEMMA DeleteUpdateStep ==
  ASSUME IInv, NEW r \in Requests, DeleteUpdate(r)
  PROVE  IInv'
<1> DEFINE o == Target(r)
<1> USE OrdersAssumption DEF IInv, rows, keys, DeleteUpdate, At, Goto, TookEffect
<1>1. StepFits(r, "d_update")
  BY DEF StepsFit
<1>2. /\ call[r] \in TokenCalls /\ call[r].op = "delete"
      /\ r \notin took /\ reply[r] = NoReply /\ o \in AllIds
  BY <1>1, CallFields DEF StepFits, DeleteSteps, Steps, AfterWrite, Unanswered
<1>3. o \in OrderIds /\ status[o] \in {"CONFIRMED", "CANCELLED"}
  BY <1>2 DEF IsDeletable, Kind, AllIds
<1>4. /\ \A p \in AllIds : status'[p] = IF p = o THEN "DELETED" ELSE status[p]
      /\ \A p \in AllIds : deletedAt[p] => deletedAt'[p]
      /\ \A q \in Requests : pc'[q] = IF q = r THEN "d_ok" ELSE pc[q]
      /\ \A q \in Requests : local'[q] = IF q = r THEN NoLocal ELSE local[q]
      /\ Issued' = Issued
  BY DEF TypeOK, Issued
<1>5. TypeOK'
  BY <1>2, <1>3 DEF TypeOK, NoLocal, Statuses, Steps
<1>6. StepsFit'
  <2>1. StepFits(r, "d_ok")'
    BY <1>1, <1>4 DEF StepFits, CreateSteps, CancelSteps, DeleteSteps, Steps, AfterWrite
  <2>2. ASSUME NEW q \in Requests, q # r
        PROVE  StepFits(q, pc[q])'
    BY <1>4, <2>2 DEF StepsFit, StepFits
  <2>3. QED
    BY <1>4, <2>1, <2>2 DEF StepsFit
<1>7. LocalsFit'
  BY <1>4 DEF LocalsFit, LocalFits, Key, Body
<1>8. RepliesFit'
  <2>1. ReplyFits(r, reply[r])'
    BY <1>2 DEF ReplyFits, NoReply, Refusal, Reply, Refusals
  <2>2. ASSUME NEW q \in Requests, q # r
        PROVE  ReplyFits(q, reply[q])'
    BY <2>2 DEF RepliesFit, ReplyFits, Key, Body
  <2>3. QED
    BY <2>1, <2>2 DEF RepliesFit
<1>9. Unanswered' /\ GoneFits'
  BY <1>2, <1>4 DEF Unanswered, GoneFits, TypeOK
<1>10. TablesAgree'
  BY <1>3, <1>4, CallFields DEF TablesAgree, TypeOK, AllIds
<1>11. TokensAgree'
  BY <1>3, <1>4 DEF TokensAgree, TypeOK, AllIds, Key
<1>12. EffectsFit'
  <2>1. ASSUME NEW q \in took
        PROVE  call[q] \in TokenCalls => Target(q) \in AllIds
    BY CallFields
  <2>2. \A q \in took :
          /\ call[q] \in CreateCalls \union TokenCalls
          /\ call[q].op \in {"cancel", "delete"} => Target(q) \in AllIds
    BY <2>1, CallFields DEF EffectsFit
  <2>3. \A q \in took : call[q].op \in {"cancel", "delete"} =>
          status'[Target(q)] = IF Target(q) = o THEN "DELETED"
                                                ELSE status[Target(q)]
    BY <1>4, <2>2
  <2>4. status'[o] = "DELETED"
    BY <1>2, <1>4
  <2>5. took' = took \union {r} /\ UNCHANGED <<call, keyOrder, tokenHash>>
    OBVIOUS
  <2>6. QED
    BY <1>2, <1>3, <2>3, <2>4, <2>5 DEF EffectsFit, Key, Target
<1>13. EffectsAtMostOnce'
  <2>1. \A q \in took : call[q].op = "delete" => Target(q) # o
    BY <1>3 DEF EffectsFit
  <2>2. QED
    BY <1>2, <2>1 DEF MovesFit, EffectsAtMostOnce, Key, Target
<1>14. OnlyHolderMoves'
  BY <1>3, <1>4, HolderAnswered DEF MovesFit, OnlyHolderMoves, DeleteSteps, AllIds
<1>15. QED
  BY <1>5, <1>6, <1>7, <1>8, <1>9, <1>10, <1>11, <1>12, <1>13, <1>14 DEF MovesFit
LEMMA CreateCommitStep ==
  ASSUME IInv, NEW r \in Requests, CreateCommit(r)
  PROVE  IInv'
<1> DEFINE o == local[r].order
           k == Key(r)
<1> USE OrdersAssumption DEF IInv, rows, keys, CreateCommit, At, Goto, TookEffect
<1>1. StepFits(r, "c_save") /\ LocalFits(r, "c_save", local[r])
  BY DEF StepsFit, LocalsFit
<1>2. /\ call[r] \in CreateCalls /\ call[r].op = "create"
      /\ k \in Keys /\ Body(r) \in Bodies
      /\ o \in OrderIds /\ o \in AllIds /\ local[r].price \in Versions
      /\ r \notin took /\ reply[r] = NoReply
  BY <1>1, CallFields DEF StepFits, LocalFits, CreateSteps, Steps, AfterWrite,
                          Unanswered, AllIds
<1>3. /\ status[o] = "ABSENT" /\ keyOrder[k] = None
      /\ pricing[o] = None /\ ~deletedAt[o]
      /\ \A j \in Keys : keyOrder[j] # o
  BY <1>2 DEF TablesAgree, TypeOK
<1>4. /\ \A p \in AllIds : status'[p] = IF p = o THEN "CONFIRMED" ELSE status[p]
      /\ \A p \in AllIds : tokenHash'[p] = IF p = o THEN TokenHash(r) ELSE tokenHash[p]
      /\ \A p \in AllIds : pricing'[p] = IF p = o THEN local[r].price ELSE pricing[p]
      /\ \A j \in Keys : keyOrder'[j] = IF j = k THEN o ELSE keyOrder[j]
      /\ \A j \in Keys : keyBody'[j] = IF j = k THEN Body(r) ELSE keyBody[j]
      /\ \A q \in Requests : pc'[q] = IF q = r THEN "c_ok" ELSE pc[q]
      /\ local' = local
      /\ Issued' = Issued
  BY <1>2 DEF TypeOK, Issued
<1>5. TypeOK'
  BY <1>2, <1>3 DEF TypeOK, Statuses, Steps, Hashes, Tokens
<1>6. StepsFit'
  <2>1. StepFits(r, "c_ok")'
    BY <1>1, <1>4 DEF StepFits, CreateSteps, CancelSteps, DeleteSteps, Steps, AfterWrite
  <2>2. ASSUME NEW q \in Requests, q # r
        PROVE  StepFits(q, pc[q])'
    BY <1>4, <2>2 DEF StepsFit, StepFits
  <2>3. QED
    BY <1>4, <2>1, <2>2 DEF StepsFit
<1>7. LocalsFit'
  <2>1. LocalFits(r, "c_ok", local[r])'
    BY <1>2, <1>3, <1>4 DEF LocalFits, GoneFits, Key, Body
  <2>2. ASSUME NEW q \in Requests, q # r
        PROVE  LocalFits(q, pc[q], local[q])'
    <3>1. StepFits(q, pc[q]) /\ LocalFits(q, pc[q], local[q])
      BY DEF StepsFit, LocalsFit
    <3>2. pc[q] \in {"c_load", "c_ok"} =>
            Key(q) \in Keys /\ Key(q) # k /\ local[q].order # o
      BY <1>3, <3>1, CallFields DEF StepFits, LocalFits, CreateSteps
    <3>3. pc'[q] = pc[q] /\ local'[q] = local[q]
      BY <1>4, <2>2
    <3>4. pc[q] = "c_ok" => local[q].order \in AllIds
      BY <3>1 DEF LocalFits, AllIds
    <3>5. QED
      BY <1>4, <3>1, <3>2, <3>3, <3>4 DEF LocalFits, Key, Body
  <2>3. QED
    BY <1>4, <2>1, <2>2 DEF LocalsFit
<1>8. RepliesFit'
  <2>1. ReplyFits(r, reply[r])'
    BY <1>2 DEF ReplyFits, NoReply, Refusal, Reply, Refusals
  <2>2. ASSUME NEW q \in Requests, q # r
        PROVE  ReplyFits(q, reply[q])'
    <3>1. ReplyFits(q, reply[q])
      BY DEF RepliesFit
    <3>2. call[q].op = "create" /\ reply[q].code \in {"200", "201"} =>
            /\ Key(q) \in Keys /\ Key(q) # k
            /\ keyOrder[Key(q)] \in AllIds /\ keyOrder[Key(q)] # o
      BY <1>3, <3>1, CallFields DEF ReplyFits, TypeOK, AllIds
    <3>3. \A p \in AllIds : pricing[p] # None => pricing'[p] = pricing[p]
      BY <1>3, <1>4
    <3>4. reply[q].price # None =>
            \E p \in AllIds : reply[q].shown = {p} /\ pricing'[p] = reply[q].price
      BY <3>1, <3>3 DEF ReplyFits
    <3>5. call' = call /\ reply' = reply /\ gone' = gone /\ took' = took \union {r}
      OBVIOUS
    <3>6. QED
      BY <1>4, <2>2, <3>1, <3>2, <3>4, <3>5 DEF ReplyFits, Key, Body
  <2>3. QED
    BY <2>1, <2>2 DEF RepliesFit
<1>9. Unanswered' /\ GoneFits'
  BY <1>2, <1>4 DEF Unanswered, GoneFits
<1>10. TablesAgree'
  <2>1. \A j \in Keys : keyOrder'[j] # None => status'[keyOrder'[j]] # "ABSENT"
    BY <1>2, <1>3, <1>4 DEF TablesAgree, TypeOK, AllIds
  <2>2. \A i, j \in Keys :
          keyOrder'[i] # None /\ keyOrder'[i] = keyOrder'[j] => i = j
    BY <1>2, <1>3, <1>4 DEF TablesAgree
  <2>3. \A p \in OrderIds : status'[p] # "ABSENT" => \E j \in Keys : keyOrder'[j] = p
    BY <1>2, <1>3, <1>4 DEF TablesAgree, AllIds
  <2>4. \A p \in OrderIds : status'[p] # "ABSENT" => pricing'[p] # None
    BY <1>2, <1>4 DEF TablesAgree, AllIds
  <2>5. /\ \A p \in AllIds : status'[p] = "ABSENT" => pricing'[p] = None
        /\ \A p \in SeedIds : status'[p] # "ABSENT" /\ pricing'[p] = None
    BY <1>2, <1>4 DEF TablesAgree, AllIds
  <2>6. QED
    BY <2>1, <2>2, <2>3, <2>4, <2>5 DEF TablesAgree
<1>11. TokensAgree'
  <2>1. ASSUME NEW p \in OrderIds, status'[p] # "ABSENT"
        PROVE  \E q \in took' :
                 /\ tokenHash'[p] = TokenHash(q)
                 /\ call'[q] \in CreateCalls
                 /\ keyOrder'[Key(q)'] = p
    <3>1. CASE p = o
      BY <1>2, <1>4, <3>1 DEF Key
    <3>2. CASE p # o
      <4>1. PICK q \in took :
              tokenHash[p] = TokenHash(q) /\ call[q] \in CreateCalls
              /\ keyOrder[Key(q)] = p
        BY <1>4, <2>1, <3>2 DEF TokensAgree, AllIds
      <4>2. Key(q) \in Keys /\ Key(q) # k
        BY <1>3, <4>1, CallFields
      <4>3. QED
        BY <1>4, <3>2, <4>1, <4>2 DEF Key, AllIds
    <3>3. QED
      BY <3>1, <3>2
  <2>2. QED
    BY <2>1 DEF TokensAgree
<1>12. EffectsFit'
  <2>1. \A q \in took : call[q].op = "create" =>
          /\ Key(q) \in Keys /\ Key(q) # k
          /\ keyOrder[Key(q)] \in AllIds /\ keyOrder[Key(q)] # o
    BY <1>3, CallFields DEF EffectsFit, TypeOK, AllIds
  <2>2. \A q \in took : call[q].op \in {"cancel", "delete"} =>
          Target(q) \in AllIds /\ Target(q) # o
    BY <1>3, CallFields DEF EffectsFit
  <2>3. took' = took \union {r} /\ call' = call
    OBVIOUS
  <2>4. QED
    BY <1>2, <1>4, <2>1, <2>2, <2>3 DEF EffectsFit, Key, Target
<1>13. EffectsAtMostOnce'
  <2>1. \A q \in took : call[q].op = "create" => Key(q) # k
    BY <1>3 DEF EffectsFit
  <2>2. took' = took \union {r} /\ call' = call /\ reply' = reply
    OBVIOUS
  <2>3. EffectsAtMostOnce
    BY DEF MovesFit
  <2>4. QED
    BY <1>2, <2>1, <2>2, <2>3 DEF EffectsAtMostOnce, Key, Target
<1>14. OnlyHolderMoves'
  BY <1>4 DEF MovesFit, OnlyHolderMoves, AllIds
<1>15. QED
  BY <1>5, <1>6, <1>7, <1>8, <1>9, <1>10, <1>11, <1>12, <1>13, <1>14 DEF MovesFit
-----------------------------------------------------------------------------
(* The invariant is inductive.                                             *)

LEMMA NextIInv == IInv /\ [Next]_vars => IInv'
<1> SUFFICES ASSUME IInv, [Next]_vars PROVE IInv'
  OBVIOUS
<1>1. ASSUME NEW r \in Requests, Handle(r)
      PROVE  IInv'
  <2>1. CASE Receive(r)
    BY <2>1, ReceiveStep
  <2>2. CASE Create(r)
    BY <2>2, CreateQuiet, CreateCommitStep
  <2>3. CASE Cancel(r)
    BY <2>3, CancelQuiet, CancelUpdateStep
  <2>4. CASE Delete(r)
    BY <2>4, DeleteQuiet, DeleteUpdateStep
  <2>5. CASE GetOrder(r) \/ ListOrders(r)
    BY <2>5, ReadQuiet
  <2>6. CASE DatabaseError(r)
    BY <2>6, DatabaseErrorStep
  <2>7. QED
    BY <1>1, <2>1, <2>2, <2>3, <2>4, <2>5, <2>6 DEF Handle
<1>2. ASSUME NEW s \in Servers, NEW v \in Versions, Restart(s, v)
      PROVE  IInv'
  BY <1>2, RestartStep
<1>3. CASE UNCHANGED vars
  <2> USE <1>3 DEF vars, IInv
  <2>1. TypeOK' /\ LocalsFit' /\ Unanswered' /\ GoneFits'
    BY DEF TypeOK, LocalsFit, LocalFits, Key, Body, Unanswered, GoneFits
  <2>2. StepsFit' /\ RepliesFit'
    BY DEF StepsFit, StepFits, Issued, RepliesFit, ReplyFits, Key, Body
  <2>3. TablesAgree' /\ TokensAgree' /\ EffectsFit'
    BY DEF TablesAgree, TokensAgree, EffectsFit, Key, Target
  <2>4. MovesFit'
    BY DEF MovesFit, EffectsAtMostOnce, OnlyHolderMoves, Key, Target
  <2>5. QED
    BY <2>1, <2>2, <2>3, <2>4
<1>4. QED
  BY <1>1, <1>2, <1>3 DEF Next

\* Every reachable state of the order endpoints satisfies IInv.
THEOREM Inductive == Spec => []IInv
BY InitIInv, NextIInv, PTL DEF Spec

-----------------------------------------------------------------------------
(* What a reader should know of.                                           *)

\* Every variable keeps its type, and deleted_at goes with the status DELETED.
THEOREM TypeCorrect == Spec => []TypeOK
<1>1. IInv => TypeOK
  BY DEF IInv
<1>2. QED
  BY <1>1, Inductive, PTL

\* An order and its idempotency row are committed together or not at all
\* (save_new_with_idempotency), for any crashes, failures and races.
THEOREM OrderAndKeyTogether == Spec => []CommittedTogether
<1>1. ASSUME IInv PROVE CommittedTogether
  <2>1. \A k \in Keys : keyOrder[k] # None => status[keyOrder[k]] # "ABSENT"
    BY <1>1 DEF IInv, TablesAgree
  <2>2. ASSUME NEW o \in OrderIds, status[o] # "ABSENT"
        PROVE  \E k \in Keys : \A j \in Keys : keyOrder[j] = o <=> j = k
    <3>1. PICK k \in Keys : keyOrder[k] = o
      BY <1>1, <2>2 DEF IInv, TablesAgree
    <3>2. \A j \in Keys : keyOrder[j] = o => j = k
      BY <1>1, <3>1, OrdersAssumption DEF IInv, TablesAgree
    <3>3. QED
      BY <3>1, <3>2
  <2>3. ASSUME NEW o \in AllIds, status[o] # "ABSENT"
        PROVE  Constructible(o)
    <3>1. status[o] \in Statuses /\ (status[o] = "DELETED" => deletedAt[o])
      BY <1>1 DEF IInv, TypeOK
    <3>2. CASE o \in OrderIds
      <4>1. pricing[o] # None
        BY <1>1, <2>3, <3>2 DEF IInv, TablesAgree
      <4>2. PICK q \in took : tokenHash[o] = TokenHash(q)
        BY <1>1, <2>3, <3>2 DEF IInv, TokensAgree
      <4>3. tokenHash[o] # None
        BY <1>1, <4>2, HashNotNone DEF IInv, TypeOK
      <4>4. QED
        BY <2>3, <3>1, <4>1, <4>3 DEF Constructible, Statuses
    <3>3. CASE o \in SeedIds
      BY <3>1, <3>3 DEF Constructible, Kind
    <3>4. QED
      BY <3>2, <3>3 DEF AllIds
  <2>4. QED
    BY <2>1, <2>2, <2>3 DEF CommittedTogether
<1>2. QED
  BY <1>1, Inductive, PTL

\* All the successful answers to one Idempotency-Key name the same order
\* (execute_with_idempotency), whichever of the racing requests won.
THEOREM IdempotentCreation == Spec => []OneOrderPerKey
<1>1. ASSUME IInv PROVE OneOrderPerKey
  <2>1. ASSUME NEW r \in Requests, Created(r)
        PROVE  reply[r].shown = {keyOrder[Key(r)]} /\ keyBody[Key(r)] = Body(r)
    BY <1>1, <2>1 DEF IInv, RepliesFit, ReplyFits, Created
  <2>2. QED
    BY <2>1 DEF OneOrderPerKey
<1>2. QED
  BY <1>1, Inductive, PTL

\* A control token is given out by one answer only, and it is the one whose
\* digest the order's row holds.
THEOREM TokenGivenOnce == Spec => []TokenIssuedOnce
<1>1. ASSUME IInv PROVE TokenIssuedOnce
  <2>1. ASSUME NEW r \in Requests, reply[r].token # None
        PROVE  /\ reply[r].token = r
               /\ reply[r].shown = {keyOrder[Key(r)]}
               /\ tokenHash[keyOrder[Key(r)]] = TokenHash(r)
    BY <1>1, <2>1 DEF IInv, RepliesFit, ReplyFits
  <2>2. QED
    BY <2>1, TokenHashInjective DEF TokenIssuedOnce
<1>2. QED
  BY <1>1, Inductive, PTL

\* The conditional UPDATEs and the unique key let each effect happen once, and
\* success is told to the request that caused it.
THEOREM OneEffect == Spec => []EffectsAtMostOnce
<1>1. IInv => EffectsAtMostOnce
  BY DEF IInv, MovesFit
<1>2. QED
  BY <1>1, Inductive, PTL

\* Nobody moves an order whose creation response was never delivered.
THEOREM HolderMoves == Spec => []OnlyHolderMoves
<1>1. IInv => OnlyHolderMoves
  BY DEF IInv, MovesFit
<1>2. QED
  BY <1>1, Inductive, PTL

\* A request that begins after a deletion does not see the order.
THEOREM DeletedStaysHidden == Spec => []NoReadAfterDelete
<1>1. IInv => NoReadAfterDelete
  BY DEF IInv, RepliesFit, ReplyFits, NoReadAfterDelete
<1>2. QED
  BY <1>1, Inductive, PTL

\* The price an order was created with is the one every later answer shows.
THEOREM PriceFrozen == Spec => []PricingFrozen
<1>1. IInv => PricingFrozen
  BY DEF IInv, RepliesFit, ReplyFits, PricingFrozen
<1>2. QED
  BY <1>1, Inductive, PTL

\* A refused creation or deletion has written nothing.
THEOREM RefusalWritesNothing == Spec => []RefusedHasNoEffect
<1>1. IInv => RefusedHasNoEffect
  BY DEF IInv, RepliesFit, ReplyFits, RefusedHasNoEffect, Refusals
<1>2. QED
  BY <1>1, Inductive, PTL

-----------------------------------------------------------------------------
(* The tables implement the life cycle.                                    *)

\* The state of an order as the life cycle sees it.
Mapped == [o \in AllIds |-> IF deletedAt[o] THEN "DELETED" ELSE status[o]]

LEMMA InitLifecycle == Init => Lifecycle!BookInit
BY OrdersAssumption
   DEF Init, Lifecycle!BookInit, Lifecycle!AllIds, AllIds, SeedStatus

\* A step that leaves the rows and the keys alone is a stutter.
LEMMA QuietStutters ==
  ASSUME UNCHANGED <<rows, keys>>
  PROVE  UNCHANGED Lifecycle!book
BY DEF Lifecycle!book, rows, keys

LEMMA StepLifecycle == IInv /\ [Next]_vars => [Lifecycle!BookNext]_(Lifecycle!book)
<1> SUFFICES ASSUME IInv, [Next]_vars
             PROVE  Lifecycle!BookNext \/ UNCHANGED Lifecycle!book
  OBVIOUS
<1> USE OrdersAssumption
<1>1. ASSUME NEW r \in Requests, CreateCommit(r)
      PROVE  Lifecycle!BookNext
  <2>1. StepFits(r, pc[r]) /\ LocalFits(r, pc[r], local[r])
    BY DEF IInv, StepsFit, LocalsFit
  <2>2. Key(r) \in Keys /\ local[r].order \in OrderIds /\ local[r].order \in AllIds
    BY <1>1, <2>1, CallFields
       DEF CreateCommit, At, StepFits, LocalFits, CreateSteps, AllIds
  <2>3. ~deletedAt[local[r].order]
    BY <1>1, <2>2 DEF CreateCommit, IInv, TypeOK
  <2>4. Mapped' = [Mapped EXCEPT ![local[r].order] = "CONFIRMED"]
    BY <1>1, <2>2, <2>3 DEF CreateCommit, IInv, TypeOK, Mapped
  <2>5. Lifecycle!Place(Key(r), local[r].order)
    BY <1>1, <2>2, <2>3, <2>4 DEF CreateCommit, Lifecycle!Place, Mapped
  <2>6. QED
    BY <2>2, <2>5 DEF Lifecycle!BookNext, Lifecycle!Place
<1>2. ASSUME NEW r \in Requests, CancelUpdate(r)
      PROVE  Lifecycle!BookNext
  <2>1. StepFits(r, pc[r])
    BY DEF IInv, StepsFit
  <2>2. Target(r) \in OrderIds /\ Target(r) \in AllIds
    BY <1>2, <2>1, CallFields
       DEF CancelUpdate, At, StepFits, CancelSteps, IsCancellable, Kind, AllIds
  <2>3. status[Target(r)] = "CONFIRMED" /\ ~deletedAt[Target(r)]
    BY <1>2 DEF CancelUpdate, IsCancellable, Controls
  <2>4. Mapped' = [Mapped EXCEPT ![Target(r)] = "CANCELLED"]
    BY <1>2, <2>2, <2>3 DEF CancelUpdate, IInv, TypeOK, Mapped
  <2>5. Lifecycle!Cancel(Target(r))
    BY <1>2, <2>2, <2>3, <2>4 DEF CancelUpdate, keys, Lifecycle!Cancel, Mapped
  <2>6. QED
    BY <2>2, <2>5 DEF Lifecycle!BookNext, Lifecycle!Cancel
<1>3. ASSUME NEW r \in Requests, DeleteUpdate(r)
      PROVE  Lifecycle!BookNext
  <2>1. StepFits(r, pc[r])
    BY DEF IInv, StepsFit
  <2>2. Target(r) \in OrderIds /\ Target(r) \in AllIds
    BY <1>3, <2>1, CallFields
       DEF DeleteUpdate, At, StepFits, DeleteSteps, IsDeletable, Kind, AllIds
  <2>3. status[Target(r)] \in {"CONFIRMED", "CANCELLED"} /\ ~deletedAt[Target(r)]
    BY <1>3 DEF DeleteUpdate, IsDeletable, Controls
  <2>4. Mapped' = [Mapped EXCEPT ![Target(r)] = "DELETED"]
    BY <1>3, <2>2, <2>3 DEF DeleteUpdate, IInv, TypeOK, Mapped
  <2>5. Lifecycle!Delete(Target(r))
    BY <1>3, <2>2, <2>3, <2>4 DEF DeleteUpdate, keys, Lifecycle!Delete, Mapped
  <2>6. QED
    BY <2>2, <2>5 DEF Lifecycle!BookNext, Lifecycle!Delete
<1>4. ASSUME NEW r \in Requests, Handle(r),
             ~CreateCommit(r), ~CancelUpdate(r), ~DeleteUpdate(r)
      PROVE  UNCHANGED Lifecycle!book
  <2>1. UNCHANGED <<rows, keys>>
    <3>1. CASE Receive(r)
      BY <3>1 DEF Receive
    <3>2. CASE Create(r)
      BY <1>4, <3>2
         DEF Create, CreateFreshKey, CreateKnownKey, CreateKeyMisused, CreateReuse,
             CreateQuote, CreateUnquotable, CreateRollback, CreateIdCollision,
             CreateLostRace, CreateRaceMisused, CreateRespond, Untouched
    <3>3. CASE Cancel(r)
      BY <1>4, <3>3
         DEF Cancel, CancelFind, CancelNoRow, CancelRefresh, CancelReadBack, Untouched
    <3>4. CASE Delete(r)
      BY <1>4, <3>4
         DEF Delete, DeleteFind, DeleteNoRow, DeleteRefresh, DeleteRespond, Untouched
    <3>5. CASE GetOrder(r) \/ ListOrders(r) \/ DatabaseError(r)
      BY <3>5 DEF GetOrder, ListOrders, DatabaseError, Untouched
    <3>6. QED
      BY <1>4, <3>1, <3>2, <3>3, <3>4, <3>5 DEF Handle
  <2>2. QED
    BY <2>1, QuietStutters
<1>5. ASSUME NEW s \in Servers, NEW v \in Versions, Restart(s, v)
      PROVE  UNCHANGED Lifecycle!book
  BY <1>5, QuietStutters DEF Restart
<1>6. CASE UNCHANGED vars
  BY <1>6, QuietStutters DEF vars, rows, keys
<1>7. QED
  BY <1>1, <1>2, <1>3, <1>4, <1>5, <1>6 DEF Next

\* The order endpoints implement the order book of OrderLifecycle: orders only
\* move forward, one per key, and demo orders never change.
THEOREM ImplementsLifecycle == Spec => LifecycleRefined
<1>1. Init => Lifecycle!BookInit
  BY InitLifecycle
<1>2. IInv /\ [Next]_vars => [Lifecycle!BookNext]_(Lifecycle!book)
  BY StepLifecycle
<1>3. QED
  BY <1>1, <1>2, Inductive, PTL DEF Spec, LifecycleRefined, Lifecycle!BookSpec
=============================================================================

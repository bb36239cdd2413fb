----------------------------- MODULE RepliesProofs -----------------------------
(***************************************************************************)
(* Proofs about Replies, for any set of turns, sessions, buyers, questions *)
(* and preferences, any bounds and any table of similarities.              *)
(*                                                                         *)
(* That a reused reply fits is decided when it is filed: EntryFits says    *)
(* what a turn that is over and left an entry was, and no later step       *)
(* changes such a turn.                                                    *)
(***************************************************************************)
EXTENDS Replies, TLAPS

At(t, pc) == turn[t].pc = pc

\* A turn that has not begun is as it was made; all others have an input.
CallFits(t) == IF At(t, "idle") THEN turn[t] = Fresh ELSE turn[t].call \in Calls

\* What the preferences a reply is made from have to do with other ones.
MadeUnder(t, ps) == turn[t].stale \/ turn[t].blind \/ turn[t].made = ps

\* What a turn holds at each step.
StepFits(t) ==
  /\ At(t, "lookup") => UsesCache(turn[t])
  /\ turn[t].pc \in {"lookup", "inputs"} => turn[t].made = Nothing /\ turn[t].lines = Nothing
  /\ turn[t].pc \in {"lookup", "inputs", "ask", "asked"} => turn[t].reply = None
  /\ turn[t].pc \in {"lookup", "inputs", "ask", "asked", "load"} =>
       turn[t].draft = <<>> /\ turn[t].since = {}
  /\ turn[t].pc \in {"ask", "asked"} => MadeUnder(t, Own(t))
  /\ turn[t].pc \in {"load", "save"} =>
       UsesCache(turn[t]) /\ turn[t].reply = t /\ MadeUnder(t, turn[t].scope)

\* The turn of an entry of a bucket is over, answered the question of the entry
\* as a first one, and had the buyer and the preferences of the bucket.
EntryFits(entry, key) ==
  LET u == entry.reply IN
  /\ u \in Turns /\ At(u, "over")
  /\ turn[u].call \in Calls /\ turn[u].call.question = entry.question
  /\ turn[u].call.buyer = key[1] /\ MadeUnder(u, key[2])
  /\ UsesCache(turn[u])

BucketsFit ==
  \A key \in DOMAIN bucket : \A i \in DOMAIN bucket[key] : EntryFits(bucket[key][i], key)

DraftFits(t) == At(t, "save") =>
  /\ Len(turn[t].draft) <= BucketLimit
  /\ \A i \in DOMAIN turn[t].draft : EntryFits(turn[t].draft[i], Key(t))

\* What is in the bucket of a turn that is about to save it and has read it
\* was there then, or was put there since.
SinceFits(t) == At(t, "save") /\ ~turn[t].blind /\ Key(t) \in DOMAIN bucket =>
  \A i \in DOMAIN bucket[Key(t)] :
    bucket[Key(t)][i] \in ToSet(turn[t].draft) \union turn[t].since

\* A reply that was reused fitted its bucket and was similar enough.
ReuseFits(t) == turn[t].reply \notin {t, None} =>
  /\ At(t, "over") /\ UsesCache(turn[t])
  /\ \E entry \in Entries :
       /\ entry.reply = turn[t].reply /\ EntryFits(entry, Key(t))
       /\ Similarity[turn[t].call.question][entry.question] >= Threshold

\* A session was told the lines last injected into it.
InjectedFits == \A s \in Sessions : Rows(injected[s]) \subseteq context[s].told

\* Every dislike is on its way to the agent, or has reached it.
DislikesFit(t) ==
  /\ At(t, "ask") => Dislikes(turn[t].made) \subseteq Rows(turn[t].lines)
  /\ At(t, "asked") =>
       Dislikes(turn[t].made) \subseteq context[turn[t].call.session].told

TurnFits(t) ==
  CallFits(t) /\ StepFits(t) /\ DraftFits(t) /\ SinceFits(t) /\ ReuseFits(t) /\ DislikesFit(t)

IInv ==
  /\ TypeOK
  /\ \A t \in Turns : TurnFits(t)
  /\ BucketsFit
  /\ InjectedFits

-----------------------------------------------------------------------------
(* Lists of preferences.                                                   *)

\* What is in a list is a preference, and is no later than itself.
LEMMA ListRows ==
  ASSUME NEW ps \in Lists
  PROVE  /\ ps \subseteq Preferences \X Preferences
         /\ Rows(ps) \subseteq Preferences
         /\ \A p \in Rows(ps) : <<p, p>> \in ps
         /\ \A p, q : <<p, q>> \in ps => p \in Rows(ps) /\ q \in Rows(ps)
PROOF
  <1>1. ps \subseteq Preferences \X Preferences /\ ps \subseteq Rows(ps) \X Rows(ps)
    BY DEF Lists, IsOrder
  <1>2. Rows(ps) \subseteq Preferences BY <1>1 DEF Rows
  <1>3. \A p \in Rows(ps) : <<p, p>> \in ps BY DEF Lists, IsOrder
  <1> QED BY <1>1, <1>2, <1>3

\* The other way round: what makes a set of pairs a list with given rows.
LEMMA ListOf ==
  ASSUME NEW ps, NEW rows \in SUBSET Preferences,
         ps \subseteq rows \X rows,
         \A p, q \in rows : <<p, q>> \in ps \/ <<q, p>> \in ps,
         \A p, q \in rows : <<p, q>> \in ps /\ <<q, p>> \in ps => p = q,
         \A p, q, r \in rows : <<p, q>> \in ps /\ <<q, r>> \in ps => <<p, r>> \in ps
  PROVE  ps \in Lists /\ Rows(ps) = rows
PROOF
  <1>1. Rows(ps) \subseteq rows BY DEF Rows
  <1>2. ASSUME NEW p \in rows PROVE p \in Rows(ps)
    <2>1. <<p, p>> \in ps OBVIOUS
    <2> QED BY <2>1 DEF Rows
  <1>3. Rows(ps) = rows BY <1>1, <1>2
  <1>4. ps \in SUBSET (Preferences \X Preferences) OBVIOUS
  <1>5. IsOrder(ps) BY <1>3 DEF IsOrder
  <1> QED BY <1>3, <1>4, <1>5 DEF Lists

LEMMA NothingListed == Nothing \in Lists /\ Rows(Nothing) = {}
PROOF BY DEF Nothing, Lists, IsOrder, Rows

\* A list that is cut keeps the order of what is left.
LEMMA OnlyListed ==
  ASSUME NEW ps \in Lists, NEW kept
  PROVE  Only(ps, kept) \in Lists /\ Rows(Only(ps, kept)) = Rows(ps) \intersect kept
PROOF
  <1> DEFINE rows == Rows(ps) \intersect kept
             cut == Only(ps, kept)
  <1>1. rows \in SUBSET Preferences BY ListRows
  <1>2. \A p, q \in rows : <<p, q>> \in cut <=> <<p, q>> \in ps BY DEF Only
  <1>3. cut \subseteq rows \X rows BY ListRows DEF Only
  <1>4. \A p, q \in rows : <<p, q>> \in cut \/ <<q, p>> \in cut
    BY <1>2 DEF Lists, IsOrder
  <1>5. \A p, q \in rows : <<p, q>> \in cut /\ <<q, p>> \in cut => p = q
    BY <1>2 DEF Lists, IsOrder
  <1>6. \A p, q, r \in rows : <<p, q>> \in cut /\ <<q, r>> \in cut => <<p, r>> \in cut
    BY <1>2 DEF Lists, IsOrder
  <1> HIDE DEF rows, cut
  <1>7. cut \in Lists /\ Rows(cut) = rows BY <1>1, <1>3, <1>4, <1>5, <1>6, ListOf
  <1> QED BY <1>7 DEF rows, cut

\* Two lists with nothing in common, one behind the other.
LEMMA Concatenated ==
  ASSUME NEW ps \in Lists, NEW qs \in Lists, Rows(ps) \intersect Rows(qs) = {}
  PROVE  LET both == ps \union (Rows(ps) \X Rows(qs)) \union qs
         IN  both \in Lists /\ Rows(both) = Rows(ps) \union Rows(qs)
PROOF
  <1> DEFINE both == ps \union (Rows(ps) \X Rows(qs)) \union qs
             rows == Rows(ps) \union Rows(qs)
             A == Rows(ps)
             B == Rows(qs)
  <1>1. rows \in SUBSET Preferences BY ListRows
  <1>2. /\ ps \subseteq A \X A /\ qs \subseteq B \X B
        /\ \A p, q \in A : <<p, q>> \in ps \/ <<q, p>> \in ps
        /\ \A p, q \in B : <<p, q>> \in qs \/ <<q, p>> \in qs
        /\ \A p, q \in A : <<p, q>> \in ps /\ <<q, p>> \in ps => p = q
        /\ \A p, q \in B : <<p, q>> \in qs /\ <<q, p>> \in qs => p = q
        /\ \A p, q, r \in A : <<p, q>> \in ps /\ <<q, r>> \in ps => <<p, r>> \in ps
        /\ \A p, q, r \in B : <<p, q>> \in qs /\ <<q, r>> \in qs => <<p, r>> \in qs
    BY DEF Lists, IsOrder
  <1>3. /\ \A p, q : <<p, q>> \in both <=>
             \/ <<p, q>> \in ps
             \/ p \in A /\ q \in B
             \/ <<p, q>> \in qs
        /\ A \intersect B = {} /\ rows = A \union B
    OBVIOUS
  <1>4. both \subseteq rows \X rows BY <1>2
  <1> HIDE DEF rows, both, A, B
  <1>5. \A p, q \in rows : <<p, q>> \in both \/ <<q, p>> \in both
    BY <1>2, <1>3
  <1>6. \A p, q \in rows : <<p, q>> \in both /\ <<q, p>> \in both => p = q
    BY <1>2, <1>3
  <1>7. \A p, q, r \in rows : <<p, q>> \in both /\ <<q, r>> \in both => <<p, r>> \in both
    BY <1>2, <1>3
  <1>8. both \in Lists /\ Rows(both) = rows BY <1>1, <1>4, <1>5, <1>6, <1>7, ListOf
  <1> QED BY <1>8 DEF rows, both, A, B

\* A new preference goes to the end.
LEMMA Appended ==
  ASSUME NEW ps \in Lists, NEW p \in Preferences, p \notin Rows(ps)
  PROVE  LET longer == ps \union ((Rows(ps) \union {p}) \X {p})
         IN  longer \in Lists /\ Rows(longer) = Rows(ps) \union {p}
PROOF
  <1> DEFINE one == {<<p, p>>}
             longer == ps \union ((Rows(ps) \union {p}) \X {p})
  <1>1. one \in Lists /\ Rows(one) = {p} BY DEF Lists, IsOrder, Rows
  <1>2. longer = ps \union (Rows(ps) \X {p}) \union one OBVIOUS
  <1> HIDE DEF one, longer
  <1>3. longer \in Lists /\ Rows(longer) = Rows(ps) \union {p}
    BY <1>1, <1>2, Concatenated
  <1> QED BY <1>3 DEF longer

\* The lines of a hint are a list, with every dislike in it.
LEMMA SelectionsListed ==
  ASSUME NEW ps \in Lists, NEW lines \in Selections(ps)
  PROVE  lines \in Lists /\ Dislikes(ps) \subseteq Rows(lines)
PROOF
  <1>1. PICK chosen \in SUBSET Likes(ps) :
          lines = Only(ps, Dislikes(ps)) \union (Dislikes(ps) \X chosen)
                    \union Only(ps, chosen)
    BY DEF Selections
  <1>2. /\ Dislikes(ps) \subseteq Rows(ps) /\ chosen \subseteq Rows(ps)
        /\ Dislikes(ps) \intersect chosen = {}
    BY DEF Dislikes, Likes
  <1>3. /\ Only(ps, Dislikes(ps)) \in Lists /\ Rows(Only(ps, Dislikes(ps))) = Dislikes(ps)
        /\ Only(ps, chosen) \in Lists /\ Rows(Only(ps, chosen)) = chosen
    BY <1>2, OnlyListed
  <1> QED BY <1>1, <1>2, <1>3, Concatenated

-----------------------------------------------------------------------------
(* Entries.                                                                *)

\* A bucket with one entry more is cut to its limit, and loses its first
\* entry at most, and that only if it was full.
LEMMA NewestKeeps ==
  ASSUME NEW E, NEW entries \in Seq(E), NEW entry \in E,
         Len(entries) <= BucketLimit
  PROVE  LET kept == Newest(Append(entries, entry))
         IN  /\ kept \in Seq(E) /\ Len(kept) \in 1..BucketLimit
             /\ \A i \in DOMAIN kept :
                  kept[i] = entry \/ \E j \in DOMAIN entries : kept[i] = entries[j]
             /\ \A j \in DOMAIN entries :
                  \/ entries[j] \in ToSet(kept)
                  \/ j = 1 /\ Len(entries) = BucketLimit
PROOF
  <1> DEFINE all == Append(entries, entry)
             n == Len(all)
             first == Max({1, n - BucketLimit + 1})
             kept == SubSeq(all, first, n)
  <1>1. BucketLimit \in Nat \ {0} BY RepliesAssumption
  <1>2. /\ all \in Seq(E) /\ n = Len(entries) + 1 /\ n \in Nat /\ Len(entries) \in Nat
        /\ \A i \in 1..n : all[i] = IF i = n THEN entry ELSE entries[i]
    OBVIOUS
  <1>3. first = IF n <= BucketLimit THEN 1 ELSE 2
    <2>1. CASE n <= BucketLimit
      <3>1. {1, n - BucketLimit + 1} \in SUBSET Int BY <1>1, <1>2
      <3>2. \A x \in {1, n - BucketLimit + 1} : 1 >= x BY <1>1, <1>2, <2>1
      <3>3. first \in {1, n - BucketLimit + 1}
            /\ \A x \in {1, n - BucketLimit + 1} : first >= x
        BY <3>2 DEF Max
      <3> QED BY <3>1, <3>2, <3>3, <2>1
    <2>2. CASE ~(n <= BucketLimit)
      <3>1. n - BucketLimit + 1 = 2 BY <1>1, <1>2, <2>2
      <3>2. first \in {1, 2} /\ \A x \in {1, 2} : first >= x
        <4>1. \A x \in {1, 2} : 2 >= x OBVIOUS
        <4> QED BY <3>1, <4>1 DEF Max
      <3> QED BY <3>2, <2>2
    <2> QED BY <2>1, <2>2
  <1> HIDE DEF all, n, first
  <1>4. first \in 1..n BY <1>1, <1>2, <1>3
  <1>5. /\ kept \in Seq(E) /\ Len(kept) = n - first + 1
        /\ \A i \in 1..Len(kept) : kept[i] = all[first + i - 1]
    BY <1>2, <1>4
  <1>6. Len(kept) \in 1..BucketLimit BY <1>1, <1>2, <1>3, <1>5
  <1>7. ASSUME NEW i \in DOMAIN kept
        PROVE  kept[i] = entry \/ \E j \in DOMAIN entries : kept[i] = entries[j]
    <2>1. i \in 1..Len(kept) BY <1>5
    <2>2. first + i - 1 \in 1..n BY <2>1, <1>5, <1>4, <1>2
    <2>3. kept[i] = all[first + i - 1] BY <2>1, <1>5
    <2>4. first + i - 1 # n => first + i - 1 \in DOMAIN entries BY <2>2, <1>2
    <2> DEFINE at == first + i - 1
    <2> HIDE DEF at
    <2>5. all[at] = IF at = n THEN entry ELSE entries[at] BY <2>2, <1>2 DEF at
    <2> QED BY <2>3, <2>4, <2>5 DEF at
  <1>8. ASSUME NEW j \in DOMAIN entries, ~(j = 1 /\ Len(entries) = BucketLimit)
        PROVE  entries[j] \in ToSet(kept)
    <2>1. j \in 1..Len(entries) OBVIOUS
    <2>2. j >= first BY <1>8, <2>1, <1>1, <1>2, <1>3
    <2>3. j - first + 1 \in 1..Len(kept) BY <2>1, <2>2, <1>2, <1>4, <1>5
    <2>4. kept[j - first + 1] = entries[j]
      <3>1. kept[j - first + 1] = all[first + (j - first + 1) - 1] BY <2>3, <1>5
      <3>2. first + (j - first + 1) - 1 = j BY <1>4, <2>1
      <3> QED BY <3>1, <3>2, <2>1, <1>2
    <2> QED BY <2>3, <2>4, <1>5 DEF ToSet
  <1> HIDE DEF kept
  <1>9. Newest(all) = kept BY DEF Newest, kept, first, n
  <1> QED BY <1>5, <1>6, <1>7, <1>8, <1>9 DEF all

-----------------------------------------------------------------------------
(* What a step leaves as it is.                                            *)

TurnType ==
  [pc : Steps, call : Calls \union {None}, hist : BOOLEAN,
   scope : Lists, lines : Lists,
   draft : Seq(Entries), reply : Turns \union {None},
   made : Lists, stale : BOOLEAN, blind : BOOLEAN,
   since : SUBSET Entries]

LEMMA InitInv == Init => IInv
PROOF
  <1> SUFFICES ASSUME Init PROVE IInv OBVIOUS
  <1> USE RepliesAssumption, NothingListed
  <1>1. Fresh \in TurnType BY DEF Fresh, TurnType, Steps, Entries
  <1>2. turn \in [Turns -> TurnType] BY <1>1 DEF Init
  <1>3. context \in [Sessions -> [begun : BOOLEAN, told : SUBSET Preferences]]
    BY DEF Init
  <1>4. DOMAIN bucket = {} BY DEF Init
  <1>5. TypeOK
    BY <1>2, <1>3, <1>4 DEF Init, TypeOK, TurnType
  <1>6. ASSUME NEW t \in Turns PROVE TurnFits(t)
    <2>1. turn[t] = Fresh BY DEF Init
    <2> QED BY <2>1 DEF Fresh, TurnFits, CallFits, StepFits, DraftFits, SinceFits,
                        ReuseFits, DislikesFit, At
  <1>7. BucketsFit BY <1>4 DEF BucketsFit
  <1>8. InjectedFits BY DEF Init, InjectedFits
  <1> QED BY <1>5, <1>6, <1>7, <1>8 DEF IInv

\* An entry fits as long as turns that are over stay as they are.
LEMMA EntryKept ==
  ASSUME NEW entry, NEW key, EntryFits(entry, key),
         \A u \in Turns : At(u, "over") => turn'[u] = turn[u]
  PROVE  EntryFits(entry, key)'
PROOF BY DEF EntryFits, At, MadeUnder

\* A turn that a step leaves alone, with its bucket and its preferences.
LEMMA TurnKept ==
  ASSUME IInv, NEW u \in Turns, turn'[u] = turn[u],
         \A v \in Turns : At(v, "over") => turn'[v] = turn[v],
         prefs' = prefs \/ turn[u].pc \notin {"ask", "asked"} 
           \/ prefs'[turn[u].call.buyer] = prefs[turn[u].call.buyer],
         \/ bucket' = bucket
         \/ ~At(u, "save")
         \/ Key(u) \notin DOMAIN bucket'
         \/ Key(u) \in DOMAIN bucket /\ bucket'[Key(u)] = bucket[Key(u)],
         \A s \in Sessions : context[s].told \subseteq context'[s].told
  PROVE  TurnFits(u)'
PROOF
  <1>1. TurnFits(u) BY DEF IInv
  <1>2. CallFits(u)' BY <1>1 DEF TurnFits, CallFits, At
  <1>3. StepFits(u)' BY <1>1 DEF TurnFits, StepFits, At, MadeUnder, Own
  <1>4. DraftFits(u)'
    <2> SUFFICES ASSUME At(u, "save")
                 PROVE  /\ Len(turn[u].draft) <= BucketLimit
                        /\ \A i \in DOMAIN turn[u].draft : EntryFits(turn[u].draft[i], Key(u))'
      BY DEF DraftFits, At, Key
    <2>1. /\ Len(turn[u].draft) <= BucketLimit
          /\ \A i \in DOMAIN turn[u].draft : EntryFits(turn[u].draft[i], Key(u))
      BY <1>1 DEF TurnFits, DraftFits
    <2>2. Key(u)' = Key(u) BY DEF Key
    <2> QED BY <2>1, <2>2, EntryKept
  <1>5. SinceFits(u)' BY <1>1 DEF TurnFits, SinceFits, At, Key
  <1>6. ReuseFits(u)'
    <2> SUFFICES ASSUME turn[u].reply \notin {u, None} PROVE ReuseFits(u)'
      BY DEF ReuseFits
    <2>1. /\ At(u, "over") /\ UsesCache(turn[u])
          /\ \E entry \in Entries :
               /\ entry.reply = turn[u].reply /\ EntryFits(entry, Key(u))
               /\ Similarity[turn[u].call.question][entry.question] >= Threshold
      BY <1>1 DEF TurnFits, ReuseFits
    <2>2. PICK entry \in Entries :
               /\ entry.reply = turn[u].reply /\ EntryFits(entry, Key(u))
               /\ Similarity[turn[u].call.question][entry.question] >= Threshold
      BY <2>1
    <2>3. EntryFits(entry, Key(u))' BY <2>2, EntryKept DEF Key
    <2> QED BY <2>1, <2>2, <2>3 DEF ReuseFits, At
  <1>7. DislikesFit(u)'
    <2>1. At(u, "asked") => turn[u].call.session \in Sessions
      BY <1>1, RepliesAssumption DEF TurnFits, CallFits, At
    <2> QED BY <1>1, <2>1 DEF TurnFits, DislikesFit, At
  <1> QED BY <1>2, <1>3, <1>4, <1>5, <1>6, <1>7 DEF TurnFits

\* A step that writes no bucket.
LEMMA BucketsKept ==
  ASSUME BucketsFit, DOMAIN bucket' \subseteq DOMAIN bucket,
         \A key \in DOMAIN bucket' : bucket'[key] = bucket[key],
         \A v \in Turns : At(v, "over") => turn'[v] = turn[v]
  PROVE  BucketsFit'
PROOF BY EntryKept DEF BucketsFit

\* A step of one turn that writes neither preferences nor a bucket: what is
\* left to show is about that turn.
LEMMA OneTurn ==
  ASSUME IInv, NEW t \in Turns, NEW new \in TurnType, ~At(t, "over"),
         turn' = [turn EXCEPT ![t] = new], UNCHANGED <<prefs, bucket, writes>>,
         faults' \in 0..MaxFaults,
         UNCHANGED <<injected, context>>,
         TurnFits(t)'
  PROVE  IInv'
PROOF
  <1>1. TypeOK' BY DEF IInv, TypeOK, TurnType
  <1>2. \A u \in Turns : u # t => turn'[u] = turn[u] BY DEF IInv, TypeOK
  <1>3. \A v \in Turns : At(v, "over") => turn'[v] = turn[v] BY <1>2
  <1>4. \A u \in Turns : TurnFits(u)' BY <1>2, <1>3, TurnKept
  <1>5. BucketsFit' BY <1>3, BucketsKept DEF IInv
  <1>6. InjectedFits' BY DEF IInv, InjectedFits
  <1> QED BY <1>1, <1>4, <1>5, <1>6 DEF IInv

-----------------------------------------------------------------------------
(* The steps of one turn.                                                  *)

\* The record of a turn, and what its input is.
LEMMA TurnTyped ==
  ASSUME TypeOK, NEW t \in Turns
  PROVE  /\ turn \in [Turns -> TurnType] /\ turn[t] \in TurnType
         /\ turn[t].call \in Calls =>
              /\ turn[t].call.buyer \in Buyers /\ turn[t].call.session \in Sessions
              /\ turn[t].call.question \in Questions
              /\ Own(t) \in Lists
PROOF
  <1>1. turn \in [Turns -> TurnType] BY DEF TypeOK, TurnType
  <1>2. \A call \in Calls : call.buyer \in Buyers /\ call.session \in Sessions
                              /\ call.question \in Questions
    BY RepliesAssumption
  <1>3. prefs \in [Buyers -> Lists] BY DEF TypeOK
  <1> QED BY <1>1, <1>2, <1>3 DEF Own

LEMMA FaultTyped == ASSUME TypeOK, Fault PROVE faults' \in 0..MaxFaults
PROOF BY RepliesAssumption DEF TypeOK, Fault

LEMMA BeginKeeps ==
  ASSUME IInv, NEW t \in Turns, NEW call \in Calls, Begin(t, call)
  PROVE  IInv'
PROOF
  <1> DEFINE begun == context[call.session].begun
             r == [turn[t] EXCEPT !.call = call, !.hist = begun]
             pc == IF UsesCache(r) THEN "lookup" ELSE "inputs"
             known == [[r EXCEPT !.pc = pc] EXCEPT !.scope = prefs[r.call.buyer]]
             unknown == [[r EXCEPT !.pc = pc] EXCEPT !.scope = Nothing, !.blind = TRUE]
  <1>1. TypeOK /\ turn[t] = Fresh /\ At(t, "idle") /\ ~At(t, "over")
    BY DEF IInv, TurnFits, CallFits, At, Begin
  <1>2. call.buyer \in Buyers /\ call.session \in Sessions BY RepliesAssumption
  <1>3. prefs[call.buyer] \in Lists /\ context[call.session].begun \in BOOLEAN
    BY <1>1, <1>2 DEF TypeOK
  <1>4. turn[t] \in TurnType BY <1>1, TurnTyped
  <1> HIDE DEF begun
  <1>5. /\ r.call = call /\ r.hist = begun
        /\ r.lines = Nothing /\ r.made = Nothing /\ r.reply = None
        /\ r.draft = <<>> /\ r.since = {}
    <2>1. /\ r.call = call /\ r.hist = begun
          /\ r.lines = turn[t].lines /\ r.made = turn[t].made
          /\ r.reply = turn[t].reply /\ r.draft = turn[t].draft
          /\ r.since = turn[t].since
      BY <1>4 DEF TurnType
    <2>2. /\ turn[t].lines = Nothing /\ turn[t].made = Nothing /\ turn[t].reply = None
          /\ turn[t].draft = <<>> /\ turn[t].since = {}
      BY <1>1 DEF Fresh
    <2> QED BY <2>1, <2>2
  <1>r. r \in TurnType BY <1>3, <1>4 DEF TurnType, begun
  <1>6. /\ known.pc = pc /\ known.call = call /\ known.hist = r.hist
        /\ known.lines = Nothing /\ known.made = Nothing /\ known.reply = None
        /\ known.draft = <<>> /\ known.since = {}
        /\ unknown.pc = pc /\ unknown.call = call /\ unknown.hist = r.hist
        /\ unknown.lines = Nothing /\ unknown.made = Nothing /\ unknown.reply = None
        /\ unknown.draft = <<>> /\ unknown.since = {}
    <2> HIDE DEF r, pc
    <2> QED BY <1>5, <1>r DEF TurnType
  <1>7. known \in TurnType /\ unknown \in TurnType
    <2>1. pc \in Steps BY DEF Steps
    <2>2. r.call.buyer = call.buyer BY <1>5
    <2> HIDE DEF pc, r
    <2>4. known \in TurnType BY <2>1, <2>2, <1>r, <1>3 DEF TurnType
    <2>5. unknown \in TurnType BY <2>1, <1>r, NothingListed DEF TurnType
    <2> QED BY <2>4, <2>5
  <1>8. UsesCache(known) <=> UsesCache(r) BY <1>5, <1>6 DEF UsesCache
  <1>9. UsesCache(unknown) <=> UsesCache(r) BY <1>5, <1>6 DEF UsesCache
  <1>10. pc \in {"lookup", "inputs"} /\ (pc = "lookup" => UsesCache(r)) OBVIOUS
  <1> HIDE DEF r, pc, known, unknown
  <1>11. \/ turn' = [turn EXCEPT ![t] = known] /\ UNCHANGED faults
         \/ turn' = [turn EXCEPT ![t] = unknown] /\ Fault
    BY DEF Begin, WithScope, begun, r, pc, known, unknown
  <1>12. PICK new \in {known, unknown} :
           turn' = [turn EXCEPT ![t] = new] /\ (UNCHANGED faults \/ Fault)
    BY <1>11
  <1>13. turn'[t] = new BY <1>12, <1>1, TurnTyped
  <1>14. faults' \in 0..MaxFaults BY <1>12, <1>1, FaultTyped DEF TypeOK
  <1>15. TurnFits(t)'
    BY <1>6, <1>8, <1>9, <1>10, <1>13
    DEF TurnFits, CallFits, StepFits, DraftFits, SinceFits, ReuseFits, DislikesFit, At
  <1> QED BY <1>1, <1>7, <1>12, <1>14, <1>15, OneTurn DEF Begin

LEMMA HitKeeps ==
  ASSUME IInv, NEW t \in Turns, Hit(t)
  PROVE  IInv'
PROOF
  <1>1. TypeOK /\ At(t, "lookup") /\ ~At(t, "over") /\ TurnFits(t)
    BY DEF IInv, Hit, At
  <1>2. PICK i \in Candidates(t) :
          turn' = [turn EXCEPT ![t].pc = "over", ![t].reply = Bucket(Key(t))[i].reply]
    BY DEF Hit
  <1>b. /\ Key(t) \in DOMAIN bucket /\ i \in DOMAIN bucket[Key(t)]
        /\ Bucket(Key(t))[i] = bucket[Key(t)][i]
        /\ Similarity[turn[t].call.question][bucket[Key(t)][i].question] >= Threshold
    BY DEF Candidates, Near, Bucket
  <1>c. PICK entry \in Entries : entry = bucket[Key(t)][i]
    BY <1>1, <1>b DEF TypeOK
  <1>3. Similarity[turn[t].call.question][entry.question] >= Threshold BY <1>b, <1>c
  <1>4. EntryFits(entry, Key(t)) BY <1>b, <1>c DEF IInv, BucketsFit
  <1> DEFINE new == [turn[t] EXCEPT !.pc = "over", !.reply = entry.reply]
  <1>5. turn[t] \in TurnType /\ turn[t].call \in Calls
    BY <1>1, TurnTyped DEF TurnFits, CallFits, At
  <1>6. new \in TurnType
    BY <1>4, <1>5 DEF TurnType, EntryFits, Steps
  <1>7. turn' = [turn EXCEPT ![t] = new] BY <1>1, <1>2, <1>b, <1>c, TurnTyped
  <1>8. /\ turn'[t] = new /\ new.pc = "over" /\ new.reply = entry.reply
        /\ new.call = turn[t].call /\ new.hist = turn[t].hist /\ new.scope = turn[t].scope
    BY <1>5, <1>7, <1>1, TurnTyped DEF TurnType
  <1> HIDE DEF new
  <1>9. \A v \in Turns : At(v, "over") => turn'[v] = turn[v] BY <1>1, <1>7 DEF At
  <1>a. Key(t)' = Key(t) BY <1>8 DEF Key
  <1>10. EntryFits(entry, Key(t))' BY <1>4, <1>9, <1>a, EntryKept
  <1>11. UsesCache(turn[t]) BY <1>1 DEF TurnFits, StepFits
  <1>12. ReuseFits(t)'
    <2>1. At(t, "over")' /\ UsesCache(turn[t])' BY <1>8, <1>11 DEF At, UsesCache
    <2>2. /\ entry.reply = turn'[t].reply
          /\ Similarity[turn'[t].call.question][entry.question] >= Threshold
      BY <1>3, <1>8
    <2> QED BY <2>1, <2>2, <1>4, <1>10 DEF ReuseFits
  <1>13. TurnFits(t)'
    BY <1>5, <1>8, <1>12 DEF TurnFits, CallFits, StepFits, DraftFits, SinceFits, DislikesFit, At
  <1> QED BY <1>1, <1>6, <1>7, <1>13, OneTurn DEF Hit, TypeOK

LEMMA MissKeeps ==
  ASSUME IInv, NEW t \in Turns, Miss(t)
  PROVE  IInv'
PROOF
  <1> DEFINE new == [turn[t] EXCEPT !.pc = "inputs", !.scope = Nothing]
  <1>1. TypeOK /\ At(t, "lookup") /\ ~At(t, "over") /\ TurnFits(t)
    BY DEF IInv, Miss, At
  <1>2. turn[t] \in TurnType /\ turn[t].call \in Calls
    BY <1>1, TurnTyped DEF TurnFits, CallFits, At
  <1>3. new \in TurnType BY <1>2, NothingListed DEF TurnType, Steps
  <1>4. turn' = [turn EXCEPT ![t] = new] BY <1>1, TurnTyped DEF Miss
  <1>5. /\ turn'[t] = new /\ new.pc = "inputs" /\ new.call = turn[t].call
        /\ new.lines = turn[t].lines /\ new.made = turn[t].made /\ new.reply = turn[t].reply
        /\ new.draft = turn[t].draft /\ new.since = turn[t].since
    BY <1>1, <1>2, <1>4, TurnTyped DEF TurnType
  <1> HIDE DEF new
  <1>6. faults' \in 0..MaxFaults BY <1>1, FaultTyped DEF Miss, TypeOK
  <1>7. TurnFits(t)'
    BY <1>1, <1>2, <1>5
    DEF TurnFits, CallFits, StepFits, DraftFits, SinceFits, ReuseFits, DislikesFit, At
  <1> QED BY <1>1, <1>3, <1>4, <1>6, <1>7, OneTurn DEF Miss

LEMMA SelectKeeps ==
  ASSUME IInv, NEW t \in Turns, Select(t)
  PROVE  IInv'
PROOF
  <1>1. TypeOK /\ At(t, "inputs") /\ ~At(t, "over") /\ TurnFits(t)
    BY DEF IInv, Select, At
  <1>2. turn[t] \in TurnType /\ turn[t].call \in Calls /\ Own(t) \in Lists
    BY <1>1, TurnTyped DEF TurnFits, CallFits, At
  <1>3. CASE \E lines \in Selections(Own(t)) :
               turn' = [turn EXCEPT ![t].pc = "ask", ![t].lines = lines, ![t].made = Own(t)]
    <2>1. PICK lines \in Selections(Own(t)) :
               turn' = [turn EXCEPT ![t].pc = "ask", ![t].lines = lines, ![t].made = Own(t)]
      BY <1>3
    <2> DEFINE new == [turn[t] EXCEPT !.pc = "ask", !.lines = lines, !.made = Own(t)]
    <2>2. lines \in Lists /\ Dislikes(Own(t)) \subseteq Rows(lines)
      BY <1>2, SelectionsListed
    <2>3. new \in TurnType BY <1>2, <2>2 DEF TurnType, Steps
    <2>4. turn' = [turn EXCEPT ![t] = new] BY <1>1, <2>1, TurnTyped
    <2>5. /\ turn'[t] = new /\ new.pc = "ask" /\ new.call = turn[t].call
          /\ new.lines = lines /\ new.made = Own(t) /\ new.reply = turn[t].reply
          /\ new.draft = turn[t].draft /\ new.since = turn[t].since
      BY <1>1, <1>2, <2>4, TurnTyped DEF TurnType
    <2> HIDE DEF new
    <2>6. Own(t)' = Own(t) BY <2>5 DEF Own, Select
    <2>7. faults' \in 0..MaxFaults BY <1>1, FaultTyped DEF Select, TypeOK
    <2>8. TurnFits(t)'
      BY <1>1, <1>2, <2>2, <2>5, <2>6
      DEF TurnFits, CallFits, StepFits, DraftFits, SinceFits, ReuseFits, DislikesFit, At,
          MadeUnder
    <2> QED BY <1>1, <2>3, <2>4, <2>7, <2>8, OneTurn DEF Select
  <1>4. CASE Fault /\ turn' = [turn EXCEPT ![t].pc = "ask", ![t].blind = TRUE]
    <2> DEFINE new == [turn[t] EXCEPT !.pc = "ask", !.blind = TRUE]
    <2>1. new \in TurnType BY <1>2 DEF TurnType, Steps
    <2>2. turn' = [turn EXCEPT ![t] = new] BY <1>1, <1>4, TurnTyped
    <2>3. /\ turn'[t] = new /\ new.pc = "ask" /\ new.call = turn[t].call
          /\ new.lines = turn[t].lines /\ new.made = turn[t].made /\ new.reply = turn[t].reply
          /\ new.draft = turn[t].draft /\ new.since = turn[t].since /\ new.blind
      BY <1>1, <1>2, <2>2, TurnTyped DEF TurnType
    <2> HIDE DEF new
    <2>4. Dislikes(Nothing) = {} BY NothingListed DEF Dislikes
    <2>5. faults' \in 0..MaxFaults BY <1>1, <1>4, FaultTyped
    <2>6. TurnFits(t)'
      BY <1>1, <1>2, <2>3, <2>4
      DEF TurnFits, CallFits, StepFits, DraftFits, SinceFits, ReuseFits, DislikesFit, At,
          MadeUnder
    <2> QED BY <1>1, <2>1, <2>2, <2>5, <2>6, OneTurn DEF Select
  <1> QED BY <1>3, <1>4 DEF Select

\* A turn that left nothing.
LEMMA GoneKeeps ==
  ASSUME IInv, NEW t \in Turns, turn[t].pc \in {"asked", "load", "save"},
         turn' = [turn EXCEPT ![t] = Gone(t)],
         UNCHANGED <<prefs, bucket, injected, context, writes>>, UNCHANGED faults \/ Fault
  PROVE  IInv'
PROOF
  <1>1. TypeOK /\ ~At(t, "over") /\ TurnFits(t) BY DEF IInv, At
  <1>2. turn[t] \in TurnType /\ turn[t].call \in Calls
    BY <1>1, TurnTyped DEF TurnFits, CallFits, At
  <1>3. /\ Gone(t).pc = "over" /\ Gone(t).call = turn[t].call /\ Gone(t).reply = None
        /\ Gone(t) \in TurnType
    <2>1. Fresh \in TurnType BY NothingListed DEF Fresh, TurnType, Steps, Entries
    <2>2. Fresh.reply = None BY DEF Fresh
    <2> QED BY <1>2, <2>1, <2>2 DEF Gone, TurnType, Steps
  <1>4. turn'[t] = Gone(t) BY <1>1, TurnTyped
  <1>5. faults' \in 0..MaxFaults BY <1>1, FaultTyped DEF TypeOK
  <1>6. TurnFits(t)'
    BY <1>2, <1>3, <1>4
    DEF TurnFits, CallFits, StepFits, DraftFits, SinceFits, ReuseFits, DislikesFit, At
  <1> QED BY <1>1, <1>3, <1>5, <1>6, OneTurn

LEMMA AnswerKeeps ==
  ASSUME IInv, NEW t \in Turns, Answer(t)
  PROVE  IInv'
PROOF
  <1> DEFINE r == [turn[t] EXCEPT !.pc = "load", !.reply = t]
             known == [r EXCEPT !.scope = prefs[r.call.buyer]]
             unknown == [r EXCEPT !.scope = Nothing, !.blind = TRUE]
  <1>1. TypeOK /\ At(t, "asked") /\ ~At(t, "over") /\ TurnFits(t) /\ UsesCache(turn[t])
    BY DEF IInv, Answer, At
  <1>2. turn[t] \in TurnType /\ turn[t].call \in Calls /\ Own(t) \in Lists
    BY <1>1, TurnTyped DEF TurnFits, CallFits, At
  <1>3. /\ r \in TurnType /\ r.call = turn[t].call /\ r.hist = turn[t].hist /\ r.reply = t
        /\ r.pc = "load" /\ r.draft = turn[t].draft /\ r.since = turn[t].since
        /\ r.stale = turn[t].stale /\ r.blind = turn[t].blind /\ r.made = turn[t].made
    BY <1>2 DEF TurnType, Steps
  <1> HIDE DEF r
  <1>4. prefs[r.call.buyer] = Own(t) BY <1>3 DEF Own
  <1>5. /\ known \in TurnType /\ known.call = r.call /\ known.hist = r.hist
        /\ known.reply = t /\ known.pc = "load" /\ known.draft = r.draft
        /\ known.since = r.since /\ known.stale = r.stale /\ known.blind = r.blind
        /\ known.made = r.made /\ known.scope = Own(t)
    BY <1>2, <1>3, <1>4 DEF TurnType
  <1>6. /\ unknown \in TurnType /\ unknown.call = r.call /\ unknown.hist = r.hist
        /\ unknown.reply = t /\ unknown.pc = "load" /\ unknown.draft = r.draft
        /\ unknown.since = r.since /\ unknown.blind
    BY <1>3, NothingListed DEF TurnType
  <1> HIDE DEF known, unknown
  <1>7. \/ turn' = [turn EXCEPT ![t] = known] /\ UNCHANGED faults
        \/ turn' = [turn EXCEPT ![t] = unknown] /\ Fault
    BY DEF Answer, WithScope, r, known, unknown
  <1>8. PICK new \in {known, unknown} :
          turn' = [turn EXCEPT ![t] = new] /\ (UNCHANGED faults \/ Fault)
    BY <1>7
  <1>9. turn'[t] = new BY <1>8, <1>1, TurnTyped
  <1>10. faults' \in 0..MaxFaults BY <1>8, <1>1, FaultTyped DEF TypeOK
  <1>11. StepFits(t)'
    <2>1. UsesCache(turn[t])' BY <1>1, <1>3, <1>5, <1>6, <1>9 DEF UsesCache
    <2>2. MadeUnder(t, turn[t].scope)'
      BY <1>1, <1>3, <1>5, <1>6, <1>9 DEF MadeUnder, TurnFits, StepFits, At
    <2>3. turn'[t].draft = <<>> /\ turn'[t].since = {}
      BY <1>1, <1>3, <1>5, <1>6, <1>9 DEF TurnFits, StepFits, At
    <2>4. turn'[t].pc = "load" /\ turn'[t].reply = t BY <1>5, <1>6, <1>9
    <2> QED BY <2>1, <2>2, <2>3, <2>4 DEF StepFits, At
  <1>12. TurnFits(t)'
    BY <1>2, <1>3, <1>5, <1>6, <1>9, <1>11
    DEF TurnFits, CallFits, DraftFits, SinceFits, ReuseFits, DislikesFit, At
  <1> QED BY <1>1, <1>5, <1>6, <1>8, <1>10, <1>12, OneTurn DEF Answer

LEMMA LoadKeeps ==
  ASSUME IInv, NEW t \in Turns, Load(t)
  PROVE  IInv'
PROOF
  <1> DEFINE read == [turn[t] EXCEPT !.pc = "save", !.draft = Bucket(Key(t))]
             failed == [turn[t] EXCEPT !.pc = "save", !.blind = TRUE]
  <1>1. TypeOK /\ At(t, "load") /\ ~At(t, "over") /\ TurnFits(t) /\ BucketsFit
    BY DEF IInv, Load, At
  <1>2. turn[t] \in TurnType /\ turn[t].call \in Calls
    BY <1>1, TurnTyped DEF TurnFits, CallFits, At
  <1>3. /\ Bucket(Key(t)) \in Seq(Entries) /\ Len(Bucket(Key(t))) <= BucketLimit
        /\ \A i \in DOMAIN Bucket(Key(t)) : EntryFits(Bucket(Key(t))[i], Key(t))
    <2>1. CASE Key(t) \in DOMAIN bucket
      BY <2>1, <1>1, RepliesAssumption DEF Bucket, TypeOK, BucketsFit
    <2>2. CASE Key(t) \notin DOMAIN bucket
      BY <2>2, RepliesAssumption DEF Bucket, Entries
    <2> QED BY <2>1, <2>2
  <1>4. /\ read \in TurnType /\ read.pc = "save" /\ read.call = turn[t].call
        /\ read.hist = turn[t].hist /\ read.scope = turn[t].scope
        /\ read.reply = turn[t].reply /\ read.draft = Bucket(Key(t))
        /\ read.stale = turn[t].stale /\ read.blind = turn[t].blind
        /\ read.made = turn[t].made
    BY <1>2, <1>3 DEF TurnType, Steps
  <1>5. /\ failed \in TurnType /\ failed.pc = "save" /\ failed.call = turn[t].call
        /\ failed.hist = turn[t].hist /\ failed.scope = turn[t].scope
        /\ failed.reply = turn[t].reply /\ failed.draft = turn[t].draft /\ failed.blind
    BY <1>2 DEF TurnType, Steps
  <1> HIDE DEF read, failed
  <1>6. \/ turn' = [turn EXCEPT ![t] = read] /\ UNCHANGED faults
        \/ turn' = [turn EXCEPT ![t] = failed] /\ Fault
    BY <1>1, TurnTyped DEF Load, read, failed
  <1>7. PICK new \in {read, failed} :
          turn' = [turn EXCEPT ![t] = new] /\ (UNCHANGED faults \/ Fault)
    BY <1>6
  <1>8. turn'[t] = new BY <1>7, <1>1, TurnTyped
  <1>9. faults' \in 0..MaxFaults BY <1>7, <1>1, FaultTyped DEF TypeOK
  <1>10. Key(t)' = Key(t) /\ bucket' = bucket BY <1>4, <1>5, <1>8 DEF Key, Load
  <1>11. \A v \in Turns : At(v, "over") => turn'[v] = turn[v] BY <1>1, <1>7 DEF At
  <1>12. StepFits(t)'
    <2>1. UsesCache(turn[t])' BY <1>1, <1>4, <1>5, <1>8 DEF UsesCache, TurnFits, StepFits, At
    <2>2. MadeUnder(t, turn[t].scope)'
      BY <1>1, <1>4, <1>5, <1>8 DEF MadeUnder, TurnFits, StepFits, At
    <2>3. turn'[t].pc = "save" /\ turn'[t].reply = t
      BY <1>1, <1>4, <1>5, <1>8 DEF TurnFits, StepFits, At
    <2> QED BY <2>1, <2>2, <2>3 DEF StepFits, At
  <1>13. turn[t].draft = <<>> BY <1>1 DEF TurnFits, StepFits, At
  <1>14. DraftFits(t)'
    <2>1. CASE new = read
      <3>1. \A i \in DOMAIN Bucket(Key(t)) : EntryFits(Bucket(Key(t))[i], Key(t))'
        <4> SUFFICES ASSUME NEW i \in DOMAIN bucket[Key(t)], Key(t) \in DOMAIN bucket
                     PROVE  EntryFits(bucket[Key(t)][i], Key(t))'
          BY <1>10 DEF Bucket
        <4>1. PICK entry : entry = bucket[Key(t)][i] /\ EntryFits(entry, Key(t))
          BY <1>1 DEF BucketsFit
        <4>2. EntryFits(entry, Key(t))' BY <4>1, <1>10, <1>11, EntryKept
        <4> QED BY <4>1, <4>2, <1>10
      <3>2. turn'[t].draft = Bucket(Key(t)) BY <2>1, <1>4, <1>8
      <3>3. Bucket(Key(t))' = Bucket(Key(t)) BY <1>10 DEF Bucket
      <3> QED BY <3>1, <3>2, <3>3, <1>3 DEF DraftFits
    <2>2. CASE new = failed
      BY <2>2, <1>5, <1>8, <1>13, RepliesAssumption DEF DraftFits
    <2> QED BY <2>1, <2>2
  <1>15. SinceFits(t)'
    <2>1. CASE new = read
      BY <2>1, <1>4, <1>8, <1>10 DEF SinceFits, Bucket, ToSet
    <2>2. CASE new = failed
      BY <2>2, <1>5, <1>8 DEF SinceFits
    <2> QED BY <2>1, <2>2
  <1>16. TurnFits(t)'
    <2>1. turn'[t].pc = "save" /\ turn'[t].reply = t /\ turn'[t].call \in Calls
      BY <1>1, <1>2, <1>4, <1>5, <1>8 DEF TurnFits, StepFits, At
    <2> QED BY <2>1, <1>12, <1>14, <1>15 DEF TurnFits, CallFits, ReuseFits, DislikesFit, At
  <1> QED BY <1>1, <1>4, <1>5, <1>7, <1>9, <1>16, OneTurn DEF Load

-----------------------------------------------------------------------------
(* The steps that change what agents know, preferences or buckets.         *)

LEMMA AskKeeps ==
  ASSUME IInv, NEW t \in Turns, Ask(t)
  PROVE  IInv'
PROOF
  <1> DEFINE s == turn[t].call.session
             lines == turn[t].lines
             hint == lines # Nothing /\ lines # injected[s]
             told == context[s].told \union IF hint THEN Rows(lines) ELSE {}
             new == [turn[t] EXCEPT !.pc = "asked", !.lines = Nothing]
  <1>1. TypeOK /\ At(t, "ask") /\ ~At(t, "over") /\ TurnFits(t) /\ BucketsFit /\ InjectedFits
    BY DEF IInv, Ask, At
  <1>2. turn[t] \in TurnType /\ turn[t].call \in Calls /\ s \in Sessions
    BY <1>1, TurnTyped DEF TurnFits, CallFits, At
  <1>3. lines \in Lists /\ Rows(lines) \subseteq Preferences
    BY <1>2, ListRows DEF TurnType
  <1>4. /\ new \in TurnType /\ new.pc = "asked" /\ new.call = turn[t].call
        /\ new.made = turn[t].made /\ new.reply = turn[t].reply
        /\ new.draft = turn[t].draft /\ new.since = turn[t].since
        /\ new.stale = turn[t].stale /\ new.blind = turn[t].blind
    BY <1>2, NothingListed DEF TurnType, Steps
  <1> HIDE DEF new
  <1>5. turn' = [turn EXCEPT ![t] = new] BY <1>1, TurnTyped DEF Ask, new
  <1>6. turn'[t] = new /\ \A u \in Turns : u # t => turn'[u] = turn[u]
    BY <1>1, <1>5, TurnTyped
  <1>7. /\ context \in [Sessions -> [begun : BOOLEAN, told : SUBSET Preferences]]
        /\ injected \in [Sessions -> Lists]
    BY <1>1 DEF TypeOK
  <1>8. told \in SUBSET Preferences BY <1>2, <1>3, <1>7
  <1>9. context' = [context EXCEPT ![s] = [context[s] EXCEPT !.begun = TRUE, !.told = told]]
    BY <1>2, <1>7 DEF Ask
  <1>10. injected' = IF hint THEN [injected EXCEPT ![s] = lines] ELSE injected
    BY DEF Ask
  <1> HIDE DEF told, hint
  <1>11. /\ context' \in [Sessions -> [begun : BOOLEAN, told : SUBSET Preferences]]
         /\ context'[s].told = told
         /\ \A x \in Sessions : x # s => context'[x] = context[x]
    BY <1>2, <1>7, <1>8, <1>9
  <1>12. injected' \in [Sessions -> Lists] BY <1>2, <1>3, <1>7, <1>10
  <1>13. TypeOK'
    <2>1. turn' \in [Turns -> TurnType] BY <1>1, <1>4, <1>5, TurnTyped
    <2>2. UNCHANGED <<prefs, bucket, writes, faults>>
      BY DEF Ask
    <2> QED BY <1>1, <1>11, <1>12, <2>1, <2>2 DEF TypeOK, TurnType
  <1>14. \A x \in Sessions : context[x].told \subseteq context'[x].told
    BY <1>11 DEF told
  <1>15. \A v \in Turns : At(v, "over") => turn'[v] = turn[v] BY <1>1, <1>6
  <1>16. ASSUME NEW u \in Turns, u # t PROVE TurnFits(u)'
    BY <1>6, <1>14, <1>15, <1>16, TurnKept DEF Ask
  <1>17. Rows(lines) \subseteq told
    <2>1. CASE hint BY <2>1 DEF told
    <2>2. CASE ~hint
      <3>1. CASE lines = Nothing BY <3>1, NothingListed
      <3>2. CASE lines = injected[s]
        BY <3>2, <1>1, <1>2 DEF InjectedFits, told
      <3> QED BY <2>2, <3>1, <3>2 DEF hint
    <2> QED BY <2>1, <2>2
  <1>18. TurnFits(t)'
    <2>1. Own(t)' = Own(t) BY <1>4, <1>6 DEF Own, Ask
    <2>2. StepFits(t)'
      BY <1>1, <1>4, <1>6, <2>1 DEF TurnFits, StepFits, At, MadeUnder
    <2>3. DislikesFit(t)'
      <3>1. Dislikes(turn[t].made) \subseteq Rows(lines) BY <1>1 DEF TurnFits, DislikesFit
      <3>2. turn'[t].made = turn[t].made /\ turn'[t].call.session = s /\ turn'[t].pc = "asked"
        BY <1>4, <1>6
      <3> QED BY <3>1, <3>2, <1>11, <1>17 DEF DislikesFit, At, Dislikes
    <2> QED BY <1>1, <1>2, <1>4, <1>6, <2>2, <2>3
            DEF TurnFits, CallFits, StepFits, DraftFits, SinceFits, ReuseFits, At
  <1>19. BucketsFit' BY <1>1, <1>15, BucketsKept DEF Ask
  <1>20. ASSUME NEW x \in Sessions PROVE Rows(injected'[x]) \subseteq context'[x].told
    <2>1. CASE x = s /\ hint
      <3>1. injected'[x] = lines BY <2>1, <1>7, <1>10
      <3> QED BY <3>1, <2>1, <1>11, <1>17
    <2>2. CASE ~(x = s /\ hint)
      <3>1. injected'[x] = injected[x] BY <2>2, <1>7, <1>10
      <3> QED BY <3>1, <1>1, <1>14 DEF InjectedFits
    <2> QED BY <2>1, <2>2
  <1> QED BY <1>13, <1>16, <1>18, <1>19, <1>20 DEF IInv, InjectedFits

\* A tool changes the preferences of the buyer of its turn.
LEMMA ChangeKeeps ==
  ASSUME IInv, NEW t \in Turns, NEW ps \in Lists, Change(t, ps)
  PROVE  IInv'
PROOF
  <1> DEFINE b == turn[t].call.buyer
             s == turn[t].call.session
             told == context[s].told \union (Rows(ps) \ Rows(Own(t)))
             new == [turn[t] EXCEPT !.made = IF @ = Own(t) THEN ps ELSE @]
             Touched(u) == /\ turn[u].pc \in {"ask", "asked"}
                           /\ turn[u].call.buyer = turn[t].call.buyer
  <1>1. TypeOK /\ At(t, "asked") /\ ~At(t, "over") /\ TurnFits(t) /\ BucketsFit /\ InjectedFits
    BY DEF IInv, Change, At
  <1>2. /\ turn[t] \in TurnType /\ turn[t].call \in Calls /\ s \in Sessions /\ b \in Buyers
        /\ Own(t) \in Lists
    BY <1>1, TurnTyped DEF TurnFits, CallFits, At
  <1>3. Rows(ps) \subseteq Preferences BY ListRows
  <1>4. /\ new \in TurnType /\ new.pc = "asked" /\ new.call = turn[t].call
        /\ new.made = (IF turn[t].made = Own(t) THEN ps ELSE turn[t].made)
        /\ new.reply = turn[t].reply /\ new.draft = turn[t].draft /\ new.since = turn[t].since
        /\ new.stale = turn[t].stale /\ new.blind = turn[t].blind
        /\ new.hist = turn[t].hist /\ new.scope = turn[t].scope /\ new.lines = turn[t].lines
    BY <1>1, <1>2 DEF TurnType, At
  <1> HIDE DEF new
  <1>5. turn' = [u \in Turns |->
          IF u = t THEN new
          ELSE IF Touched(u) THEN [turn[u] EXCEPT !.stale = TRUE] ELSE turn[u]]
    BY DEF Change, new
  <1>6. /\ turn'[t] = new
        /\ \A u \in Turns : u # t /\ Touched(u) => turn'[u] = [turn[u] EXCEPT !.stale = TRUE]
        /\ \A u \in Turns : u # t /\ ~Touched(u) => turn'[u] = turn[u]
    BY <1>5
  <1>7. /\ prefs \in [Buyers -> Lists] /\ prefs' = [prefs EXCEPT ![b] = ps]
        /\ context \in [Sessions -> [begun : BOOLEAN, told : SUBSET Preferences]]
        /\ context' = [context EXCEPT ![s] = [context[s] EXCEPT !.told = told]]
        /\ UNCHANGED <<bucket, injected, faults>> /\ writes' \in 0..MaxWrites
    <2>1. writes' \in 0..MaxWrites BY <1>1, RepliesAssumption DEF TypeOK, Change
    <2>2. context \in [Sessions -> [begun : BOOLEAN, told : SUBSET Preferences]]
      BY <1>1 DEF TypeOK
    <2>3. context' = [context EXCEPT ![s] = [context[s] EXCEPT !.told = told]]
      BY <1>2, <2>2 DEF Change
    <2> QED BY <1>1, <2>1, <2>2, <2>3 DEF TypeOK, Change
  <1>8. told \in SUBSET Preferences BY <1>2, <1>3, <1>7
  <1> HIDE DEF told
  <1>9. /\ context' \in [Sessions -> [begun : BOOLEAN, told : SUBSET Preferences]]
        /\ context'[s].told = told
        /\ \A x \in Sessions : x # s => context'[x] = context[x]
    BY <1>2, <1>7, <1>8
  <1>10. \A x \in Sessions : context[x].told \subseteq context'[x].told
    BY <1>9 DEF told
  <1>11. /\ prefs' \in [Buyers -> Lists] /\ prefs'[b] = ps
         /\ \A x \in Buyers : x # b => prefs'[x] = prefs[x]
    BY <1>2, <1>7
  <1>12. ASSUME NEW u \in Turns, u # t, Touched(u)
         PROVE  /\ turn'[u] \in TurnType /\ turn'[u].stale
                /\ turn'[u].pc = turn[u].pc /\ turn'[u].call = turn[u].call
                /\ turn'[u].lines = turn[u].lines /\ turn'[u].made = turn[u].made
                /\ turn'[u].reply = turn[u].reply /\ turn'[u].draft = turn[u].draft
                /\ turn'[u].since = turn[u].since
    BY <1>1, <1>6, <1>12, TurnTyped DEF TurnType
  <1>13. TypeOK'
    <2>1. \A u \in Turns : turn'[u] \in TurnType
      BY <1>1, <1>4, <1>6, <1>12, TurnTyped
    <2>2. turn' \in [Turns -> TurnType] BY <2>1, <1>5
    <2> QED BY <2>2, <1>1, <1>7, <1>9, <1>11 DEF TypeOK, TurnType
  <1>14. \A v \in Turns : At(v, "over") => turn'[v] = turn[v]
    BY <1>1, <1>6 DEF At
  <1>15. ASSUME NEW u \in Turns, u # t, ~Touched(u) PROVE TurnFits(u)'
    <2>1. turn'[u] = turn[u] BY <1>6, <1>15
    <2>2. \/ turn[u].pc \notin {"ask", "asked"}
          \/ prefs'[turn[u].call.buyer] = prefs[turn[u].call.buyer]
      <3>1. turn[u].pc \in {"ask", "asked"} => turn[u].call \in Calls
        BY DEF IInv, TurnFits, CallFits, At
      <3>2. turn[u].call \in Calls => turn[u].call.buyer \in Buyers BY RepliesAssumption
      <3> QED BY <3>1, <3>2, <1>11, <1>15
    <2> QED BY <2>1, <2>2, <1>7, <1>10, <1>14, TurnKept
  <1>16. ASSUME NEW u \in Turns, u # t, Touched(u) PROVE TurnFits(u)'
    <2>1. TurnFits(u) /\ turn[u].pc \in {"ask", "asked"} /\ turn[u].call \in Calls
      BY <1>16 DEF IInv, TurnFits, CallFits, At
    <2>2. StepFits(u)' BY <1>12, <1>16, <2>1 DEF TurnFits, StepFits, At, MadeUnder
    <2>3. DislikesFit(u)'
      <3>1. turn[u].call.session \in Sessions BY <2>1, RepliesAssumption
      <3>2. /\ At(u, "ask") => Dislikes(turn[u].made) \subseteq Rows(turn[u].lines)
            /\ At(u, "asked") =>
                 Dislikes(turn[u].made) \subseteq context[turn[u].call.session].told
        BY <2>1 DEF TurnFits, DislikesFit
      <3> QED BY <3>1, <3>2, <1>10, <1>12, <1>16 DEF DislikesFit, At, Dislikes
    <2> QED BY <1>12, <1>16, <2>1, <2>2, <2>3
            DEF TurnFits, CallFits, DraftFits, SinceFits, ReuseFits, At
  <1>17. TurnFits(t)'
    <2>1. Own(t)' = ps BY <1>4, <1>6, <1>11 DEF Own
    <2>2. StepFits(t)'
      BY <1>1, <1>4, <1>6, <2>1 DEF TurnFits, StepFits, At, MadeUnder
    <2>3. Dislikes(turn[t].made) \subseteq context[s].told
      BY <1>1 DEF TurnFits, DislikesFit
    <2>4. Dislikes(new.made) \subseteq told
      BY <2>3, <1>4 DEF Dislikes, told
    <2>5. DislikesFit(t)' BY <2>4, <1>4, <1>6, <1>9 DEF DislikesFit, At, Dislikes
    <2> QED BY <1>1, <1>2, <1>4, <1>6, <2>2, <2>5
            DEF TurnFits, CallFits, StepFits, DraftFits, SinceFits, ReuseFits, At
  <1>18. BucketsFit' BY <1>1, <1>7, <1>14, BucketsKept
  <1>19. InjectedFits' BY <1>1, <1>7, <1>10 DEF InjectedFits
  <1> QED BY <1>13, <1>15, <1>16, <1>17, <1>18, <1>19 DEF IInv

\* What is in a bucket that was saved was put there by the turn that saved it,
\* or was in the bucket that it had loaded.
LEMMA SavedFits ==
  ASSUME NEW draft, NEW entry, NEW key, NEW kept,
         \A i \in DOMAIN draft : EntryFits(draft[i], key),
         EntryFits(entry, key)',
         \A v \in Turns : At(v, "over") => turn'[v] = turn[v],
         \A i \in DOMAIN kept :
             kept[i] = entry \/ \E j \in DOMAIN draft : kept[i] = draft[j]
  PROVE  \A i \in DOMAIN kept : EntryFits(kept[i], key)'
PROOF
  <1> SUFFICES ASSUME NEW i \in DOMAIN kept PROVE EntryFits(kept[i], key)'
    OBVIOUS
  <1>1. CASE kept[i] = entry BY <1>1
  <1>2. CASE \E j \in DOMAIN draft : kept[i] = draft[j]
    <2>1. PICK j \in DOMAIN draft : kept[i] = draft[j] BY <1>2
    <2>2. EntryFits(draft[j], key)' BY EntryKept
    <2> QED BY <2>1, <2>2
  <1> QED BY <1>1, <1>2

\* A bucket is saved: the turn is over and what it leaves fits; others that
\* have loaded the bucket learn what was put into it.
LEMMA SaveKeeps ==
  ASSUME IInv, NEW t \in Turns, Save(t)
  PROVE  IInv'
PROOF
  <1>1. TypeOK /\ At(t, "save") /\ ~At(t, "over") /\ TurnFits(t) /\ BucketsFit /\ InjectedFits
    BY DEF IInv, Save, At
  <1>2. turn[t] \in TurnType /\ turn[t].call \in Calls
        /\ turn[t].call.question \in Questions /\ turn[t].call.buyer \in Buyers
    BY <1>1, TurnTyped DEF TurnFits, CallFits, At
  <1>3. PICK entry \in Entries : /\ entry = [question |-> turn[t].call.question, reply |-> t]
                                 /\ entry.reply = t /\ entry.question = turn[t].call.question
    <2>1. [question |-> turn[t].call.question, reply |-> t] \in Entries
      BY <1>2 DEF Entries
    <2> QED BY <2>1
  <1>4. PICK draft \in Seq(Entries) : draft = turn[t].draft /\ Len(draft) <= BucketLimit
    BY <1>1, <1>2 DEF TurnType, TurnFits, DraftFits
  <1>5. PICK key \in Buyers \X Lists :
          key = Key(t) /\ key[1] = turn[t].call.buyer /\ key[2] = turn[t].scope
    <2>1. Key(t) = <<turn[t].call.buyer, turn[t].scope>> BY DEF Key
    <2>2. turn[t].scope \in Lists BY <1>2 DEF TurnType
    <2>3. Key(t) \in Buyers \X Lists BY <1>2, <2>1, <2>2
    <2> QED BY <2>1, <2>3
  <1>6. PICK kept \in Seq(Entries) :
          /\ kept = Newest(Append(draft, entry)) /\ Len(kept) \in 1..BucketLimit
          /\ \A i \in DOMAIN kept :
               kept[i] = entry \/ \E j \in DOMAIN draft : kept[i] = draft[j]
    <2>1. Newest(Append(draft, entry)) \in Seq(Entries) BY <1>4, NewestKeeps
    <2> QED BY <1>4, <2>1, NewestKeeps
  <1>7. PICK extra \in SUBSET Entries : extra = ToSet(kept) \ ToSet(Bucket(key))
    <2>1. ToSet(kept) \ ToSet(Bucket(key)) \in SUBSET Entries BY <1>6 DEF ToSet
    <2> QED BY <2>1
  <1> DEFINE Waits(u) == turn[u].pc = "save" /\ Key(u) = key
  <1>8. /\ bucket' = [k \in DOMAIN bucket \union {key} |-> IF k = key THEN kept ELSE bucket[k]]
        /\ UNCHANGED <<prefs, injected, context, writes, faults>>
    BY <1>3, <1>4, <1>5, <1>6 DEF Save
  <1>9. /\ DOMAIN bucket' = DOMAIN bucket \union {key} /\ bucket'[key] = kept
        /\ \A k \in DOMAIN bucket : k # key => bucket'[k] = bucket[k]
    BY <1>8
  <1>10. turn' = [u \in Turns |->
           IF u = t THEN Done(t)
           ELSE IF Waits(u) THEN [turn[u] EXCEPT !.since = @ \union extra]
           ELSE turn[u]]
    BY <1>5, <1>7, <1>9 DEF Save
  <1>11. /\ turn'[t] = Done(t)
         /\ \A u \in Turns : u # t /\ Waits(u) =>
              turn'[u] = [turn[u] EXCEPT !.since = turn[u].since \union extra]
         /\ \A u \in Turns : u # t /\ ~Waits(u) => turn'[u] = turn[u]
    BY <1>10
  <1>12. /\ Done(t) \in TurnType /\ Done(t).pc = "over" /\ Done(t).call = turn[t].call
         /\ Done(t).hist = turn[t].hist /\ Done(t).reply = turn[t].reply
         /\ Done(t).stale = turn[t].stale /\ Done(t).blind = turn[t].blind
         /\ Done(t).made = turn[t].made
    <2>1. "over" \in Steps /\ <<>> \in Seq(Entries) /\ {} \in SUBSET Entries BY DEF Steps
    <2> QED BY <1>2, <2>1, NothingListed DEF Done, TurnType
  <1>13. ASSUME NEW u \in Turns, u # t, Waits(u)
         PROVE  /\ turn'[u] \in TurnType /\ turn'[u].pc = turn[u].pc
                /\ turn'[u].call = turn[u].call /\ turn'[u].hist = turn[u].hist
                /\ turn'[u].scope = turn[u].scope
                /\ turn'[u].draft = turn[u].draft /\ turn'[u].reply = turn[u].reply
                /\ turn'[u].made = turn[u].made /\ turn'[u].stale = turn[u].stale
                /\ turn'[u].blind = turn[u].blind
                /\ turn'[u].since = turn[u].since \union extra
    <2>1. turn[u] \in TurnType BY <1>1, TurnTyped
    <2>2. PICK since \in SUBSET Entries : since = turn[u].since \union extra
      BY <2>1 DEF TurnType
    <2>3. turn'[u] = [turn[u] EXCEPT !.since = since] BY <1>11, <1>13, <2>2
    <2> QED BY <2>1, <2>2, <2>3 DEF TurnType
  <1>14. TypeOK'
    <2>1. \A u \in Turns : turn'[u] \in TurnType
      BY <1>1, <1>11, <1>12, <1>13, TurnTyped
    <2>2. turn' \in [Turns -> TurnType] BY <2>1, <1>10
    <2>3. DOMAIN bucket' \subseteq Buyers \X Lists BY <1>1, <1>9 DEF TypeOK
    <2>4. \A k \in DOMAIN bucket' :
            bucket'[k] \in Seq(Entries) /\ Len(bucket'[k]) \in 1..BucketLimit
      BY <1>1, <1>6, <1>9 DEF TypeOK
    <2> QED BY <2>2, <2>3, <2>4, <1>1, <1>8 DEF TypeOK, TurnType
  <1>15. \A v \in Turns : At(v, "over") => turn'[v] = turn[v]
    BY <1>1, <1>11 DEF At
  <1>16. EntryFits(entry, key)'
    <2>1. /\ UsesCache(turn[t]) /\ turn[t].reply = t /\ MadeUnder(t, turn[t].scope)
      BY <1>1 DEF TurnFits, StepFits, At
    <2> QED BY <2>1, <1>2, <1>3, <1>5, <1>11, <1>12 DEF EntryFits, At, MadeUnder, UsesCache
  <1>17. \A i \in DOMAIN draft : EntryFits(draft[i], key)
    BY <1>1, <1>4, <1>5 DEF TurnFits, DraftFits
  <1>18. \A i \in DOMAIN kept : EntryFits(kept[i], key)'
    BY <1>6, <1>15, <1>16, <1>17, SavedFits
  <1>19. BucketsFit'
    <2> SUFFICES ASSUME NEW k \in DOMAIN bucket', NEW i \in DOMAIN bucket'[k]
                 PROVE  EntryFits(bucket[k][i], k)'
      BY DEF BucketsFit
    <2>1. CASE k = key BY <2>1, <1>9, <1>18
    <2>2. CASE k # key
      <3>1. k \in DOMAIN bucket /\ bucket'[k] = bucket[k] BY <2>2, <1>9
      <3>2. PICK e : e = bucket[k][i] /\ EntryFits(e, k) BY <3>1, <1>1 DEF BucketsFit
      <3>3. EntryFits(e, k)' BY <3>2, <1>15, EntryKept
      <3> QED BY <3>1, <3>2, <3>3
    <2> QED BY <2>1, <2>2
  <1>20. ASSUME NEW u \in Turns, u # t, ~Waits(u) PROVE TurnFits(u)'
    <2>1. turn'[u] = turn[u] BY <1>11, <1>20
    <2>2. \/ ~At(u, "save")
          \/ Key(u) \notin DOMAIN bucket'
          \/ Key(u) \in DOMAIN bucket /\ bucket'[Key(u)] = bucket[Key(u)]
      BY <1>9, <1>20 DEF At
    <2> QED BY <2>1, <2>2, <1>8, <1>15, TurnKept
  <1>21. ASSUME NEW u \in Turns, u # t, Waits(u) PROVE TurnFits(u)'
    <2>1. TurnFits(u) /\ At(u, "save") /\ turn[u].call \in Calls
      BY <1>21 DEF IInv, TurnFits, CallFits, At
    <2>2. Key(u)' = key /\ Key(u) = key BY <1>13, <1>21 DEF Key
    <2>3. StepFits(u)'
      <3>1. UsesCache(turn[u]) /\ turn[u].reply = u /\ MadeUnder(u, turn[u].scope)
        BY <2>1 DEF TurnFits, StepFits, At
      <3>2. turn'[u].pc = "save" BY <1>13, <1>21
      <3> QED BY <3>1, <3>2, <1>13, <1>21 DEF StepFits, At, MadeUnder, UsesCache
    <2>4. DraftFits(u)'
      <3>1. /\ Len(turn[u].draft) <= BucketLimit
            /\ \A i \in DOMAIN turn[u].draft : EntryFits(turn[u].draft[i], key)
        BY <2>1, <2>2 DEF TurnFits, DraftFits
      <3>2. PICK d : d = turn[u].draft OBVIOUS
      <3>3. ASSUME NEW i \in DOMAIN d PROVE EntryFits(d[i], key)'
        BY <3>1, <3>2, <1>15, EntryKept
      <3>4. turn'[u].draft = d BY <3>2, <1>13, <1>21
      <3> QED BY <3>1, <3>2, <3>3, <3>4, <2>2 DEF DraftFits
    <2>5. SinceFits(u)'
      <3> SUFFICES ASSUME ~turn'[u].blind, NEW i \in DOMAIN kept
                   PROVE  kept[i] \in ToSet(turn'[u].draft) \union turn'[u].since
        BY <2>2, <1>9 DEF SinceFits
      <3>1. ~turn[u].blind /\ turn'[u].draft = turn[u].draft
            /\ turn'[u].since = turn[u].since \union extra
        BY <1>13, <1>21
      <3>2. CASE kept[i] \in extra BY <3>1, <3>2
      <3>3. CASE kept[i] \notin extra
        <4>1. kept[i] \in ToSet(Bucket(key)) BY <3>3, <1>7 DEF ToSet
        <4>2. key \in DOMAIN bucket /\ \E j \in DOMAIN bucket[key] : kept[i] = bucket[key][j]
          BY <4>1 DEF Bucket, ToSet
        <4>3. \A j \in DOMAIN bucket[key] :
                bucket[key][j] \in ToSet(turn[u].draft) \union turn[u].since
          BY <2>1, <2>2, <3>1, <4>2 DEF TurnFits, SinceFits
        <4> QED BY <3>1, <4>2, <4>3
      <3> QED BY <3>2, <3>3
    <2>6. turn'[u].pc = "save" /\ turn'[u].reply = u /\ turn'[u].call \in Calls
      BY <2>1, <1>13, <1>21 DEF TurnFits, StepFits, At
    <2> QED BY <2>3, <2>4, <2>5, <2>6 DEF TurnFits, CallFits, ReuseFits, DislikesFit, At
  <1>22. TurnFits(t)'
    <2>1. turn'[t].pc = "over" /\ turn'[t].reply = t /\ turn'[t].call \in Calls
      BY <1>1, <1>2, <1>11, <1>12 DEF TurnFits, StepFits, At
    <2> QED BY <2>1 DEF TurnFits, CallFits, StepFits, DraftFits, SinceFits, ReuseFits,
                        DislikesFit, At
  <1>23. InjectedFits' BY <1>1, <1>8 DEF InjectedFits
  <1> QED BY <1>14, <1>19, <1>20, <1>21, <1>22, <1>23 DEF IInv

LEMMA ExpireKeeps ==
  ASSUME IInv, Expire
  PROVE  IInv'
PROOF
  <1>1. TypeOK /\ BucketsFit /\ InjectedFits BY DEF IInv
  <1>2. PICK key \in DOMAIN bucket :
          /\ Fault /\ bucket' = [k \in DOMAIN bucket \ {key} |-> bucket[k]]
          /\ UNCHANGED <<prefs, injected, context, turn, writes>>
    BY DEF Expire
  <1>3. /\ DOMAIN bucket' \subseteq DOMAIN bucket
        /\ \A k \in DOMAIN bucket' : bucket'[k] = bucket[k]
    BY <1>2
  <1>4. faults' \in 0..MaxFaults BY <1>1, <1>2, FaultTyped
  <1>5. TypeOK' BY <1>1, <1>2, <1>3, <1>4 DEF TypeOK
  <1>6. ASSUME NEW u \in Turns PROVE TurnFits(u)'
    BY <1>2, <1>3, TurnKept
  <1>7. BucketsFit' BY <1>1, <1>2, <1>3, BucketsKept
  <1>8. InjectedFits' BY <1>1, <1>2 DEF InjectedFits
  <1> QED BY <1>5, <1>6, <1>7, <1>8 DEF IInv

-----------------------------------------------------------------------------
(* The theorems.                                                           *)

LEMMA StepKeeps == IInv /\ [Next]_vars => IInv'
PROOF
  <1> SUFFICES ASSUME IInv, [Next]_vars PROVE IInv' OBVIOUS
  <1>1. TypeOK BY DEF IInv
  <1>2. ASSUME NEW t \in Turns, NEW call \in Calls, Begin(t, call) PROVE IInv'
    BY <1>2, BeginKeeps
  <1>3. ASSUME NEW t \in Turns, Hit(t) PROVE IInv' BY <1>3, HitKeeps
  <1>4. ASSUME NEW t \in Turns, Miss(t) PROVE IInv' BY <1>4, MissKeeps
  <1>5. ASSUME NEW t \in Turns, Select(t) PROVE IInv' BY <1>5, SelectKeeps
  <1>6. ASSUME NEW t \in Turns, Ask(t) PROVE IInv' BY <1>6, AskKeeps
  <1>7. ASSUME NEW t \in Turns, NEW p \in Voiced, Remember(t, p) PROVE IInv'
    <2>1. turn[t].pc = "asked" BY <1>7 DEF Remember, Change
    <2>2. Own(t) \in Lists
      BY <1>1, <2>1, TurnTyped DEF IInv, TurnFits, CallFits, At
    <2>3. p \in Preferences BY RepliesAssumption
    <2>4. CASE p \in Rows(Own(t)) BY <1>7, <2>2, <2>4, ChangeKeeps DEF Remember
    <2>5. CASE p \notin Rows(Own(t))
      BY <1>7, <2>2, <2>3, <2>5, Appended, ChangeKeeps DEF Remember
    <2> QED BY <2>4, <2>5
  <1>8. ASSUME NEW t \in Turns, NEW statement \in Statements, Forget(t, statement)
        PROVE  IInv'
    <2>1. turn[t].pc = "asked" BY <1>8 DEF Forget, Change
    <2>2. Own(t) \in Lists
      BY <1>1, <2>1, TurnTyped DEF IInv, TurnFits, CallFits, At
    <2> QED BY <1>8, <2>2, OnlyListed, ChangeKeeps DEF Forget
  <1>9. ASSUME NEW t \in Turns, Answer(t) PROVE IInv' BY <1>9, AnswerKeeps
  <1>10. ASSUME NEW t \in Turns, End(t) PROVE IInv' BY <1>10, GoneKeeps DEF End
  <1>11. ASSUME NEW t \in Turns, Load(t) PROVE IInv' BY <1>11, LoadKeeps
  <1>12. ASSUME NEW t \in Turns, Save(t) PROVE IInv' BY <1>12, SaveKeeps
  <1>13. ASSUME NEW t \in Turns, SaveFails(t) PROVE IInv'
    BY <1>13, GoneKeeps DEF SaveFails
  <1>14. CASE Expire BY <1>14, ExpireKeeps
  <1>15. CASE UNCHANGED vars
    <2>1. TypeOK' BY <1>1, <1>15 DEF TypeOK, vars
    <2>2. ASSUME NEW u \in Turns PROVE TurnFits(u)' BY <1>15, TurnKept DEF vars
    <2>3. BucketsFit' BY <1>15, BucketsKept DEF IInv, vars
    <2>4. InjectedFits' BY <1>15 DEF IInv, InjectedFits, vars
    <2> QED BY <2>1, <2>2, <2>3, <2>4 DEF IInv
  <1> QED
    BY <1>2, <1>3, <1>4, <1>5, <1>6, <1>7, <1>8, <1>9, <1>10, <1>11, <1>12, <1>13,
       <1>14, <1>15
    DEF Next

\* The invariant holds of every behaviour of Replies.
THEOREM Invariant == Spec => []IInv
PROOF BY InitInv, StepKeeps, PTL DEF Spec

\* Every variable keeps its type: the lists of preferences are lists, and no
\* bucket of the cache is empty or longer than its limit.
THEOREM TypeCorrect == Spec => []TypeOK
PROOF
  <1>1. IInv => TypeOK BY DEF IInv
  <1> QED BY <1>1, Invariant, PTL

\* SemanticCache.lookup: who is answered from the cache gets what was made for
\* the same buyer, as a first answer, to a question similar enough and under
\* the same preferences, but for the exceptions of ReuseIsSound.
THEOREM SoundReuse == Spec => []ReuseIsSound
PROOF
  <1>1. IInv => ReuseIsSound
    <2> SUFFICES ASSUME IInv, NEW t \in Turns, turn[t].reply \notin {t, None}
                 PROVE  LET u == turn[t].reply
                        IN  /\ turn[u].call.buyer = turn[t].call.buyer
                            /\ ~turn[u].hist /\ ~turn[t].hist
                            /\ turn[u].call.question \in Cacheable
                            /\ Similarity[turn[t].call.question][turn[u].call.question] >= Threshold
                            /\ turn[u].stale \/ turn[u].blind \/ turn[u].made = turn[t].scope
      BY DEF ReuseIsSound
    <2>1. UsesCache(turn[t]) BY DEF IInv, TurnFits, ReuseFits
    <2>2. PICK entry \in Entries :
            /\ entry.reply = turn[t].reply /\ EntryFits(entry, Key(t))
            /\ Similarity[turn[t].call.question][entry.question] >= Threshold
      BY DEF IInv, TurnFits, ReuseFits
    <2>3. Key(t)[1] = turn[t].call.buyer /\ Key(t)[2] = turn[t].scope BY DEF Key
    <2> QED BY <2>1, <2>2, <2>3 DEF EntryFits, UsesCache, MadeUnder
  <1> QED BY <1>1, Invariant, PTL

\* PreferenceSelector and _build_inputs: whatever hints are cut or left out, an
\* agent that is asked knows every dislike of its buyer.
THEOREM DislikesKnown == Spec => []DislikesReachAgent
PROOF
  <1>1. IInv => DislikesReachAgent
    BY DEF IInv, TurnFits, DislikesFit, DislikesReachAgent, At
  <1> QED BY <1>1, Invariant, PTL

\* SemanticCache.remember: a bucket is loaded and saved without atomicity, and
\* loses entries only as LostOnlyInRaces says.
THEOREM LossesAreRaces == Spec => LostOnlyInRaces
PROOF
  <1> DEFINE Lost ==
        \A key \in DOMAIN bucket \intersect DOMAIN bucket' :
          \A entry \in ToSet(bucket[key]) \ ToSet(bucket'[key]) :
            \E t \in Turns :
              /\ turn[t].pc = "save" /\ turn'[t].pc = "over"
              /\ \/ turn[t].blind
                 \/ entry \in turn[t].since
                 \/ Len(turn[t].draft) = BucketLimit /\ entry = turn[t].draft[1]
  <1>1. IInv /\ [Next]_vars => Lost
    <2> SUFFICES ASSUME IInv, [Next]_vars,
                        NEW key \in DOMAIN bucket \intersect DOMAIN bucket',
                        NEW x \in ToSet(bucket[key]) \ ToSet(bucket'[key])
                 PROVE  \E t \in Turns :
                          /\ turn[t].pc = "save" /\ turn'[t].pc = "over"
                          /\ \/ turn[t].blind
                             \/ x \in turn[t].since
                             \/ Len(turn[t].draft) = BucketLimit /\ x = turn[t].draft[1]
      BY Zenon
    <2>1. bucket'[key] # bucket[key] OBVIOUS
    <2>2. ~Expire BY <2>1 DEF Expire
    <2>3. PICK t \in Turns : Save(t)
      BY <2>1, <2>2
      DEF Next, vars, Begin, Hit, Miss, Select, Ask, Remember, Forget, Change, Answer, End,
          Load, SaveFails
    <2>4. key = Key(t) BY <2>1, <2>3 DEF Save
    <2>5. TypeOK /\ At(t, "save") /\ TurnFits(t) BY <2>3 DEF IInv, Save, At
    <2>6. turn[t] \in TurnType /\ turn[t].call \in Calls /\ turn[t].call.question \in Questions
      BY <2>5, TurnTyped DEF TurnFits, CallFits, At
    <2>7. PICK entry \in Entries : entry = [question |-> turn[t].call.question, reply |-> t]
      <3>1. [question |-> turn[t].call.question, reply |-> t] \in Entries
        BY <2>6 DEF Entries
      <3> QED BY <3>1
    <2>8. PICK draft \in Seq(Entries) : draft = turn[t].draft /\ Len(draft) <= BucketLimit
      BY <2>5, <2>6 DEF TurnType, TurnFits, DraftFits
    <2>9. bucket'[key] = Newest(Append(draft, entry)) BY <2>3, <2>4, <2>7, <2>8 DEF Save
    <2>10. \A j \in DOMAIN draft :
             \/ draft[j] \in ToSet(bucket'[key])
             \/ j = 1 /\ Len(draft) = BucketLimit
      BY <2>8, <2>9, NewestKeeps
    <2>11. turn'[t].pc = "over"
      <3>1. turn'[t] = Done(t) BY <2>3 DEF Save
      <3> QED BY <2>6, <3>1 DEF Done, TurnType
    <2>12. turn[t].blind \/ x \in ToSet(draft) \union turn[t].since
      BY <2>4, <2>5, <2>8 DEF TurnFits, SinceFits, ToSet
    <2>13. x \in ToSet(draft) => Len(draft) = BucketLimit /\ x = draft[1]
      BY <2>10 DEF ToSet
    <2> QED BY <2>5, <2>8, <2>11, <2>12, <2>13 DEF At
  <1>2. Spec => [][Lost]_vars BY <1>1, Invariant, PTL DEF Spec
  <1> QED BY <1>2 DEF LostOnlyInRaces

=============================================================================

------------------------------- MODULE Replies -------------------------------
(***************************************************************************)
(* What a buyer's long-term preferences do to the replies of an assistant: *)
(* the table buyer_preferences and the two tools that write it, the hint   *)
(* that a turn puts into the context of its agent, and the semantic cache  *)
(* that answers a similar first question without asking the agent.         *)
(*                                                                         *)
(* Turns run at the same time in one process; each action is the code      *)
(* between two awaits.  A Redis or database access or an embedding that    *)
(* raises is a fault.                                                      *)
(*                                                                         *)
(* Abstractions.  A preference is a kind and a statement; rendered lines   *)
(* and fingerprints are the list of preferences they are made from (the    *)
(* digest is taken to be injective).  A list names no preference twice, so *)
(* it is given as its order: the pairs <<p, q>> of preferences in it with  *)
(* p no later than q.  A reply is the turn that made it.  The similarity   *)
(* of two questions is a number the cosine may have.                       *)
(***************************************************************************)
EXTENDS Naturals, SequencesExt, FiniteSetsExt

CONSTANTS
  Turns,         \* calls of handle_intent
  Sessions, Buyers, Questions,
  Calls,         \* the inputs of turns: a session, a buyer, a question
  Cacheable,     \* questions that are neither a write nor about the context
  Similarity,    \* of two questions, 0 to 100
  Threshold,     \* similar enough to reuse a reply
  Statements,
  Voiced,        \* preferences the buyers may utter
  Stored,        \* the contents of the table when the model begins
  TopK,          \* likes in a hint
  BucketLimit,   \* entries in a bucket of the cache
  MaxOpen,       \* bound on turns in progress at once
  MaxWrites,     \* bound on calls of the preference tools
  MaxFaults,     \* bound on failed accesses and expired buckets
  None

Kinds == {"like", "dislike"}
Preferences == [kind : Kinds, statement : Statements]

\* The list without preferences, those of a list, and a list cut to some of them.
Nothing == {}
Rows(ps) == {pair[1] : pair \in ps}
Only(ps, kept) == ps \intersect (kept \X kept)

IsOrder(ps) ==
  LET rows == Rows(ps) IN
  /\ ps \subseteq rows \X rows
  /\ \A p, q \in rows :
       /\ <<p, q>> \in ps \/ <<q, p>> \in ps
       /\ <<p, q>> \in ps /\ <<q, p>> \in ps => p = q
       /\ <<p, q>> \in ps => \A r \in rows : <<q, r>> \in ps => <<p, r>> \in ps

Lists == {ps \in SUBSET (Preferences \X Preferences) : IsOrder(ps)}

ASSUME RepliesAssumption ==
  /\ Calls \subseteq [session : Sessions, buyer : Buyers, question : Questions]
  /\ Cacheable \subseteq Questions /\ Voiced \subseteq Preferences
  /\ \A q, r \in Questions : Similarity[q][r] \in 0..100
  /\ None \notin Turns \union Calls
  /\ Stored \subseteq [Buyers -> Lists]
  /\ BucketLimit \in Nat \ {0} /\ {TopK, MaxWrites, MaxFaults} \subseteq Nat

VARIABLES
  prefs,     \* the rows of each buyer in buyer_preferences, by id
  bucket,    \* the entries of each bucket of the cache, newest last
  injected,  \* _injected_preferences: the lines last given to each session
  context,   \* what the agent of each session knows: whether it was asked
             \* anything, and the preferences it was told of or noted itself
  turn,      \* the coroutine of each turn: its step, its input, has_history,
             \* the scope, the lines of the hint, the bucket it loaded, the
             \* turn whose reply the buyer got; and, as history, the
             \* preferences as its agent knows them, whether another turn
             \* changed them since, whether a read failed, and the entries that
             \* others put into its bucket since it loaded it
  writes, faults

vars == <<prefs, bucket, injected, context, turn, writes, faults>>

Fault == faults < MaxFaults /\ faults' = faults + 1

\* The bucket of a turn, which its buyer and its scope name.
Key(t) == <<turn[t].call.buyer, turn[t].scope>>

Bucket(key) == IF key \in DOMAIN bucket THEN bucket[key] ELSE <<>>

\* The preferences of the buyer of a turn.
Own(t) == prefs[turn[t].call.buyer]

Fresh == [pc |-> "idle", call |-> None, hist |-> FALSE, scope |-> Nothing,
          lines |-> Nothing, draft |-> <<>>, reply |-> None, made |-> Nothing,
          stale |-> FALSE, blind |-> FALSE, since |-> {}]

Init ==
  /\ prefs \in Stored
  /\ bucket = [key \in {} |-> <<>>]
  /\ injected = [s \in Sessions |-> Nothing]
  /\ context = [s \in Sessions |-> [begun |-> FALSE, told |-> {}]]
  /\ turn = [t \in Turns |-> Fresh]
  /\ writes = 0 /\ faults = 0

-----------------------------------------------------------------------------
(* A turn up to the lookup in the cache.                                   *)

\* The cache is used for first questions that are safe to repeat.
UsesCache(r) == ~r.hist /\ r.call.question \in Cacheable

\* _preference_scope: all preferences, or none if they cannot be read.
WithScope(t, r) ==
  \/ turn' = [turn EXCEPT ![t] = [r EXCEPT !.scope = prefs[r.call.buyer]]]
     /\ UNCHANGED faults
  \/ turn' = [turn EXCEPT ![t] = [r EXCEPT !.scope = Nothing, !.blind = TRUE]]
     /\ Fault

Begin(t, call) ==
  LET r == [turn[t] EXCEPT !.call = call, !.hist = context[call.session].begun]
  IN  /\ turn[t].pc = "idle"
      /\ Cardinality({u \in Turns : turn[u].pc \notin {"idle", "over"}}) < MaxOpen
      /\ WithScope(t, [r EXCEPT !.pc = IF UsesCache(r) THEN "lookup" ELSE "inputs"])
      /\ UNCHANGED <<prefs, bucket, injected, context, writes>>

\* The entries of the bucket that are similar enough to the question.
Near(t, i) == Similarity[turn[t].call.question][Bucket(Key(t))[i].question]

Candidates(t) == {i \in DOMAIN Bucket(Key(t)) : Near(t, i) >= Threshold}

\* The first of the most similar ones is reused, and the turn is over.
Hit(t) ==
  /\ turn[t].pc = "lookup"
  /\ \E i \in Candidates(t) :
       /\ \A j \in Candidates(t) :
            Near(t, j) < Near(t, i) \/ (Near(t, j) = Near(t, i) /\ i <= j)
       /\ turn' = [turn EXCEPT ![t].pc = "over",
                     ![t].reply = Bucket(Key(t))[i].reply]
  /\ UNCHANGED <<prefs, bucket, injected, context, writes, faults>>

\* Nothing is similar, or the bucket or the embedding failed.
Miss(t) ==
  /\ turn[t].pc = "lookup"
  /\ IF Candidates(t) = {} THEN UNCHANGED faults ELSE Fault
  /\ turn' = [turn EXCEPT ![t].pc = "inputs", ![t].scope = Nothing]
  /\ UNCHANGED <<prefs, bucket, injected, context, writes>>

-----------------------------------------------------------------------------
(* The hint and the reply.                                                 *)

IsDislike(p) == p.kind = "dislike"
Dislikes(ps) == {p \in Rows(ps) : IsDislike(p)}
Likes(ps) == Rows(ps) \ Dislikes(ps)

\* A mutant: the hint is cut to TopK lines, of whichever kind.
MutSelections(ps) ==
  {Only(ps, chosen) : chosen \in {c \in SUBSET Rows(ps) : Cardinality(c) <= TopK}}

\* PreferenceSelector.select: every dislike, then as many likes as fit; which
\* ones is a matter of their relevance, or of their age.
Selections(ps) ==
  {Only(ps, Dislikes(ps)) \union (Dislikes(ps) \X chosen) \union Only(ps, chosen) :
     chosen \in {c \in SUBSET Likes(ps) :
                   Cardinality(c) = Min({TopK, Cardinality(Likes(ps))})}}

\* If the preferences cannot be read there is no hint.
Select(t) ==
  /\ turn[t].pc = "inputs"
  /\ \/ /\ \E lines \in Selections(Own(t)) :
             turn' = [turn EXCEPT ![t].pc = "ask", ![t].lines = lines,
                        ![t].made = Own(t)]
        /\ UNCHANGED faults
     \/ /\ Fault
        /\ turn' = [turn EXCEPT ![t].pc = "ask", ![t].blind = TRUE]
  /\ UNCHANGED <<prefs, bucket, injected, context, writes>>

\* The hint is left out if it is empty or the one last given to the session.
Ask(t) ==
  LET s == turn[t].call.session
      lines == turn[t].lines
      hint == lines # Nothing /\ lines # injected[s]
  IN  /\ turn[t].pc = "ask"
      /\ injected' = IF hint THEN [injected EXCEPT ![s] = lines] ELSE injected
      /\ context' = [context EXCEPT ![s].begun = TRUE,
                       ![s].told = @ \union IF hint THEN Rows(lines) ELSE {}]
      /\ turn' = [turn EXCEPT ![t].pc = "asked", ![t].lines = Nothing]
      /\ UNCHANGED <<prefs, bucket, writes, faults>>

\* A tool of the turn's agent changes the preferences; what other turns of the
\* buyer are about to say was asked under the old ones.
Change(t, ps) ==
  /\ turn[t].pc = "asked" /\ writes < MaxWrites
  /\ ps # Own(t)
  /\ prefs' = [prefs EXCEPT ![turn[t].call.buyer] = ps]
  /\ turn' = [u \in Turns |->
       IF u = t THEN [turn[t] EXCEPT !.made = IF @ = Own(t) THEN ps ELSE @]
       ELSE IF /\ turn[u].pc \in {"ask", "asked"}
               /\ turn[u].call.buyer = turn[t].call.buyer
       THEN [turn[u] EXCEPT !.stale = TRUE]
       ELSE turn[u]]
  /\ context' = [context EXCEPT ![turn[t].call.session].told =
                                   @ \union (Rows(ps) \ Rows(Own(t)))]
  /\ writes' = writes + 1
  /\ UNCHANGED <<bucket, injected, faults>>

\* remember_preference_tool: the unique key makes a second insert a no-op.
Remember(t, p) ==
  Change(t, IF p \in Rows(Own(t)) THEN Own(t)
            ELSE Own(t) \union ((Rows(Own(t)) \union {p}) \X {p}))

\* forget_preference_tool: every row with exactly this statement.
Forget(t, statement) ==
  Change(t, Only(Own(t), {p \in Preferences : p.statement # statement}))

\* What is left of a turn that leaves nothing in the cache: an exception, whose
\* "[error] ..." is never remembered, or a reply that no lookup would look for.
Gone(t) == [Fresh EXCEPT !.pc = "over", !.call = turn[t].call]

End(t) ==
  /\ turn[t].pc = "asked"
  /\ turn' = [turn EXCEPT ![t] = Gone(t)]
  /\ UNCHANGED <<prefs, bucket, injected, context, writes, faults>>

-----------------------------------------------------------------------------
(* Remembering a reply.                                                    *)

\* A mutant: the reply is filed under no preferences at all.
MutAnswer(t) ==
  /\ turn[t].pc = "asked" /\ UsesCache(turn[t])
  /\ turn' = [turn EXCEPT ![t].pc = "load", ![t].reply = t, ![t].scope = Nothing]
  /\ UNCHANGED <<prefs, bucket, injected, context, writes, faults>>

\* The agent has replied, and the scope is computed again, from the
\* preferences of now.
Answer(t) ==
  /\ turn[t].pc = "asked" /\ UsesCache(turn[t])
  /\ WithScope(t, [turn[t] EXCEPT !.pc = "load", !.reply = t])
  /\ UNCHANGED <<prefs, bucket, injected, context, writes>>

\* A bucket that cannot be read counts as empty.
Load(t) ==
  /\ turn[t].pc = "load"
  /\ \/ /\ turn' = [turn EXCEPT ![t].pc = "save",
                      ![t].draft = Bucket(Key(t))]
        /\ UNCHANGED faults
     \/ /\ Fault
        /\ turn' = [turn EXCEPT ![t].pc = "save", ![t].blind = TRUE]
  /\ UNCHANGED <<prefs, bucket, injected, context, writes>>

\* What is left of a turn that remembered its reply.
Done(t) == [turn[t] EXCEPT !.pc = "over", !.scope = Nothing, !.draft = <<>>,
                           !.since = {}]

\* Mutants: one entry too few is kept, and the wrong side of the slice is.
MutNewestOffByOne(entries) ==
  SubSeq(entries, Max({1, Len(entries) - BucketLimit + 2}), Len(entries))

MutNewestOthers(entries) == SubSeq(entries, 1, Len(entries) - BucketLimit)

\* The last BucketLimit entries.
Newest(entries) ==
  SubSeq(entries, Max({1, Len(entries) - BucketLimit + 1}), Len(entries))

Save(t) ==
  LET entry == [question |-> turn[t].call.question, reply |-> t]
  IN  /\ turn[t].pc = "save"
      /\ bucket' = [key \in DOMAIN bucket \union {Key(t)} |->
                      IF key = Key(t) THEN Newest(Append(turn[t].draft, entry))
                                      ELSE bucket[key]]
      /\ turn' = [u \in Turns |->
           IF u = t THEN Done(t)
           ELSE IF turn[u].pc = "save" /\ Key(u) = Key(t)
           THEN [turn[u] EXCEPT !.since =
                   @ \union (ToSet(bucket'[Key(t)]) \ ToSet(Bucket(Key(t))))]
           ELSE turn[u]]
      /\ UNCHANGED <<prefs, injected, context, writes, faults>>

\* The embedding or the write fails: the reply is not remembered.
SaveFails(t) ==
  /\ turn[t].pc \in {"load", "save"}
  /\ Fault
  /\ turn' = [turn EXCEPT ![t] = Gone(t)]
  /\ UNCHANGED <<prefs, bucket, injected, context, writes>>

\* A bucket expires 24 hours after it was last written.
Expire ==
  \E key \in DOMAIN bucket :
    /\ Fault
    /\ bucket' = [k \in DOMAIN bucket \ {key} |-> bucket[k]]
    /\ UNCHANGED <<prefs, injected, context, turn, writes>>

-----------------------------------------------------------------------------
Next ==
  \/ \E t \in Turns :
       \/ \E call \in Calls : Begin(t, call)
       \/ Hit(t) \/ Miss(t)
       \/ Select(t) \/ Ask(t)
       \/ \E p \in Voiced : Remember(t, p)
       \/ \E statement \in Statements : Forget(t, statement)
       \/ Answer(t) \/ End(t)
       \/ Load(t) \/ Save(t) \/ SaveFails(t)
  \/ Expire

Spec == Init /\ [][Next]_vars

-----------------------------------------------------------------------------
(* Properties.                                                             *)

Entries == [question : Questions, reply : Turns]
Steps == {"idle", "lookup", "inputs", "ask", "asked", "load", "save", "over"}

TypeOK ==
  /\ prefs \in [Buyers -> Lists]
  /\ DOMAIN bucket \subseteq Buyers \X Lists
  /\ \A key \in DOMAIN bucket :
       bucket[key] \in Seq(Entries) /\ Len(bucket[key]) \in 1..BucketLimit
  /\ injected \in [Sessions -> Lists]
  /\ context \in [Sessions -> [begun : BOOLEAN, told : SUBSET Preferences]]
  /\ turn \in [Turns ->
       [pc : Steps, call : Calls \union {None}, hist : BOOLEAN,
        scope : Lists, lines : Lists,
        draft : Seq(Entries), reply : Turns \union {None},
        made : Lists, stale : BOOLEAN, blind : BOOLEAN,
        since : SUBSET Entries]]
  /\ writes \in 0..MaxWrites /\ faults \in 0..MaxFaults

\* A buyer who is answered from the cache gets a reply that was made for the
\* same buyer, as a first answer to a question similar enough, under the
\* preferences its lookup went by, unless another turn changed them while the
\* reply was made or that turn could not read them.
ReuseIsSound ==
  \A t \in Turns :
    LET u == turn[t].reply
    IN  u \notin {t, None} =>
          /\ turn[u].call.buyer = turn[t].call.buyer
          /\ ~turn[u].hist /\ ~turn[t].hist
          /\ turn[u].call.question \in Cacheable
          /\ Similarity[turn[t].call.question][turn[u].call.question] >= Threshold
          /\ turn[u].stale \/ turn[u].blind \/ turn[u].made = turn[t].scope

\* An agent that is asked knows everything its buyer dislikes, however many
\* likes compete for the hint and whatever hints were left out.
DislikesReachAgent ==
  \A t \in Turns :
    turn[t].pc = "asked" =>
      Dislikes(turn[t].made) \subseteq context[turn[t].call.session].told

\* A reply leaves its bucket only with the bucket, or because it is the oldest
\* of a full one, or in a race: a turn that had loaded the bucket before the
\* reply was put there, or put back, saves it, or one that could not read it.
LostOnlyInRaces ==
  [][\A key \in DOMAIN bucket \intersect DOMAIN bucket' :
       \A entry \in ToSet(bucket[key]) \ ToSet(bucket'[key]) :
         \E t \in Turns :
           /\ turn[t].pc = "save" /\ turn'[t].pc = "over"
           /\ \/ turn[t].blind
              \/ entry \in turn[t].since
              \/ Len(turn[t].draft) = BucketLimit /\ entry = turn[t].draft[1]]_vars
=============================================================================

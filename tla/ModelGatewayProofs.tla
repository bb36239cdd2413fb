------------------------- MODULE ModelGatewayProofs -------------------------
(***************************************************************************)
(* Proofs about ModelGateway, for any agents, any number of slots, any     *)
(* budget and any number of retries.                                       *)
(*                                                                         *)
(* The inductive invariant IInv says besides the types: nobody is twice in *)
(* a queue (LinesFit); who sleeps for the spacing holds its lock and will  *)
(* not wake too early (SpacingFits); an agent that asks for a reply has    *)
(* one left (CallsFit); the sub-agents of an agent that does not wait for  *)
(* them are idle or over (TeamsFit), so that a main agent and its team     *)
(* never ask at once.                                                      *)
(***************************************************************************)
EXTENDS ModelGateway, FiniteSetTheorems, SequenceTheorems, TLAPS

LinesFit == IsInjective(queue) /\ IsInjective(line)

SpacingFits ==
  \A a \in Agents : At(a, "sleeping") =>
    a = Head(line) /\ since + agent[a].left >= Interval

CallsFit ==
  \A a \in Agents :
    agent[a].pc \notin {"acting", "dispatched", "over"} => agent[a].calls < MaxCalls

TeamsFit ==
  \A a \in Agents : Parent[a] # None /\ ~At(Parent[a], "dispatched") =>
    agent[a].pc \in {"idle", "over"}

IInv ==
  /\ SlotsAccounted
  /\ LinesFit
  /\ SpacingFits
  /\ CallsFit
  /\ TeamsFit
  /\ MainSpendBounded

-----------------------------------------------------------------------------
(* Queues in which nobody stands twice.                                    *)

LEMMA Appended ==
  ASSUME NEW S, NEW s \in Seq(S), NEW e \in S, IsInjective(s), e \notin ToSet(s)
  PROVE  /\ Append(s, e) \in Seq(S) /\ IsInjective(Append(s, e))
         /\ ToSet(Append(s, e)) = ToSet(s) \union {e}
         /\ s # <<>> => Head(Append(s, e)) = Head(s)
<1> DEFINE r == Append(s, e)
<1>1. /\ r \in Seq(S) /\ Len(r) = Len(s) + 1 /\ Len(s) \in Nat
      /\ \A i \in 1..Len(s) : r[i] = s[i]
      /\ r[Len(s) + 1] = e
      /\ DOMAIN r = 1..Len(s) + 1 /\ DOMAIN s = 1..Len(s)
  BY AppendProperties, LenProperties
<1> HIDE DEF r
<1>2. IsInjective(r)
  <2> SUFFICES ASSUME NEW i \in 1..Len(s) + 1, NEW j \in 1..Len(s) + 1, r[i] = r[j]
               PROVE  i = j
    BY <1>1 DEF IsInjective
  <2>1. CASE i \in 1..Len(s) /\ j \in 1..Len(s)
    BY <1>1, <2>1 DEF IsInjective
  <2>2. CASE i = Len(s) + 1 \/ j = Len(s) + 1
    BY <1>1, <2>2 DEF ToSet
  <2> QED BY <1>1, <2>1, <2>2
<1>3. ToSet(r) = ToSet(s) \union {e}
  BY <1>1 DEF ToSet
<1>4. s # <<>> => Head(r) = Head(s)
  BY HeadTailAppend DEF r
<1> QED BY <1>1, <1>2, <1>3, <1>4 DEF r

LEMMA TailOf ==
  ASSUME NEW S, NEW s \in Seq(S), s # <<>>, IsInjective(s)
  PROVE  /\ Tail(s) \in Seq(S) /\ IsInjective(Tail(s))
         /\ ToSet(Tail(s)) = ToSet(s) \ {Head(s)}
         /\ Head(s) \in ToSet(s)
<1> DEFINE r == Tail(s)
<1>1. /\ r \in Seq(S) /\ Len(r) = Len(s) - 1 /\ Len(s) \in Nat \ {0}
      /\ \A i \in 1..Len(s) - 1 : r[i] = s[i + 1]
      /\ DOMAIN r = 1..Len(s) - 1 /\ DOMAIN s = 1..Len(s)
      /\ Head(s) = s[1]
  BY HeadTailProperties, LenProperties, EmptySeq
<1> HIDE DEF r
<1>2. IsInjective(r)
  BY <1>1 DEF IsInjective
<1>3. ToSet(r) = ToSet(s) \ {s[1]}
  <2>1. ASSUME NEW x \in ToSet(r) PROVE x \in ToSet(s) /\ x # s[1]
    BY <1>1, <2>1 DEF ToSet, IsInjective
  <2>2. ASSUME NEW x \in ToSet(s), x # s[1] PROVE x \in ToSet(r)
    <3>1. PICK i \in 1..Len(s) : x = s[i]
      BY <1>1 DEF ToSet
    <3>2. i - 1 \in 1..Len(s) - 1 /\ r[i - 1] = s[i]
      BY <1>1, <2>2, <3>1
    <3> QED BY <1>1, <3>1, <3>2 DEF ToSet
  <2> QED BY <2>1, <2>2
<1>4. Head(s) \in ToSet(s)
  BY <1>1 DEF ToSet
<1> QED BY <1>1, <1>2, <1>3, <1>4 DEF r

\* Who is taken out of a queue leaves the others in their order.
LEMMA Removed ==
  ASSUME NEW S, NEW s \in Seq(S), NEW e, IsInjective(s)
  PROVE  /\ RemoveFirst(s, e) \in Seq(S) /\ IsInjective(RemoveFirst(s, e))
         /\ ToSet(RemoveFirst(s, e)) = ToSet(s) \ {e}
         /\ s # <<>> /\ Head(s) # e => Head(RemoveFirst(s, e)) = Head(s)
<1>0. Len(s) \in Nat /\ DOMAIN s = 1..Len(s) /\ \A i \in 1..Len(s) : s[i] \in S
  BY LenProperties, ElementOfSeq
<1>1. CASE \A i \in 1..Len(s) : s[i] # e
  <2>1. RemoveFirst(s, e) = s
    BY <1>1 DEF RemoveFirst
  <2>2. e \notin ToSet(s)
    BY <1>0, <1>1 DEF ToSet
  <2> QED BY <2>1, <2>2
<1>2. CASE \E i \in 1..Len(s) : s[i] = e
  <2>1. PICK k \in 1..Len(s) : s[k] = e
    BY <1>2
  <2>2. \A i \in 1..Len(s) : s[i] = e <=> i = k
    BY <1>0, <2>1 DEF IsInjective
  <2> DEFINE r == SubSeq(s, 1, k - 1) \o SubSeq(s, k + 1, Len(s))
  <2>3. RemoveFirst(s, e) = r
    <3>1. {i \in 1..Len(s) : s[i] = e} = {k}
      BY <2>2
    <3>2. Min({k}) = k
      BY <1>0 DEF Min
    <3>3. SelectInSeq(s, LAMBDA v : v = e) = k
      BY <3>1, <3>2 DEF SelectInSeq
    <3> QED BY <1>2, <3>3 DEF RemoveFirst, RemoveAt
  <2>4. /\ SubSeq(s, 1, k - 1) \in Seq(S) /\ Len(SubSeq(s, 1, k - 1)) = k - 1
        /\ \A i \in 1..k - 1 : SubSeq(s, 1, k - 1)[i] = s[i]
    <3>1. \A i \in 1..k - 1 : s[i] \in S
      BY <1>0
    <3>2. k - 1 \in Int /\ 1 \in Int
      BY <1>0
    <3> HIDE DEF r
    <3>3. /\ SubSeq(s, 1, k - 1) \in Seq(S)
          /\ Len(SubSeq(s, 1, k - 1)) = IF 1 <= k - 1 THEN (k - 1) - 1 + 1 ELSE 0
          /\ \A i \in 1..(k - 1) - 1 + 1 : SubSeq(s, 1, k - 1)[i] = s[1 + i - 1]
      BY <3>1, <3>2, SubSeqProperties
    <3> QED BY <1>0, <3>3
  <2>5. /\ SubSeq(s, k + 1, Len(s)) \in Seq(S)
        /\ Len(SubSeq(s, k + 1, Len(s))) = Len(s) - k
        /\ \A i \in 1..Len(s) - k : SubSeq(s, k + 1, Len(s))[i] = s[k + i]
    <3>1. \A i \in k + 1..Len(s) : s[i] \in S
      BY <1>0
    <3>2. k + 1 \in Int /\ Len(s) \in Int
      BY <1>0
    <3> HIDE DEF r
    <3>3. /\ SubSeq(s, k + 1, Len(s)) \in Seq(S)
          /\ Len(SubSeq(s, k + 1, Len(s))) =
               IF k + 1 <= Len(s) THEN Len(s) - (k + 1) + 1 ELSE 0
          /\ \A i \in 1..Len(s) - (k + 1) + 1 :
               SubSeq(s, k + 1, Len(s))[i] = s[(k + 1) + i - 1]
      BY <3>1, <3>2, SubSeqProperties
    <3>4. Len(SubSeq(s, k + 1, Len(s))) = Len(s) - k
      <4>1. CASE k + 1 <= Len(s)
        BY <1>0, <3>3, <4>1
      <4>2. CASE ~(k + 1 <= Len(s))
        <5>1. k = Len(s)
          <6>1. ASSUME NEW n \in Nat, NEW j \in 1..n, ~(j + 1 <= n) PROVE j = n
            BY <6>1
          <6> QED BY ONLY <1>0, <4>2, <6>1
        <5> QED BY <1>0, <3>3, <4>2, <5>1
      <4> QED BY <4>1, <4>2
    <3>5. ASSUME NEW i \in 1..Len(s) - k
          PROVE  SubSeq(s, k + 1, Len(s))[i] = s[k + i]
      <4>1. i \in 1..Len(s) - (k + 1) + 1 /\ (k + 1) + i - 1 = k + i
        BY <1>0
      <4> QED BY <3>3, <4>1
    <3> QED BY <3>3, <3>4, <3>5
  <2>6. /\ r \in Seq(S) /\ Len(r) = Len(s) - 1 /\ DOMAIN r = 1..Len(s) - 1
        /\ \A i \in 1..Len(s) - 1 : r[i] = IF i < k THEN s[i] ELSE s[i + 1]
    <3> DEFINE front == SubSeq(s, 1, k - 1)
               rest == SubSeq(s, k + 1, Len(s))
    <3> HIDE DEF front, rest
    <3>0. /\ front \in Seq(S) /\ Len(front) = k - 1
          /\ rest \in Seq(S) /\ Len(rest) = Len(s) - k
      BY <2>4, <2>5 DEF front, rest
    <3>1. /\ front \o rest \in Seq(S) /\ Len(front \o rest) = Len(s) - 1
          /\ \A i \in 1..Len(s) - 1 :
               (front \o rest)[i] = IF i <= k - 1 THEN front[i] ELSE rest[i - (k - 1)]
      <4>1. /\ front \o rest \in Seq(S)
            /\ Len(front \o rest) = Len(front) + Len(rest)
            /\ \A i \in 1..Len(front) + Len(rest) :
                 (front \o rest)[i] =
                   IF i <= Len(front) THEN front[i] ELSE rest[i - Len(front)]
        BY <3>0, ConcatProperties
      <4>2. Len(front) + Len(rest) = Len(s) - 1
        BY <1>0, <3>0
      <4> QED BY <3>0, <4>1, <4>2
    <3>2. DOMAIN (front \o rest) = 1..Len(s) - 1
      BY <3>1, LenProperties
    <3>3. \A i \in 1..k - 1 : front[i] = s[i]
      BY <2>4 DEF front
    <3>4. \A i \in 1..Len(s) - k : rest[i] = s[k + i]
      BY <2>5 DEF rest
    <3>5. ASSUME NEW i \in 1..Len(s) - 1
          PROVE  (front \o rest)[i] = IF i < k THEN s[i] ELSE s[i + 1]
      <4>1. CASE i < k
        BY <1>0, <3>1, <3>3, <4>1
      <4>2. CASE ~(i < k)
        <5>1. i - (k - 1) \in 1..Len(s) - k /\ k + (i - (k - 1)) = i + 1
          BY <1>0, <4>2
        <5>2. rest[i - (k - 1)] = s[i + 1]
          BY <3>4, <5>1
        <5> QED BY <1>0, <3>1, <4>2, <5>2
      <4> QED BY <1>0, <4>1, <4>2
    <3> QED BY <3>1, <3>2, <3>5 DEF front, rest
  <2> HIDE DEF r
  <2>7. IsInjective(r)
    BY <1>0, <2>6 DEF IsInjective
  <2>8. ToSet(r) = ToSet(s) \ {e}
    <3>1. ASSUME NEW x \in ToSet(r) PROVE x \in ToSet(s) /\ x # e
      BY <1>0, <2>2, <2>6, <3>1 DEF ToSet
    <3>2. ASSUME NEW x \in ToSet(s), x # e PROVE x \in ToSet(r)
      <4>1. PICK i \in 1..Len(s) : x = s[i]
        BY <1>0 DEF ToSet
      <4>2. CASE i < k
        BY <1>0, <2>6, <4>1, <4>2 DEF ToSet
      <4>3. CASE i > k
        <5>1. i - 1 \in 1..Len(s) - 1 /\ r[i - 1] = s[i]
          BY <1>0, <2>6, <4>1, <4>3
        <5> QED BY <2>6, <4>1, <5>1 DEF ToSet
      <4> QED BY <1>0, <2>2, <3>2, <4>1, <4>2, <4>3
    <3> QED BY <3>1, <3>2
  <2>9. s # <<>> /\ Head(s) # e => Head(r) = Head(s)
    <3> SUFFICES ASSUME s # <<>>, Head(s) # e PROVE Head(r) = Head(s)
      OBVIOUS
    <3>1. Head(s) = s[1] /\ k # 1
      BY <2>1
    <3>2. r[1] = s[1]
      BY <1>0, <2>6, <3>1
    <3> QED BY <3>1, <3>2
  <2> QED BY <2>3, <2>6, <2>7, <2>8, <2>9
<1> QED BY <1>1, <1>2

-----------------------------------------------------------------------------
(* The step of one agent.                                                  *)

Coroutines ==
  [pc : Steps, attempt : 0..MaxRetries + 1, left : Nat, model : {"main", "fallback"},
   calls : 0..MaxCalls, tries : 0..MaxTurnRetries]

\* Only agent a takes a step.
Moves(a) ==
  /\ agent' \in [Agents -> Coroutines]
  /\ \A b \in Agents : b # a => agent'[b] = agent[b]

InHolding == {a \in Agents : agent[a].pc \in Holding}

Spacing == {"spacing", "sleeping"}

LEMMA AgentType ==
  ASSUME IInv
  PROVE  agent \in [Agents -> Coroutines]
BY DEF IInv, SlotsAccounted, TypeOK, Coroutines

LEMMA HoldingFinite ==
  ASSUME IInv
  PROVE  /\ IsFiniteSet(InHolding) /\ Cardinality(InHolding) \in Nat
         /\ free \in Nat /\ lost \in Nat /\ MaxConcurrency \in Nat
         /\ free + lost + Cardinality(InHolding) = MaxConcurrency
<1>1. IsFiniteSet(InHolding)
  BY GatewayAssumption, FS_Subset DEF InHolding
<1> QED
  BY <1>1, FS_CardinalityType, GatewayAssumption
     DEF IInv, SlotsAccounted, TypeOK, InHolding

\* Whoever takes a slot or gives one back moves into the holders or out of them.
LEMMA SlotsMove ==
  ASSUME IInv, NEW a \in Agents, Moves(a), free' \in Int, lost' \in Nat,
         free' + lost' + (IF agent'[a].pc \in Holding THEN 1 ELSE 0) =
           free + lost + (IF agent[a].pc \in Holding THEN 1 ELSE 0)
  PROVE  free' + lost' + Cardinality(InHolding') = MaxConcurrency
<1>1. CASE agent'[a].pc \in Holding <=> agent[a].pc \in Holding
  <2>1. InHolding' = InHolding
    BY <1>1 DEF Moves, InHolding
  <2> QED BY <1>1, <2>1, HoldingFinite
<1>2. CASE agent'[a].pc \in Holding /\ agent[a].pc \notin Holding
  <2>1. InHolding' = InHolding \union {a} /\ a \notin InHolding
    BY <1>2 DEF Moves, InHolding
  <2>2. Cardinality(InHolding') = Cardinality(InHolding) + 1
    BY <2>1, HoldingFinite, FS_AddElement
  <2> QED BY <1>2, <2>2, HoldingFinite
<1>3. CASE agent'[a].pc \notin Holding /\ agent[a].pc \in Holding
  <2>1. InHolding' = InHolding \ {a} /\ a \in InHolding
    BY <1>3 DEF Moves, InHolding
  <2>2. Cardinality(InHolding') = Cardinality(InHolding) - 1
    BY <2>1, HoldingFinite, FS_RemoveElement
  <2> QED BY <1>3, <2>2, HoldingFinite
<1> QED BY <1>1, <1>2, <1>3

\* Types and slots after the step of a.
LEMMA SlotsStep ==
  ASSUME IInv, NEW a \in Agents, Moves(a), free' \in Nat, lost' \in Nat,
         free' + lost' + (IF agent'[a].pc \in Holding THEN 1 ELSE 0) =
           free + lost + (IF agent[a].pc \in Holding THEN 1 ELSE 0),
         since' \in 0..Interval, faults' \in 0..MaxFaults,
         used' \in [Mains -> [main : Nat, fallback : Nat]],
         queue' \in Seq(Agents), line' \in Seq(Agents),
         ToSet(queue') =
           IF agent'[a].pc = "waiting" THEN ToSet(queue) \union {a} ELSE ToSet(queue) \ {a},
         ToSet(line') =
           IF agent'[a].pc \in Spacing THEN ToSet(line) \union {a} ELSE ToSet(line) \ {a}
  PROVE  SlotsAccounted'
<1>1. free' + lost' + Cardinality(InHolding') = MaxConcurrency
  BY SlotsMove
<1>2. Cardinality(InHolding') \in Nat
  <2>1. IsFiniteSet(InHolding')
    BY GatewayAssumption, FS_Subset DEF InHolding
  <2> QED BY <2>1, FS_CardinalityType
<1>3. free' \in 0..MaxConcurrency
  BY <1>1, <1>2, GatewayAssumption
<1>4. ToSet(queue') = {b \in Agents : At(b, "waiting")'}
  BY DEF IInv, SlotsAccounted, TypeOK, Moves, At
<1>5. ToSet(line') = {b \in Agents : agent'[b].pc \in {"spacing", "sleeping"}}
  BY DEF IInv, SlotsAccounted, TypeOK, Moves, Spacing
<1> QED BY <1>1, <1>3, <1>4, <1>5
        DEF SlotsAccounted, TypeOK, Moves, Coroutines, InHolding

\* An agent that is neither at rest nor waiting for its team goes on.
LEMMA TeamsStep ==
  ASSUME IInv, NEW a \in Agents, Moves(a),
         agent[a].pc \notin {"idle", "over"},
         a \in Mains => agent[a].pc # "dispatched",
         agent'[a].pc \notin {"idle", "dispatched"},
         agent'[a].pc \notin {"acting", "over"} => agent'[a].calls < MaxCalls
  PROVE  CallsFit' /\ TeamsFit'
<1>1. CallsFit'
  BY DEF IInv, CallsFit, Moves
<1>2. ASSUME NEW b \in Agents, Parent[b] # None, agent'[Parent[b]].pc # "dispatched"
      PROVE  agent'[b].pc \in {"idle", "over"}
  <2>1. Parent[b] \in Agents /\ Parent[Parent[b]] = None
    BY <1>2, GatewayAssumption
  <2>2. agent[Parent[b]].pc # "dispatched"
    BY <1>2, <2>1 DEF Moves, Mains
  <2>3. agent[b].pc \in {"idle", "over"}
    BY <1>2, <2>2 DEF IInv, TeamsFit, At
  <2> QED BY <2>3 DEF Moves
<1> QED BY <1>1, <1>2 DEF TeamsFit, At

-----------------------------------------------------------------------------
(* The budget.                                                             *)

\* The calls of the main model an intent has under way, and how many can be.
AskingOf(r, ag) ==
  {a \in Agents : /\ Root(a) = r /\ ag[a].model = "main"
                 /\ ag[a].pc \in {"upstream", "streaming"}}

AtOnce(r) == Max({1, Cardinality(Subs(r))})

LEMMA MaxOf ==
  ASSUME NEW m \in Int, NEW n \in Int
  PROVE  Max({m, n}) = IF m >= n THEN m ELSE n
<1> DEFINE x == IF m >= n THEN m ELSE n
<1>1. x \in {m, n} /\ \A y \in {m, n} : x >= y
  OBVIOUS
<1>2. \A z \in {m, n} : (\A y \in {m, n} : z >= y) => z = x
  OBVIOUS
<1> HIDE DEF x
<1>3. (CHOOSE z \in {m, n} : \A y \in {m, n} : z >= y) = x
  BY <1>1, <1>2
<1> QED BY <1>3 DEF Max, x

LEMMA AtOnceType ==
  ASSUME NEW r \in Mains
  PROVE  /\ IsFiniteSet(Subs(r)) /\ Cardinality(Subs(r)) \in Nat
         /\ AtOnce(r) \in Nat /\ AtOnce(r) >= 1 /\ AtOnce(r) >= Cardinality(Subs(r))
<1>1. IsFiniteSet(Subs(r))
  BY GatewayAssumption, FS_Subset DEF Subs
<1>2. Cardinality(Subs(r)) \in Nat
  BY <1>1, FS_CardinalityType
<1>3. AtOnce(r) = IF 1 >= Cardinality(Subs(r)) THEN 1 ELSE Cardinality(Subs(r))
  BY <1>2, MaxOf DEF AtOnce
<1> QED BY <1>1, <1>2, <1>3

\* A main agent and its team never ask at once.
LEMMA AskingBounded ==
  ASSUME NEW ag, NEW r \in Mains,
         \A s \in Subs(r) : ag[r].pc # "dispatched" => ag[s].pc \in {"idle", "over"}
  PROVE  /\ IsFiniteSet(AskingOf(r, ag)) /\ Cardinality(AskingOf(r, ag)) \in Nat
         /\ Cardinality(AskingOf(r, ag)) <= AtOnce(r)
<1> DEFINE asking == AskingOf(r, ag)
<1>1. IsFiniteSet(asking)
  BY GatewayAssumption, FS_Subset DEF AskingOf
<1>2. Cardinality(asking) \in Nat
  BY <1>1, FS_CardinalityType
<1>3. \A a \in asking : a = r \/ a \in Subs(r)
  BY DEF AskingOf, Root, Subs
<1>4. CASE r \in asking
  <2>1. \A s \in Subs(r) : s \notin asking
    BY <1>4 DEF AskingOf
  <2>2. asking = {r}
    BY <1>3, <1>4, <2>1
  <2> QED BY <1>1, <1>2, <2>2, FS_Singleton, AtOnceType
<1>5. CASE r \notin asking
  <2>1. asking \subseteq Subs(r)
    BY <1>3, <1>5
  <2>2. Cardinality(asking) <= Cardinality(Subs(r))
    BY <2>1, AtOnceType, FS_Subset
  <2> QED BY <1>1, <1>2, <2>2, AtOnceType
<1> QED BY <1>4, <1>5

LEMMA TeamsOf ==
  ASSUME TeamsFit, NEW r \in Mains
  PROVE  \A s \in Subs(r) : agent[r].pc # "dispatched" => agent[s].pc \in {"idle", "over"}
BY GatewayAssumption DEF TeamsFit, Subs, Mains, At

LEMMA TeamsOfNext ==
  ASSUME TeamsFit', NEW r \in Mains
  PROVE  \A s \in Subs(r) : agent'[r].pc # "dispatched" => agent'[s].pc \in {"idle", "over"}
BY GatewayAssumption DEF TeamsFit, Subs, Mains, At

\* No call more and nothing spent, or a call more while at most half is spent.
LEMMA SpendStep ==
  ASSUME IInv, TypeOK', TeamsFit',
         HasFallback /\ Total > 0 => \A r \in Mains :
           \/ used'[r].main = used[r].main /\ AskingOf(r, agent') \subseteq AskingOf(r, agent)
           \/ 2 * used'[r].main < Total
           \/ /\ used'[r].main = used[r].main + 1
              /\ \E a \in AskingOf(r, agent) :
                   AskingOf(r, agent') \subseteq AskingOf(r, agent) \ {a}
  PROVE  MainSpendBounded'
<1> SUFFICES ASSUME HasFallback, Total > 0, NEW r \in Mains
             PROVE  2 * (used'[r].main + Cardinality(AskingOf(r, agent'))) < Total + 2 * AtOnce(r)
  BY DEF MainSpendBounded, AskingOf, AtOnce
<1>1. 2 * (used[r].main + Cardinality(AskingOf(r, agent))) < Total + 2 * AtOnce(r)
  BY DEF IInv, MainSpendBounded, AskingOf, AtOnce
<1>2. /\ used[r].main \in Nat /\ used'[r].main \in Nat /\ Total \in Nat
      /\ AtOnce(r) \in Nat
  BY AtOnceType, GatewayAssumption DEF IInv, SlotsAccounted, TypeOK
<1>3. /\ IsFiniteSet(AskingOf(r, agent)) /\ Cardinality(AskingOf(r, agent)) \in Nat
  BY TeamsOf, AskingBounded DEF IInv
<1>4. /\ IsFiniteSet(AskingOf(r, agent')) /\ Cardinality(AskingOf(r, agent')) \in Nat
      /\ Cardinality(AskingOf(r, agent')) <= AtOnce(r)
  BY TeamsOfNext, AskingBounded
<1>5. CASE used'[r].main = used[r].main /\ AskingOf(r, agent') \subseteq AskingOf(r, agent)
  <2>1. Cardinality(AskingOf(r, agent')) <= Cardinality(AskingOf(r, agent))
    BY <1>3, <1>5, FS_Subset
  <2> QED BY <1>1, <1>2, <1>3, <1>4, <1>5, <2>1
<1>6. CASE 2 * used'[r].main < Total
  BY <1>2, <1>4, <1>6
<1>7. ASSUME used'[r].main = used[r].main + 1, NEW a \in AskingOf(r, agent),
             AskingOf(r, agent') \subseteq AskingOf(r, agent) \ {a}
      PROVE  2 * (used'[r].main + Cardinality(AskingOf(r, agent'))) < Total + 2 * AtOnce(r)
  <2>1. /\ IsFiniteSet(AskingOf(r, agent) \ {a})
        /\ Cardinality(AskingOf(r, agent) \ {a}) = Cardinality(AskingOf(r, agent)) - 1
    BY <1>3, FS_RemoveElement
  <2>2. Cardinality(AskingOf(r, agent')) <= Cardinality(AskingOf(r, agent)) - 1
    BY <1>7, <2>1, FS_Subset
  <2> QED BY <1>1, <1>2, <1>3, <1>4, <1>7, <2>2
<1> QED BY <1>5, <1>6, <1>7

Asks(a) == agent[a].model = "main" /\ agent[a].pc \in {"upstream", "streaming"}

\* Agent a begins to ask the main model only if at most half is spent.
LEMMA SpendKept ==
  ASSUME IInv, TypeOK', TeamsFit', NEW a \in Agents, Moves(a), used' = used,
         HasFallback /\ Total > 0 /\ Asks(a)' => Asks(a) \/ 2 * used[Root(a)].main < Total
  PROVE  MainSpendBounded'
<1> SUFFICES ASSUME HasFallback, Total > 0, NEW r \in Mains
             PROVE  \/ AskingOf(r, agent') \subseteq AskingOf(r, agent)
                    \/ 2 * used[r].main < Total
  BY SpendStep
<1>1. CASE ~Asks(a)' \/ Asks(a) \/ Root(a) # r
  BY <1>1 DEF AskingOf, Asks, Moves
<1>2. CASE Asks(a)' /\ ~Asks(a) /\ Root(a) = r
  BY <1>2
<1> QED BY <1>1, <1>2

LEMMA RootType ==
  ASSUME NEW a \in Agents
  PROVE  Root(a) \in Mains
BY GatewayAssumption DEF Root, Mains

\* A reply is charged to the model that was asked.
LEMMA SpendCharged ==
  ASSUME IInv, TypeOK', TeamsFit', NEW a \in Agents, Moves(a), Charge(a),
         agent[a].pc \in {"upstream", "streaming"},
         agent'[a].pc \notin {"upstream", "streaming"}
  PROVE  MainSpendBounded'
<1> SUFFICES ASSUME HasFallback, Total > 0, NEW r \in Mains
             PROVE  \/ used'[r].main = used[r].main
                       /\ AskingOf(r, agent') \subseteq AskingOf(r, agent)
                    \/ /\ used'[r].main = used[r].main + 1
                       /\ AskingOf(r, agent') \subseteq AskingOf(r, agent) \ {a}
                       /\ a \in AskingOf(r, agent)
  BY SpendStep
<1>1. AskingOf(r, agent') \subseteq AskingOf(r, agent) \ {a}
  BY DEF AskingOf, Moves
<1>2. agent[a].model \in {"main", "fallback"} /\ used \in [Mains -> [main : Nat, fallback : Nat]]
  BY DEF IInv, SlotsAccounted, TypeOK
<1>3. CASE r = Root(a) /\ agent[a].model = "main"
  <2>1. used'[r].main = used[r].main + 1
    BY <1>2, <1>3, GatewayAssumption DEF Charge
  <2>2. a \in AskingOf(r, agent)
    BY <1>3 DEF AskingOf
  <2> QED BY <1>1, <2>1, <2>2
<1>4. CASE r # Root(a) \/ agent[a].model = "fallback"
  <2>1. used'[r].main = used[r].main
    BY <1>2, <1>4, GatewayAssumption DEF Charge
  <2> QED BY <1>1, <2>1
<1> QED BY <1>2, <1>3, <1>4

LEMMA ChargeType ==
  ASSUME IInv, NEW a \in Agents, Charge(a)
  PROVE  used' \in [Mains -> [main : Nat, fallback : Nat]]
<1>1. agent[a].model \in {"main", "fallback"} /\ used \in [Mains -> [main : Nat, fallback : Nat]]
  BY DEF IInv, SlotsAccounted, TypeOK
<1>2. CASE agent[a].model = "main"
  BY <1>1, <1>2, RootType DEF Charge
<1>3. CASE agent[a].model = "fallback"
  BY <1>1, <1>3, RootType DEF Charge
<1> QED BY <1>1, <1>2, <1>3

\* A step of an agent that stands in no queue before it and after it.
LEMMA PlainStep ==
  ASSUME IInv, NEW a \in Agents, Moves(a), UNCHANGED <<queue, line, since>>,
         agent[a].pc \notin {"idle", "over", "dispatched", "waiting"} \union Spacing,
         agent'[a].pc \notin {"idle", "dispatched", "waiting"} \union Spacing,
         agent'[a].pc \notin {"acting", "over"} => agent'[a].calls < MaxCalls,
         free' \in Nat, lost' \in Nat,
         free' + lost' + (IF agent'[a].pc \in Holding THEN 1 ELSE 0) =
           free + lost + (IF agent[a].pc \in Holding THEN 1 ELSE 0),
         faults' \in 0..MaxFaults,
         used' \in [Mains -> [main : Nat, fallback : Nat]]
  PROVE  SlotsAccounted' /\ LinesFit' /\ SpacingFits' /\ CallsFit' /\ TeamsFit'
<1>1. /\ queue \in Seq(Agents) /\ line \in Seq(Agents) /\ since \in 0..Interval
      /\ a \notin ToSet(queue) /\ a \notin ToSet(line)
  BY DEF IInv, SlotsAccounted, TypeOK, At, Spacing
<1>2. SlotsAccounted'
  BY <1>1, SlotsStep
<1>3. CallsFit' /\ TeamsFit'
  BY TeamsStep
<1>4. LinesFit'
  BY DEF IInv, LinesFit
<1>5. SpacingFits'
  BY DEF IInv, SpacingFits, At, Moves, Spacing
<1> QED BY <1>2, <1>3, <1>4, <1>5

-----------------------------------------------------------------------------
(* The actions.                                                            *)

\* A pause of the retries.
LEMMA PauseType ==
  ASSUME NEW n \in Nat, n < MaxRetries \/ n < MaxTurnRetries
  PROVE  RetryBase * 3 ^ n \in Nat
<1>1. n \in 0..(MaxRetries + MaxTurnRetries)
  BY GatewayAssumption
<1> QED BY <1>1, GatewayAssumption

\* An error ends a sub-agent, or makes a main agent rest before its next try.
LEMMA FailedType ==
  ASSUME IInv, NEW a \in Agents, NEW transient \in BOOLEAN
  PROVE  /\ Failed(a, transient) \in Coroutines
         /\ Failed(a, transient).pc \in {"resting", "over"}
         /\ Failed(a, transient).calls = agent[a].calls
<1>1. agent[a] \in Coroutines
  BY AgentType
<1>2. CASE a \in Mains /\ transient /\ agent[a].tries < MaxTurnRetries
  <2>1. agent[a].tries + 1 \in 0..MaxTurnRetries
    BY <1>1, <1>2, GatewayAssumption DEF Coroutines
  <2>2. RetryBase * 3 ^ agent[a].tries \in Nat
    BY <1>1, <1>2, PauseType DEF Coroutines
  <2>3. Failed(a, transient) =
          [agent[a] EXCEPT !.pc = "resting", !.tries = agent[a].tries + 1,
                           !.left = RetryBase * 3 ^ agent[a].tries]
    BY <1>2 DEF Failed
  <2> QED BY <1>1, <2>1, <2>2, <2>3 DEF Coroutines, Steps
<1>3. CASE ~(a \in Mains /\ transient /\ agent[a].tries < MaxTurnRetries)
  <2>1. Failed(a, transient) = [agent[a] EXCEPT !.pc = "over"]
    BY <1>3 DEF Failed
  <2> QED BY <1>1, <2>1 DEF Coroutines, Steps
<1> QED BY <1>2, <1>3

\* The step of an agent writes its own record.
LEMMA MovesTo ==
  ASSUME IInv, NEW a \in Agents, NEW new \in Coroutines,
         agent' = [agent EXCEPT ![a] = new]
  PROVE  Moves(a) /\ agent'[a] = new
BY AgentType DEF Moves

\* A call that has its answer: as a whole, or as a stream read to its end.
LEMMA AnsweredStep ==
  ASSUME IInv, NEW a \in Agents, Respond(a) \/ Read(a)
  PROVE  IInv'
<1>1. agent[a] \in Coroutines /\ agent[a].pc \in {"upstream", "streaming"}
  BY AgentType DEF Respond, Read, At
<1>2. agent[a].calls < MaxCalls
  BY <1>1 DEF IInv, CallsFit
<1>3. agent[a].calls + 1 \in 0..MaxCalls
  BY <1>1, <1>2, GatewayAssumption DEF Coroutines
<1>4. Replied(a) \in Coroutines /\ Replied(a).pc = "acting"
  BY <1>1, <1>3 DEF Replied, Coroutines, Steps
<1>5. Moves(a) /\ agent'[a].pc = "acting"
  BY <1>4, MovesTo DEF Respond, Read
<1>6. /\ UNCHANGED <<queue, line, since, faults, lost>> /\ free' = free + 1 /\ Charge(a)
  BY DEF Respond, Read
<1>7. faults \in 0..MaxFaults /\ free \in Nat /\ lost \in Nat
  BY DEF IInv, SlotsAccounted, TypeOK
<1>8. SlotsAccounted' /\ LinesFit' /\ SpacingFits' /\ CallsFit' /\ TeamsFit'
  <2>1. used' \in [Mains -> [main : Nat, fallback : Nat]]
    BY <1>6, ChargeType
  <2> QED BY <1>1, <1>5, <1>6, <1>7, <2>1, PlainStep DEF Holding, Spacing
<1>9. MainSpendBounded'
  BY <1>1, <1>5, <1>6, <1>8, SpendCharged DEF SlotsAccounted
<1> QED BY <1>8, <1>9 DEF IInv

\* A call that ends with an error, or a stream that breaks off or is dropped.
LEMMA ErrorStep ==
  ASSUME IInv, NEW a \in Agents,
         BreakOff(a) \/ Drop(a) \/ \E transient \in BOOLEAN : Fail(a, transient)
  PROVE  IInv'
<1>1. agent[a] \in Coroutines /\ agent[a].pc \in {"upstream", "streaming"}
  BY AgentType DEF BreakOff, Drop, Fail, At
<1>2. PICK transient \in BOOLEAN : agent' = [agent EXCEPT ![a] = Failed(a, transient)]
  BY DEF BreakOff, Drop, Fail
<1>3. /\ Moves(a) /\ agent'[a].pc \in {"resting", "over"}
      /\ agent'[a].calls = agent[a].calls
  BY <1>2, FailedType, MovesTo
<1>4. agent[a].calls < MaxCalls
  BY <1>1 DEF IInv, CallsFit
<1>5. faults \in 0..MaxFaults /\ free \in Nat /\ lost \in Nat /\ MaxFaults \in Nat
      /\ used \in [Mains -> [main : Nat, fallback : Nat]]
  BY GatewayAssumption DEF IInv, SlotsAccounted, TypeOK
<1>6. /\ UNCHANGED <<queue, line, since, used>>
      /\ \/ free' = free + 1 /\ UNCHANGED <<lost, faults>>
         \/ lost' = lost + 1 /\ free' = free /\ faults < MaxFaults /\ faults' = faults + 1
  BY DEF BreakOff, Drop, Fail
<1>7. SlotsAccounted' /\ LinesFit' /\ SpacingFits' /\ CallsFit' /\ TeamsFit'
  <2>1. free' \in Nat /\ lost' \in Nat /\ faults' \in 0..MaxFaults
        /\ free' + lost' = free + lost + 1
    BY <1>5, <1>6
  <2> QED BY <1>1, <1>3, <1>4, <1>5, <1>6, <2>1, PlainStep DEF Holding, Spacing
<1>8. MainSpendBounded'
  BY <1>3, <1>6, <1>7, SpendKept DEF SlotsAccounted, Asks
<1> QED BY <1>7, <1>8 DEF IInv

\* An agent that is asked to call the main model found its intent rich.
LEMMA TargetFits ==
  ASSUME IInv, NEW a \in Agents
  PROVE  /\ Target(a) \in {"main", "fallback"}
         /\ HasFallback /\ Total > 0 /\ Target(a) = "main" => 2 * used[Root(a)].main < Total
<1>1. Target(a) \in {"main", "fallback"}
  BY DEF Target
<1>2. ASSUME HasFallback, Total > 0, Target(a) = "main"
      PROVE  2 * used[Root(a)].main < Total
  <2>1. 2 * (Total - Used(Root(a))) > Total
    BY <1>2, GatewayAssumption DEF Target, Rich
  <2>2. used[Root(a)].main \in Nat /\ used[Root(a)].fallback \in Nat /\ Total \in Nat
    BY RootType, GatewayAssumption DEF IInv, SlotsAccounted, TypeOK
  <2> QED BY <2>1, <2>2 DEF Used
<1> QED BY <1>1, <1>2

\* Steps in the slot or without one, that give none back.
LEMMA QuietStep ==
  ASSUME IInv, NEW a \in Agents,
         Stream(a) \/ BackOff(a) \/ Retry(a) \/ FallBack(a) \/ Continue(a) \/ TryAgain(a)
  PROVE  IInv'
<1>1. agent[a] \in Coroutines
  BY AgentType
<1>2. /\ UNCHANGED <<free, queue, line, since, used, faults, lost>>
      /\ free \in Nat /\ lost \in Nat /\ faults \in 0..MaxFaults
      /\ used \in [Mains -> [main : Nat, fallback : Nat]]
  BY DEF Stream, BackOff, Retry, FallBack, Continue, TryAgain, IInv, SlotsAccounted, TypeOK
<1>3. /\ Moves(a)
      /\ \/ /\ agent[a].pc \in {"upstream", "backoff"}
            /\ agent'[a].pc \in {"upstream", "backoff", "streaming"}
         \/ /\ agent[a].pc \in {"acting", "resting"}
            /\ agent'[a].pc \in {"ready", "over"}
      /\ agent'[a].pc # "over" => agent'[a].calls < MaxCalls
      /\ HasFallback /\ Total > 0 /\ Asks(a)' => Asks(a) \/ 2 * used[Root(a)].main < Total
  <2> USE <1>1 DEF At
  <2>1. CASE Stream(a)
    <3>1. [agent[a] EXCEPT !.pc = "streaming"] \in Coroutines
      BY DEF Coroutines, Steps
    <3>2. Moves(a) /\ agent'[a] = [agent[a] EXCEPT !.pc = "streaming"]
      BY <2>1, <3>1, MovesTo DEF Stream
    <3>3. /\ agent'[a].pc = "streaming" /\ agent'[a].calls = agent[a].calls
          /\ agent'[a].model = agent[a].model
      BY <3>2 DEF Coroutines
    <3>4. agent[a].pc = "upstream" /\ agent[a].calls < MaxCalls
      BY <2>1 DEF Stream, IInv, CallsFit
    <3> QED BY <3>2, <3>3, <3>4 DEF Asks
  <2>2. CASE BackOff(a)
    <3> DEFINE new == [agent[a] EXCEPT !.pc = "backoff", !.attempt = agent[a].attempt + 1,
                                       !.left = RetryBase * 3 ^ agent[a].attempt]
    <3>1. /\ agent[a].attempt + 1 \in 0..MaxRetries + 1
          /\ RetryBase * 3 ^ agent[a].attempt \in Nat
      BY <2>2, PauseType, GatewayAssumption DEF BackOff, Coroutines
    <3>2. new \in Coroutines
      BY <3>1 DEF Coroutines, Steps
    <3>3. agent' = [agent EXCEPT ![a] = new]
      BY <2>2, AgentType DEF BackOff
    <3>4. Moves(a) /\ agent'[a] = new
      BY <3>2, <3>3, MovesTo
    <3>5. /\ agent'[a].pc = "backoff" /\ agent'[a].calls = agent[a].calls
          /\ agent'[a].model = agent[a].model
      BY <3>4 DEF Coroutines
    <3>6. agent[a].pc = "upstream" /\ agent[a].calls < MaxCalls
      BY <2>2 DEF BackOff, IInv, CallsFit
    <3> QED BY <3>4, <3>5, <3>6 DEF Asks
  <2>3. CASE Retry(a)
    <3> DEFINE new == [agent[a] EXCEPT !.pc = "upstream", !.model = Target(a)]
    <3>1. new \in Coroutines
      BY TargetFits DEF Coroutines, Steps
    <3>2. agent' = [agent EXCEPT ![a] = new]
      BY <2>3, AgentType DEF Retry
    <3>3. Moves(a) /\ agent'[a] = new
      BY <3>1, <3>2, MovesTo
    <3>4. /\ agent'[a].pc = "upstream" /\ agent'[a].calls = agent[a].calls
          /\ agent'[a].model = Target(a)
      BY <3>3 DEF Coroutines
    <3>5. agent[a].pc = "backoff" /\ agent[a].calls < MaxCalls
      BY <2>3 DEF Retry, IInv, CallsFit
    <3> QED BY <3>3, <3>4, <3>5, TargetFits DEF Asks
  <2>4. CASE FallBack(a)
    <3> DEFINE new == [agent[a] EXCEPT !.attempt = agent[a].attempt + 1,
                                       !.model = "fallback"]
    <3>1. agent[a].attempt + 1 \in 0..MaxRetries + 1
      BY <2>4, GatewayAssumption DEF FallBack, Coroutines
    <3>2. new \in Coroutines
      BY <3>1 DEF Coroutines
    <3>3. agent' = [agent EXCEPT ![a] = new]
      BY <2>4, AgentType DEF FallBack
    <3>4. Moves(a) /\ agent'[a] = new
      BY <3>2, <3>3, MovesTo
    <3>5. /\ agent'[a].pc = "upstream" /\ agent'[a].calls = agent[a].calls
          /\ agent'[a].model = "fallback"
      BY <2>4, <3>4 DEF FallBack, Coroutines
    <3>6. agent[a].pc = "upstream" /\ agent[a].calls < MaxCalls
      BY <2>4 DEF FallBack, IInv, CallsFit
    <3> QED BY <3>4, <3>5, <3>6 DEF Asks
  <2>5. CASE Continue(a) \/ TryAgain(a)
    <3>1. PICK step \in {"ready", "over"} :
            /\ agent' = [agent EXCEPT ![a].pc = step]
            /\ step = "ready" => agent[a].calls < MaxCalls
      <4>1. CASE Continue(a)
        BY <4>1 DEF Continue
      <4>2. CASE TryAgain(a)
        BY <4>2 DEF TryAgain, IInv, CallsFit
      <4> QED BY <2>5, <4>1, <4>2
    <3>2. [agent[a] EXCEPT !.pc = step] \in Coroutines
      BY DEF Coroutines, Steps
    <3>3. Moves(a) /\ agent'[a] = [agent[a] EXCEPT !.pc = step]
      BY <3>1, <3>2, MovesTo
    <3>4. agent[a].pc \in {"acting", "resting"}
      BY <2>5 DEF Continue, TryAgain
    <3> QED BY <3>1, <3>3, <3>4 DEF Asks, Coroutines
  <2> QED BY <2>1, <2>2, <2>3, <2>4, <2>5
<1>4. SlotsAccounted' /\ LinesFit' /\ SpacingFits' /\ CallsFit' /\ TeamsFit'
  BY <1>2, <1>3, PlainStep DEF Holding, Spacing
<1>5. MainSpendBounded'
  BY <1>2, <1>3, <1>4, SpendKept DEF SlotsAccounted
<1> QED BY <1>4, <1>5 DEF IInv

LEMMA QueueTypes ==
  ASSUME IInv
  PROVE  /\ queue \in Seq(Agents) /\ line \in Seq(Agents)
         /\ IsInjective(queue) /\ IsInjective(line)
         /\ \A a \in Agents : a \in ToSet(queue) <=> At(a, "waiting")
         /\ \A a \in Agents : a \in ToSet(line) <=> agent[a].pc \in Spacing
         /\ since \in 0..Interval /\ free \in 0..MaxConcurrency /\ free \in Nat
         /\ lost \in Nat /\ faults \in 0..MaxFaults
         /\ used \in [Mains -> [main : Nat, fallback : Nat]]
         /\ {Interval, MaxFaults, MaxConcurrency} \subseteq Nat
<1>1. {Interval, MaxFaults, MaxConcurrency} \subseteq Nat
  BY GatewayAssumption
<1>2. /\ since \in 0..Interval /\ free \in 0..MaxConcurrency /\ lost \in Nat
      /\ faults \in 0..MaxFaults /\ used \in [Mains -> [main : Nat, fallback : Nat]]
  BY DEF IInv, SlotsAccounted, TypeOK
<1>3. /\ queue \in Seq(Agents) /\ line \in Seq(Agents)
      /\ IsInjective(queue) /\ IsInjective(line)
  BY DEF IInv, SlotsAccounted, TypeOK, LinesFit
<1>4. /\ \A a \in Agents : a \in ToSet(queue) <=> At(a, "waiting")
      /\ \A a \in Agents : a \in ToSet(line) <=> agent[a].pc \in Spacing
  BY DEF IInv, SlotsAccounted, TypeOK, Spacing
<1>5. free \in Nat
  BY <1>1, <1>2
<1> QED BY <1>1, <1>2, <1>3, <1>4, <1>5

LEMMA WaitStep ==
  ASSUME IInv, NEW a \in Agents, Wait(a)
  PROVE  IInv'
<1>1. /\ agent[a] \in Coroutines /\ agent[a].pc = "ready" /\ agent[a].calls < MaxCalls
  BY AgentType DEF Wait, At, IInv, CallsFit
<1>2. [agent[a] EXCEPT !.pc = "waiting"] \in Coroutines
  BY <1>1 DEF Coroutines, Steps
<1>3. Moves(a) /\ agent'[a] = [agent[a] EXCEPT !.pc = "waiting"]
  BY <1>2, MovesTo DEF Wait
<1>4. agent'[a].pc = "waiting" /\ agent'[a].calls = agent[a].calls
  BY <1>1, <1>3 DEF Coroutines
<1>5. UNCHANGED <<free, line, since, used, faults, lost>> /\ queue' = Append(queue, a)
  BY DEF Wait
<1>6. a \notin ToSet(queue) /\ a \notin ToSet(line)
  BY <1>1, QueueTypes DEF At, Spacing
<1>7. /\ queue' \in Seq(Agents) /\ IsInjective(queue')
      /\ ToSet(queue') = ToSet(queue) \union {a}
  BY <1>5, <1>6, QueueTypes, Appended
<1>8. SlotsAccounted'
  BY <1>1, <1>3, <1>4, <1>5, <1>6, <1>7, QueueTypes, SlotsStep DEF Holding, Spacing
<1>9. CallsFit' /\ TeamsFit'
  BY <1>1, <1>3, <1>4, TeamsStep
<1>10. LinesFit' /\ SpacingFits'
  BY <1>3, <1>4, <1>5, <1>7, QueueTypes DEF LinesFit, IInv, SpacingFits, At, Moves
<1>11. MainSpendBounded'
  BY <1>3, <1>4, <1>5, <1>8, <1>9, SpendKept DEF Asks, SlotsAccounted
<1> QED BY <1>8, <1>9, <1>10, <1>11 DEF IInv

LEMMA AcquireStep ==
  ASSUME IInv, NEW a \in Agents, Acquire(a)
  PROVE  IInv'
<1>1. /\ agent[a] \in Coroutines /\ agent[a].pc = "waiting" /\ agent[a].calls < MaxCalls
      /\ a = Head(queue) /\ free > 0
  BY AgentType DEF Acquire, At, IInv, CallsFit
<1>2. [agent[a] EXCEPT !.pc = "spacing"] \in Coroutines
  BY <1>1 DEF Coroutines, Steps
<1>3. Moves(a) /\ agent'[a] = [agent[a] EXCEPT !.pc = "spacing"]
  BY <1>2, MovesTo DEF Acquire
<1>4. agent'[a].pc = "spacing" /\ agent'[a].calls = agent[a].calls
  BY <1>1, <1>3 DEF Coroutines
<1>5. /\ UNCHANGED <<since, used, faults, lost>> /\ free' = free - 1
      /\ queue' = Tail(queue) /\ line' = Append(line, a)
  BY DEF Acquire
<1>6. a \in ToSet(queue) /\ a \notin ToSet(line)
  BY <1>1, QueueTypes DEF At, Spacing
<1>7. queue # <<>>
  BY <1>6 DEF ToSet
<1>8. /\ queue' \in Seq(Agents) /\ IsInjective(queue')
      /\ ToSet(queue') = ToSet(queue) \ {a}
  BY <1>1, <1>5, <1>7, QueueTypes, TailOf
<1>9. /\ line' \in Seq(Agents) /\ IsInjective(line')
      /\ ToSet(line') = ToSet(line) \union {a}
      /\ line # <<>> => Head(line') = Head(line)
  BY <1>5, <1>6, QueueTypes, Appended
<1>10. free' \in Nat /\ free' + 1 = free
  BY <1>1, <1>5, QueueTypes
<1>11. SlotsAccounted'
  <2>1. agent[a].pc \notin Holding /\ agent'[a].pc \in Holding
    BY <1>1, <1>4 DEF Holding
  <2>2. free' + lost' + 1 = free + lost + 0 /\ lost' \in Nat
    BY <1>5, <1>10, QueueTypes
  <2> QED BY <1>3, <1>4, <1>5, <1>8, <1>9, <1>10, <2>1, <2>2, QueueTypes, SlotsStep
          DEF Spacing
<1>12. CallsFit' /\ TeamsFit'
  BY <1>1, <1>3, <1>4, TeamsStep
<1>13. SpacingFits'
  <2> SUFFICES ASSUME NEW b \in Agents, agent'[b].pc = "sleeping"
               PROVE  b = Head(line') /\ since + agent'[b].left >= Interval
    BY <1>5 DEF SpacingFits, At
  <2>1. b # a /\ agent'[b] = agent[b]
    BY <1>3, <1>4 DEF Moves
  <2>2. b = Head(line) /\ since + agent[b].left >= Interval
    BY <2>1 DEF IInv, SpacingFits, At
  <2>3. line # <<>>
    <3>1. b \in ToSet(line)
      BY <2>1, QueueTypes DEF Spacing
    <3> QED BY <3>1 DEF ToSet
  <2> QED BY <1>9, <2>1, <2>2, <2>3
<1>14. MainSpendBounded'
  BY <1>3, <1>4, <1>5, <1>11, <1>12, SpendKept DEF Asks, SlotsAccounted
<1> QED BY <1>8, <1>9, <1>11, <1>12, <1>13, <1>14 DEF IInv, LinesFit

LEMMA SpaceOutStep ==
  ASSUME IInv, NEW a \in Agents, SpaceOut(a)
  PROVE  IInv'
<1>1. /\ agent[a] \in Coroutines /\ agent[a].pc = "spacing" /\ agent[a].calls < MaxCalls
      /\ a = Head(line)
  BY AgentType DEF SpaceOut, At, IInv, CallsFit
<1> DEFINE new == [agent[a] EXCEPT !.pc = "sleeping", !.left = Interval - since]
<1>2. Interval - since \in Nat /\ since + (Interval - since) >= Interval
  BY QueueTypes
<1>3. new \in Coroutines
  BY <1>1, <1>2 DEF Coroutines, Steps
<1>4. agent' = [agent EXCEPT ![a] = new]
  BY AgentType DEF SpaceOut
<1>5. Moves(a) /\ agent'[a] = new
  BY <1>3, <1>4, MovesTo
<1>6. /\ agent'[a].pc = "sleeping" /\ agent'[a].calls = agent[a].calls
      /\ agent'[a].left = Interval - since
  BY <1>1, <1>5 DEF Coroutines
<1> HIDE DEF new
<1>7. UNCHANGED <<free, queue, line, since, used, faults, lost>>
  BY DEF SpaceOut
<1>8. a \notin ToSet(queue) /\ a \in ToSet(line)
  BY <1>1, QueueTypes DEF At, Spacing
<1>9. SlotsAccounted'
  BY <1>1, <1>5, <1>6, <1>7, <1>8, QueueTypes, SlotsStep DEF Holding, Spacing
<1>10. CallsFit' /\ TeamsFit'
  BY <1>1, <1>5, <1>6, TeamsStep
<1>11. LinesFit'
  BY <1>7, QueueTypes DEF LinesFit
<1>12. SpacingFits'
  BY <1>1, <1>2, <1>5, <1>6, <1>7 DEF IInv, SpacingFits, At, Moves
<1>13. MainSpendBounded'
  BY <1>5, <1>6, <1>7, <1>9, <1>10, SpendKept DEF Asks, SlotsAccounted
<1> QED BY <1>9, <1>10, <1>11, <1>12, <1>13 DEF IInv

LEMMA StartStep ==
  ASSUME IInv, NEW a \in Agents, Start(a)
  PROVE  IInv'
<1>1. /\ agent[a] \in Coroutines /\ agent[a].pc = "sleeping" /\ agent[a].calls < MaxCalls
      /\ a = Head(line)
  BY AgentType DEF Start, At, IInv, CallsFit, SpacingFits
<1> DEFINE new == [agent[a] EXCEPT !.pc = "upstream", !.attempt = 0, !.model = Target(a)]
<1>2. new \in Coroutines
  <2>1. 0 \in 0..MaxRetries + 1 /\ Target(a) \in {"main", "fallback"}
    BY TargetFits, GatewayAssumption
  <2> QED BY <1>1, <2>1 DEF Coroutines, Steps
<1>3. agent' = [agent EXCEPT ![a] = new]
  BY AgentType DEF Start
<1>4. Moves(a) /\ agent'[a] = new
  BY <1>2, <1>3, MovesTo
<1>5. /\ agent'[a].pc = "upstream" /\ agent'[a].calls = agent[a].calls
      /\ agent'[a].model = Target(a)
  BY <1>1, <1>4 DEF Coroutines
<1> HIDE DEF new
<1>6. /\ UNCHANGED <<free, queue, used, faults, lost>> /\ since' = 0
      /\ line' = RemoveFirst(line, a)
  BY DEF Start
<1>7. /\ line' \in Seq(Agents) /\ IsInjective(line')
      /\ ToSet(line') = ToSet(line) \ {a} /\ a \notin ToSet(queue)
  BY <1>1, <1>6, QueueTypes, Removed DEF At
<1>8. since' \in 0..Interval
  BY <1>6, QueueTypes
<1>9. SlotsAccounted'
  BY <1>1, <1>4, <1>5, <1>6, <1>7, <1>8, QueueTypes, SlotsStep DEF Holding, Spacing
<1>10. CallsFit' /\ TeamsFit'
  BY <1>1, <1>4, <1>5, TeamsStep
<1>11. SpacingFits'
  <2>1. \A b \in Agents : agent[b].pc = "sleeping" => b = a
    BY <1>1 DEF IInv, SpacingFits, At
  <2> QED BY <1>4, <1>5, <2>1 DEF SpacingFits, At, Moves
<1>12. MainSpendBounded'
  BY <1>4, <1>5, <1>6, <1>9, <1>10, SpendKept, TargetFits DEF Asks, SlotsAccounted
<1> QED BY <1>6, <1>7, <1>9, <1>10, <1>11, <1>12, QueueTypes DEF IInv, LinesFit

LEMMA CancelStep ==
  ASSUME IInv, NEW a \in Agents, Cancel(a)
  PROVE  IInv'
<1>1. /\ agent[a] \in Coroutines /\ agent[a].pc \notin {"idle", "over"} /\ a \notin Mains
  BY AgentType DEF Cancel
<1> DEFINE new == [agent[a] EXCEPT !.pc = "over", !.left = 0]
<1>2. new \in Coroutines
  BY <1>1 DEF Coroutines, Steps
<1>3. agent' = [agent EXCEPT ![a] = new]
  BY AgentType DEF Cancel
<1>4. Moves(a) /\ agent'[a] = new
  BY <1>2, <1>3, MovesTo
<1>5. agent'[a].pc = "over"
  BY <1>1, <1>4 DEF Coroutines
<1> HIDE DEF new
<1>6. /\ UNCHANGED <<since, used, lost>> /\ faults < MaxFaults /\ faults' = faults + 1
      /\ free' = IF agent[a].pc \in Holding THEN free + 1 ELSE free
      /\ queue' = RemoveFirst(queue, a) /\ line' = RemoveFirst(line, a)
  BY DEF Cancel
<1>7. /\ line' \in Seq(Agents) /\ IsInjective(line') /\ ToSet(line') = ToSet(line) \ {a}
      /\ line # <<>> /\ Head(line) # a => Head(line') = Head(line)
      /\ queue' \in Seq(Agents) /\ IsInjective(queue') /\ ToSet(queue') = ToSet(queue) \ {a}
  BY <1>6, QueueTypes, Removed
<1>8. faults' \in 0..MaxFaults /\ free' \in Nat
      /\ free' = free + (IF agent[a].pc \in Holding THEN 1 ELSE 0)
  BY <1>6, QueueTypes
<1>9. SlotsAccounted'
  <2>1. agent'[a].pc \notin Holding
    BY <1>5 DEF Holding
  <2>2. free' + lost' + 0 = free + lost + (IF agent[a].pc \in Holding THEN 1 ELSE 0)
    BY <1>6, <1>8, QueueTypes
  <2>3. lost' \in Nat /\ since' \in 0..Interval
        /\ used' \in [Mains -> [main : Nat, fallback : Nat]]
    BY <1>6, QueueTypes
  <2> QED BY <1>4, <1>5, <1>7, <1>8, <2>1, <2>2, <2>3, SlotsStep DEF Spacing
<1>10. CallsFit' /\ TeamsFit'
  BY <1>1, <1>4, <1>5, TeamsStep
<1>11. SpacingFits'
  <2> SUFFICES ASSUME NEW b \in Agents, agent'[b].pc = "sleeping"
               PROVE  b = Head(line') /\ since + agent'[b].left >= Interval
    BY <1>6 DEF SpacingFits, At
  <2>1. b # a /\ agent'[b] = agent[b]
    BY <1>4, <1>5 DEF Moves
  <2>2. b = Head(line) /\ since + agent[b].left >= Interval
    BY <2>1 DEF IInv, SpacingFits, At
  <2>3. line # <<>>
    <3>1. b \in ToSet(line)
      BY <2>1, QueueTypes DEF Spacing
    <3> QED BY <3>1 DEF ToSet
  <2> QED BY <1>7, <2>1, <2>2, <2>3
<1>12. MainSpendBounded'
  BY <1>4, <1>5, <1>6, <1>9, <1>10, SpendKept DEF Asks, SlotsAccounted
<1> QED BY <1>7, <1>9, <1>10, <1>11, <1>12 DEF IInv, LinesFit

\* A step of several agents in which nobody stands elsewhere in a queue, holds
\* another slot or asks the main model anew.
LEMMA StillStep ==
  ASSUME IInv, agent' \in [Agents -> Coroutines],
         UNCHANGED <<free, queue, line, used, faults, lost>>, since' \in 0..Interval,
         \A b \in Agents :
           /\ agent'[b].pc \in Holding <=> agent[b].pc \in Holding
           /\ agent'[b].pc = "waiting" <=> agent[b].pc = "waiting"
           /\ agent'[b].pc \in Spacing <=> agent[b].pc \in Spacing
           /\ Asks(b)' => Asks(b),
         SpacingFits', CallsFit', TeamsFit'
  PROVE  IInv'
<1>1. InHolding' = InHolding
  BY DEF InHolding
<1>2. SlotsAccounted'
  <2>1. ToSet(queue') = {a \in Agents : At(a, "waiting")'}
    BY DEF IInv, SlotsAccounted, TypeOK, At
  <2>2. ToSet(line') = {a \in Agents : agent'[a].pc \in {"spacing", "sleeping"}}
    BY DEF IInv, SlotsAccounted, TypeOK, Spacing
  <2>3. free' + lost' + Cardinality(InHolding') = MaxConcurrency
    BY <1>1 DEF IInv, SlotsAccounted, InHolding
  <2>4. TypeOK'
    BY <2>1, <2>2, QueueTypes DEF TypeOK, Coroutines
  <2> QED BY <2>3, <2>4 DEF SlotsAccounted, InHolding
<1>3. LinesFit'
  BY QueueTypes DEF LinesFit
<1>4. MainSpendBounded'
  <2>1. \A r \in Mains : AskingOf(r, agent') \subseteq AskingOf(r, agent)
    BY DEF AskingOf, Asks
  <2> QED BY <1>2, <2>1, SpendStep DEF SlotsAccounted
<1> QED BY <1>2, <1>3, <1>4 DEF IInv

LEMMA CollectStep ==
  ASSUME IInv, NEW a \in Agents, Collect(a)
  PROVE  IInv'
<1>1. agent[a] \in Coroutines /\ agent[a].pc = "dispatched"
  BY AgentType DEF Collect, At
<1>2. [agent[a] EXCEPT !.pc = "acting"] \in Coroutines
  BY <1>1 DEF Coroutines, Steps
<1>3. Moves(a) /\ agent'[a] = [agent[a] EXCEPT !.pc = "acting"]
  BY <1>2, MovesTo DEF Collect
<1>4. agent'[a].pc = "acting"
  BY <1>1, <1>3 DEF Coroutines
<1>5. UNCHANGED <<free, queue, line, since, used, faults, lost>>
  BY DEF Collect
<1>6. SpacingFits' /\ CallsFit'
  BY <1>3, <1>4, <1>5 DEF IInv, SpacingFits, CallsFit, At, Moves
<1>7. TeamsFit'
  <2> SUFFICES ASSUME NEW b \in Agents, Parent[b] # None, agent'[Parent[b]].pc # "dispatched"
               PROVE  agent'[b].pc \in {"idle", "over"}
    BY DEF TeamsFit, At
  <2>1. Parent[b] \in Agents
    BY GatewayAssumption
  <2>2. CASE Parent[b] = a
    <3>1. agent[b].pc \in {"idle", "over"}
      BY <2>2 DEF Collect, Subs
    <3> QED BY <1>1, <1>3, <3>1 DEF Moves
  <2>3. CASE Parent[b] # a
    <3>1. agent[b].pc \in {"idle", "over"}
      BY <1>3, <2>1, <2>3 DEF Moves, IInv, TeamsFit, At
    <3> QED BY <1>1, <1>3, <3>1 DEF Moves
  <2> QED BY <2>2, <2>3
<1>8. \A b \in Agents :
        /\ agent'[b].pc \in Holding <=> agent[b].pc \in Holding
        /\ agent'[b].pc = "waiting" <=> agent[b].pc = "waiting"
        /\ agent'[b].pc \in Spacing <=> agent[b].pc \in Spacing
        /\ Asks(b)' => Asks(b)
  BY <1>1, <1>3, <1>4 DEF Moves, Holding, Spacing, Asks
<1> QED BY <1>3, <1>5, <1>6, <1>7, <1>8, QueueTypes, StillStep DEF Moves

LEMMA DispatchStep ==
  ASSUME IInv, NEW a \in Agents, Dispatch(a)
  PROVE  IInv'
<1>1. PICK team \in SUBSET Subs(a) :
        /\ \A s \in team : At(s, "idle")
        /\ agent' = [b \in Agents |->
             IF b = a THEN [agent[a] EXCEPT !.pc = "dispatched"]
             ELSE IF b \in team THEN [agent[b] EXCEPT !.pc = "ready"]
             ELSE agent[b]]
  BY DEF Dispatch
<1>2. agent[a].pc = "acting" /\ a \notin team /\ Parent[a] = None /\ Subs(a) # {}
      /\ \A s \in team : s \in Agents /\ Parent[s] = a /\ agent[s].pc = "idle"
  BY <1>1, GatewayAssumption DEF Dispatch, At, Subs
<1>3. ASSUME NEW b \in Agents
      PROVE  /\ agent'[b] \in Coroutines
             /\ b = a => agent'[b].pc = "dispatched"
             /\ b \in team => agent'[b].pc = "ready" /\ agent'[b].calls = agent[b].calls
             /\ b # a /\ b \notin team => agent'[b] = agent[b]
  <2>1. agent[b] \in Coroutines /\ agent[a] \in Coroutines
    BY AgentType
  <2> QED BY <1>1, <1>2, <2>1 DEF Coroutines, Steps
<1>4. agent' \in [Agents -> Coroutines]
  BY <1>1, <1>3
<1>5. UNCHANGED <<free, queue, line, since, used, faults, lost>>
  BY DEF Dispatch
<1>6. \A b \in Agents :
        /\ agent'[b].pc \in Holding <=> agent[b].pc \in Holding
        /\ agent'[b].pc = "waiting" <=> agent[b].pc = "waiting"
        /\ agent'[b].pc \in Spacing <=> agent[b].pc \in Spacing
        /\ Asks(b)' => Asks(b)
  BY <1>2, <1>3 DEF Holding, Spacing, Asks
<1>7. SpacingFits'
  BY <1>2, <1>3, <1>5 DEF IInv, SpacingFits, At
<1>8. CallsFit'
  BY <1>2, <1>3 DEF IInv, CallsFit
<1>9. TeamsFit'
  <2> SUFFICES ASSUME NEW b \in Agents, Parent[b] # None, agent'[Parent[b]].pc # "dispatched"
               PROVE  agent'[b].pc \in {"idle", "over"}
    BY DEF TeamsFit, At
  <2>1. Parent[b] \in Agents /\ Parent[Parent[b]] = None
    BY GatewayAssumption
  <2>2. Parent[b] # a /\ Parent[b] \notin team
    BY <1>2, <1>3, <2>1, GatewayAssumption
  <2>3. agent[b].pc \in {"idle", "over"}
    BY <1>3, <2>1, <2>2 DEF IInv, TeamsFit, At
  <2> QED BY <1>2, <1>3, <2>2, <2>3
<1> QED BY <1>4, <1>5, <1>6, <1>7, <1>8, <1>9, QueueTypes, StillStep

LEMMA MinOf ==
  ASSUME NEW m \in Int, NEW n \in Int
  PROVE  Min({m, n}) = IF m <= n THEN m ELSE n
<1> DEFINE x == IF m <= n THEN m ELSE n
<1>1. x \in {m, n} /\ \A y \in {m, n} : x =< y
  OBVIOUS
<1>2. \A z \in {m, n} : (\A y \in {m, n} : z =< y) => z = x
  OBVIOUS
<1> HIDE DEF x
<1>3. (CHOOSE z \in {m, n} : \A y \in {m, n} : z =< y) = x
  BY <1>1, <1>2
<1> QED BY <1>3 DEF Min, x

\* A tick of the clock wakes nobody too early.
LEMMA TickStep ==
  ASSUME IInv, Tick
  PROVE  IInv'
<1>1. /\ UNCHANGED <<free, queue, line, used, faults, lost>>
      /\ since' = IF since + 1 <= Interval THEN since + 1 ELSE Interval
      /\ since \in 0..Interval /\ Interval \in Nat
  <2>1. since \in 0..Interval /\ Interval \in Nat
    BY QueueTypes
  <2>2. since + 1 \in Int /\ Interval \in Int
    BY <2>1
  <2>3. Min({since + 1, Interval}) = IF since + 1 <= Interval THEN since + 1 ELSE Interval
    BY <2>2, MinOf
  <2> QED BY <2>1, <2>3 DEF Tick
<1>2. ASSUME NEW b \in Agents
      PROVE  /\ agent'[b] \in Coroutines /\ agent'[b].pc = agent[b].pc
             /\ agent'[b].calls = agent[b].calls /\ agent'[b].model = agent[b].model
             /\ agent'[b].left \in Nat /\ agent[b].left \in Nat
             /\ agent'[b].left + 1 >= agent[b].left
  <2>1. agent[b] \in Coroutines
    BY AgentType
  <2>2. agent[b].left \in Nat
    BY <2>1 DEF Coroutines
  <2>3. Max({agent[b].left - 1, 0}) =
          IF agent[b].left - 1 >= 0 THEN agent[b].left - 1 ELSE 0
    BY <2>2, MaxOf
  <2>4. agent'[b] = [agent[b] EXCEPT !.left = Max({agent[b].left - 1, 0})]
    BY DEF Tick
  <2>5. Max({agent[b].left - 1, 0}) \in Nat
    BY <2>2, <2>3
  <2>6. agent'[b] \in Coroutines /\ agent'[b].left = Max({agent[b].left - 1, 0})
    BY <2>1, <2>4, <2>5 DEF Coroutines
  <2> QED BY <2>1, <2>2, <2>3, <2>4, <2>5, <2>6 DEF Coroutines
<1>3. agent' \in [Agents -> Coroutines]
  <2>1. agent' = [b \in Agents |-> agent'[b]]
    BY DEF Tick
  <2> QED BY <1>2, <2>1
<1>4. since' \in 0..Interval
  BY <1>1
<1>5. SpacingFits'
  <2> SUFFICES ASSUME NEW b \in Agents, agent'[b].pc = "sleeping"
               PROVE  b = Head(line) /\ since' + agent'[b].left >= Interval
    BY <1>1 DEF SpacingFits, At
  <2>1. b = Head(line) /\ since + agent[b].left >= Interval
    BY <1>2 DEF IInv, SpacingFits, At
  <2> QED BY <1>1, <1>2, <2>1
<1>6. CallsFit' /\ TeamsFit'
  BY <1>2, GatewayAssumption DEF IInv, CallsFit, TeamsFit, At
<1>7. \A b \in Agents :
        /\ agent'[b].pc \in Holding <=> agent[b].pc \in Holding
        /\ agent'[b].pc = "waiting" <=> agent[b].pc = "waiting"
        /\ agent'[b].pc \in Spacing <=> agent[b].pc \in Spacing
        /\ Asks(b)' => Asks(b)
  BY <1>2 DEF Asks
<1> QED BY <1>1, <1>3, <1>4, <1>5, <1>6, <1>7, StillStep

-----------------------------------------------------------------------------
(* The theorems.                                                           *)

LEMMA InitIInv == Init => IInv
<1> SUFFICES ASSUME Init PROVE IInv
  OBVIOUS
<1> USE DEF Init
<1>1. \A a \in Agents : agent[a].pc \in {"ready", "idle"} /\ agent[a].calls = 0
                      /\ (a \notin Mains => agent[a].pc = "idle")
  OBVIOUS
<1>2. agent \in [Agents -> Coroutines]
  <2>1. /\ 0 \in 0..MaxRetries + 1 /\ 0 \in 0..MaxCalls /\ 0 \in 0..MaxTurnRetries
        /\ 0 \in Nat
    BY GatewayAssumption
  <2> QED BY <2>1 DEF Coroutines, Steps
<1>3. ToSet(<<>>) = {} /\ <<>> \in Seq(Agents) /\ IsInjective(<<>>)
  BY DEF ToSet, IsInjective
<1>4. TypeOK
  <2>1. {a \in Agents : At(a, "waiting")} = {}
    BY <1>1 DEF At
  <2>2. {a \in Agents : agent[a].pc \in {"spacing", "sleeping"}} = {}
    BY <1>1
  <2>3. /\ free \in 0..MaxConcurrency /\ since \in 0..Interval /\ faults \in 0..MaxFaults
        /\ lost \in Nat
    BY GatewayAssumption
  <2>4. used \in [Mains -> [main : Nat, fallback : Nat]]
    OBVIOUS
  <2> QED BY <1>2, <1>3, <2>1, <2>2, <2>3, <2>4 DEF TypeOK, Coroutines
<1>5. SlotsAccounted
  <2>1. {a \in Agents : agent[a].pc \in Holding} = {}
    BY <1>1 DEF Holding
  <2>2. Cardinality({a \in Agents : agent[a].pc \in Holding}) = 0
    BY <2>1, FS_EmptySet
  <2>3. free = MaxConcurrency /\ lost = 0 /\ MaxConcurrency \in Nat
    BY GatewayAssumption
  <2> QED BY <1>4, <2>2, <2>3 DEF SlotsAccounted
<1>6. LinesFit
  BY <1>3 DEF LinesFit
<1>7. SpacingFits /\ CallsFit
  BY <1>1, GatewayAssumption DEF SpacingFits, CallsFit, At
<1>8. TeamsFit
  BY <1>1 DEF TeamsFit, Mains
<1>9. MainSpendBounded
  <2> SUFFICES ASSUME Total > 0, NEW r \in Mains
               PROVE  2 * (used[r].main + Cardinality(AskingOf(r, agent))) < Total + 2 * AtOnce(r)
    BY DEF MainSpendBounded, AskingOf, AtOnce
  <2>1. AskingOf(r, agent) = {}
    BY <1>1 DEF AskingOf
  <2>2. Cardinality(AskingOf(r, agent)) = 0
    BY <2>1, FS_EmptySet
  <2>3. used[r].main = 0
    OBVIOUS
  <2> QED BY <2>2, <2>3, AtOnceType, GatewayAssumption
<1> QED BY <1>5, <1>6, <1>7, <1>8, <1>9 DEF IInv

LEMMA NextIInv == IInv /\ [Next]_vars => IInv'
<1> SUFFICES ASSUME IInv, [Next]_vars PROVE IInv'
  OBVIOUS
<1>1. CASE Next
  BY <1>1, TickStep, WaitStep, AcquireStep, SpaceOutStep, StartStep, AnsweredStep,
     ErrorStep, QuietStep, CollectStep, DispatchStep, CancelStep
     DEF Next, Calls, Works
<1>2. CASE UNCHANGED vars
  BY <1>2
     DEF vars, IInv, SlotsAccounted, TypeOK, LinesFit, SpacingFits, CallsFit, TeamsFit,
         MainSpendBounded, At
<1> QED BY <1>1, <1>2

THEOREM Invariant == Spec => []IInv
BY InitIInv, NextIInv, PTL DEF Spec

\* Every slot of the semaphore is free, held by one call or lost with a stream
\* nobody reads; the queues hold exactly the agents that wait.
THEOREM SlotsKept == Spec => []SlotsAccounted
<1>1. IInv => SlotsAccounted
  BY DEF IInv
<1> QED BY <1>1, Invariant, PTL

\* Beyond half of the budget the main model is asked at most once for each
\* agent of the intent that can ask at once (budget.py: resolve_model).
THEOREM SpendBounded == Spec => []MainSpendBounded
<1>1. IInv => MainSpendBounded
  BY DEF IInv
<1> QED BY <1>1, Invariant, PTL

\* Only Start takes an agent from its sleep to the model.
LEMMA OnlyStartStarts ==
  ASSUME IInv, [Next]_vars, NEW a \in Agents,
         agent[a].pc = "sleeping", agent'[a].pc = "upstream"
  PROVE  Start(a)
<1>1. CASE Tick
  BY <1>1, AgentType DEF Tick, Coroutines
<1>2. CASE UNCHANGED vars
  BY <1>2 DEF vars
<1>3. ASSUME NEW b \in Agents, Calls(b) \/ Works(b) \/ Drop(b) \/ Cancel(b)
      PROVE  Start(a)
  <2>1. CASE b = a
    <3>1. CASE Calls(a)
      BY <3>1 DEF Calls, Wait, Acquire, SpaceOut, Respond, Stream, Read, BreakOff, BackOff,
                  Retry, FallBack, Fail, At
    <3>2. CASE Works(a) \/ Drop(a)
      BY <3>2 DEF Works, Dispatch, Collect, Continue, TryAgain, Drop, At
    <3>3. CASE Cancel(a)
      BY <3>3, AgentType DEF Cancel, Coroutines
    <3> QED BY <1>3, <2>1, <3>1, <3>2, <3>3
  <2>2. CASE b # a
    <3>1. CASE Dispatch(b)
      <4>1. agent'[a] = agent[a] \/ agent'[a] = [agent[a] EXCEPT !.pc = "ready"]
        BY <2>2, <3>1 DEF Dispatch
      <4> QED BY <4>1, AgentType DEF Coroutines
    <3>2. CASE ~Dispatch(b)
      <4>1. \E new : agent' = [agent EXCEPT ![b] = new]
        BY <1>3, <3>2, AgentType
           DEF Calls, Works, Wait, Acquire, SpaceOut, Start, Respond, Stream, Read, BreakOff,
               BackOff, Retry, FallBack, Fail, Collect, Continue, TryAgain, Drop, Cancel
      <4>2. agent'[a] = agent[a]
        BY <2>2, <4>1, AgentType
      <4> QED BY <4>2
    <3> QED BY <3>1, <3>2
  <2> QED BY <2>1, <2>2
<1> QED BY <1>1, <1>2, <1>3 DEF Next

\* First attempts are at least Interval apart (throttle.py: _space_out).
THEOREM SpacingHolds == Spec => StartsSpaced
<1>1. ASSUME IInv, [Next]_vars, NEW a \in Agents,
             agent[a].pc = "sleeping", agent'[a].pc = "upstream"
      PROVE  since = Interval
  <2>1. since + agent[a].left >= Interval /\ since \in 0..Interval /\ agent[a].left \in Nat
        /\ Interval \in Nat
    BY <1>1, QueueTypes, AgentType, GatewayAssumption DEF IInv, SpacingFits, At, Coroutines
  <2>2. agent[a].left = 0
    <3>1. Start(a)
      BY <1>1, OnlyStartStarts
    <3> QED BY <3>1 DEF Start
  <2> QED BY <2>1, <2>2
<1>2. IInv /\ [Next]_vars =>
        [\A a \in Agents :
           agent[a].pc = "sleeping" /\ agent'[a].pc = "upstream" => since = Interval]_vars
  BY <1>1
<1> QED BY <1>2, Invariant, PTL DEF Spec, StartsSpaced

=============================================================================

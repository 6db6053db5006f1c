------------------------------ MODULE AgentProofs ------------------------------
(*****************************************************************************)
(* Theorems about what an agent keeps in its process: the client and the     *)
(* runtime (Client), its identity (IdentityStore), batches on their way      *)
(* (MessageCodec), the groups it is subscribed to with their history         *)
(* (GroupSubscriptions) and the journal (MessageJournal), each for any values*)
(* of its constants.                                                         *)
(*****************************************************************************)
EXTENDS Client, IdentityStore, MessageCodec, GroupSubscriptions, MessageJournal,
        WellFoundedInduction, TLAPS

----------------------------------------------------------------------------
(* Induction. *)

\* A set of numbers that is not empty has a smallest one.
LEMMA Smallest ==
  ASSUME NEW T, T \subseteq Nat, T # {}
  PROVE  \E x \in T : \A y \in T : x <= y
<1> DEFINE Below == {pair \in Nat \X Nat : pair[1] < pair[2]}
<1>1. IsWellFoundedOn(Below, Nat)
  BY NatLessThanWellFounded DEF OpToRel
<1>2. \A x, y \in Nat : y < x => <<y, x>> \in Below
  OBVIOUS
<1> HIDE DEF Below
<1>3. PICK x \in T : \A y \in T : ~(<<y, x>> \in Below)
  BY <1>1, WFMin, Zenon
<1>4. ASSUME NEW y \in T PROVE x <= y
  <2>1. x \in Nat /\ y \in Nat /\ ~(y < x)
    BY <1>2, <1>3
  <2> QED
    BY <2>1
<1> QED
  BY <1>4

\* What holds of 0 and, when it holds of a number, of the next, holds of all up to n.
LEMMA Induction ==
  ASSUME NEW n \in Nat, NEW S, 0 \in S, \A k \in 0..(n - 1) : k \in S => k + 1 \in S
  PROVE  0..n \subseteq S
<1> SUFFICES ASSUME ~(0..n \subseteq S) PROVE FALSE
  OBVIOUS
<1> DEFINE T == {k \in 0..n : k \notin S}
<1>1. T \subseteq Nat /\ T # {}
  OBVIOUS
<1> HIDE DEF T
<1>2. PICK x \in T : \A y \in T : x <= y
  BY <1>1, Smallest
<1>3. x \in 1..n /\ x - 1 \in 0..(n - 1) /\ x - 1 \notin T
  BY <1>1, <1>2 DEF T
<1> QED
  BY <1>2, <1>3 DEF T

----------------------------------------------------------------------------
(* The filter of a history. *)

\* The function that Passing is defined by, by recursion, is one that satisfies its equation.
Filters(f, list, passed) ==
  f = [n \in 0..Len(list) |->
         CASE n = 0 -> <<>>
           [] n # 0 /\ n \in passed -> Append(f[n - 1], list[n])
           [] OTHER -> f[n - 1]]

LEMMA FilterExists ==
  ASSUME NEW S, NEW list \in Seq(S), NEW passed
  PROVE  \E f : Filters(f, list, passed)
<1> DEFINE N == Len(list)
           Next1(f, n) == IF n \in passed THEN Append(f[n - 1], list[n]) ELSE f[n - 1]
           Starts(f, k) == /\ f[0] = <<>> /\ \A n \in 1..k : f[n] = Next1(f, n)
           Good == {k \in 0..N : \E f : Starts(f, k)}
<1>1. N \in Nat
  OBVIOUS
<1>2. 0 \in Good
  <2> DEFINE f == [n \in 0..0 |-> <<>>]
  <2>1. f[0] = <<>> /\ 1..0 = {}
    OBVIOUS
  <2> HIDE DEF f
  <2>2. Starts(f, 0)
    BY <2>1
  <2> HIDE DEF Starts
  <2> QED
    BY <1>1, <2>2
<1>3. ASSUME NEW k \in 0..(N - 1), k \in Good PROVE k + 1 \in Good
  <2>1. PICK f : Starts(f, k)
    BY <1>3
  <2> DEFINE g == [n \in 0..(k + 1) |-> IF n = k + 1 THEN Next1(f, n) ELSE f[n]]
  <2>2. /\ k + 1 \in 0..(k + 1) /\ \A n \in 0..k : n \in 0..(k + 1) /\ n # k + 1 /\ g[n] = f[n]
        /\ g[k + 1] = Next1(f, k + 1)
    BY <1>1
  <2> HIDE DEF g
  <2>3. g[0] = <<>>
    BY <1>1, <2>1, <2>2
  <2>4. ASSUME NEW n \in 1..(k + 1) PROVE g[n] = Next1(g, n)
    <3>1. n - 1 \in 0..k
      BY <1>1
    <3>2. g[n - 1] = f[n - 1]
      BY <2>2, <3>1
    <3> QED
      BY <1>1, <2>1, <2>2, <3>1, <3>2
  <2>5. Starts(g, k + 1)
    BY <2>3, <2>4
  <2> QED
    BY <1>1, <2>5
<1>4. PICK f : Starts(f, N)
  <2> HIDE DEF Good, N
  <2>1. 0..N \subseteq Good
    BY <1>1, <1>2, <1>3, Induction, Zenon
  <2> HIDE DEF Starts
  <2> QED
    BY <1>1, <2>1 DEF Good
<1> DEFINE h == [n \in 0..N |-> f[n]]
<1>5. h = [n \in 0..N |-> CASE n = 0 -> <<>>
                            [] n # 0 /\ n \in passed -> Append(h[n - 1], list[n])
                            [] OTHER -> h[n - 1]]
  <2>1. ASSUME NEW n \in 0..N
        PROVE  f[n] = CASE n = 0 -> <<>>
                        [] n # 0 /\ n \in passed -> Append(h[n - 1], list[n])
                        [] OTHER -> h[n - 1]
    <3>1. CASE n = 0
      BY <1>4, <3>1
    <3>2. CASE n # 0
      <4>1. n \in 1..N /\ n - 1 \in 0..N
        BY <1>1, <3>2
      <4> QED
        BY <1>4, <3>2, <4>1
    <3> QED
      BY <3>1, <3>2
  <2> QED
    BY <2>1
<1> QED
  BY <1>5 DEF Filters

\* It goes through the list element by element.
LEMMA PassingSteps ==
  ASSUME NEW S, NEW list \in Seq(S), NEW passed
  PROVE  \E kept : /\ kept[0] = <<>> /\ Passing(list, passed) = kept[Len(list)]
                   /\ \A k \in 0..(Len(list) - 1) :
                        kept[k + 1] = IF k + 1 \in passed THEN Append(kept[k], list[k + 1])
                                                          ELSE kept[k]
<1> DEFINE kept == CHOOSE f : Filters(f, list, passed)
<1>1. Passing(list, passed) = kept[Len(list)]
  BY Zenon DEF Passing, Filters
<1>2. Filters(kept, list, passed)
  BY FilterExists, Zenon
<1> HIDE DEF kept
<1>3. kept[0] = <<>>
  BY <1>2 DEF Filters
<1>4. ASSUME NEW k \in 0..(Len(list) - 1)
      PROVE  kept[k + 1] = IF k + 1 \in passed THEN Append(kept[k], list[k + 1]) ELSE kept[k]
  <2>1. k + 1 \in 0..Len(list) /\ k + 1 # 0 /\ (k + 1) - 1 = k
    OBVIOUS
  <2>2. kept[k + 1] = CASE k + 1 = 0 -> <<>>
                        [] k + 1 # 0 /\ k + 1 \in passed -> Append(kept[(k + 1) - 1], list[k + 1])
                        [] OTHER -> kept[(k + 1) - 1]
    BY <1>2, <2>1, Zenon DEF Filters
  <2> QED
    BY <2>1, <2>2
<1> QED
  BY <1>1, <1>3, <1>4

\* What passes is in the list, and no more than that.
LEMMA PassingLines ==
  ASSUME NEW S, NEW list \in Seq(S), NEW passed,
         NEW Q, \A i \in 1..Len(list) : list[i] \in Q
  PROVE  Passing(list, passed) \in Seq(Q) /\ Len(Passing(list, passed)) <= Len(list)
<1>1. PICK kept : /\ kept[0] = <<>> /\ Passing(list, passed) = kept[Len(list)]
                  /\ \A k \in 0..(Len(list) - 1) :
                       kept[k + 1] = IF k + 1 \in passed THEN Append(kept[k], list[k + 1])
                                                         ELSE kept[k]
  BY PassingSteps
<1> DEFINE Good == {n \in 0..Len(list) : kept[n] \in Seq(Q) /\ Len(kept[n]) <= n}
<1>2. 0 \in Good
  <2>1. kept[0] = <<>> /\ 0 \in 0..Len(list)
    BY <1>1
  <2>2. <<>> \in Seq(Q) /\ Len(<<>>) <= 0
    OBVIOUS
  <2> QED
    BY <2>1, <2>2, Zenon
<1>3. ASSUME NEW k \in 0..(Len(list) - 1), k \in Good PROVE k + 1 \in Good
  <2>1. k + 1 \in 1..Len(list) /\ kept[k] \in Seq(Q) /\ Len(kept[k]) <= k
        /\ list[k + 1] \in Q
    BY <1>3
  <2>2. kept[k + 1] = IF k + 1 \in passed THEN Append(kept[k], list[k + 1]) ELSE kept[k]
    BY <1>1
  <2>3. kept[k + 1] \in Seq(Q) /\ Len(kept[k + 1]) <= k + 1
    BY <2>1, <2>2
  <2> QED
    BY <2>1, <2>3
<1> HIDE DEF Good
<1>4. Len(list) \in Nat
  OBVIOUS
<1>5. 0..Len(list) \subseteq Good
  BY <1>2, <1>3, <1>4, Induction, Zenon
<1>6. Len(list) \in Good
  BY <1>4, <1>5
<1> QED
  BY <1>1, <1>6 DEF Good

\* What may pass does.
LEMMA PassingKeeps ==
  ASSUME NEW S, NEW list \in Seq(S), NEW passed, NEW k \in 1..Len(list), k \in passed
  PROVE  \E l \in 1..Len(Passing(list, passed)) : Passing(list, passed)[l] = list[k]
<1>1. PICK kept : /\ kept[0] = <<>> /\ Passing(list, passed) = kept[Len(list)]
                  /\ \A j \in 0..(Len(list) - 1) :
                       kept[j + 1] = IF j + 1 \in passed THEN Append(kept[j], list[j + 1])
                                                         ELSE kept[j]
  BY PassingSteps
<1> DEFINE Holds(n) == \E l \in 1..Len(kept[n]) : kept[n][l] = list[k]
           Good == {n \in 0..Len(list) : kept[n] \in Seq(S) /\ (k <= n => Holds(n))}
<1>2. 0 \in Good
  <2>1. kept[0] = <<>> /\ 0 \in 0..Len(list) /\ ~(k <= 0)
    BY <1>1
  <2>2. <<>> \in Seq(S)
    OBVIOUS
  <2> QED
    BY <2>1, <2>2, Zenon
<1>3. ASSUME NEW j \in 0..(Len(list) - 1), j \in Good PROVE j + 1 \in Good
  <2>1. j + 1 \in 1..Len(list) /\ kept[j] \in Seq(S) /\ list[j + 1] \in S
    BY <1>3
  <2>2. kept[j + 1] = IF j + 1 \in passed THEN Append(kept[j], list[j + 1]) ELSE kept[j]
    BY <1>1
  <2>3. ASSUME k <= j PROVE Holds(j + 1)
    <3>1. PICK l \in 1..Len(kept[j]) : kept[j][l] = list[k]
      BY <1>3, <2>3
    <3>2. l \in 1..Len(kept[j + 1]) /\ kept[j + 1][l] = list[k]
      BY <2>1, <2>2, <3>1
    <3> QED
      BY <3>2
  <2>4. ASSUME k = j + 1 PROVE Holds(j + 1)
    <3>1. kept[j + 1] = Append(kept[j], list[k])
      BY <2>2, <2>4
    <3>2. /\ Len(kept[j]) + 1 \in 1..Len(kept[j + 1])
          /\ kept[j + 1][Len(kept[j]) + 1] = list[k]
      BY <2>1, <3>1
    <3> QED
      BY <3>2
  <2>5. k <= j + 1 => k <= j \/ k = j + 1
    OBVIOUS
  <2>6. kept[j + 1] \in Seq(S)
    BY <2>1, <2>2
  <2> QED
    BY <2>1, <2>3, <2>4, <2>5, <2>6
<1> HIDE DEF Good
<1>4. Len(list) \in Nat
  OBVIOUS
<1>5. 0..Len(list) \subseteq Good
  BY <1>2, <1>3, <1>4, Induction, Zenon
<1>6. Len(list) \in Good /\ k <= Len(list)
  BY <1>4, <1>5
<1> QED
  BY <1>1, <1>6 DEF Good

LEMMA NewestLines ==
  ASSUME NEW Q, NEW list \in Seq(Q), NEW limit \in Nat, limit > 0
  PROVE  /\ Newest(list, limit) \in Seq(Q) /\ Len(Newest(list, limit)) <= limit
BY DEF Newest

----------------------------------------------------------------------------
(* The groups of the worker. *)

GroupsOf(t) == {g \in Groups : TopicOf[g] = t}

\* What belongs to a topic, in the Map or not, is for groups of that topic.
SubsType ==
  /\ joined \subseteq Groups /\ DOMAIN groupSubscriptions \subseteq Topics
  /\ \A t \in DOMAIN groupSubscriptions :
       groupSubscriptions[t] \in [group : GroupsOf(t), open : BOOLEAN]
  /\ subscribing \in [Topics -> Seq(Groups)] /\ strays \in [Topics -> Seq(Groups)]
  /\ \A t \in Topics : subscribing[t] \in Seq(GroupsOf(t)) /\ strays[t] \in Seq(GroupsOf(t))
  /\ overlaps \in [Topics -> Nat]

\* The joins that have opened a subscription of a topic and not stored it are one, if the
\* Map has none, and those that have overlapped; each of these leaves one at most.
Bounded(t) ==
  /\ Len(strays[t]) <= overlaps[t]
  /\ Len(strays[t]) + Len(subscribing[t]) <= overlaps[t] + (IF Has(t) THEN 0 ELSE 1)

\* A group that was joined, and shares its topic with no other, has the subscription of its
\* topic, and what the Map has is for groups that were joined.
Heard ==
  /\ \A t \in DOMAIN groupSubscriptions : groupSubscriptions[t].group \in joined
  /\ \A g \in joined :
       Shared(g) \/ (Has(TopicOf[g]) /\ groupSubscriptions[TopicOf[g]].group = g)

SubsInv == SubsType /\ (\A t \in Topics : Bounded(t)) /\ Heard

\* A history holds what belongs to its group.
HistoryBelongs ==
  \A g \in Groups : \A i \in 1..Len(groupHistory[g]) : BelongsTo(g, groupHistory[g][i])

GroupsInv == GsTypeOK /\ SubsInv /\ HistoryBelongs

LEMMA GroupFacts ==
  /\ \A g \in Groups : TopicOf[g] \in Topics
  /\ \A p \in Posts : GroupOf[p] \in Groups
BY GroupSubscriptionsAssumption

\* The part of GsTypeOK that is not about subscriptions.
OtherTypes ==
  /\ groupsFile \subseteq Groups /\ toLoad \subseteq Groups
  /\ gphase \in {"loading", "running", "flushing", "closing"}
  /\ post \in [Posts -> Posting]
  /\ broadcasts \subseteq Posts /\ groupHistory \in [Groups -> Seq(KeptTexts)]

LEMMA TypesTogether == OtherTypes /\ SubsType => GsTypeOK
BY DEF OtherTypes, SubsType, GsTypeOK, GroupsOf

LEMMA SubsUnchanged == SubsInv /\ UNCHANGED subscribed => SubsInv'
BY DEF SubsInv, SubsType, Bounded, Heard, Has, Shared, GroupsOf, subscribed

\* At first, and again after a restart, the pool has no subscription.
LEMMA SubsBegin ==
  ASSUME groupSubscriptions = None, subscribing = NothingOpen, strays = NothingOpen,
         joined = {}, overlaps = NoOverlaps
  PROVE  SubsInv
<1>1. /\ DOMAIN groupSubscriptions = {} /\ joined = {}
      /\ subscribing = [t \in Topics |-> <<>>] /\ strays = [t \in Topics |-> <<>>]
      /\ overlaps = [t \in Topics |-> 0]
  BY DEF None, NothingOpen, NoOverlaps
<1>2. SubsType
  BY <1>1 DEF SubsType
<1>3. \A t \in Topics : Bounded(t)
  BY <1>1 DEF Bounded, Has
<1> QED
  BY <1>1, <1>2, <1>3 DEF SubsInv, Heard

LEMMA RestartBegins ==
  ASSUME WorkerRestarts
  PROVE  SubsInv'
<1>1. /\ DOMAIN groupSubscriptions' = {} /\ joined' = {}
      /\ subscribing' = [t \in Topics |-> <<>>] /\ strays' = [t \in Topics |-> <<>>]
      /\ overlaps' = [t \in Topics |-> 0]
  BY DEF WorkerRestarts, None, NothingOpen, NoOverlaps
<1>2. SubsType'
  BY <1>1 DEF SubsType
<1>3. \A t \in Topics : Bounded(t)'
  BY <1>1 DEF Bounded, Has
<1> QED
  BY <1>1, <1>2, <1>3 DEF SubsInv, Heard

LEMMA GroupsInvInit == GsInit => GroupsInv
<1> SUFFICES ASSUME GsInit PROVE GroupsInv
  OBVIOUS
<1>1. SubsInv
  BY SubsBegin DEF GsInit
<1>2. OtherTypes
  BY DEF GsInit, OtherTypes, Posting
<1>3. HistoryBelongs
  BY DEF GsInit, HistoryBelongs
<1> QED
  BY <1>1, <1>2, <1>3, TypesTogether DEF GroupsInv, SubsInv

\* A call opens a subscription: it is the first of its topic, or one more join overlaps.
LEMMA OpenKeeps ==
  ASSUME SubsInv, NEW g \in Groups, ~Has(TopicOf[g]), OpenSubscription(g)
  PROVE  SubsInv'
<1> DEFINE topic == TopicOf[g]
           overlapping == IF subscribing[topic] # <<>> THEN 1 ELSE 0
<1>1. topic \in Topics /\ g \in GroupsOf(topic)
  BY GroupFacts DEF GroupsOf
<1>2. /\ subscribing' = [subscribing EXCEPT ![topic] = Append(@, g)]
      /\ overlaps' = [overlaps EXCEPT ![topic] = @ + overlapping]
      /\ UNCHANGED <<groupSubscriptions, strays, joined>>
  BY DEF OpenSubscription, Subscribing
<1>3. /\ subscribing[topic] \in Seq(GroupsOf(topic)) /\ overlaps[topic] \in Nat
      /\ strays[topic] \in Seq(GroupsOf(topic))
  BY <1>1 DEF SubsInv, SubsType
<1>4. /\ subscribing'[topic] = Append(subscribing[topic], g)
      /\ overlaps'[topic] = overlaps[topic] + overlapping
      /\ \A t \in Topics \ {topic} : subscribing'[t] = subscribing[t] /\ overlaps'[t] = overlaps[t]
  BY <1>1, <1>2 DEF SubsInv, SubsType
<1>5. SubsType'
  <2>1. subscribing' \in [Topics -> Seq(Groups)] /\ overlaps' \in [Topics -> Nat]
    BY <1>1, <1>2, <1>3 DEF SubsInv, SubsType
  <2>2. Append(subscribing[topic], g) \in Seq(GroupsOf(topic))
    BY <1>1, <1>3
  <2>4. \A t \in Topics \ {topic} : subscribing'[t] \in Seq(GroupsOf(t))
    BY <1>4 DEF SubsInv, SubsType
  <2>3. \A t \in Topics : subscribing'[t] \in Seq(GroupsOf(t))
    BY <1>4, <2>2, <2>4
  <2> QED
    BY <1>2, <2>1, <2>3 DEF SubsInv, SubsType, GroupsOf
<1>6. ASSUME NEW t \in Topics PROVE Bounded(t)'
  <2>1. CASE t # topic
    BY <1>2, <1>4, <2>1 DEF SubsInv, Bounded, Has
  <2>2. CASE t = topic
    <3> DEFINE left == Len(strays[topic])
               waiting == Len(subscribing[topic])
               counted == overlaps[topic]
    <3>1. left \in Nat /\ waiting \in Nat /\ counted \in Nat
      BY <1>3
    <3>2. left <= counted /\ left + waiting <= counted + 1
      BY <1>1 DEF SubsInv, Bounded
    <3>3. overlapping \in {0, 1} /\ (waiting # 0 => overlapping = 1)
      BY <1>3
    <3>4. /\ Len(subscribing'[topic]) = waiting + 1 /\ strays' = strays
          /\ overlaps'[topic] = counted + overlapping /\ ~Has(topic)'
      BY <1>2, <1>3, <1>4 DEF Has
    <3>5. Len(strays'[topic]) = left
      BY <3>4
    <3> HIDE DEF left, waiting, counted, overlapping
    <3>6. left <= counted + overlapping /\ left + (waiting + 1) <= counted + overlapping + 1
      BY <3>1, <3>2, <3>3
    <3>7. /\ Len(strays'[topic]) <= overlaps'[topic]
          /\ Len(strays'[topic]) + Len(subscribing'[topic]) <= overlaps'[topic] + 1
      BY <3>4, <3>5, <3>6
    <3> HIDE DEF topic
    <3> QED
      BY <2>2, <3>4, <3>7 DEF Bounded
  <2> QED
    BY <2>1, <2>2
<1>7. Heard'
  BY <1>2 DEF SubsInv, Heard, Has, Shared
<1> QED
  BY <1>5, <1>6, <1>7 DEF SubsInv

LEMMA SubscribeKeeps ==
  ASSUME SubsInv, NEW g \in Groups, SubscribeToGroup(g)
  PROVE  SubsInv'
<1> DEFINE topic == TopicOf[g]
<1>1. CASE Has(topic) /\ joined' = joined \cup {g}
           /\ UNCHANGED <<groupSubscriptions, subscribing, strays, overlaps>>
  <2>1. groupSubscriptions[topic].group \in Groups
        /\ TopicOf[groupSubscriptions[topic].group] = topic
    BY <1>1 DEF SubsInv, SubsType, Has, GroupsOf
  <2>2. Shared(g) \/ groupSubscriptions[topic].group = g
    BY <2>1 DEF Shared
  <2>3. Heard'
    BY <1>1, <2>2 DEF SubsInv, Heard, Has, Shared
  <2>4. SubsType' /\ \A t \in Topics : Bounded(t)'
    BY <1>1 DEF SubsInv, SubsType, Bounded, Has, GroupsOf
  <2> QED
    BY <2>3, <2>4 DEF SubsInv
<1>2. CASE UNCHANGED subscribed
  BY <1>2, SubsUnchanged
<1>3. CASE ~Has(topic) /\ OpenSubscription(g)
  BY <1>3, OpenKeeps
<1> QED
  BY <1>1, <1>2, <1>3 DEF SubscribeToGroup

\* A call stores its subscription: the one that it replaces is counted as a stray.
LEMMA StoreKeeps ==
  ASSUME SubsInv, NEW t \in Topics, StoreSubscription(t)
  PROVE  SubsInv'
<1> DEFINE g == Head(subscribing[t])
<1>1. /\ subscribing[t] \in Seq(GroupsOf(t)) /\ subscribing[t] # <<>>
      /\ strays[t] \in Seq(GroupsOf(t)) /\ overlaps[t] \in Nat
  BY DEF StoreSubscription, Subscribing, SubsInv, SubsType
<1>2. g \in GroupsOf(t) /\ g \in Groups /\ TopicOf[g] = t
  <2>1. g \in GroupsOf(t)
    BY <1>1
  <2> QED
    BY <2>1 DEF GroupsOf
<1>3. /\ groupSubscriptions' = [u \in DOMAIN groupSubscriptions \cup {t} |->
                                  IF u = t THEN [group |-> g, open |-> TRUE]
                                           ELSE groupSubscriptions[u]]
      /\ joined' = joined \cup {g} /\ subscribing' = [subscribing EXCEPT ![t] = Tail(@)]
      /\ strays' = IF OpenEntry(t)
                   THEN [strays EXCEPT ![t] = Append(@, groupSubscriptions[t].group)]
                   ELSE strays
      /\ overlaps' = overlaps
  BY DEF StoreSubscription
<1> HIDE DEF g
<1>4. /\ DOMAIN groupSubscriptions' = DOMAIN groupSubscriptions \cup {t}
      /\ groupSubscriptions'[t] = [group |-> g, open |-> TRUE]
      /\ \A u \in DOMAIN groupSubscriptions \ {t} : groupSubscriptions'[u] = groupSubscriptions[u]
  BY <1>3
<1>5. /\ subscribing' \in [Topics -> Seq(Groups)] /\ subscribing'[t] \in Seq(GroupsOf(t))
      /\ Len(subscribing'[t]) = Len(subscribing[t]) - 1
      /\ \A u \in Topics \ {t} : subscribing'[u] = subscribing[u]
  <2>1. Tail(subscribing[t]) \in Seq(GroupsOf(t)) /\ Len(Tail(subscribing[t])) = Len(subscribing[t]) - 1
    BY <1>1
  <2>2. subscribing'[t] = Tail(subscribing[t])
    BY <1>3 DEF SubsInv, SubsType
  <2>3. subscribing \in [Topics -> Seq(Groups)] /\ Tail(subscribing[t]) \in Seq(Groups)
    <3>1. subscribing \in [Topics -> Seq(Groups)] /\ subscribing[t] \in Seq(Groups)
      BY DEF SubsInv, SubsType
    <3> QED
      BY <1>1, <3>1
  <2> QED
    BY <1>3, <2>1, <2>2, <2>3
<1>6. /\ strays' \in [Topics -> Seq(Groups)] /\ strays'[t] \in Seq(GroupsOf(t))
      /\ Len(strays'[t]) = Len(strays[t]) + (IF OpenEntry(t) THEN 1 ELSE 0)
      /\ \A u \in Topics \ {t} : strays'[u] = strays[u]
  <2>1. CASE OpenEntry(t)
    <3> DEFINE old == groupSubscriptions[t].group
    <3>1. old \in GroupsOf(t) /\ old \in Groups
      BY <2>1 DEF OpenEntry, Has, SubsInv, SubsType, GroupsOf
    <3>2. strays \in [Topics -> Seq(Groups)] /\ strays' = [strays EXCEPT ![t] = Append(@, old)]
      BY <1>3, <2>1 DEF SubsInv, SubsType
    <3> HIDE DEF old
    <3>3. strays'[t] = Append(strays[t], old)
      BY <3>2
    <3> QED
      BY <1>1, <2>1, <3>1, <3>2, <3>3
  <2>2. CASE ~OpenEntry(t)
    BY <1>1, <1>3, <2>2 DEF SubsInv, SubsType
  <2> QED
    BY <2>1, <2>2
<1>7. SubsType'
  <2>1. \A u \in DOMAIN groupSubscriptions' :
          groupSubscriptions'[u] \in [group : GroupsOf(u), open : BOOLEAN]
    <3>1. [group |-> g, open |-> TRUE] \in [group : GroupsOf(t), open : BOOLEAN]
      BY <1>2
    <3>2. \A u \in DOMAIN groupSubscriptions :
            groupSubscriptions[u] \in [group : GroupsOf(u), open : BOOLEAN]
      BY DEF SubsInv, SubsType
    <3> QED
      BY <1>4, <3>1, <3>2
  <2>2. \A u \in Topics : subscribing'[u] \in Seq(GroupsOf(u)) /\ strays'[u] \in Seq(GroupsOf(u))
    BY <1>5, <1>6 DEF SubsInv, SubsType
  <2> QED
    BY <1>2, <1>3, <1>4, <1>5, <1>6, <2>1, <2>2 DEF SubsInv, SubsType, GroupsOf
<1>8. ASSUME NEW u \in Topics PROVE Bounded(u)'
  <2>1. CASE u # t
    <3>1. Has(u)' = Has(u)
      BY <1>4, <2>1 DEF Has
    <3> QED
      BY <1>3, <1>5, <1>6, <2>1, <3>1 DEF SubsInv, Bounded
  <2>2. CASE u = t
    <3> DEFINE left == Len(strays[t])
               waiting == Len(subscribing[t])
               counted == overlaps[t]
    <3>1. left \in Nat /\ waiting \in Nat /\ waiting >= 1 /\ counted \in Nat
      BY <1>1
    <3>2. left <= counted /\ left + waiting <= counted + (IF Has(t) THEN 0 ELSE 1)
      BY DEF SubsInv, Bounded
    <3>3. Has(t)' /\ (OpenEntry(t) => Has(t)) /\ overlaps'[t] = counted
      BY <1>3, <1>4 DEF Has, OpenEntry
    <3>4. /\ Len(subscribing'[t]) = waiting - 1
          /\ Len(strays'[t]) = left + (IF OpenEntry(t) THEN 1 ELSE 0)
      BY <1>5, <1>6
    <3> HIDE DEF left, waiting, counted
    <3>5. CASE OpenEntry(t)
      <4>1. Len(strays'[t]) = left + 1
        BY <3>4, <3>5
      <4>2. left + waiting <= counted + 0
        BY <3>2, <3>3, <3>5
      <4>3. left + 1 <= counted /\ (left + 1) + (waiting - 1) <= counted
        BY <3>1, <4>2
      <4> QED
        BY <2>2, <3>1, <3>3, <3>4, <4>1, <4>3 DEF Bounded
    <3>6. CASE ~OpenEntry(t)
      <4>1. Len(strays'[t]) = left /\ left + waiting <= counted + 1
        BY <3>1, <3>2, <3>4, <3>6
      <4>2. left + (waiting - 1) <= counted
        BY <3>1, <4>1
      <4> QED
        BY <2>2, <3>1, <3>2, <3>3, <3>4, <4>1, <4>2 DEF Bounded
    <3> QED
      BY <3>5, <3>6
  <2> QED
    BY <2>1, <2>2
<1>9. Heard'
  <2>1. \A h \in joined : TopicOf[h] = t /\ h # g => Shared(h)
    BY <1>2 DEF Shared, SubsInv, SubsType
  <2> QED
    BY <1>2, <1>3, <1>4, <2>1 DEF SubsInv, Heard, Has, Shared
<1> QED
  BY <1>7, <1>8, <1>9 DEF SubsInv

\* A topic that loses strays, or its place in the Map, stays within its bound.
LEMMA FewerKeep ==
  ASSUME SubsInv, NEW t \in Topics, strays'[t] \in Seq(GroupsOf(t)),
         Len(strays'[t]) <= Len(strays[t]), subscribing'[t] = subscribing[t],
         overlaps'[t] = overlaps[t], Has(t)' => Has(t)
  PROVE  Bounded(t)'
<1> DEFINE left == Len(strays[t])
           leftThen == Len(strays'[t])
           waiting == Len(subscribing[t])
           counted == overlaps[t]
           free == IF Has(t) THEN 0 ELSE 1
           freeThen == IF Has(t)' THEN 0 ELSE 1
<1>1. left \in Nat /\ leftThen \in Nat /\ waiting \in Nat /\ counted \in Nat
  <2>1. strays[t] \in Seq(GroupsOf(t)) /\ subscribing[t] \in Seq(GroupsOf(t)) /\ counted \in Nat
    BY DEF SubsInv, SubsType
  <2> QED
    BY <2>1
<1>2. left <= counted /\ left + waiting <= counted + free /\ leftThen <= left
  BY DEF SubsInv, Bounded
<1>3. free \in Nat /\ freeThen \in Nat /\ free <= freeThen
  OBVIOUS
<1>4. Len(subscribing'[t]) = waiting /\ overlaps'[t] = counted
  OBVIOUS
<1>5. (leftThen <= counted /\ leftThen + waiting <= counted + freeThen) => Bounded(t)'
  BY <1>4 DEF Bounded
<1> HIDE DEF left, leftThen, waiting, counted, free, freeThen
<1> QED
  BY <1>1, <1>2, <1>3, <1>5

LEMMA UnsubscribeKeeps ==
  ASSUME SubsInv, NEW g \in Groups, UnsubscribeFromGroup(g)
  PROVE  SubsInv'
<1> DEFINE topic == TopicOf[g]
<1>1. /\ groupSubscriptions' = [t \in DOMAIN groupSubscriptions \ {topic} |-> groupSubscriptions[t]]
      /\ joined' = joined \ {g} /\ UNCHANGED <<subscribing, strays, overlaps>>
  <2>1. (DOMAIN groupSubscriptions \ {topic}) \cap DOMAIN groupSubscriptions
          = DOMAIN groupSubscriptions \ {topic}
    OBVIOUS
  <2> QED
    BY <2>1 DEF UnsubscribeFromGroup, Restrict
<1>2. SubsType'
  BY <1>1 DEF SubsInv, SubsType, GroupsOf
<1>3. ASSUME NEW t \in Topics PROVE Bounded(t)'
  <2>1. Has(t)' => Has(t)
    BY <1>1 DEF Has
  <2>2. strays[t] \in Seq(GroupsOf(t)) /\ Len(strays[t]) <= Len(strays[t])
    BY DEF SubsInv, SubsType
  <2> QED
    BY <1>1, <2>1, <2>2, FewerKeep
<1>4. Heard'
  <2>1. ASSUME NEW t \in DOMAIN groupSubscriptions, t # topic
        PROVE  groupSubscriptions[t].group \in joined \ {g}
    BY <2>1 DEF SubsInv, SubsType, Heard, GroupsOf
  <2>2. ASSUME NEW h \in joined, h # g, ~Shared(h) PROVE TopicOf[h] # topic
    BY <2>2 DEF Shared
  <2> QED
    BY <1>1, <2>1, <2>2 DEF SubsInv, Heard, Has, Shared
<1> QED
  BY <1>2, <1>3, <1>4 DEF SubsInv

\* The relays end the subscription that the Map has, or a stray.
LEMMA EndingKeeps ==
  ASSUME SubsInv, NEW t \in Topics, SubscriptionEnds(t)
  PROVE  SubsInv'
<1>1. UNCHANGED <<subscribing, joined, overlaps>>
  BY DEF SubscriptionEnds
<1>2. CASE /\ OpenEntry(t) /\ UNCHANGED strays
           /\ groupSubscriptions' = [groupSubscriptions EXCEPT ![t].open = FALSE]
  <2>1. t \in DOMAIN groupSubscriptions
    BY <1>2 DEF OpenEntry, Has
  <2>2. /\ DOMAIN groupSubscriptions' = DOMAIN groupSubscriptions
        /\ \A u \in DOMAIN groupSubscriptions :
             /\ groupSubscriptions'[u] \in [group : GroupsOf(u), open : BOOLEAN]
             /\ groupSubscriptions'[u].group = groupSubscriptions[u].group
    BY <1>2, <2>1 DEF SubsInv, SubsType
  <2>3. SubsType' /\ \A u \in Topics : Bounded(u)'
    BY <1>1, <1>2, <2>2 DEF SubsInv, SubsType, Bounded, Has, GroupsOf
  <2>4. Heard'
    BY <1>1, <2>2 DEF SubsInv, SubsType, Heard, Has, Shared
  <2> QED
    BY <2>3, <2>4 DEF SubsInv
<1>3. ASSUME UNCHANGED groupSubscriptions, NEW k \in DOMAIN strays[t],
             strays' = [strays EXCEPT ![t] = Passing(@, DOMAIN @ \ {k})]
      PROVE  SubsInv'
  <2> DEFINE left == Passing(strays[t], DOMAIN strays[t] \ {k})
  <2>1. /\ strays[t] \in Seq(GroupsOf(t)) /\ strays[t] \in Seq(Groups)
        /\ strays \in [Topics -> Seq(Groups)]
    BY DEF SubsInv, SubsType
  <2>2. \A i \in 1..Len(strays[t]) : strays[t][i] \in GroupsOf(t) /\ strays[t][i] \in Groups
    BY <2>1
  <2>3. left \in Seq(GroupsOf(t)) /\ left \in Seq(Groups) /\ Len(left) <= Len(strays[t])
    BY <2>1, <2>2, PassingLines
  <2>4. strays' = [strays EXCEPT ![t] = left]
    BY <1>3
  <2> HIDE DEF left
  <2>5. strays' \in [Topics -> Seq(Groups)] /\ strays'[t] = left
        /\ \A u \in Topics \ {t} : strays'[u] = strays[u]
    BY <2>1, <2>3, <2>4
  <2>6. SubsType'
    <3>1. \A u \in Topics : strays'[u] \in Seq(GroupsOf(u))
      BY <2>3, <2>5 DEF SubsInv, SubsType
    <3> QED
      BY <1>1, <1>3, <2>5, <3>1 DEF SubsInv, SubsType, GroupsOf
  <2>7. ASSUME NEW u \in Topics PROVE Bounded(u)'
    <3>1. strays[u] \in Seq(GroupsOf(u)) /\ strays'[u] \in Seq(GroupsOf(u))
      BY <2>3, <2>5 DEF SubsInv, SubsType
    <3>2. Len(strays'[u]) <= Len(strays[u])
      BY <2>3, <2>5, <3>1
    <3>3. Has(u)' = Has(u)
      BY <1>3 DEF Has
    <3> QED
      BY <1>1, <3>1, <3>2, <3>3, FewerKeep
  <2>8. Heard'
    BY <1>1, <1>3 DEF SubsInv, Heard, Has, Shared
  <2> QED
    BY <2>6, <2>7, <2>8 DEF SubsInv
<1> QED
  BY <1>2, <1>3 DEF SubscriptionEnds

\* shutdown closes what the Map has.
LEMMA CloseKeeps ==
  ASSUME SubsInv, CloseGroups
  PROVE  SubsInv'
<1>1. /\ DOMAIN groupSubscriptions' = {} /\ joined' = {}
      /\ UNCHANGED <<subscribing, strays, overlaps>>
  BY DEF CloseGroups, None
<1>2. SubsType' /\ Heard'
  BY <1>1 DEF SubsInv, SubsType, Heard, GroupsOf
<1>3. ASSUME NEW t \in Topics PROVE Bounded(t)'
  <2>1. strays[t] \in Seq(GroupsOf(t)) /\ Len(strays[t]) <= Len(strays[t])
    BY DEF SubsInv, SubsType
  <2> QED
    BY <1>1, <2>1, FewerKeep DEF Has
<1> QED
  BY <1>2, <1>3 DEF SubsInv

\* What a line that belongs to a group does to the histories.
LEMMA SaveKeeps ==
  ASSUME GsTypeOK, HistoryBelongs, NEW g \in Groups, NEW text \in KeptTexts,
         broadcasts \subseteq broadcasts', BelongsTo(g, text)', SaveMessageToHistory(g, text)
  PROVE  HistoryBelongs' /\ groupHistory' \in [Groups -> Seq(KeptTexts)]
<1> DEFINE Own(h) == {p \in broadcasts : GroupOf[p] = h} \cup {TopicOf[h], "garbled", "raw"}
<1>1. \A h : Own(h) \subseteq Own(h)' /\ text \in Own(g)'
  BY DEF BelongsTo
<1>4. \A h \in Groups, i \in Nat : i \in 1..Len(groupHistory[h]) => groupHistory[h][i] \in Own(h)
  BY DEF HistoryBelongs, BelongsTo
<1>5. (\A h \in Groups : \A i \in 1..Len(groupHistory'[h]) : groupHistory'[h][i] \in Own(h)')
        => HistoryBelongs'
  BY DEF HistoryBelongs, BelongsTo
<1> HIDE DEF Own
<1>2. CASE groupHistory' = [groupHistory EXCEPT ![g] = Append(@, text)]
  <2>1. /\ groupHistory'[g] = Append(groupHistory[g], text) /\ groupHistory[g] \in Seq(KeptTexts)
        /\ \A h \in Groups \ {g} : groupHistory'[h] = groupHistory[h]
        /\ groupHistory' \in [Groups -> Seq(KeptTexts)]
    BY <1>2 DEF GsTypeOK
  <2>2. ASSUME NEW h \in Groups, NEW i \in 1..Len(groupHistory'[h])
        PROVE  groupHistory'[h][i] \in Own(h)'
    <3>1. CASE h # g
      BY <1>1, <1>4, <2>1, <3>1
    <3>2. CASE h = g /\ i = Len(groupHistory[g]) + 1
      BY <1>1, <2>1, <3>2
    <3>3. CASE h = g /\ i # Len(groupHistory[g]) + 1
      <4>1. i \in 1..Len(groupHistory[g]) /\ groupHistory'[g][i] = groupHistory[g][i]
        BY <2>1, <3>3
      <4> QED
        BY <1>1, <1>4, <3>3, <4>1
    <3> QED
      BY <3>1, <3>2, <3>3
  <2> QED
    BY <1>5, <2>1, <2>2
<1>3. CASE groupHistory' = groupHistory
  BY <1>1, <1>3, <1>4, <1>5 DEF GsTypeOK
<1> QED
  BY <1>2, <1>3 DEF SaveMessageToHistory

\* Whatever is received for a topic reads as that topic's text or cannot be told from it.
LEMMA TopicOrNone ==
  ASSUME NEW t \in Topics, NEW c \in Contents, NEW text \in DecryptGroupMessage(t, c)
  PROVE  text \in {t, "garbled", "raw"}
<1>1. CASE c.form = "v2"
  <2>1. text = (IF DecryptsAuthenticated(t, c) THEN c.for ELSE "raw")
    BY <1>1 DEF DecryptGroupMessage
  <2>2. DecryptsAuthenticated(t, c) => c.for = t
    BY DEF DecryptsAuthenticated, DeriveGroupKey
  <2> QED
    BY <2>1, <2>2
<1>2. CASE c.form = "legacy"
  BY <1>2 DEF DecryptGroupMessage, DecryptLegacyGroupMessage
<1>3. CASE c.form # "v2" /\ c.form # "legacy"
  BY <1>3 DEF DecryptGroupMessage
<1> QED
  BY <1>1, <1>2, <1>3

LEMMA GroupsInvKept == GroupsInv /\ [GsNext]_gsVars => GroupsInv'
<1> SUFFICES ASSUME GroupsInv, [GsNext]_gsVars PROVE GroupsInv'
  OBVIOUS
<1>0. SubsInv /\ HistoryBelongs /\ GsTypeOK /\ OtherTypes
  BY DEF GroupsInv, GsTypeOK, OtherTypes
<1>1. SubsInv' /\ OtherTypes' /\ HistoryBelongs' => GroupsInv'
  <2>1. (OtherTypes /\ SubsType => GsTypeOK)'
    BY TypesTogether, PTL
  <2> QED
    BY <2>1 DEF GroupsInv, SubsInv
<1>2. \A h, line : broadcasts \subseteq broadcasts' => (BelongsTo(h, line) => BelongsTo(h, line)')
  BY DEF BelongsTo
<1>3. UNCHANGED <<broadcasts, groupHistory>> => HistoryBelongs'
  BY <1>0, <1>2 DEF HistoryBelongs
<1>4. ASSUME NEW g \in Groups, LoadGroup(g) \/ JoinCommand(g) \/ LeaveCommand(g) PROVE GroupsInv'
  <2>1. /\ gphase' = gphase /\ groupsFile' = groupsFile /\ toLoad' \subseteq toLoad
        /\ post' = post /\ broadcasts' = broadcasts /\ groupHistory' = groupHistory
        /\ SubscribeToGroup(g) \/ UnsubscribeFromGroup(g)
    BY <1>4 DEF LoadGroup, JoinCommand, LeaveCommand, posted
  <2>2. SubsInv'
    BY <1>0, <2>1, SubscribeKeeps, UnsubscribeKeeps
  <2>3. OtherTypes'
    BY <1>0, <2>1 DEF OtherTypes
  <2> QED
    BY <1>1, <1>3, <2>1, <2>2, <2>3
<1>5. ASSUME NEW t \in Topics, StoreSubscription(t) \/ SubscriptionEnds(t) PROVE GroupsInv'
  <2>1. UNCHANGED <<groupsFile, gphase, toLoad, post, broadcasts, groupHistory>>
    BY <1>5 DEF StoreSubscription, SubscriptionEnds, posted
  <2>2. SubsInv'
    BY <1>0, <1>5, StoreKeeps, EndingKeeps
  <2>3. OtherTypes'
    BY <1>0, <2>1 DEF OtherTypes
  <2> QED
    BY <1>1, <1>3, <2>1, <2>2, <2>3
<1>6. ASSUME NEW t \in Topics, NEW c \in Contents, GroupEvent(t, c) PROVE GroupsInv'
  <2>1. /\ UNCHANGED <<groupsFile, gphase, toLoad, post, broadcasts>> /\ UNCHANGED subscribed
    BY <1>6 DEF GroupEvent
  <2>2. PICK g \in Listening(t), text \in DecryptGroupMessage(t, c) : SaveMessageToHistory(g, text)
    BY <1>6 DEF GroupEvent
  <2>3. g \in GroupsOf(t)
    <3>1. CASE OpenEntry(t) /\ g = groupSubscriptions[t].group
      BY <1>0, <3>1 DEF OpenEntry, Has, SubsInv, SubsType
    <3>2. CASE g \in Range(strays[t])
      <4>1. PICK k \in DOMAIN strays[t] : g = strays[t][k]
        BY <3>2 DEF Range
      <4>2. strays[t] \in Seq(GroupsOf(t))
        BY <1>0 DEF SubsInv, SubsType
      <4> QED
        BY <4>1, <4>2
    <3> QED
      BY <2>2, <3>1, <3>2 DEF Listening
  <2>4. g \in Groups /\ TopicOf[g] = t
    BY <2>3 DEF GroupsOf
  <2>5. text \in {t, "garbled", "raw"}
    BY TopicOrNone
  <2>6. text \in KeptTexts /\ BelongsTo(g, text)'
    BY <2>1, <2>4, <2>5 DEF KeptTexts, BelongsTo
  <2>7. HistoryBelongs' /\ groupHistory' \in [Groups -> Seq(KeptTexts)]
    BY <1>0, <2>1, <2>2, <2>4, <2>6, SaveKeeps
  <2>8. OtherTypes' /\ SubsInv'
    BY <1>0, <2>1, <2>7, SubsUnchanged DEF OtherTypes
  <2> QED
    BY <1>1, <2>7, <2>8
<1>7. ASSUME NEW p \in Posts, GroupSent(p) PROVE GroupsInv'
  <2>1. /\ post[p] = "broadcasting" /\ broadcasts' = broadcasts \cup {p}
        /\ SaveMessageToHistory(GroupOf[p], p)
        /\ UNCHANGED <<groupsFile, gphase, toLoad>> /\ UNCHANGED subscribed
    BY <1>7 DEF GroupSent
  <2>2. post' \in [Posts -> Posting]
    BY <1>0, <1>7 DEF GroupSent, OtherTypes, Posting
  <2>3. GroupOf[p] \in Groups /\ p \in KeptTexts /\ BelongsTo(GroupOf[p], p)'
    BY <2>1, GroupFacts DEF KeptTexts, BelongsTo
  <2>4. HistoryBelongs' /\ groupHistory' \in [Groups -> Seq(KeptTexts)]
    BY <1>0, <2>1, <2>3, SaveKeeps
  <2>5. OtherTypes' /\ SubsInv'
    BY <1>0, <2>1, <2>2, <2>4, SubsUnchanged DEF OtherTypes
  <2> QED
    BY <1>1, <2>4, <2>5
<1>8. ASSUME NEW p \in Posts, GroupSendRefused(p) \/ GroupSendBegin(p) \/ GroupSendFails(p)
      PROVE  GroupsInv'
  <2>1. /\ post' \in [Posts -> Posting] /\ broadcasts' \in {broadcasts, broadcasts \cup {p}}
        /\ UNCHANGED <<groupsFile, gphase, toLoad, groupHistory>> /\ UNCHANGED subscribed
    BY <1>0, <1>8 DEF GroupSendRefused, GroupSendBegin, GroupSendFails, OtherTypes, Posting
  <2>2. broadcasts \subseteq broadcasts' /\ broadcasts' \subseteq Posts
    BY <1>0, <2>1 DEF OtherTypes
  <2>3. HistoryBelongs'
    BY <1>0, <1>2, <2>1, <2>2 DEF HistoryBelongs
  <2>4. OtherTypes' /\ SubsInv'
    BY <1>0, <2>1, <2>2, SubsUnchanged DEF OtherTypes
  <2> QED
    BY <1>1, <2>3, <2>4
<1>9. CASE GroupsLoaded \/ ShutdownBegins \/ UNCHANGED gsVars
  <2>1. /\ UNCHANGED <<groupsFile, toLoad, post, broadcasts, groupHistory>> /\ UNCHANGED subscribed
        /\ gphase' \in {"loading", "running", "flushing", "closing"}
    BY <1>0, <1>9 DEF GroupsLoaded, ShutdownBegins, gsVars, OtherTypes, posted
  <2>2. OtherTypes' /\ SubsInv'
    BY <1>0, <2>1, SubsUnchanged DEF OtherTypes
  <2> QED
    BY <1>1, <1>3, <2>1, <2>2
<1>10. CASE CloseGroups
  <2>1. gphase' = "closing" /\ UNCHANGED <<groupsFile, toLoad, post, broadcasts, groupHistory>>
    BY <1>10 DEF CloseGroups, posted
  <2>2. OtherTypes' /\ SubsInv'
    BY <1>0, <1>10, <2>1, CloseKeeps DEF OtherTypes
  <2> QED
    BY <1>1, <1>3, <2>1, <2>2
<1>11. CASE WorkerRestarts
  <2>1. /\ gphase' = "loading" /\ toLoad' = groupsFile
        /\ UNCHANGED <<groupsFile, broadcasts, groupHistory>>
    BY <1>11 DEF WorkerRestarts
  <2>2. post' \in [Posts -> Posting]
    BY <1>0, <1>11 DEF WorkerRestarts, OtherTypes, Posting
  <2>3. OtherTypes'
    BY <1>0, <2>1, <2>2 DEF OtherTypes
  <2>4. SubsInv'
    BY <1>11, RestartBegins
  <2> QED
    BY <1>1, <1>3, <2>1, <2>3, <2>4
<1> QED
  BY <1>4, <1>5, <1>6, <1>7, <1>8, <1>9, <1>10, <1>11 DEF GsNext

\* Each overlapping join leaves at most one subscription that nobody can close, what the Map
\* has is what was joined, and what a reader gets of a history belongs to the group, for any
\* groups, topics and messages, and any number of joins that overlap.
THEOREM SubscriptionsAlwaysMatch == GsSpec => []SubscriptionsMatch
<1>1. GroupsInv => SubscriptionsMatch
  <2> SUFFICES ASSUME GroupsInv PROVE SubscriptionsMatch
    OBVIOUS
  <2>1. \A t \in Topics : Len(strays[t]) <= overlaps[t]
    BY DEF GroupsInv, SubsInv, Bounded
  <2>2. /\ \A t \in DOMAIN groupSubscriptions : groupSubscriptions[t].group \in joined
        /\ \A g \in joined :
             Shared(g) \/ (Has(TopicOf[g]) /\ groupSubscriptions[TopicOf[g]].group = g)
    BY DEF GroupsInv, SubsInv, Heard
  <2>3. ASSUME NEW g \in Groups, NEW limit \in 1..MaxHistory,
               NEW passed \in SUBSET DOMAIN groupHistory[g]
        PROVE  LET page == GetMessageHistory(g, limit, passed) IN
               Len(page) <= limit /\ \A i \in DOMAIN page : BelongsTo(g, page[i])
    <3> DEFINE texts == {text \in KeptTexts : BelongsTo(g, text)}
               list == groupHistory[g]
               page == GetMessageHistory(g, limit, passed)
    <3>1. list \in Seq(KeptTexts) /\ \A i \in 1..Len(list) : list[i] \in texts
      BY DEF GroupsInv, GsTypeOK, HistoryBelongs
    <3> HIDE DEF texts
    <3>2. Passing(list, passed) \in Seq(texts)
      BY <3>1, PassingLines
    <3>3. limit \in Nat /\ limit > 0
      BY GroupSubscriptionsAssumption
    <3>4. page \in Seq(texts) /\ Len(page) <= limit
      BY <3>2, <3>3, NewestLines DEF GetMessageHistory
    <3> HIDE DEF page
    <3>5. Len(page) <= limit /\ \A i \in DOMAIN page : BelongsTo(g, page[i])
      BY <3>4 DEF texts
    <3> QED
      BY <3>5 DEF page
  <2> QED
    BY <2>1, <2>2, <2>3 DEF SubscriptionsMatch
<1> QED
  BY <1>1, GroupsInvInit, GroupsInvKept, PTL DEF GsSpec

----------------------------------------------------------------------------
(* The client. *)

SendStages == {"none", "encrypting", "given", "flushed", "ok", "failed"}
Underway == {"encrypting", "given", "flushed"}

\* The types of what owns and sends; those of messages do not matter here.
OwnerTypeOK ==
  /\ owner \in {"client", "runtime"}
  /\ net \in [Networks -> Hearing \cup {"none", "ended"}]
  /\ asked \subseteq Networks /\ network \in Networks \cup {0} /\ starting \subseteq Networks
  /\ connected \in BOOLEAN /\ crossed \in BOOLEAN
  /\ stage \in [Sends -> SendStages] /\ given \in [Sends -> Networks \cup {0}]
  /\ batched \subseteq Sends /\ parted \subseteq Sends

\* A new network is one that nothing refers to yet.
UsedKnown ==
  /\ network # 0 => net[network] # "none"
  /\ \A n \in asked \cup starting : net[n] # "none"
  /\ \A s \in Sends : given[s] # 0 => net[given[s]] # "none"

\* Until calls cross, the only network that can be awaited is the present one, by an
\* owner that is not connected.
StartIsLast ==
  ~crossed => \A n \in starting :
    n = network /\ n \notin asked /\ net[n] = "connecting" /\ ~connected

\* A client that has ever created a network, or is connected, has a present one.
ClientHasNetwork ==
  owner = "client" =>
    /\ connected \/ starting # {} => network # 0
    /\ \A s \in Sends : stage[s] # "none" => network # 0

\* Where the message of each call is: a call during which neither init nor disconnect
\* came has a connected client, and has used its present network.
SendsFollow ==
  \A s \in Sends :
    /\ owner = "runtime" => stage[s] \in {"none", "ok"}
    /\ stage[s] \in Underway /\ s \notin parted => connected
    /\ stage[s] \in {"given", "flushed"} =>
         given[s] # 0 /\ (given[s] # network => s \in parted)
    /\ s \in batched => given[s] # 0 /\ stage[s] \notin {"none", "encrypting", "failed"}
    /\ stage[s] = "flushed" /\ s \in batched => given[s] # network

ClientInv ==
  /\ OwnerTypeOK /\ UsedKnown /\ StartIsLast /\ ClientHasNetwork /\ SendsFollow
  /\ NetworksHeld
  /\ owner = "runtime" => \A s \in batched : given[s] = network

\* The invariant of the client holds at the start, and at every step.
LEMMA ClientInvInit == Init => ClientInv
  BY ClientAssumption DEF Init, ClientInv, OwnerTypeOK, UsedKnown, StartIsLast, ClientHasNetwork,
       SendsFollow, NetworksHeld, SendStages, Underway, Hearing, Trying

\* Messages, and those who wait for them, change nothing of the rest.
LEMMA MessagesApart ==
  ASSUME \/ \E n \in Networks, m \in Msgs : Receive(n, m)
         \/ \E m \in Msgs : Decrypted(m)
         \/ Recv \/ Subscribe
         \/ \E w \in Waiters : WaitForMessage(w) \/ WaitTimeout(w)
  PROVE  UNCHANGED <<owner, ownerVars, sendVars>>
  BY DEF Receive, Decrypted, Recv, Subscribe, WaitForMessage, WaitTimeout

LEMMA ClientInvKept == ClientInv /\ [Next]_vars => ClientInv'
<1> SUFFICES ASSUME ClientInv, [Next]_vars PROVE ClientInv'
  OBVIOUS
<1> USE ClientAssumption
    DEF ClientInv, OwnerTypeOK, UsedKnown, StartIsLast, ClientHasNetwork, SendsFollow,
        NetworksHeld, Held, SendStages, Underway, Hearing, Trying, Goes, InBatch,
        sendVars, ownerVars
<1>1. ASSUME NEW n \in Networks, ClientInit(n) PROVE ClientInv'
  <2> USE <1>1 DEF ClientInit, Create, Part
  <2>1. OwnerTypeOK'
    OBVIOUS
  <2>2. UsedKnown'
    OBVIOUS
  <2>3. StartIsLast'
    OBVIOUS
  <2>4. ClientHasNetwork'
    OBVIOUS
  <2>5. NetworksHeld'
    OBVIOUS
  <2>6. SendsFollow'
    OBVIOUS
  <2> QED
    BY <2>1, <2>2, <2>3, <2>4, <2>5, <2>6
<1>2. ASSUME NEW n \in Networks, ClientInitReturns(n) PROVE ClientInv'
  BY <1>2 DEF ClientInitReturns, Create, Part, Cleanup
<1>3. ASSUME NEW n \in Networks, ClientInitFails(n) PROVE ClientInv'
  BY <1>3 DEF ClientInitFails, Create, Part, Cleanup
<1>4. ASSUME NEW n \in Networks, Start(n) PROVE ClientInv'
  BY <1>4 DEF Start, Create, Part, Cleanup
<1>5. ASSUME NEW n \in Networks, StartReturns(n) PROVE ClientInv'
  BY <1>5 DEF StartReturns, Create, Part, Cleanup
<1>6. ASSUME NEW n \in Networks, StartFails(n) PROVE ClientInv'
  <2> USE <1>6 DEF StartFails, Create, Part, Cleanup
  <2>1. OwnerTypeOK'
    <3> HIDE DEF UsedKnown, StartIsLast, ClientHasNetwork, NetworksHeld, SendsFollow, InBatch
    <3>1. net' \in [Networks -> Hearing \cup {"none", "ended"}]
      OBVIOUS
    <3>2. asked' \subseteq Networks /\ network' \in Networks \cup {0} /\ starting' \subseteq Networks
      OBVIOUS
    <3>3. batched' \subseteq Sends
      OBVIOUS
    <3> QED
      BY <3>1, <3>2, <3>3
  <2>2. UsedKnown'
    BY SMTT(60)
  <2>3. StartIsLast'
    BY SMTT(60)
  <2>4. ClientHasNetwork'
    BY SMTT(60)
  <2>5. NetworksHeld'
    BY SMTT(60)
  <2>6. SendsFollow'
    BY SMTT(60)
  <2> QED
    BY <2>1, <2>2, <2>3, <2>4, <2>5, <2>6
<1>7. ASSUME NEW n \in Networks, Retry(n) PROVE ClientInv'
  <2>1. PICK to \in {"retrying", "up", "waiting", "ended"} :
          /\ net[n] \in {"waiting", "retrying", "up"} /\ net' = [net EXCEPT ![n] = to]
          /\ to = "ended" => n \in asked
    BY <1>7 DEF Retry
  <2>2. OwnerTypeOK' /\ UsedKnown' /\ StartIsLast' /\ ClientHasNetwork' /\ SendsFollow'
    BY <1>7, <2>1 DEF Retry
  <2>3. NetworksHeld'
    BY <1>7, <2>1 DEF Retry
  <2> QED
    BY <1>7, <2>2, <2>3 DEF Retry
<1>8. ASSUME NEW n \in Networks, NetworkCloses(n) PROVE ClientInv'
  <2>1. PICK to \in {"retrying", "up", "waiting", "ended"} :
          /\ net[n] \in {"waiting", "retrying", "up"} /\ net' = [net EXCEPT ![n] = to]
          /\ to = "ended" => n \in asked
    BY <1>8 DEF NetworkCloses
  <2>2. OwnerTypeOK' /\ UsedKnown' /\ StartIsLast' /\ ClientHasNetwork' /\ SendsFollow'
    BY <1>8, <2>1 DEF NetworkCloses
  <2>3. NetworksHeld'
    BY <1>8, <2>1 DEF NetworkCloses
  <2> QED
    BY <1>8, <2>2, <2>3 DEF NetworkCloses
<1>9. ASSUME NEW n \in Networks, BatchLeaves(n) PROVE ClientInv'
  BY <1>9 DEF BatchLeaves, Create, Part, Cleanup
<1>10. ASSUME Disconnect PROVE ClientInv'
  BY <1>10 DEF Disconnect, Create, Part, Cleanup
<1>11. ASSUME CloseRuntime PROVE ClientInv'
  BY <1>11 DEF CloseRuntime, Create, Part, Cleanup
<1>12. ASSUME NEW s \in Sends, Send(s) PROVE ClientInv'
  BY <1>12 DEF Send, GiveTo, MaySend, Started
<1>13. ASSUME NEW s \in Sends, SendFails(s) PROVE ClientInv'
  BY <1>13 DEF SendFails, GiveTo, MaySend, Started
<1>14. ASSUME NEW s \in Sends, HandOver(s) PROVE ClientInv'
  BY <1>14 DEF HandOver, GiveTo, MaySend, Started
<1>15. ASSUME NEW s \in Sends, FlushSent(s) PROVE ClientInv'
  BY <1>15 DEF FlushSent, GiveTo, MaySend, Started
<1>16. ASSUME NEW s \in Sends, SendReturns(s) PROVE ClientInv'
  BY <1>16 DEF SendReturns, GiveTo, MaySend, Started
<1>17. ASSUME NEW s \in Sends, Broadcast(s) PROVE ClientInv'
  BY <1>17 DEF Broadcast, GiveTo, MaySend, Started
<1>18. ASSUME UNCHANGED <<owner, ownerVars, sendVars>> PROVE ClientInv'
  BY <1>18
<1> QED
  BY <1>1, <1>2, <1>3, <1>4, <1>5, <1>6, <1>7, <1>8, <1>9, <1>10, <1>11, <1>12, <1>13,
     <1>14, <1>15, <1>16, <1>17, <1>18, MessagesApart DEF Next, OwnerStep, SendStep, vars

LEMMA ClientInvHolds == Spec => []ClientInv
  BY ClientInvInit, ClientInvKept, PTL DEF Spec

\* Calls that do not overlap lose no live network, and a message that a send leaves in a batch
\* is with the network of its owner unless init or disconnect has come in between, for any
\* networks, sends, messages and waiters.
THEOREM NetworksAndMessagesHeld == Spec => []HeldOrClosed
<1>1. ClientInv => HeldOrClosed
  BY DEF ClientInv, HeldOrClosed, SentLeaves, SendsFollow, NetworksHeld, Underway
<1> QED
  BY <1>1, ClientInvHolds, PTL

----------------------------------------------------------------------------
(* The waiters. *)

\* A waiter that waits listens, and a runtime has none.
WaitersListen ==
  /\ listeners \in Seq(Waiters \cup {Subscriber})
  /\ outcome \in [Waiters -> {"none", "waiting", "message", "timeout"}]
  /\ owner = "runtime" => \A w \in Waiters : outcome[w] # "waiting"
  /\ \A w \in Waiters : outcome[w] = "waiting" =>
       \E k \in 1..Len(listeners) : listeners[k] = w

\* off leaves the others.
LEMMA OffKeeps ==
  ASSUME NEW gone, listeners \in Seq(Waiters \cup {Subscriber}),
         NEW k \in 1..Len(listeners), listeners[k] \notin gone
  PROVE  \E l \in 1..Len(Off(gone)) : Off(gone)[l] = listeners[k]
<1> DEFINE passed == {j \in DOMAIN listeners : listeners[j] \notin gone}
<1>1. k \in passed
  OBVIOUS
<1>2. Off(gone) = Passing(listeners, passed)
  BY DEF Off
<1> HIDE DEF passed
<1> QED
  BY <1>1, <1>2, PassingKeeps

LEMMA OffLines ==
  ASSUME NEW gone, listeners \in Seq(Waiters \cup {Subscriber})
  PROVE  Off(gone) \in Seq(Waiters \cup {Subscriber})
<1> DEFINE passed == {j \in DOMAIN listeners : listeners[j] \notin gone}
<1>1. \A i \in 1..Len(listeners) : listeners[i] \in Waiters \cup {Subscriber}
  OBVIOUS
<1>2. Off(gone) = Passing(listeners, passed)
  BY DEF Off
<1> HIDE DEF passed
<1> QED
  BY <1>1, <1>2, PassingLines

\* What a message must do for the waiters that would take it.
Serves(m) ==
  \A w \in Waiters : outcome[w] = "waiting" /\ m \in Accepts[w] =>
    \/ outcome'[w] = "message"
    \/ \E j, k \in DOMAIN listeners : j < k /\ listeners[j] = Subscriber /\ listeners[k] = w

LEMMA EmitServes ==
  ASSUME WaitersListen, NEW m \in Msgs, NEW threw, Emit(m, threw), owner' = owner
  PROVE  WaitersListen' /\ Serves(m)
<1> DEFINE served == {w \in Reached(threw) \cap Waiters : m \in Accepts[w]}
<1>1. /\ outcome' = [w \in Waiters |-> IF w \in served THEN "message" ELSE outcome[w]]
      /\ listeners' = Off(served)
  BY DEF Emit
<1>2. ASSUME NEW w \in Waiters, outcome[w] = "waiting", m \in Accepts[w]
      PROVE  \/ outcome'[w] = "message"
             \/ \E j, k \in DOMAIN listeners : j < k /\ listeners[j] = Subscriber /\ listeners[k] = w
  <2>1. PICK k \in 1..Len(listeners) : listeners[k] = w
    BY <1>2 DEF WaitersListen
  <2>2. CASE w \in Reached(threw)
    BY <1>1, <1>2, <2>2
  <2>3. CASE w \notin Reached(threw)
    <3>1. listeners \in Seq(Waiters \cup {Subscriber})
      BY DEF WaitersListen
    <3>2. PICK j \in 1..(k - 1) : listeners[j] = Subscriber
      BY <2>1, <2>3, <3>1 DEF Reached
    <3>3. j \in DOMAIN listeners /\ k \in DOMAIN listeners /\ j < k
      BY <2>1, <3>1, <3>2
    <3> QED
      BY <2>1, <3>2, <3>3
  <2> QED
    BY <2>2, <2>3
<1> HIDE DEF served
<1>3. listeners' \in Seq(Waiters \cup {Subscriber})
  BY <1>1, OffLines DEF WaitersListen
<1>4. ASSUME NEW w \in Waiters, outcome'[w] = "waiting"
      PROVE  outcome[w] = "waiting" /\ \E k \in 1..Len(listeners') : listeners'[k] = w
  <2>1. w \notin served /\ outcome[w] = "waiting"
    BY <1>1, <1>4
  <2>2. PICK k \in 1..Len(listeners) : listeners[k] = w
    BY <2>1 DEF WaitersListen
  <2> QED
    BY <1>1, <2>1, <2>2, OffKeeps DEF WaitersListen
<1>5. outcome' \in [Waiters -> {"none", "waiting", "message", "timeout"}]
  BY <1>1 DEF WaitersListen
<1>6. WaitersListen'
  BY <1>3, <1>4, <1>5 DEF WaitersListen
<1> QED
  BY <1>2, <1>6 DEF Serves

\* What a step must do for the waiters.
Served ==
  \A m \in Msgs : fate[m] # "handled" /\ fate'[m] = "handled" => Serves(m)

LEMMA HandleServes ==
  ASSUME WaitersListen, fate \in [Msgs -> {"unseen", "dropped", "decrypting", "handled"}],
         NEW m \in Msgs, Handle(m), owner' = owner
  PROVE  WaitersListen' /\ Served
<1>1. PICK threw \in {FALSE, (Subscriber \in ToSet(listeners))} : Emit(m, threw)
  BY DEF Handle
<1>2. WaitersListen' /\ Serves(m)
  BY <1>1, EmitServes
<1>3. \A o \in Msgs : fate[o] # "handled" /\ fate'[o] = "handled" => o = m
  BY DEF Handle
<1> QED
  BY <1>2, <1>3 DEF Served

FatesOK == fate \in [Msgs -> {"unseen", "dropped", "decrypting", "handled"}]

LEMMA WaitersStep ==
  ASSUME WaitersListen, FatesOK, [Next]_vars
  PROVE  WaitersListen' /\ FatesOK' /\ Served
<1> USE DEF FatesOK
<1>1. CASE UNCHANGED <<owner, fate, listeners, outcome>>
  BY <1>1 DEF WaitersListen, Served
<1>2. ASSUME NEW n \in Networks, NEW m \in Msgs, Receive(n, m)
      PROVE  WaitersListen' /\ FatesOK' /\ Served
  <2>0. owner' = owner
    BY <1>2 DEF Receive
  <2>1. CASE owner = "client" /\ Drop(m)
    BY <2>0, <2>1 DEF Drop, WaitersListen, Served
  <2>2. CASE Handle(m)
    BY <2>0, <2>2, HandleServes DEF Handle
  <2>3. CASE fate' = [fate EXCEPT ![m] = "decrypting"] /\ UNCHANGED <<listeners, outcome>>
    BY <2>0, <2>3 DEF WaitersListen, Served
  <2>4. CASE /\ owner = "runtime" /\ fate' = [fate EXCEPT ![m] = "handled"]
             /\ UNCHANGED <<listeners, outcome>>
    BY <2>0, <2>4 DEF WaitersListen, Served, Serves
  <2> QED
    BY <1>2, <2>1, <2>2, <2>3, <2>4 DEF Receive
<1>3. ASSUME NEW m \in Msgs, Decrypted(m) PROVE WaitersListen' /\ FatesOK' /\ Served
  BY <1>3, HandleServes DEF Decrypted, Handle
<1>4. ASSUME NEW w \in Waiters, WaitForMessage(w) PROVE WaitersListen' /\ FatesOK' /\ Served
  <2>1. /\ owner = "client" /\ outcome' = [outcome EXCEPT ![w] = "waiting"]
        /\ listeners' = Append(listeners, w) /\ UNCHANGED <<owner, fate>>
    BY <1>4 DEF WaitForMessage
  <2>2. listeners \in Seq(Waiters \cup {Subscriber})
    BY DEF WaitersListen
  <2>3. /\ listeners' \in Seq(Waiters \cup {Subscriber})
        /\ \A k \in 1..Len(listeners) : k \in 1..Len(listeners') /\ listeners'[k] = listeners[k]
        /\ Len(listeners) + 1 \in 1..Len(listeners') /\ listeners'[Len(listeners) + 1] = w
    BY <2>1, <2>2
  <2>4. ASSUME NEW v \in Waiters, outcome'[v] = "waiting"
        PROVE  \E k \in 1..Len(listeners') : listeners'[k] = v
    <3>1. CASE v = w
      BY <2>3, <3>1
    <3>2. CASE v # w
      <4>1. outcome[v] = "waiting"
        BY <2>1, <2>4, <3>2 DEF WaitersListen
      <4> QED
        BY <2>3, <4>1 DEF WaitersListen
    <3> QED
      BY <3>1, <3>2
  <2>5. owner # "runtime" /\ outcome' \in [Waiters -> {"none", "waiting", "message", "timeout"}]
    BY <2>1 DEF WaitersListen
  <2> QED
    BY <2>1, <2>3, <2>4, <2>5 DEF WaitersListen, Served
<1>5. ASSUME NEW gone, listeners' = Off(gone), UNCHANGED <<owner, fate>>,
             outcome' \in [Waiters -> {"none", "waiting", "message", "timeout"}],
             \A w \in Waiters : outcome'[w] = "waiting" => outcome[w] = "waiting" /\ w \notin gone
      PROVE  WaitersListen' /\ FatesOK' /\ Served
  <2>1. ASSUME NEW w \in Waiters, outcome'[w] = "waiting"
        PROVE  \E k \in 1..Len(listeners') : listeners'[k] = w
    <3>1. PICK k \in 1..Len(listeners) : listeners[k] = w /\ w \notin gone
      BY <1>5, <2>1 DEF WaitersListen
    <3> QED
      BY <1>5, <3>1, OffKeeps DEF WaitersListen
  <2>2. listeners' \in Seq(Waiters \cup {Subscriber})
    BY <1>5, OffLines DEF WaitersListen
  <2> QED
    BY <1>5, <2>1, <2>2 DEF WaitersListen, Served
<1>6. ASSUME NEW w \in Waiters, WaitTimeout(w) PROVE WaitersListen' /\ FatesOK' /\ Served
  <2>1. /\ outcome' = [outcome EXCEPT ![w] = "timeout"]
        /\ listeners' = Off({w}) /\ UNCHANGED <<owner, fate>>
    BY <1>6 DEF WaitTimeout
  <2>2. /\ outcome' \in [Waiters -> {"none", "waiting", "message", "timeout"}]
        /\ \A v \in Waiters : outcome'[v] = "waiting" => outcome[v] = "waiting" /\ v \notin {w}
    BY <2>1 DEF WaitersListen
  <2> QED
    BY <1>5, <2>1, <2>2
<1>7. CASE Subscribe
  <2>1. UNCHANGED <<owner, fate, outcome>>
    BY <1>7 DEF Subscribe
  <2>2. CASE listeners' = Off({Subscriber})
    <3>1. \A w \in Waiters : w \notin {Subscriber}
      BY ClientAssumption
    <3> QED
      BY <1>5, <2>1, <2>2, <3>1 DEF WaitersListen
  <2>3. CASE listeners' = Append(listeners, Subscriber)
    <3>1. listeners \in Seq(Waiters \cup {Subscriber})
      BY DEF WaitersListen
    <3>2. /\ listeners' \in Seq(Waiters \cup {Subscriber})
          /\ \A k \in 1..Len(listeners) :
               k \in 1..Len(listeners') /\ listeners'[k] = listeners[k]
      BY <2>3, <3>1
    <3> QED
      BY <2>1, <3>2 DEF WaitersListen, Served
  <2> QED
    BY <1>7, <2>2, <2>3 DEF Subscribe
<1>8. ASSUME NEW n \in Networks, OwnerStep(n) PROVE UNCHANGED <<owner, fate, listeners, outcome>>
  BY <1>8 DEF OwnerStep, ClientInit, ClientInitReturns, ClientInitFails, Start, StartReturns,
       StartFails, Retry, NetworkCloses, BatchLeaves, msgVars
<1>9. ASSUME NEW s \in Sends, SendStep(s) PROVE UNCHANGED <<owner, fate, listeners, outcome>>
  BY <1>9 DEF SendStep, Send, SendFails, HandOver, FlushSent, SendReturns, Broadcast, GiveTo,
       msgVars
<1>10. CASE Disconnect \/ CloseRuntime \/ Recv \/ UNCHANGED vars
  BY <1>1, <1>10 DEF Disconnect, CloseRuntime, Recv, msgVars, vars
<1> QED
  BY <1>1, <1>2, <1>3, <1>4, <1>6, <1>7, <1>8, <1>9, <1>10 DEF Next

\* A waiter misses a message that it would accept only behind a subscriber that throws.
THEOREM WaitersAreServed == Spec => WaitersServed
<1>1. Init => WaitersListen /\ FatesOK
  BY DEF Init, WaitersListen, FatesOK
<1>2. WaitersListen /\ FatesOK /\ [Next]_vars => (WaitersListen /\ FatesOK)'
  BY WaitersStep
<1>3. WaitersListen /\ FatesOK /\ [Next]_vars =>
        [\A w \in Waiters, m \in Msgs :
           outcome[w] = "waiting" /\ m \in Accepts[w] /\ fate[m] # "handled" /\ fate[m]' = "handled" =>
             \/ outcome[w]' = "message"
             \/ \E j, k \in DOMAIN listeners :
                  j < k /\ listeners[j] = Subscriber /\ listeners[k] = w]_vars
  BY WaitersStep DEF Served, Serves
<1> QED
  BY <1>1, <1>2, <1>3, PTL DEF Spec, WaitersServed

----------------------------------------------------------------------------
(* The identity. *)

\* What a process has in hand at each place.
LoaderOK(l) ==
  /\ l.at = "decrypt" => l.read \in Stored
  /\ l.at \in {"encrypt", "save"} => l.id \in Identities
  /\ l.at \in {"opening", "writing"} =>
       l.key \in LocalKeys /\ (l.back = "encrypt" => l.id \in Identities)
  /\ l.at = "save" => l.key \in LocalKeys \cup {Password}

IdentityInv == IdTypeOK /\ \A p \in Procs : LoaderOK(loader[p])

LEMMA RestingLoader == AtRest \in Loader /\ LoaderOK(AtRest) /\ AtRest.at = "idle"
BY DEF AtRest, Loader, LoaderOK

LEMMA NewLoader ==
  ASSUME NEW id \in Identities
  PROVE  LET l == [AtRest EXCEPT !.at = "encrypt", !.id = id] IN l \in Loader /\ LoaderOK(l)
BY DEF AtRest, Loader, LoaderOK

LEMMA LoadingKeeps ==
  ASSUME IdentityInv, NEW p \in Procs, NEW l \in Loader, LoaderOK(l), Loading(p, l),
         source' = source, idFile' \in Stored \cup {NoFile},
         keyFile' \in [Dirs -> LocalKeys \cup {Missing, Torn}],
         identity' \in [Procs -> Identities \cup {Missing}]
  PROVE  IdentityInv'
<1>1. /\ loader' \in [Procs -> Loader] /\ loader'[p] = l
      /\ \A q \in Procs \ {p} : loader'[q] = loader[q]
  BY DEF IdentityInv, IdTypeOK, Loading
<1> QED
  BY <1>1 DEF IdentityInv, IdTypeOK, Stored, NoFile, Loader, LoaderOK

LEMMA GeneratesLoader ==
  ASSUME NEW p \in Procs, Generates(p)
  PROVE  \E l \in Loader : LoaderOK(l) /\ Loading(p, l)
BY NewLoader DEF Generates

\* What follows when the key is known.
LEMMA UsesLoader ==
  ASSUME IdentityInv, NEW p \in Procs, NeedsKey(p), NEW key \in LocalKeys \cup {Password}, Uses(p, key)
  PROVE  /\ \E l \in Loader : LoaderOK(l) /\ Loading(p, l)
         /\ identity' \in [Procs -> Identities \cup {Missing}]
<1>1. loader[p] \in Loader /\ LoaderOK(loader[p]) /\ identity \in [Procs -> Identities \cup {Missing}]
  BY DEF IdentityInv, IdTypeOK
<1>2. CASE At(p, "encrypt")
  <2> DEFINE l == [loader[p] EXCEPT !.at = "save", !.key = key]
  <2>1. Loading(p, l) /\ identity' = identity
    BY <1>2 DEF Uses
  <2>2. l \in Loader /\ LoaderOK(l)
    BY <1>1, <1>2 DEF At, Loader, LoaderOK
  <2> QED
    BY <1>1, <2>1, <2>2
<1>3. CASE ~At(p, "encrypt") /\ loader[p].read.key = key
  <2>1. loader[p].at = "decrypt" /\ Loading(p, AtRest)
        /\ identity' = [identity EXCEPT ![p] = loader[p].read.id]
    BY <1>3 DEF Uses, NeedsKey, At
  <2>2. loader[p].read.id \in Identities
    BY <1>1, <2>1 DEF LoaderOK, Stored
  <2>3. identity' \in [Procs -> Identities \cup {Missing}]
    BY <1>1, <2>1, <2>2
  <2> QED
    BY <2>1, <2>3, RestingLoader
<1>4. CASE ~At(p, "encrypt") /\ loader[p].read.key # key
  <2>1. Generates(p) /\ identity' = identity
    BY <1>4 DEF Uses
  <2> QED
    BY <1>1, <2>1, GeneratesLoader
<1> QED
  BY <1>2, <1>3, <1>4

\* What follows when a key has been made.
LEMMA MadeLoader ==
  ASSUME IdentityInv, NEW p \in Procs, loader[p].at \in {"opening", "writing"}, Made(p)
  PROVE  \E l \in Loader : LoaderOK(l) /\ Loading(p, l)
<1>1. loader[p] \in Loader /\ LoaderOK(loader[p])
  BY DEF IdentityInv, IdTypeOK
<1>2. CASE loader[p].back = "encrypt"
  <2> DEFINE l == [loader[p] EXCEPT !.at = "save"]
  <2>1. Loading(p, l)
    BY <1>2 DEF Made
  <2>2. l \in Loader /\ LoaderOK(l)
    BY <1>1, <1>2 DEF Loader, LoaderOK
  <2> QED
    BY <2>1, <2>2
<1>3. CASE loader[p].back # "encrypt"
  BY <1>3, GeneratesLoader DEF Made
<1> QED
  BY <1>2, <1>3

LEMMA IdentityInvKept == IdentityInv /\ [IdNext]_idVars => IdentityInv'
<1> SUFFICES ASSUME IdentityInv, [IdNext]_idVars PROVE IdentityInv'
  OBVIOUS
<1>1. CASE UNCHANGED idVars
  BY <1>1 DEF idVars, IdentityInv, IdTypeOK, Stored, NoFile, Loader, LoaderOK
<1>2. ASSUME NEW p \in Procs, IdStep(p) PROVE IdentityInv'
  <2> DEFINE l == loader[p]
  <2>1. /\ source \in [Procs -> Dirs \cup {Password}] /\ idFile \in Stored \cup {NoFile}
        /\ keyFile \in [Dirs -> LocalKeys \cup {Missing, Torn}] /\ l \in Loader /\ LoaderOK(l)
        /\ identity \in [Procs -> Identities \cup {Missing}]
    BY DEF IdentityInv, IdTypeOK
  <2>2. CASE ReadIdentity(p)
    <3>1. UNCHANGED <<source, idFile, keyFile, identity>>
      BY <2>2 DEF ReadIdentity
    <3>2. CASE idFile = NoFile /\ Generates(p)
      BY <2>1, <3>1, <3>2, GeneratesLoader, LoadingKeeps
    <3>3. CASE idFile.key = Plain /\ Loading(p, [AtRest EXCEPT !.at = "encrypt", !.id = idFile.id])
      <4>1. idFile.id \in Identities
        BY <2>1, <3>3, IdentityAssumption DEF Stored, NoFile
      <4> QED
        BY <2>1, <3>1, <3>3, <4>1, NewLoader, LoadingKeeps
    <3>4. CASE idFile # NoFile /\ Loading(p, [AtRest EXCEPT !.at = "decrypt", !.read = idFile])
      <4> DEFINE to == [AtRest EXCEPT !.at = "decrypt", !.read = idFile]
      <4>1. to \in Loader /\ LoaderOK(to)
        BY <2>1, <3>4 DEF AtRest, Loader, LoaderOK
      <4> QED
        BY <2>1, <3>1, <3>4, <4>1, LoadingKeeps
    <3> QED
      BY <2>2, <3>2, <3>3, <3>4 DEF ReadIdentity
  <2>3. CASE UsePassword(p) \/ UseLocalKey(p)
    <3>1. PICK key \in LocalKeys \cup {Password} : Uses(p, key)
      BY <2>1, <2>3 DEF UsePassword, UseLocalKey, ValidKey
    <3>2. NeedsKey(p) /\ UNCHANGED <<source, idFile, keyFile>>
      BY <2>3 DEF UsePassword, UseLocalKey
    <3> QED
      BY <2>1, <3>1, <3>2, UsesLoader, LoadingKeeps
  <2>4. CASE GenerateKey(p)
    <3>1. NeedsKey(p) /\ UNCHANGED <<source, idFile, keyFile, identity>>
      BY <2>4 DEF GenerateKey
    <3>2. PICK k \in LocalKeys : Loading(p, [l EXCEPT !.at = "opening", !.back = l.at, !.key = k])
      BY <2>4 DEF GenerateKey
    <3> DEFINE to == [l EXCEPT !.at = "opening", !.back = l.at, !.key = k]
    <3>3. to \in Loader /\ LoaderOK(to)
      BY <2>1, <3>1 DEF Loader, LoaderOK, NeedsKey, At
    <3> QED
      BY <2>1, <3>1, <3>2, <3>3, LoadingKeeps
  <2>5. CASE OpenKey(p)
    <3>1. /\ l.at = "opening" /\ Loading(p, [l EXCEPT !.at = "writing"])
          /\ keyFile' \in [Dirs -> LocalKeys \cup {Missing, Torn}]
          /\ UNCHANGED <<source, idFile, identity>>
      BY <2>1, <2>5 DEF OpenKey, At
    <3> DEFINE to == [l EXCEPT !.at = "writing"]
    <3>2. to \in Loader /\ LoaderOK(to)
      BY <2>1, <3>1 DEF Loader, LoaderOK
    <3> QED
      BY <2>1, <3>1, <3>2, LoadingKeeps
  <2>6. CASE WriteKey(p) \/ KeyFails(p)
    <3>1. /\ l.at \in {"opening", "writing"} /\ Made(p) /\ UNCHANGED <<source, idFile, identity>>
          /\ keyFile' = keyFile \/ keyFile' = [keyFile EXCEPT ![source[p]] = l.key]
      BY <2>6 DEF WriteKey, KeyFails, At
    <3>2. keyFile' \in [Dirs -> LocalKeys \cup {Missing, Torn}]
      BY <2>1, <3>1 DEF LoaderOK
    <3> QED
      BY <2>1, <3>1, <3>2, MadeLoader, LoadingKeeps
  <2>7. CASE SaveIdentity(p) \/ SaveFails(p)
    <3>1. /\ l.at = "save" /\ Loading(p, AtRest) /\ identity' = [identity EXCEPT ![p] = l.id]
          /\ UNCHANGED <<source, keyFile>>
          /\ idFile' = idFile \/ idFile' = [id |-> l.id, key |-> l.key]
      BY <2>7 DEF SaveIdentity, SaveFails, At, Return
    <3>2. idFile' \in Stored \cup {NoFile} /\ identity' \in [Procs -> Identities \cup {Missing}]
      BY <2>1, <3>1 DEF LoaderOK, Stored
    <3> QED
      BY <2>1, <3>1, <3>2, RestingLoader, LoadingKeeps
  <2>8. CASE Ends(p)
    <3>1. /\ Loading(p, AtRest) /\ UNCHANGED <<source, idFile, keyFile>>
          /\ identity' \in [Procs -> Identities \cup {Missing}]
      BY <2>1, <2>8 DEF Ends
    <3> QED
      BY <2>1, <3>1, RestingLoader, LoadingKeeps
  <2> QED
    BY <1>2, <2>2, <2>3, <2>4, <2>5, <2>6, <2>7, <2>8 DEF IdStep
<1> QED
  BY <1>1, <1>2 DEF IdNext

\* An identity that is stored under a key that all have stays, whatever they do.
LEMMA SettledStays ==
  ASSUME IdentityInv, Settled, [IdNext]_idVars
  PROVE  Settled' /\ idFile'.id = idFile.id
<1>1. CASE UNCHANGED idVars
  BY <1>1 DEF idVars, Settled, KeyOf, Creating, At, NoFile
<1>2. ASSUME NEW p \in Procs, IdStep(p) PROVE Settled' /\ idFile'.id = idFile.id
  <2> DEFINE l == loader[p]
  <2>1. /\ source \in [Procs -> Dirs \cup {Password}] /\ idFile \in Stored
        /\ keyFile \in [Dirs -> LocalKeys \cup {Missing, Torn}] /\ loader \in [Procs -> Loader]
    BY DEF IdentityInv, IdTypeOK, Settled
  <2>2. /\ KeyOf(p) = idFile.key /\ l.at \notin {"encrypt", "opening", "writing", "save"}
        /\ l.at = "decrypt" => l.read = idFile
    BY DEF Settled, Creating, At
  <2>3. idFile.key # Plain /\ (source[p] # Password => ValidKey(keyFile[source[p]]))
    BY <2>1, <2>2, IdentityAssumption DEF KeyOf, Stored, ValidKey
  <2>4. UNCHANGED <<source, idFile, keyFile>>
    BY <1>2, <2>2 DEF IdStep, ReadIdentity, UsePassword, UseLocalKey, GenerateKey, OpenKey,
       WriteKey, KeyFails, SaveIdentity, SaveFails, Ends, At
  <2>5. PICK to : Loading(p, to) /\ (to = AtRest \/ to = [AtRest EXCEPT !.at = "decrypt", !.read = idFile])
    <3>1. CASE ReadIdentity(p)
      BY <2>3, <3>1 DEF ReadIdentity, Settled
    <3>2. CASE UsePassword(p)
      BY <2>2, <3>2 DEF UsePassword, Uses, NeedsKey, At, KeyOf
    <3>3. CASE UseLocalKey(p)
      BY <2>2, <3>3 DEF UseLocalKey, Uses, NeedsKey, At, KeyOf
    <3>4. CASE Ends(p)
      BY <3>4 DEF Ends
    <3> QED
      BY <1>2, <2>2, <2>3, <3>1, <3>2, <3>3, <3>4 DEF IdStep, GenerateKey, OpenKey,
         WriteKey, KeyFails, SaveIdentity, SaveFails, At
  <2>6. to.at \in {"idle", "decrypt"} /\ (to.at = "decrypt" => to.read = idFile)
    <3> DEFINE reading == [AtRest EXCEPT !.at = "decrypt", !.read = idFile]
    <3>1. AtRest.at = "idle" /\ reading.at = "decrypt" /\ reading.read = idFile
      BY DEF AtRest
    <3> HIDE DEF reading
    <3>2. to = AtRest \/ to = reading
      BY <2>5 DEF reading
    <3> QED
      BY <3>1, <3>2
  <2>7. loader'[p] = to /\ \A q \in Procs \ {p} : loader'[q] = loader[q]
    BY <2>1, <2>5 DEF Loading
  <2>8. ASSUME NEW q \in Procs
        PROVE  KeyOf(q)' = idFile'.key /\ ~Creating(q)' /\ (At(q, "decrypt")' => (loader[q].read)' = idFile')
    BY <2>4, <2>6, <2>7 DEF Settled, KeyOf, Creating, At
  <2> QED
    BY <2>4, <2>8 DEF Settled, NoFile
<1> QED
  BY <1>1, <1>2 DEF IdNext

\* Once an identity is stored under a key that all processes have and the first starts are
\* over, it stays, for any processes, directories and passwords.
THEOREM StoredIdentityStays == IdSpec => IdentityStays
<1>1. IdInit => IdentityInv
  <2> SUFFICES ASSUME IdInit PROVE IdentityInv
    OBVIOUS
  <2>1. idFile \in Stored \cup {NoFile}
    BY DEF IdInit, Stored
  <2> QED
    BY <2>1, RestingLoader DEF IdInit, IdentityInv, IdTypeOK
<1>2. IdentityInv /\ [IdNext]_idVars => [Settled => Settled' /\ idFile'.id = idFile.id]_idVars
  BY SettledStays
<1> QED
  BY <1>1, <1>2, IdentityInvKept, PTL DEF IdSpec, IdentityStays

----------------------------------------------------------------------------
(* The coding. *)

CodecInv ==
  /\ messages \in UNION {[1..n -> Texts] : n \in 1..MaxMessages}
  /\ compress \in BOOLEAN /\ originalSize \in Sizes /\ gzipSize \in Sizes

\* What compressIfNeeded has made of a text is read as that text, if it is read the way
\* that the text was written.
LEMMA CompressedDecodes ==
  ASSUME NEW body
  PROVE  LET result == CompressIfNeeded(body) IN
         /\ result.compressed \in BOOLEAN
         /\ DecompressIfNeeded(result.data, result.compressed) = body
<1> DEFINE worthwhile == /\ originalSize >= MinCompressSize
                         /\ \/ originalSize > MaxUncompressedSize
                            \/ gzipSize * 100 < originalSize * CompressionPercent
<1>1. CompressIfNeeded(body) = [compressed |-> worthwhile, data |-> Bytes(worthwhile, body)]
  BY DEF CompressIfNeeded
<1>2. worthwhile \in BOOLEAN
  OBVIOUS
<1> HIDE DEF worthwhile
<1> QED
  BY <1>1, <1>2 DEF DecompressIfNeeded, Bytes, Gunzip, Utf8

LEMMA CodecInvDecodes == CodecInv => BatchDecodes
<1> SUFFICES ASSUME CodecInv PROVE BatchDecodes
  OBVIOUS
<1> DEFINE result == CompressIfNeeded(messages)
<1>1. result.compressed \in BOOLEAN /\ DecompressIfNeeded(result.data, result.compressed) = messages
  BY CompressedDecodes
<1> HIDE DEF result
<1>2. DecodeCompressed(EncodeCompressed(messages)) = messages
  <2>1. EncodeCompressed(messages) =
          [prefix |-> IF result.compressed THEN "gzip" ELSE "raw", data |-> result.data]
    BY DEF EncodeCompressed, result
  <2> QED
    BY <1>1, <2>1 DEF DecodeCompressed
<1>3. DecompressBatch(Batch(result)) = messages
  BY <1>1 DEF DecompressBatch, Batch
<1>4. Published(FlushData(messages)) = messages
  <2>1. CASE compress /\ result.compressed
    <3>1. FlushData(messages) = [compressed |-> TRUE, data |-> Batch(result)]
      BY <2>1 DEF FlushData, result
    <3> QED
      BY <1>3, <3>1 DEF Published
  <2>2. CASE ~(compress /\ result.compressed)
    <3>1. FlushData(messages) = [compressed |-> FALSE, data |-> messages]
      BY <2>2 DEF FlushData, result
    <3> QED
      BY <3>1 DEF Published
  <2> QED
    BY <2>1, <2>2
<1>5. \/ DecompressBatch(CreateBatch(messages)) = messages
      \/ Len(messages) = 1 /\ messages[1] \in Batchlike
  <2>1. CASE Len(messages) = 1
    <3>1. messages = <<messages[1]>>
      BY <2>1 DEF CodecInv
    <3>2. CreateBatch(messages) = Single(messages[1])
      BY <2>1 DEF CreateBatch
    <3>3. messages[1] \notin Batchlike => DecompressBatch(Single(messages[1])) = <<messages[1]>>
      BY DEF DecompressBatch, Single
    <3> QED
      BY <2>1, <3>1, <3>2, <3>3
  <2>2. CASE Len(messages) # 1 /\ compress
    <3>1. CreateBatch(messages) = Batch(result)
      BY <2>2 DEF CreateBatch, result
    <3> QED
      BY <1>3, <3>1
  <2>3. CASE Len(messages) # 1 /\ ~compress
    <3> DEFINE plain == [compressed |-> FALSE, data |-> Bytes(FALSE, messages)]
    <3>1. CreateBatch(messages) = Batch(plain)
      BY <2>3 DEF CreateBatch
    <3>2. DecompressBatch(Batch(plain)) = messages
      BY DEF DecompressBatch, Batch, DecompressIfNeeded, Bytes, Utf8
    <3> QED
      BY <3>1, <3>2
  <2> QED
    BY <2>1, <2>2, <2>3 DEF CodecInv
<1> QED
  BY <1>2, <1>4, <1>5 DEF BatchDecodes

\* However large messages are before and after compression, batches and texts are read as
\* what was written.
THEOREM BatchesDecode == McSpec => []BatchDecodes
<1>1. McInit => CodecInv
  BY DEF McInit, CodecInv
<1>2. CodecInv /\ [McNext]_mcVars => CodecInv'
  BY DEF CodecInv, McNext, mcVars
<1> QED
  BY <1>1, <1>2, CodecInvDecodes, PTL DEF McSpec

----------------------------------------------------------------------------
(* The journal. *)

\* Each entry is the place of its message in data.
Fits(entries, data) ==
  \A m \in DOMAIN entries :
    data # Absent /\ entries[m] \in 0..(Len(data) - 1) /\ data[entries[m] + 1] = m

\* How far a call of each method may be.
CallOK(call) ==
  /\ call.op = "none" => call.at = "rest"
  /\ call.op \in {"append", "delete"} => call.msg \in Journalled
  /\ call.at = "sized" => call.op = "append"
  /\ call.at \in {"collect", "rewrite"} => call.op = "compact"
  /\ call.at \in {"unlinkData", "unlinkIndex"} => call.op \in {"clear", "compact"}
  /\ call.at \in {"truncate", "write"} => call.op \in {"flush", "close", "compact"}

\* clear and compact run alone, and so do appends among each other.
NotMixed ==
  \A c, d \in JournalCalls : c # d =>
    /\ jcall[c].op \in {"clear", "compact"} => jcall[d].op = "none"
    /\ jcall[c].op = "append" => jcall[d].op # "append"

\* What a call has in hand is still right.
InHand ==
  \A c \in JournalCalls :
    /\ jcall[c].at = "sized" => jcall[c].offset = Size
    /\ jcall[c].at \in {"truncate", "write"} => Fits(jcall[c].image, journalData)
    /\ jcall[c].at \in {"unlinkData", "unlinkIndex"} => index = NoEntries
    /\ jcall[c].at = "unlinkIndex" => journalData = Absent

OnDisk ==
  /\ Fits(index, journalData)
  /\ journalIndex \in Index /\ (\A c \in JournalCalls : jcall[c].at # "unlinkIndex") =>
       Fits(journalIndex, journalData)

JournalTypeOK ==
  /\ JoTypeOK /\ Size <= MaxJournal
  /\ \A c \in JournalCalls : CallOK(jcall[c])

JournalInv == JournalTypeOK /\ (~mixed => NotMixed /\ InHand /\ OnDisk)

LEMMA Indexes ==
  /\ NoEntries \in Index /\ Absent \notin Index /\ HalfWritten \notin Index
  /\ \A e \in Index : /\ DOMAIN e \subseteq Journalled
                      /\ \A m \in DOMAIN e : e[m] \in 0..MaxJournal
  /\ \A S \in SUBSET Journalled : \A f \in [S -> 0..MaxJournal] : f \in Index
<1>1. \A S \in SUBSET Journalled : \A f \in [S -> 0..MaxJournal] : f \in Index
  BY DEF Index
<1>2. \A e \in Index : \E S \in SUBSET Journalled : e \in [S -> 0..MaxJournal]
  BY DEF Index
<1>3. NoEntries \in [{} -> 0..MaxJournal]
  BY DEF NoEntries
<1>4. NoEntries \in Index
  BY <1>1, <1>3
<1> QED
  BY <1>1, <1>2, <1>4, JournalAssumption

LEMMA MergedEntries ==
  ASSUME NEW a \in Index, NEW b \in Index
  PROVE  /\ Merged(a, b) \in Index
         /\ \A data : Fits(a, data) /\ Fits(b, data) => Fits(Merged(a, b), data)
<1> DEFINE S == DOMAIN a \cup DOMAIN b
<1>1. S \in SUBSET Journalled /\ Merged(a, b) \in [S -> 0..MaxJournal]
  BY Indexes DEF Merged
<1> QED
  BY <1>1, Indexes DEF Fits, Merged

LEMMA RestrictedEntries ==
  ASSUME NEW a \in Index, NEW S \in SUBSET DOMAIN a
  PROVE  /\ Restrict(a, S) \in Index
         /\ \A data : Fits(a, data) => Fits(Restrict(a, S), data)
<1>1. S \in SUBSET Journalled /\ Restrict(a, S) \in [S -> 0..MaxJournal]
  BY Indexes DEF Restrict
<1> QED
  BY <1>1, Indexes DEF Fits, Restrict

\* A message at the end of the file leaves the places before it.
LEMMA AppendedEntries ==
  ASSUME journalData = Absent \/ journalData \in Seq(Journalled), NEW m \in Journalled
  PROVE  LET data == Appended(m) IN
         /\ data \in Seq(Journalled) /\ data # Absent /\ Len(data) = Size + 1 /\ data[Size + 1] = m
         /\ \A e : Fits(e, journalData) => Fits(e, data)
<1>1. CASE journalData = Absent
  <2>1. Appended(m) = <<m>> /\ Size = 0
    BY <1>1 DEF Appended, Size
  <2>2. <<m>> \in Seq(Journalled) /\ Len(<<m>>) = 1 /\ <<m>>[1] = m
    OBVIOUS
  <2>3. \A e : Fits(e, journalData) => Fits(e, <<m>>)
    BY <1>1 DEF Fits
  <2>4. <<m>> # Absent
    BY <2>2, JournalAssumption, Zenon
  <2>5. Size + 1 = 1
    BY <2>1
  <2> QED
    BY <2>1, <2>2, <2>3, <2>4, <2>5, Zenon
<1>2. CASE journalData # Absent
  <2>1. Appended(m) = Append(journalData, m) /\ Size = Len(journalData) /\ journalData \in Seq(Journalled)
    BY <1>2 DEF Appended, Size
  <2> QED
    BY <2>1, JournalAssumption DEF Fits
<1> QED
  BY <1>1, <1>2

\* The entry of a message that has just been appended is right.
LEMMA NewEntry ==
  ASSUME journalData = Absent \/ journalData \in Seq(Journalled), NEW m \in Journalled,
         Size < MaxJournal, Size \in Nat, NEW e \in Index
  PROVE  LET new == Merged(e, [k \in {m} |-> Size]) IN
         /\ new \in Index
         /\ Fits(e, journalData) => Fits(new, Appended(m))
<1> DEFINE entry == [k \in {m} |-> Size]
<1>1. {m} \in SUBSET Journalled /\ entry \in [{m} -> 0..MaxJournal]
  BY JournalAssumption
<1>2. entry \in Index
  BY <1>1, Indexes
<1>3. Fits(entry, Appended(m))
  BY AppendedEntries DEF Fits
<1> HIDE DEF entry
<1>4. Fits(e, journalData) => Fits(e, Appended(m))
  BY AppendedEntries
<1> QED
  BY <1>2, <1>3, <1>4, MergedEntries DEF entry

LEMMA JournalFacts ==
  ASSUME JournalTypeOK
  PROVE  /\ index \in Index /\ loaded \in BOOLEAN /\ dirty \in BOOLEAN /\ mixed \in BOOLEAN
         /\ journalData = Absent \/ journalData \in Seq(Journalled)
         /\ journalIndex \in Index \cup {Absent, HalfWritten}
         /\ Size \in 0..MaxJournal
         /\ \A c \in JournalCalls : jcall[c] \in JCall /\ CallOK(jcall[c])
         /\ Idle \in JCall /\ CallOK(Idle)
<1>1. /\ index \in Index /\ loaded \in BOOLEAN /\ dirty \in BOOLEAN /\ mixed \in BOOLEAN
      /\ journalData = Absent \/ journalData \in Seq(Journalled)
      /\ journalIndex \in Index \cup {Absent, HalfWritten}
  BY DEF JournalTypeOK, JoTypeOK
<1>2. \A c \in JournalCalls : jcall[c] \in JCall /\ CallOK(jcall[c])
  BY DEF JournalTypeOK, JoTypeOK
<1>3. Size \in Nat
  <2>1. CASE journalData = Absent
    BY <2>1 DEF Size
  <2>2. CASE journalData # Absent
    BY <1>1, <2>2 DEF Size
  <2> QED
    BY <2>1, <2>2
<1>4. Size \in 0..MaxJournal
  BY <1>3, JournalAssumption DEF JournalTypeOK
<1>5. Idle \in JCall /\ CallOK(Idle)
  BY Indexes, JournalAssumption DEF Idle, JCall, CallOK
<1> QED
  BY <1>1, <1>2, <1>4, <1>5

\* What a call that is under way may do.
LEMMA CallStepKeeps ==
  ASSUME JournalInv, NEW c \in JournalCalls, NEW to \in JCall,
         jcall[c].op # "none", jcall' = [jcall EXCEPT ![c] = to],
         to.op \in {jcall[c].op, "none"}, CallOK(to),
         index' \in Index, loaded' \in BOOLEAN, dirty' \in BOOLEAN, mixed' \in BOOLEAN,
         journalData' = Absent \/ journalData' \in Seq(Journalled), Size' <= MaxJournal,
         journalIndex' \in Index \cup {Absent, HalfWritten},
         mixed => mixed',
         \/ journalData' = journalData
         \/ jcall[c].op = "append" /\ \E m \in Journalled : journalData' = Appended(m)
         \/ jcall[c].op \in {"clear", "compact"},
         ~mixed' /\ NotMixed /\ InHand /\ OnDisk =>
           /\ Fits(index', journalData')
           /\ journalIndex' \in Index /\ to.at # "unlinkIndex" => Fits(journalIndex', journalData')
           /\ to.at = "sized" => to.offset = Size'
           /\ to.at \in {"truncate", "write"} => Fits(to.image, journalData')
           /\ to.at \in {"unlinkData", "unlinkIndex"} => index' = NoEntries
           /\ to.at = "unlinkIndex" => journalData' = Absent
  PROVE  JournalInv'
<1> USE DEF JournalInv
<1>1. /\ jcall'[c] = to /\ \A d \in JournalCalls \ {c} : jcall'[d] = jcall[d]
      /\ jcall' \in [JournalCalls -> JCall]
  BY DEF JournalTypeOK, JoTypeOK
<1>2. \A d \in JournalCalls : jcall[d] \in JCall /\ CallOK(jcall[d])
  BY JournalFacts
<1>3. JournalTypeOK'
  BY <1>1, <1>2 DEF JournalTypeOK, JoTypeOK
<1>4. ASSUME ~mixed' PROVE NotMixed' /\ InHand' /\ OnDisk'
  <2>1. NotMixed /\ InHand /\ OnDisk
    BY <1>4
  <2>2. NotMixed'
    BY <1>1, <2>1 DEF NotMixed
  <2>3. ASSUME NEW d \in JournalCalls, d # c
        PROVE  /\ jcall[d].op \notin {"clear", "compact"}
               /\ jcall[d].at \notin {"unlinkData", "unlinkIndex"}
               /\ jcall[c].op = "append" => jcall[d].op # "append" /\ jcall[d].at # "sized"
               /\ jcall[c].op \in {"clear", "compact"} => jcall[d].at = "rest"
    BY <1>2, <2>1, <2>3 DEF NotMixed, CallOK
  <2>4. ASSUME NEW d \in JournalCalls, d # c
        PROVE  /\ jcall[d].at = "sized" => jcall[d].offset = Size'
               /\ jcall[d].at \in {"truncate", "write"} => Fits(jcall[d].image, journalData')
    <3>1. CASE journalData' = journalData
      BY <2>1, <3>1 DEF InHand, Size
    <3>2. CASE jcall[c].op = "append" /\ \E m \in Journalled : journalData' = Appended(m)
      <4>1. journalData = Absent \/ journalData \in Seq(Journalled)
        BY JournalFacts
      <4> QED
        BY <2>1, <2>3, <2>4, <3>2, <4>1, AppendedEntries DEF InHand
    <3>3. CASE jcall[c].op \in {"clear", "compact"}
      BY <2>3, <2>4, <3>3
    <3> QED
      BY <3>1, <3>2, <3>3
  <2>5. InHand'
    <3> SUFFICES ASSUME NEW d \in JournalCalls
                 PROVE  /\ jcall'[d].at = "sized" => jcall'[d].offset = Size'
                        /\ jcall'[d].at \in {"truncate", "write"} => Fits(jcall'[d].image, journalData')
                        /\ jcall'[d].at \in {"unlinkData", "unlinkIndex"} => index' = NoEntries
                        /\ jcall'[d].at = "unlinkIndex" => journalData' = Absent
      BY DEF InHand, Fits, NoEntries
    <3>1. CASE d = c
      BY <1>1, <1>4, <2>1, <3>1
    <3>2. CASE d # c
      BY <1>1, <2>3, <2>4, <3>2
    <3> QED
      BY <3>1, <3>2
  <2>6. OnDisk'
    <3>1. journalIndex' \in Index /\ jcall'[c].at # "unlinkIndex" => Fits(journalIndex', journalData')
      BY <1>1, <1>4, <2>1
    <3>2. Fits(index', journalData')
      BY <1>4, <2>1
    <3>3. Index' = Index
      BY DEF Index
    <3> QED
      BY <3>1, <3>2, <3>3 DEF OnDisk, Fits
  <2> QED
    BY <2>2, <2>5, <2>6
<1> QED
  BY <1>3, <1>4

LEMMA CallBegins ==
  ASSUME JournalInv, NEW c \in JournalCalls, NEW op \in {"append", "delete", "clear", "flush", "close", "compact"},
         NEW msg \in Journalled \cup {Absent}, op \in {"append", "delete"} => msg \in Journalled,
         Call(c, op, msg)
  PROVE  JournalInv'
<1> USE DEF JournalInv
<1>1. /\ jcall[c] = Idle /\ mixed' = (mixed \/ Mixes(c, op)) /\ loaded' \in BOOLEAN
      /\ UNCHANGED <<index, dirty, journalData, journalIndex>>
  BY JournalFacts DEF Call
<1>2. PICK at \in {"init", "begin"} :
        jcall' = [jcall EXCEPT ![c] = [Idle EXCEPT !.op = op, !.at = at, !.msg = msg]]
  BY DEF Call
<1> DEFINE to == [Idle EXCEPT !.op = op, !.at = at, !.msg = msg]
<1>3. to \in JCall /\ CallOK(to) /\ to.op = op /\ to.at = at
  BY JournalFacts DEF Idle, JCall, CallOK
<1> HIDE DEF to
<1>4. /\ jcall'[c] = to /\ \A d \in JournalCalls \ {c} : jcall'[d] = jcall[d]
      /\ jcall' \in [JournalCalls -> JCall]
  BY <1>2, <1>3 DEF to, JournalTypeOK, JoTypeOK
<1>5. JournalTypeOK'
  <2>1. mixed' \in BOOLEAN
    BY <1>1, JournalFacts DEF Mixes
  <2>2. \A d \in JournalCalls : CallOK(jcall'[d])
    BY <1>3, <1>4 DEF JournalTypeOK
  <2> QED
    BY <1>1, <1>4, <2>1, <2>2, JournalFacts DEF JournalTypeOK, JoTypeOK, Size, Index
<1>6. ASSUME ~mixed' PROVE NotMixed' /\ InHand' /\ OnDisk'
  <2>1. NotMixed /\ InHand /\ OnDisk /\ ~Mixes(c, op)
    BY <1>1, <1>6
  <2>2. \A d \in JournalCalls \ {c} :
          /\ op \in {"clear", "compact"} => jcall[d].op = "none"
          /\ jcall[d].op \notin {"clear", "compact"}
          /\ op = "append" => jcall[d].op # "append"
    BY <2>1 DEF Mixes, Others
  <2>3. NotMixed'
    BY <1>3, <1>4, <2>1, <2>2 DEF NotMixed
  <2>4. InHand'
    BY <1>1, <1>3, <1>4, <2>1 DEF InHand, Size, Fits, NoEntries
  <2>5. OnDisk'
    <3>1. jcall[c].at # "unlinkIndex" /\ to.at # "unlinkIndex"
      BY <1>1, <1>3 DEF Idle
    <3>2. \A d \in JournalCalls : jcall'[d].at # "unlinkIndex" <=> jcall[d].at # "unlinkIndex"
      BY <1>4, <3>1
    <3> QED
      BY <1>1, <2>1, <3>2 DEF OnDisk, Fits, Index
  <2> QED
    BY <2>3, <2>4, <2>5
<1> QED
  BY <1>5, <1>6

\* The steps of append, of delete and of what loads the index.
LEMMA AppendKeeps ==
  ASSUME JournalInv, NEW c \in JournalCalls,
         \/ InitJournal(c) \/ AppendSize(c) \/ AppendMessage(c) \/ JournalAppendFails(c)
         \/ DeleteMessage(c)
  PROVE  JournalInv'
<1> DEFINE call == jcall[c]
<1>1. /\ JournalTypeOK /\ call \in JCall /\ CallOK(call) /\ Idle \in JCall /\ CallOK(Idle)
      /\ Idle.at = "rest" /\ Idle.op = "none"
      /\ Size <= MaxJournal /\ (journalData' = journalData => Size' = Size)
  BY JournalFacts DEF JournalInv, JournalTypeOK, Idle, Size
<1>2. CASE InitJournal(c)
  <2>1. /\ call.at = "init" /\ loaded' = TRUE /\ jcall' = [jcall EXCEPT ![c].at = "begin"]
        /\ index' = IF journalIndex \in Index THEN Merged(index, journalIndex) ELSE NoEntries
        /\ UNCHANGED <<dirty, journalData, journalIndex, mixed>>
    BY <1>2 DEF InitJournal, JGoes
  <2> DEFINE to == [call EXCEPT !.at = "begin"]
  <2>2. to \in JCall /\ to.at = "begin" /\ to.op = call.op /\ CallOK(to) /\ call.op # "none"
    BY <1>1, <2>1 DEF JCall, CallOK
  <2>3. jcall' = [jcall EXCEPT ![c] = to]
    BY <2>1
  <2> HIDE DEF to
  <2>4. index' \in Index
    BY <2>1, <1>1, JournalFacts, MergedEntries, Indexes
  <2>5. ~mixed /\ NotMixed /\ InHand /\ OnDisk => Fits(index', journalData) /\
          (journalIndex \in Index => Fits(journalIndex, journalData))
    <3> SUFFICES ASSUME ~mixed, NotMixed, OnDisk
                 PROVE  /\ Fits(index', journalData)
                        /\ journalIndex \in Index => Fits(journalIndex, journalData)
      OBVIOUS
    <3>1. \A d \in JournalCalls : jcall[d].at # "unlinkIndex"
      BY <1>1, <2>1, <2>2, JournalFacts DEF NotMixed, CallOK
    <3>2. journalIndex \in Index => Fits(journalIndex, journalData)
      BY <3>1 DEF OnDisk
    <3>3. Fits(NoEntries, journalData) /\ Fits(index, journalData) /\ index \in Index
      BY <1>1, JournalFacts DEF OnDisk, Fits, NoEntries
    <3> QED
      BY <2>1, <3>2, <3>3, MergedEntries
  <2> QED
    BY <1>1, <2>1, <2>2, <2>3, <2>4, <2>5, JournalFacts, CallStepKeeps
<1>3. CASE AppendSize(c)
  <2>1. /\ call.op = "append" /\ call.at = "begin"
        /\ jcall' = [jcall EXCEPT ![c].at = "sized", ![c].offset = Size]
        /\ UNCHANGED <<index, loaded, dirty, journalData, journalIndex, mixed>>
    BY <1>3 DEF AppendSize, JAt, FileSize
  <2> DEFINE to == [call EXCEPT !.at = "sized", !.offset = Size]
  <2>2. to \in JCall /\ to.at = "sized" /\ to.op = "append" /\ CallOK(to) /\ to.offset = Size
    BY <1>1, <2>1, JournalFacts DEF JCall, CallOK
  <2>3. jcall' = [jcall EXCEPT ![c] = to]
    BY <2>1
  <2> HIDE DEF to
  <2>4. ~mixed /\ NotMixed /\ InHand /\ OnDisk => Fits(index, journalData) /\
          (journalIndex \in Index => Fits(journalIndex, journalData))
    BY <1>1, <2>1, JournalFacts DEF OnDisk, NotMixed, CallOK
  <2> QED
    BY <1>1, <2>1, <2>2, <2>3, <2>4, JournalFacts, CallStepKeeps
<1>4. CASE AppendMessage(c)
  <2>1. /\ call.op = "append" /\ call.at = "sized" /\ Size < MaxJournal
        /\ journalData' = Appended(call.msg)
        /\ index' = Merged(index, [m \in {call.msg} |-> call.offset]) /\ dirty' = TRUE
        /\ jcall' = [jcall EXCEPT ![c] = Idle] /\ UNCHANGED <<loaded, journalIndex, mixed>>
    BY <1>4 DEF AppendMessage, JAt, JReturns
  <2>2. /\ call.msg \in Journalled /\ call.offset \in 0..MaxJournal /\ Size \in Nat
        /\ journalData = Absent \/ journalData \in Seq(Journalled)
    BY <1>1, <2>1, JournalFacts DEF CallOK, JCall
  <2>3. /\ journalData' \in Seq(Journalled) /\ Size' = Size + 1
        /\ \A e : Fits(e, journalData) => Fits(e, journalData')
    BY <2>1, <2>2, AppendedEntries DEF Size
  <2>4. index' \in Index
    <3>1. [m \in {call.msg} |-> call.offset] \in Index
      BY <2>2, Indexes
    <3> QED
      BY <1>1, <2>1, <3>1, JournalFacts, MergedEntries
  <2>5. ~mixed /\ NotMixed /\ InHand /\ OnDisk => Fits(index', journalData') /\
          (journalIndex \in Index => Fits(journalIndex, journalData'))
    <3> SUFFICES ASSUME NotMixed, InHand, OnDisk
                 PROVE  /\ Fits(index', journalData')
                        /\ journalIndex \in Index => Fits(journalIndex, journalData')
      OBVIOUS
    <3>1. call.offset = Size /\ Fits(index, journalData) /\ index \in Index
      BY <1>1, <2>1, JournalFacts DEF InHand, OnDisk
    <3>2. \A d \in JournalCalls : jcall[d].at # "unlinkIndex"
      BY <1>1, <2>1, JournalFacts DEF NotMixed, CallOK
    <3>3. Fits(index', journalData')
      BY <2>1, <2>2, <3>1, NewEntry
    <3> QED
      BY <2>3, <3>2, <3>3 DEF OnDisk
  <2>6. Size' <= MaxJournal
    BY <2>1, <2>2, <2>3, JournalAssumption
  <2> QED
    BY <1>1, <2>1, <2>2, <2>3, <2>4, <2>5, <2>6, JournalFacts, CallStepKeeps
<1>5. CASE JournalAppendFails(c)
  <2>1. /\ call.op = "append" /\ call.at = "sized" /\ jcall' = [jcall EXCEPT ![c] = Idle]
        /\ UNCHANGED <<index, loaded, dirty, journalData, journalIndex, mixed>>
    BY <1>5 DEF JournalAppendFails, JAt, JReturns
  <2>2. ~mixed /\ NotMixed /\ InHand /\ OnDisk => Fits(index, journalData) /\
          (journalIndex \in Index => Fits(journalIndex, journalData))
    BY <1>1, <2>1, JournalFacts DEF OnDisk, NotMixed, CallOK
  <2> QED
    BY <1>1, <2>1, <2>2, JournalFacts, CallStepKeeps
<1>6. CASE DeleteMessage(c)
  <2>1. /\ call.op = "delete" /\ call.at = "begin" /\ jcall' = [jcall EXCEPT ![c] = Idle]
        /\ index' = Restrict(index, DOMAIN index \ {call.msg}) /\ dirty' = TRUE
        /\ UNCHANGED <<loaded, journalData, journalIndex, mixed>>
    BY <1>6 DEF DeleteMessage, JAt, JReturns
  <2>2. index' \in Index /\ \A data : Fits(index, data) => Fits(index', data)
    BY <1>1, <2>1, JournalFacts, RestrictedEntries
  <2>3. ~mixed /\ NotMixed /\ InHand /\ OnDisk => Fits(index', journalData) /\
          (journalIndex \in Index => Fits(journalIndex, journalData))
    BY <1>1, <2>1, <2>2, JournalFacts DEF OnDisk, NotMixed, CallOK
  <2> QED
    BY <1>1, <2>1, <2>2, <2>3, JournalFacts, CallStepKeeps
<1> QED
  BY <1>2, <1>3, <1>4, <1>5, <1>6

\* The steps of compact and of clear.
LEMMA ClearKeeps ==
  ASSUME JournalInv, NEW c \in JournalCalls,
         \/ CompactBegin(c) \/ CompactGet(c) \/ Clear(c) \/ UnlinkData(c) \/ UnlinkIndex(c)
         \/ CompactAppend(c)
  PROVE  JournalInv'
<1> DEFINE call == jcall[c]
<1>1. /\ JournalTypeOK /\ call \in JCall /\ CallOK(call) /\ Idle \in JCall /\ CallOK(Idle)
      /\ Idle.at = "rest" /\ Idle.op = "none"
      /\ Size <= MaxJournal /\ (journalData' = journalData => Size' = Size)
  BY JournalFacts DEF JournalInv, JournalTypeOK, Idle, Size
<1>2. call.op \in {"clear", "compact"} /\ ~mixed /\ NotMixed =>
        \A d \in JournalCalls \ {c} : jcall[d].at # "unlinkIndex"
  BY JournalFacts, <1>1 DEF NotMixed, CallOK
<1>3. CASE CompactBegin(c)
  <2>1. /\ call.op = "compact" /\ call.at = "begin" /\ jcall' = [jcall EXCEPT ![c].at = "collect"]
        /\ UNCHANGED <<index, loaded, dirty, journalData, journalIndex, mixed>>
    BY <1>3 DEF CompactBegin, JAt, JGoes
  <2> DEFINE to == [call EXCEPT !.at = "collect"]
  <2>2. to \in JCall /\ to.at = "collect" /\ to.op = call.op /\ CallOK(to)
    BY <1>1, <2>1 DEF JCall, CallOK
  <2>3. jcall' = [jcall EXCEPT ![c] = to]
    BY <2>1
  <2> HIDE DEF to
  <2>4. ~mixed /\ NotMixed /\ OnDisk => Fits(index, journalData) /\
          (journalIndex \in Index => Fits(journalIndex, journalData))
    BY <1>2, <2>1 DEF OnDisk
  <2> QED
    BY <1>1, <2>1, <2>2, <2>3, <2>4, JournalFacts, CallStepKeeps
<1>4. CASE CompactGet(c)
  <2>1. /\ call.op = "compact" /\ call.at = "collect"
        /\ UNCHANGED <<index, loaded, dirty, journalData, journalIndex, mixed>>
    BY <1>4 DEF CompactGet, JAt
  <2>2. PICK msg \in DOMAIN index \ call.seen :
          jcall' = [jcall EXCEPT ![c].seen = @ \cup {msg},
                      ![c].rest = IF Get(msg) THEN @ \cup {journalData[Size]} ELSE @]
    BY <1>4 DEF CompactGet
  <2>3. msg \in Journalled /\ index[msg] \in Nat
    BY <1>1, JournalFacts, Indexes
  <2>4. Get(msg) => journalData[Size] \in Journalled
    <3> SUFFICES ASSUME Get(msg) PROVE journalData[Size] \in Journalled
      OBVIOUS
    <3>1. Size \in Nat /\ Size > 0
      BY <1>1, <2>3, JournalFacts DEF Get
    <3>2. journalData \in Seq(Journalled) /\ Size = Len(journalData)
      BY <1>1, <3>1, JournalFacts DEF Size
    <3> QED
      BY <3>1, <3>2
  <2> DEFINE rest == IF Get(msg) THEN call.rest \cup {journalData[Size]} ELSE call.rest
             to == [call EXCEPT !.seen = @ \cup {msg}, !.rest = rest]
  <2>5. to \in JCall /\ to.at = "collect" /\ to.op = call.op /\ CallOK(to)
    <3>1. rest \in SUBSET Journalled
      BY <1>1, <2>4 DEF JCall
    <3> HIDE DEF rest
    <3> QED
      BY <1>1, <2>1, <2>3, <3>1 DEF JCall, CallOK
  <2>6. jcall' = [jcall EXCEPT ![c] = to]
    BY <2>2
  <2> HIDE DEF to
  <2>7. ~mixed /\ NotMixed /\ OnDisk => Fits(index, journalData) /\
          (journalIndex \in Index => Fits(journalIndex, journalData))
    BY <1>2, <2>1 DEF OnDisk
  <2> QED
    BY <1>1, <2>1, <2>5, <2>6, <2>7, JournalFacts, CallStepKeeps
<1>5. CASE Clear(c)
  <2>1. /\ call.op \in {"clear", "compact"} /\ call.at \in {"begin", "collect"}
        /\ jcall' = [jcall EXCEPT ![c].at = "unlinkData"] /\ index' = NoEntries /\ dirty' = TRUE
        /\ UNCHANGED <<loaded, journalData, journalIndex, mixed>>
    BY <1>5 DEF Clear, Clears, JAt, JGoes
  <2> DEFINE to == [call EXCEPT !.at = "unlinkData"]
  <2>2. to \in JCall /\ to.at = "unlinkData" /\ to.op = call.op /\ CallOK(to)
    BY <1>1, <2>1 DEF JCall, CallOK
  <2>3. jcall' = [jcall EXCEPT ![c] = to]
    BY <2>1
  <2> HIDE DEF to
  <2>4. ~mixed /\ NotMixed /\ OnDisk => Fits(index', journalData) /\
          (journalIndex \in Index => Fits(journalIndex, journalData))
    BY <1>2, <2>1 DEF OnDisk, Fits, NoEntries
  <2> QED
    BY <1>1, <2>1, <2>2, <2>3, <2>4, JournalFacts, Indexes, CallStepKeeps
<1>6. CASE UnlinkData(c)
  <2>1. /\ call.at = "unlinkData" /\ journalData' = Absent
        /\ IF journalData = Absent THEN Cleared(c) ELSE jcall' = [jcall EXCEPT ![c].at = "unlinkIndex"]
        /\ mixed' = (mixed \/ (journalData = Absent /\ journalIndex # Absent))
        /\ UNCHANGED <<index, loaded, dirty, journalIndex>>
    BY <1>6 DEF UnlinkData, JGoes
  <2>2. call.op \in {"clear", "compact"} /\ Size' = 0
    BY <1>1, <2>1 DEF CallOK, Size
  <2>3. PICK to \in JCall :
          /\ jcall' = [jcall EXCEPT ![c] = to] /\ CallOK(to) /\ to.op \in {call.op, "none"}
          /\ to.at \in {"rest", "rewrite", "unlinkIndex"}
          /\ to.at # "unlinkIndex" => journalData = Absent
    <3>1. CASE journalData # Absent
      <4> DEFINE to == [call EXCEPT !.at = "unlinkIndex"]
      <4>1. to \in JCall /\ to.at = "unlinkIndex" /\ to.op = call.op /\ CallOK(to)
        BY <1>1, <2>2 DEF JCall, CallOK
      <4>2. jcall' = [jcall EXCEPT ![c] = to]
        BY <2>1, <3>1
      <4> HIDE DEF to
      <4> QED
        BY <4>1, <4>2
    <3>2. CASE journalData = Absent /\ call.op = "compact"
      <4> DEFINE to == [call EXCEPT !.at = "rewrite"]
      <4>1. to \in JCall /\ to.at = "rewrite" /\ to.op = call.op /\ CallOK(to)
        BY <1>1, <3>2 DEF JCall, CallOK
      <4>2. jcall' = [jcall EXCEPT ![c] = to]
        BY <2>1, <3>2 DEF Cleared, JGoes
      <4> HIDE DEF to
      <4> QED
        BY <3>2, <4>1, <4>2
    <3>3. CASE journalData = Absent /\ call.op # "compact"
      <4>1. jcall' = [jcall EXCEPT ![c] = Idle]
        BY <2>1, <3>3 DEF Cleared, JReturns
      <4> QED
        BY <1>1, <3>3, <4>1
    <3> QED
      BY <3>1, <3>2, <3>3
  <2>4. index \in Index /\ loaded \in BOOLEAN /\ dirty \in BOOLEAN /\ mixed' \in BOOLEAN
        /\ journalIndex \in Index \cup {Absent, HalfWritten} /\ 0 <= MaxJournal
    BY <1>1, <2>1, JournalFacts, JournalAssumption
  <2>5. ~mixed' /\ InHand =>
          /\ Fits(index, journalData')
          /\ journalIndex \in Index /\ to.at # "unlinkIndex" => Fits(journalIndex, journalData')
          /\ index' = NoEntries
    <3> SUFFICES ASSUME ~mixed', InHand
                 PROVE  /\ index = NoEntries /\ Fits(NoEntries, journalData')
                        /\ ~(journalIndex \in Index /\ to.at # "unlinkIndex")
      BY <2>1
    <3>1. index = NoEntries
      BY <2>1 DEF InHand
    <3>2. Fits(NoEntries, journalData')
      BY DEF Fits, NoEntries
    <3> QED
      BY <2>1, <2>3, <3>1, <3>2, Indexes
  <2> QED
    BY <1>1, <2>1, <2>2, <2>3, <2>4, <2>5, CallStepKeeps
<1>7. CASE UnlinkIndex(c)
  <2>1. /\ call.at = "unlinkIndex" /\ journalIndex' = Absent /\ Cleared(c)
        /\ UNCHANGED <<index, loaded, dirty, journalData, mixed>>
    BY <1>7 DEF UnlinkIndex
  <2>2. call.op \in {"clear", "compact"}
    BY <1>1, <2>1 DEF CallOK
  <2>3. PICK to \in JCall :
          /\ jcall' = [jcall EXCEPT ![c] = to] /\ CallOK(to) /\ to.op \in {call.op, "none"}
          /\ to.at \in {"rest", "rewrite"}
    <3>1. CASE call.op = "compact"
      <4> DEFINE to == [call EXCEPT !.at = "rewrite"]
      <4>1. to \in JCall /\ to.at = "rewrite" /\ to.op = call.op /\ CallOK(to)
        BY <1>1, <3>1 DEF JCall, CallOK
      <4>2. jcall' = [jcall EXCEPT ![c] = to]
        BY <2>1, <3>1 DEF Cleared, JGoes
      <4> HIDE DEF to
      <4> QED
        BY <3>1, <4>1, <4>2
    <3>2. CASE call.op # "compact"
      <4>1. jcall' = [jcall EXCEPT ![c] = Idle]
        BY <2>1, <3>2 DEF Cleared, JReturns
      <4> QED
        BY <1>1, <3>2, <4>1
    <3> QED
      BY <3>1, <3>2
  <2>4. OnDisk => Fits(index, journalData)
    BY DEF OnDisk
  <2> QED
    BY <1>1, <2>1, <2>2, <2>3, <2>4, JournalFacts, Indexes, CallStepKeeps
<1>8. CASE CompactAppend(c)
  <2>1. /\ call.at = "rewrite" /\ Size < MaxJournal /\ dirty' = TRUE
        /\ UNCHANGED <<loaded, journalIndex, mixed>>
    BY <1>8 DEF CompactAppend
  <2>2. PICK msg \in call.rest :
          /\ jcall' = [jcall EXCEPT ![c].rest = @ \ {msg}]
          /\ index' = Merged(index, [m \in {msg} |-> Size]) /\ journalData' = Appended(msg)
    BY <1>8 DEF CompactAppend, FileSize
  <2>3. /\ call.op = "compact" /\ msg \in Journalled /\ Size \in Nat
        /\ journalData = Absent \/ journalData \in Seq(Journalled)
    BY <1>1, <2>1, JournalFacts DEF CallOK, JCall
  <2> DEFINE to == [call EXCEPT !.rest = @ \ {msg}]
  <2>4. to \in JCall /\ to.at = "rewrite" /\ to.op = call.op /\ CallOK(to)
    BY <1>1, <2>1, <2>3 DEF JCall, CallOK
  <2>5. jcall' = [jcall EXCEPT ![c] = to]
    BY <2>2
  <2> HIDE DEF to
  <2>6. /\ journalData' \in Seq(Journalled) /\ Size' = Size + 1
        /\ \A e : Fits(e, journalData) => Fits(e, journalData')
    BY <2>2, <2>3, AppendedEntries DEF Size
  <2>7. index' \in Index /\ (Fits(index, journalData) => Fits(index', journalData'))
    BY <1>1, <2>1, <2>2, <2>3, NewEntry, JournalFacts
  <2>8. ~mixed /\ NotMixed /\ OnDisk => Fits(index', journalData') /\
          (journalIndex \in Index => Fits(journalIndex, journalData'))
    BY <1>2, <2>1, <2>3, <2>6, <2>7 DEF OnDisk
  <2>9. Size' <= MaxJournal
    BY <2>1, <2>3, <2>6, JournalAssumption
  <2> QED
    BY <1>1, <2>1, <2>3, <2>4, <2>5, <2>6, <2>7, <2>8, <2>9, JournalFacts, CallStepKeeps
<1> QED
  BY <1>3, <1>4, <1>5, <1>6, <1>7, <1>8

\* The steps of flush, in close and compact too.
LEMMA FlushKeeps ==
  ASSUME JournalInv, NEW c \in JournalCalls,
         \/ FlushNothing(c) \/ FlushBegin(c) \/ FlushTruncate(c) \/ FlushWrite(c) \/ FlushFails(c)
  PROVE  JournalInv'
<1> DEFINE call == jcall[c]
<1>1. /\ JournalTypeOK /\ call \in JCall /\ CallOK(call) /\ Idle \in JCall /\ CallOK(Idle)
      /\ Idle.at = "rest" /\ Idle.op = "none"
      /\ Size <= MaxJournal /\ (journalData' = journalData => Size' = Size)
      /\ journalData' = journalData /\ index' = index /\ mixed' = mixed
  BY JournalFacts DEF JournalInv, JournalTypeOK, Idle, Size, FlushNothing, FlushBegin,
     FlushTruncate, FlushWrite, FlushFails
<1>2. call.op \in {"flush", "close", "compact"}
  BY <1>1 DEF FlushNothing, FlushBegin, FlushTruncate, FlushWrite, FlushFails, Flushes, CallOK
<1>3. call.at # "unlinkIndex"
  BY DEF FlushNothing, FlushBegin, FlushTruncate, FlushWrite, FlushFails, Flushes
<1>4. ~mixed /\ NotMixed /\ OnDisk => Fits(index, journalData) /\
        (journalIndex \in Index => Fits(journalIndex, journalData))
  BY <1>1, <1>2, <1>3, JournalFacts DEF OnDisk, NotMixed, CallOK
<1>5. CASE FlushNothing(c) \/ FlushFails(c)
  <2>1. /\ jcall' = [jcall EXCEPT ![c] = Idle] /\ loaded' \in BOOLEAN
        /\ dirty' = dirty /\ journalIndex' = journalIndex
    BY <1>5 DEF FlushNothing, FlushFails, Flushed, JReturns
  <2> QED
    BY <1>1, <1>2, <1>4, <2>1, JournalFacts, CallStepKeeps
<1>6. CASE FlushBegin(c)
  <2>1. /\ jcall' = [jcall EXCEPT ![c].at = "truncate", ![c].image = index]
        /\ loaded' = loaded /\ dirty' = dirty /\ journalIndex' = journalIndex
    BY <1>6 DEF FlushBegin
  <2> DEFINE to == [call EXCEPT !.at = "truncate", !.image = index]
  <2>2. to \in JCall /\ to.at = "truncate" /\ to.op = call.op /\ CallOK(to) /\ to.image = index
    BY <1>1, <1>2, JournalFacts DEF JCall, CallOK
  <2>3. jcall' = [jcall EXCEPT ![c] = to]
    BY <2>1
  <2> HIDE DEF to
  <2> QED
    BY <1>1, <1>2, <1>4, <2>1, <2>2, <2>3, JournalFacts, CallStepKeeps
<1>7. CASE FlushTruncate(c)
  <2>1. /\ call.at = "truncate" /\ jcall' = [jcall EXCEPT ![c].at = "write"]
        /\ journalIndex' = HalfWritten /\ loaded' = loaded /\ dirty' = dirty
    BY <1>7 DEF FlushTruncate, JGoes
  <2> DEFINE to == [call EXCEPT !.at = "write"]
  <2>2. to \in JCall /\ to.at = "write" /\ to.op = call.op /\ CallOK(to) /\ to.image = call.image
    BY <1>1, <1>2 DEF JCall, CallOK
  <2>3. jcall' = [jcall EXCEPT ![c] = to]
    BY <2>1
  <2> HIDE DEF to
  <2>4. InHand => Fits(to.image, journalData)
    BY <2>1, <2>2 DEF InHand
  <2> QED
    BY <1>1, <1>2, <1>4, <2>1, <2>2, <2>3, <2>4, JournalFacts, Indexes, CallStepKeeps
<1>8. CASE FlushWrite(c)
  <2>1. /\ call.at = "write" /\ jcall' = [jcall EXCEPT ![c] = Idle] /\ loaded' \in BOOLEAN
        /\ journalIndex' = call.image /\ dirty' = FALSE
    BY <1>8 DEF FlushWrite, Flushed, JReturns
  <2>2. call.image \in Index /\ (InHand => Fits(call.image, journalData))
    BY <1>1, <2>1 DEF InHand, JCall
  <2> QED
    BY <1>1, <1>2, <1>4, <2>1, <2>2, JournalFacts, CallStepKeeps
<1> QED
  BY <1>5, <1>6, <1>7, <1>8

LEMMA JournalInvKept == JournalInv /\ [JoNext]_joVars => JournalInv'
<1> SUFFICES ASSUME JournalInv, [JoNext]_joVars PROVE JournalInv'
  OBVIOUS
<1>1. CASE JournalRestart
  <2>1. /\ index' = NoEntries /\ loaded' = FALSE /\ dirty' = FALSE
        /\ jcall' = [c \in JournalCalls |-> Idle]
        /\ mixed' = (mixed \/ \E c \in JournalCalls : jcall[c].at = "unlinkIndex")
        /\ UNCHANGED <<journalData, journalIndex>>
    BY <1>1 DEF JournalRestart
  <2>2. /\ \A c \in JournalCalls : jcall'[c] = Idle
        /\ Idle.at = "rest" /\ Idle.op = "none"
    BY <2>1 DEF Idle
  <2>3. JournalTypeOK'
    BY <2>1, <2>2, JournalFacts, Indexes DEF JournalInv, JournalTypeOK, JoTypeOK, Size, Index
  <2>4. NotMixed' /\ InHand'
    BY <2>2 DEF NotMixed, InHand
  <2>5. ~mixed' => OnDisk'
    BY <2>1, <2>2 DEF JournalInv, OnDisk, Fits, NoEntries, Index
  <2> QED
    BY <2>3, <2>4, <2>5 DEF JournalInv
<1>2. ASSUME NEW c \in JournalCalls, JoStep(c) PROVE JournalInv'
  <2>1. CASE \E m \in Journalled : Call(c, "append", m) \/ Call(c, "delete", m)
    BY <2>1, CallBegins
  <2>2. CASE \E op \in {"clear", "flush", "close", "compact"} : Call(c, op, Absent)
    BY <2>2, CallBegins
  <2>3. CASE \/ InitJournal(c) \/ AppendSize(c) \/ AppendMessage(c) \/ JournalAppendFails(c)
             \/ DeleteMessage(c)
    BY <2>3, AppendKeeps
  <2>4. CASE \/ CompactBegin(c) \/ CompactGet(c) \/ Clear(c) \/ UnlinkData(c) \/ UnlinkIndex(c)
             \/ CompactAppend(c)
    BY <2>4, ClearKeeps
  <2>5. CASE \/ FlushNothing(c) \/ FlushBegin(c) \/ FlushTruncate(c) \/ FlushWrite(c) \/ FlushFails(c)
    BY <2>5, FlushKeeps
  <2> QED
    BY <1>2, <2>1, <2>2, <2>3, <2>4, <2>5 DEF JoStep
<1>3. CASE UNCHANGED joVars
  BY <1>3 DEF joVars, JournalInv, JournalTypeOK, JoTypeOK, Size, NotMixed, InHand, OnDisk, Fits,
     Index, NoEntries
<1> QED
  BY <1>1, <1>2, <1>3 DEF JoNext

LEMMA JournalInvRight == JournalInv => OffsetsRight
<1> SUFFICES ASSUME JournalInv, ~mixed, \A c \in JournalCalls : jcall[c].at # "unlinkIndex"
             PROVE  /\ Right(index) /\ (journalIndex \in Index => Right(journalIndex))
                    /\ \A i \in DOMAIN GetAll : GetAll[i] \in DOMAIN index => Get(GetAll[i])
  BY DEF OffsetsRight
<1>1. /\ Fits(index, journalData) /\ (journalIndex \in Index => Fits(journalIndex, journalData))
      /\ JournalTypeOK
  BY DEF JournalInv, OnDisk
<1>2. \A e : Fits(e, journalData) => Right(e) /\ \A m \in DOMAIN e : e[m] \in 0..(Size - 1)
  BY DEF Fits, Right, PointsAt, Size
<1>3. ASSUME NEW i \in DOMAIN GetAll, GetAll[i] \in DOMAIN index PROVE Get(GetAll[i])
  <2>1. CASE Size = 1
    <3>1. index[GetAll[i]] \in 0..(Size - 1)
      BY <1>1, <1>2, <1>3
    <3> QED
      BY <2>1, <3>1 DEF Get
  <2>2. CASE Size # 1
    BY <1>3, <2>2 DEF GetAll
  <2> QED
    BY <2>1, <2>2
<1> QED
  BY <1>1, <1>2, <1>3

\* Whatever calls of the journal overlap and wherever the process ends, the index in memory
\* and on disk points at the messages it names, as long as appends do not overlap and clear
\* and compact run alone.
THEOREM OffsetsStayRight == JoSpec => []OffsetsRight
<1>1. JoInit => JournalInv
  <2> SUFFICES ASSUME JoInit PROVE JournalInv
    OBVIOUS
  <2>1. /\ index = NoEntries /\ loaded = FALSE /\ dirty = FALSE /\ journalData = Absent
        /\ journalIndex = Absent /\ jcall = [c \in JournalCalls |-> Idle] /\ mixed = FALSE
    BY DEF JoInit
  <2>2. Idle \in JCall /\ CallOK(Idle) /\ Idle.at = "rest" /\ Idle.op = "none"
    BY Indexes, JournalAssumption DEF Idle, JCall, CallOK
  <2>3. JournalTypeOK
    <3>1. JoTypeOK
      BY <2>1, <2>2, Indexes DEF JoTypeOK
    <3>2. Size <= MaxJournal
      BY <2>1, JournalAssumption DEF Size
    <3>3. \A c \in JournalCalls : CallOK(jcall[c])
      BY <2>1, <2>2
    <3> QED
      BY <3>1, <3>2, <3>3 DEF JournalTypeOK
  <2>4. NotMixed /\ InHand /\ OnDisk
    BY <2>1, <2>2, Indexes DEF NotMixed, InHand, OnDisk, Fits, NoEntries
  <2> QED
    BY <2>3, <2>4 DEF JournalInv
<1> QED
  BY <1>1, JournalInvKept, JournalInvRight, PTL DEF JoSpec
================================================================================

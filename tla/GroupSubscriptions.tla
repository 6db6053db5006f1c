-------------------------- MODULE GroupSubscriptions --------------------------
(***************************************************************************)
(* The groups of the worker (src/src/service/worker.js): what it is        *)
(* subscribed to in the pool (subscribeToTopic of                          *)
(* src/src/network/nostr-network.js), and the messages it sends to groups. *)
(* Commands are handled one at a time within a call of processCommands,    *)
(* but calls overlap: sending waits for the relays, and joining for one    *)
(* microtask, in which a call resumed by the same promise goes on (the one *)
(* of a save that both have waited for, in src/src/utils/message-queue.js).*)
(* Leaving waits for nothing.  Two groups may have one topic.              *)
(***************************************************************************)
EXTENDS Integers, Sequences, FiniteSets, Functions, Subsequences

CONSTANTS
  Groups,
  Topics,
  TopicOf,          \* topic of each group
  LongTopics,       \* topics that subscribeToTopic refuses
  Posts,            \* group_send commands
  GroupOf,          \* the group of each
  MaxHistory,       \* bound: messages in the history, over all groups
  MaxOverlaps       \* bound: joins that overlap an earlier one of their topic, over all topics

ASSUME GroupSubscriptionsAssumption ==
  /\ TopicOf \in [Groups -> Topics] /\ LongTopics \subseteq Topics
  /\ GroupOf \in [Posts -> Groups] /\ MaxHistory \in Nat
  /\ MaxOverlaps \in Nat

VARIABLES
  groupsFile,         \* the groups in GROUPS_FILE
  gphase,             \* stage of the worker
  toLoad,             \* groups that loadExistingGroups has still to subscribe
  groupSubscriptions, \* subscription of a topic: for which group, open or ended by the relays
  subscribing,        \* for each topic, those that calls have opened and not stored yet
  strays,             \* those still open whose place in the Map a later one has taken
  joined,             \* history: groups that a join has succeeded for since any leave
  overlaps,           \* history: joins of each topic while another had opened and not stored
  post,               \* stage of each message
  broadcasts,         \* history: messages that a relay has taken
  groupHistory        \* the file of each group in GROUP_HISTORY_DIR

subscribed == <<groupSubscriptions, subscribing, strays, joined, overlaps>>
posted == <<post, broadcasts, groupHistory>>
gsVars == <<groupsFile, gphase, toLoad, subscribed, posted>>

EncryptGroupMessage(t) == [form |-> "v2", for |-> t, intact |-> TRUE]

\* The field content of an event: absent in those that broadcastToTopic makes, whose field
\* is message; or plain; or encrypted for a topic in one of the two forms, and altered or not.
Contents ==
  {EncryptGroupMessage(t) : t \in Topics} \cup [form : {"v2"}, for : Topics, intact : {FALSE}]
    \cup [form : {"legacy"}, for : Topics, intact : BOOLEAN] \cup [form : {"absent", "plain"}]

\* What a line of the history holds: an own message, or what a received one was read as.
KeptTexts == Posts \cup Topics \cup {"garbled", "raw"}

Posting == {"new", "broadcasting", "sent", "failed"}

GsTypeOK ==
  /\ groupsFile \subseteq Groups /\ toLoad \subseteq Groups /\ joined \subseteq Groups
  /\ gphase \in {"loading", "running", "flushing", "closing"}
  /\ DOMAIN groupSubscriptions \subseteq Topics
  /\ \A t \in DOMAIN groupSubscriptions :
       groupSubscriptions[t] \in [group : Groups, open : BOOLEAN]
  /\ subscribing \in [Topics -> Seq(Groups)] /\ strays \in [Topics -> Seq(Groups)]
  /\ overlaps \in [Topics -> Nat]
  /\ post \in [Posts -> Posting]
  /\ broadcasts \subseteq Posts /\ groupHistory \in [Groups -> Seq(KeptTexts)]

None == [t \in {} |-> 0]

NothingOpen == [t \in Topics |-> <<>>]

NoOverlaps == [t \in Topics |-> 0]

GsInit ==
  /\ groupsFile \in SUBSET Groups /\ gphase = "loading" /\ toLoad = groupsFile
  /\ groupSubscriptions = None /\ subscribing = NothingOpen /\ strays = NothingOpen
  /\ joined = {} /\ overlaps = NoOverlaps
  /\ post = [p \in Posts |-> "new"]
  /\ broadcasts = {} /\ groupHistory = [g \in Groups |-> <<>>]

----------------------------------------------------------------------------
(* Subscriptions. *)

Has(t) == t \in DOMAIN groupSubscriptions

Subscribing(t) == subscribing[t] # <<>>

\* The call of subscribeToTopic, after which the caller waits for one microtask.
OpenSubscription(g) ==
  LET topic == TopicOf[g]
      overlapping == IF Subscribing(topic) THEN 1 ELSE 0 IN
  /\ FoldFunction(+, 0, overlaps) + overlapping <= MaxOverlaps
  /\ subscribing' = [subscribing EXCEPT ![topic] = Append(@, g)]
  /\ overlaps' = [overlaps EXCEPT ![topic] = @ + overlapping]
  /\ UNCHANGED <<groupSubscriptions, strays, joined>>

\* Mutant: the Map is not asked.
SubscribeUnasked(g) ==
  IF TopicOf[g] \in LongTopics THEN UNCHANGED subscribed ELSE OpenSubscription(g)

\* subscribeToGroup up to the await; subscribeToTopic throws for a long topic.
SubscribeToGroup(g) ==
  LET topic == TopicOf[g] IN
  \/ Has(topic) /\ joined' = joined \cup {g}
       /\ UNCHANGED <<groupSubscriptions, subscribing, strays, overlaps>>
  \/ ~Has(topic) /\ topic \in LongTopics /\ UNCHANGED subscribed
  \/ ~Has(topic) /\ topic \notin LongTopics /\ OpenSubscription(g)

OpenEntry(t) == Has(t) /\ groupSubscriptions[t].open

\* The rest of subscribeToGroup: callers are resumed in the order in which they opened.  The
\* subscription that the Map had stays open, and nothing closes it any more.
StoreSubscription(t) ==
  /\ Subscribing(t)
  /\ LET g == Head(subscribing[t]) IN
     /\ groupSubscriptions' = [u \in DOMAIN groupSubscriptions \cup {t} |->
                                 IF u = t THEN [group |-> g, open |-> TRUE]
                                          ELSE groupSubscriptions[u]]
     /\ joined' = joined \cup {g}
  /\ subscribing' = [subscribing EXCEPT ![t] = Tail(@)]
  /\ strays' = IF OpenEntry(t)
                THEN [strays EXCEPT ![t] = Append(@, groupSubscriptions[t].group)]
                ELSE strays
  /\ UNCHANGED <<groupsFile, gphase, toLoad, overlaps, posted>>

\* unsubscribeFromGroup knows only the topic, and closes what the Map has.
UnsubscribeFromGroup(g) ==
  /\ groupSubscriptions' = Restrict(groupSubscriptions,
                                    DOMAIN groupSubscriptions \ {TopicOf[g]})
  /\ joined' = joined \ {g} /\ UNCHANGED <<subscribing, strays, overlaps>>

\* loadExistingGroups joins one group after the other.
LoadGroup(g) ==
  /\ gphase = "loading" /\ g \in toLoad /\ \A t \in Topics : ~Subscribing(t)
  /\ SubscribeToGroup(g) /\ toLoad' = toLoad \ {g}
  /\ UNCHANGED <<groupsFile, gphase, posted>>

\* main goes on and starts the timer of processCommands.
GroupsLoaded ==
  /\ gphase = "loading" /\ toLoad = {} /\ \A t \in Topics : ~Subscribing(t)
  /\ gphase' = "running"
  /\ UNCHANGED <<groupsFile, toLoad, subscribed, posted>>

Handling == gphase \in {"running", "flushing", "closing"}

JoinCommand(g) ==
  /\ Handling /\ SubscribeToGroup(g)
  /\ UNCHANGED <<groupsFile, gphase, toLoad, posted>>

LeaveCommand(g) ==
  /\ Handling /\ UnsubscribeFromGroup(g)
  /\ UNCHANGED <<groupsFile, gphase, toLoad, posted>>

\* The connection to the relays is lost; nothing subscribes again.
SubscriptionEnds(t) ==
  /\ \/ /\ OpenEntry(t) /\ UNCHANGED strays
        /\ groupSubscriptions' = [groupSubscriptions EXCEPT ![t].open = FALSE]
     \/ /\ UNCHANGED groupSubscriptions
        /\ \E k \in DOMAIN strays[t] :
             strays' = [strays EXCEPT ![t] = Passing(@, DOMAIN @ \ {k})]
  /\ UNCHANGED <<groupsFile, gphase, toLoad, subscribing, joined, overlaps, posted>>

----------------------------------------------------------------------------
(* The history of a group, in src/src/service/group-manager.js. *)

KeptOfAll == FoldFunction(LAMBDA list, n : n + Len(list), 0, groupHistory)

\* saveMessageToHistory, whose failure is logged.
SaveMessageToHistory(g, text) ==
  \/ KeptOfAll < MaxHistory /\ groupHistory' = [groupHistory EXCEPT ![g] = Append(@, text)]
  \/ UNCHANGED groupHistory

\* slice(-limit)
Newest(list, limit) ==
  IF limit = 0 \/ limit >= Len(list) THEN list ELSE SubSeq(list, Len(list) - limit + 1, Len(list))

\* getMessageHistory, of a group that the reader knows: the newest of those that its
\* filter of times lets through, which is any set of them, for their senders set the times.
GetMessageHistory(g, limit, passed) == Newest(Passing(groupHistory[g], passed), limit)

----------------------------------------------------------------------------
(* Sending. *)

\* handleCommand, for group_send, when the network is down or canSendMessage refuses.
GroupSendRefused(p) ==
  /\ Handling /\ post[p] = "new" /\ post' = [post EXCEPT ![p] = "failed"]
  /\ UNCHANGED <<groupsFile, gphase, toLoad, subscribed, broadcasts, groupHistory>>

\* broadcastToTopic: the message reaches a relay at once, later or never.
GroupSendBegin(p) ==
  /\ Handling /\ post[p] = "new" /\ post' = [post EXCEPT ![p] = "broadcasting"]
  /\ broadcasts' \in {broadcasts, broadcasts \cup {p}}
  /\ UNCHANGED <<groupsFile, gphase, toLoad, subscribed, groupHistory>>

\* A relay has taken it: the history, and a result, which says that it failed if the first
\* one cannot be written.
GroupSent(p) ==
  /\ post[p] = "broadcasting" /\ broadcasts' = broadcasts \cup {p}
  /\ SaveMessageToHistory(GroupOf[p], p)
  /\ \E result \in {"sent", "failed"} : post' = [post EXCEPT ![p] = result]
  /\ UNCHANGED <<groupsFile, gphase, toLoad, subscribed>>

\* Every relay has refused it or its answer is lost.
GroupSendFails(p) ==
  /\ post[p] = "broadcasting" /\ post' = [post EXCEPT ![p] = "failed"]
  /\ UNCHANGED <<groupsFile, gphase, toLoad, subscribed, broadcasts, groupHistory>>

----------------------------------------------------------------------------
(* Receiving. *)

\* The key of a group, and the additional data, are those of the topic.
DeriveGroupKey(t) == [version |-> "v3", of |-> t]

DecryptsAuthenticated(t, c) == c.intact /\ DeriveGroupKey(c.for) = DeriveGroupKey(t)

\* The old form is not authenticated: a wrong key or an altered text may yield anything
\* whose padding happens to be right.
DecryptLegacyGroupMessage(t, c) ==
  IF c.for = t /\ c.intact THEN {c.for} ELSE {"garbled", "raw"}

\* decryptGroupMessage: the text, known by the topic that it was encrypted for; or,
\* if it throws, the content as it came, which its caller keeps.
DecryptGroupMessage(t, c) ==
  CASE c.form = "v2" -> {IF DecryptsAuthenticated(t, c) THEN c.for ELSE "raw"}
    [] c.form = "legacy" -> DecryptLegacyGroupMessage(t, c)
    [] OTHER -> {"raw"}

\* The groups that the open subscriptions of a topic were opened for.
Listening(t) == Range(strays[t]) \cup
  (IF OpenEntry(t) THEN {groupSubscriptions[t].group} ELSE {})

\* onevent, and saveMessage, for the group that the subscription was opened for; an event
\* does not come within a microtask.  One that is invalid, cannot be parsed, is the worker's
\* own or is refused by saveMessage changes nothing.
GroupEvent(t, c) ==
  /\ \E g \in Listening(t), text \in DecryptGroupMessage(t, c) : SaveMessageToHistory(g, text)
  /\ UNCHANGED <<groupsFile, gphase, toLoad, subscribed, post, broadcasts>>

----------------------------------------------------------------------------
(* shutdown, and the next start. *)

ShutdownBegins ==
  /\ gphase = "running" /\ gphase' = "flushing"
  /\ UNCHANGED <<groupsFile, toLoad, subscribed, posted>>

\* shutdown closes what the Map has.
CloseGroups ==
  /\ gphase = "flushing" /\ gphase' = "closing"
  /\ groupSubscriptions' = None /\ joined' = {}
  /\ UNCHANGED <<groupsFile, toLoad, subscribing, strays, overlaps, posted>>

\* The process ends, after the network is closed or anywhere, and starts again.
WorkerRestarts ==
  /\ gphase' = "loading" /\ toLoad' = groupsFile
  /\ groupSubscriptions' = None /\ subscribing' = NothingOpen /\ strays' = NothingOpen
  /\ joined' = {} /\ overlaps' = NoOverlaps
  /\ post' = [p \in Posts |-> IF post[p] = "broadcasting" THEN "failed" ELSE post[p]]
  /\ UNCHANGED <<groupsFile, broadcasts, groupHistory>>

GsNext ==
  \/ GroupsLoaded \/ ShutdownBegins \/ CloseGroups \/ WorkerRestarts
  \/ \E g \in Groups : LoadGroup(g) \/ JoinCommand(g) \/ LeaveCommand(g)
  \/ \E t \in Topics : \/ StoreSubscription(t) \/ SubscriptionEnds(t)
                       \/ \E c \in Contents : GroupEvent(t, c)
  \/ \E p \in Posts : \/ GroupSendRefused(p) \/ GroupSendBegin(p)
                      \/ GroupSent(p) \/ GroupSendFails(p)

GsSpec == GsInit /\ [][GsNext]_gsVars

----------------------------------------------------------------------------
(* Properties. *)

Shared(g) == \E h \in Groups \ {g} : TopicOf[h] = TopicOf[g]

\* What a reader of the history may find: its own messages to the group, taken by a
\* relay, and texts that were encrypted for its topic or could not be told from such.
BelongsTo(g, text) ==
  text \in {p \in broadcasts : GroupOf[p] = g} \cup {TopicOf[g], "garbled", "raw"}

\* However commands, lost connections, shutdown and restarts come, and whatever a join meets
\* when it is resumed: at most one subscription that nobody can close is left behind for
\* each join that overlapped another of its topic, and none if none did; the ones that the
\* Map has are for groups that were joined, and a group that was joined has its own there,
\* unless another group shares its topic.  The history of a group gives a reader at most as
\* many messages as it asked for, and only ones that belong to the group.
SubscriptionsMatch ==
  /\ \A t \in Topics : Len(strays[t]) <= overlaps[t]
  /\ \A t \in DOMAIN groupSubscriptions : groupSubscriptions[t].group \in joined
  /\ \A g \in joined :
       Shared(g) \/ (Has(TopicOf[g]) /\ groupSubscriptions[TopicOf[g]].group = g)
  /\ \A g \in Groups, limit \in 1..MaxHistory :
       \A passed \in SUBSET DOMAIN groupHistory[g] :
         LET page == GetMessageHistory(g, limit, passed) IN
         Len(page) <= limit /\ \A i \in DOMAIN page : BelongsTo(g, page[i])
=============================================================================

----------------------------- MODULE NostrNetwork -----------------------------
(***************************************************************************)
(* NostrNetwork of src/src/network/nostr-network.js as a sender: tasks and *)
(* broadcasts go through the batcher, batches are published message by     *)
(* message, several at a time; connect, its retries and close decide       *)
(* isConnected.  Subscriptions are always direct (useDirectSubscription is *)
(* never FALSE), so that opening them fails for no relay that does not     *)
(* answer, but only for one whose address is none.                         *)
(***************************************************************************)
EXTENDS MessageBatcher

CONSTANTS
  AutoReconnect,
  MaxRetryCount    \* bound: reconnectAttempt, which only lengthens the next delay

ASSUME NetworkAssumption ==
  /\ AutoReconnect \in BOOLEAN /\ MaxRetryCount \in Nat \ {0}

VARIABLES
  addresses,         \* whether WebSocket takes those of all relays
  isConnected,
  reconnectTimer,    \* whether the field holds a timer
  timers,            \* reconnection timers that are running
  reconnectAttempt,
  running,           \* calls of connect, by their caller and how far they are
  phase,             \* how far the owner of the network has taken it
  publishing,        \* calls of _publishBatch: what they have still to publish,
                     \* and whether the relays have been given the first of it
  fate               \* history: what became of each message

connection == <<addresses, isConnected, reconnectTimer, timers, reconnectAttempt, running, phase>>
vars == <<batcher, connection, publishing, fate>>

\* A call fails in connect and is rethrown to the one who called it.
Calls == {"connect", "reconnect"} \X {"subscribing", "announcing", "failed"}
Batch == [rest : Seq(Msgs) \ {<<>>}, given : BOOLEAN]

TypeOK ==
  /\ BatcherTypeOK
  /\ addresses \in {"valid", "invalid"}
  /\ isConnected \in BOOLEAN /\ reconnectTimer \in BOOLEAN /\ timers \in Nat
  /\ reconnectAttempt \in 0..MaxRetryCount
  /\ running \in [Calls -> Nat]
  /\ phase \in {"new", "open", "closing", "closed"}
  /\ publishing \subseteq Batch
  /\ fate \in [Msgs -> {"unsent", "accepted", "published", "refused", "dropped"}]

Init ==
  /\ BatcherInit /\ addresses \in {"valid", "invalid"}
  /\ isConnected = FALSE /\ reconnectTimer = FALSE /\ timers = 0 /\ reconnectAttempt = 0
  /\ running = [c \in Calls |-> 0] /\ phase = "new"
  /\ publishing = {}
  /\ fate = [m \in Msgs |-> "unsent"]

----------------------------------------------------------------------------
(* Sending. *)

In(batch, m) == \E k \in DOMAIN batch : batch[k] = m

\* flush calls _publishBatch, which drops the batch unless connected.  The
\* message that is being accepted (new) counts as such.
HandOver(new) ==
  LET accepted == [m \in Msgs |-> IF m \in new THEN "accepted" ELSE fate[m]] IN
  \/ /\ messages = <<>> /\ fate' = accepted
     /\ UNCHANGED publishing
  \/ /\ messages # <<>> /\ isConnected /\ fate' = accepted
     /\ publishing' = publishing \cup {[rest |-> messages, given |-> TRUE]}
  \/ /\ messages # <<>> /\ ~isConnected
     /\ fate' = [m \in Msgs |-> IF In(messages, m) THEN "dropped" ELSE accepted[m]]
     /\ UNCHANGED publishing

\* sendTask and broadcast, which do not look at isConnected.
Send(m) ==
  /\ fate[m] = "unsent"
  /\ \/ Add(m) /\ fate' = [fate EXCEPT ![m] = "accepted"] /\ UNCHANGED publishing
     \/ AddAfterFlush(m) /\ HandOver({m})
  /\ UNCHANGED connection

FlushTimer ==
  /\ flushTimer
  /\ HandOver({}) /\ Emptied
  /\ UNCHANGED connection

\* flush, as the client calls it after each message.
Flush ==
  /\ messages # <<>>
  /\ HandOver({}) /\ Emptied
  /\ UNCHANGED connection

\* The first message of b is dealt with; publish takes the next one to the relays
\* if the network is connected, and throws if not.
Proceed(b) ==
  publishing' = (publishing \ {b}) \cup
    (IF Len(b.rest) = 1 THEN {} ELSE {[rest |-> Tail(b.rest), given |-> isConnected]})

\* One relay accepts the message, or all refuse it, which is only logged.
Answered(b) ==
  /\ b.given
  /\ \E answer \in {"published", "refused"} : fate' = [fate EXCEPT ![Head(b.rest)] = answer]
  /\ Proceed(b)
  /\ UNCHANGED <<batcher, connection>>

\* publish found the network not connected.
Thrown(b) ==
  /\ ~b.given
  /\ fate' = [fate EXCEPT ![Head(b.rest)] = "dropped"]
  /\ Proceed(b)
  /\ UNCHANGED <<batcher, connection>>

PublishBatch(m) == \E b \in publishing : Head(b.rest) = m /\ (Answered(b) \/ Thrown(b))

----------------------------------------------------------------------------
(* Connecting. *)

At(caller, stage) == running[<<caller, stage>>] > 0
Goto(caller, from, to) ==
  running' = [running EXCEPT ![<<caller, from>>] = @ - 1, ![<<caller, to>>] = @ + 1]
Return(caller, from) == running' = [running EXCEPT ![<<caller, from>>] = @ - 1]

Connect ==
  /\ phase = "new" /\ phase' = "open"
  /\ running' = [running EXCEPT ![<<"connect", "subscribing">>] = @ + 1]
  /\ UNCHANGED <<batcher, addresses, isConnected, reconnectTimer, timers, reconnectAttempt>>
  /\ UNCHANGED <<publishing, fate>>

\* _subscribeDirect returns, after its timeout at the latest.
Subscribed(caller) ==
  /\ addresses = "valid"
  /\ At(caller, "subscribing") /\ Goto(caller, "subscribing", "announcing")
  /\ isConnected' = TRUE /\ reconnectAttempt' = 0
  /\ UNCHANGED <<batcher, addresses, reconnectTimer, timers, phase, publishing, fate>>

Announced(caller) ==
  /\ At(caller, "announcing") /\ Return(caller, "announcing")
  /\ reconnectAttempt' = IF caller = "reconnect" THEN 0 ELSE reconnectAttempt
  /\ UNCHANGED <<batcher, addresses, isConnected, reconnectTimer, timers, phase, publishing, fate>>

\* Mutant: a timer is started although there is one.
HandleDisconnectAlways ==
  /\ isConnected' = FALSE
  /\ reconnectTimer' = AutoReconnect
  /\ timers' = IF AutoReconnect THEN timers + 1 ELSE timers

\* _handleDisconnect
HandleDisconnect ==
  /\ isConnected' = FALSE
  /\ reconnectTimer' = (reconnectTimer \/ AutoReconnect)
  /\ timers' = IF AutoReconnect /\ ~reconnectTimer THEN timers + 1 ELSE timers

\* connect handles what has failed and throws.
ConnectFails(caller, stage) ==
  /\ At(caller, stage) /\ HandleDisconnect
  /\ IF caller = "reconnect" THEN Goto(caller, stage, "failed") ELSE Return(caller, stage)
  /\ UNCHANGED <<batcher, addresses, reconnectAttempt, phase, publishing, fate>>

\* The constructor of WebSocket throws, within a Promise, for an address that is none.
SubscribeFails(caller) == addresses = "invalid" /\ ConnectFails(caller, "subscribing")

\* No relay takes the announcement.
AnnounceFails(caller) == ConnectFails(caller, "announcing")

\* _attemptReconnect catches what connect has thrown and handles it once more.
ReconnectFails ==
  /\ At("reconnect", "failed") /\ Return("reconnect", "failed")
  /\ HandleDisconnect
  /\ UNCHANGED <<batcher, addresses, reconnectAttempt, phase, publishing, fate>>

CountedUp == IF reconnectAttempt < MaxRetryCount THEN reconnectAttempt + 1 ELSE MaxRetryCount

\* Mutant: the field is not cleared when the timer fires.
ReconnectTimerKept ==
  /\ timers > 0 /\ ~At("reconnect", "failed")
  /\ timers' = timers - 1
  /\ IF isConnected
     THEN reconnectAttempt' = 0 /\ UNCHANGED running
     ELSE /\ reconnectAttempt' = CountedUp
          /\ running' = [running EXCEPT ![<<"reconnect", "subscribing">>] = @ + 1]
  /\ UNCHANGED <<batcher, addresses, reconnectTimer, isConnected, phase, publishing, fate>>

\* The timer fires and calls _attemptReconnect.  Timers wait until a rejected
\* promise has been handled.
ReconnectTimer ==
  /\ timers > 0 /\ ~At("reconnect", "failed")
  /\ timers' = timers - 1 /\ reconnectTimer' = FALSE
  /\ IF isConnected
     THEN reconnectAttempt' = 0 /\ UNCHANGED running
     ELSE /\ reconnectAttempt' = CountedUp
          /\ running' = [running EXCEPT ![<<"reconnect", "subscribing">>] = @ + 1]
  /\ UNCHANGED <<batcher, addresses, isConnected, phase, publishing, fate>>

\* close flushes the batch and waits a moment, which may end before the batch is
\* published.
Close ==
  /\ phase = "open" /\ phase' = "closing"
  /\ HandOver({})
  /\ IF messages = <<>> THEN UNCHANGED batcher ELSE Emptied
  /\ UNCHANGED <<addresses, isConnected, reconnectTimer, timers, reconnectAttempt, running>>

\* The reconnection in progress, if any, is not stopped.
Closed ==
  /\ phase = "closing" /\ phase' = "closed"
  /\ isConnected' = FALSE /\ reconnectTimer' = FALSE
  /\ timers' = IF reconnectTimer THEN timers - 1 ELSE timers
  /\ UNCHANGED <<batcher, addresses, reconnectAttempt, running, publishing, fate>>

Connecting(caller) ==
  Subscribed(caller) \/ SubscribeFails(caller) \/ Announced(caller) \/ AnnounceFails(caller)

Next ==
  \/ \E m \in Msgs : Send(m) \/ PublishBatch(m)
  \/ FlushTimer \/ Flush
  \/ Connect \/ Close \/ Closed
  \/ \E caller \in {"connect", "reconnect"} : Connecting(caller)
  \/ ReconnectFails \/ ReconnectTimer

Spec == Init /\ [][Next]_vars

\* Timers fire, and every promise is settled: subscriptions by their timeout,
\* publications by that of the relay pool.
FairSpec ==
  /\ Spec
  /\ WF_vars(FlushTimer) /\ WF_vars(ReconnectTimer) /\ WF_vars(ReconnectFails)
  /\ WF_vars(Closed)
  /\ \A m \in Msgs : WF_vars(PublishBatch(m))
  /\ \A caller \in {"connect", "reconnect"} : WF_vars(Connecting(caller))

----------------------------------------------------------------------------
(* Properties. *)

\* Every message that sendTask has accepted is at one place, in the batch or in
\* one batch being published, until it is published, refused by every relay or
\* dropped for want of a connection; none is published twice.  The exception is a
\* message larger than a batch.
Accounted ==
  /\ \A m \in Msgs :
       /\ fate[m] = "accepted" /\ Size[m] <= MaxBytes =>
            InBatch(m) \/ \E b \in publishing : In(b.rest, m)
       /\ InBatch(m) => fate[m] = "accepted" /\ \A b \in publishing : ~In(b.rest, m)
  /\ \A b, c \in publishing : \A k \in DOMAIN b.rest, l \in DOMAIN c.rest :
       /\ fate[b.rest[k]] = "accepted"
       /\ b.rest[k] = c.rest[l] => b = c /\ k = l
  /\ \A k, l \in DOMAIN messages : messages[k] = messages[l] => k = l

Active == {c \in Calls : running[c] > 0}

\* However connections fail, at most one attempt to connect is being made or
\* waiting for its timer.
SingleAttempt ==
  /\ timers <= 1 /\ \A c \in Calls : running[c] <= 1
  /\ \A c, d \in Active : c = d
  /\ timers = 1 => \A c \in Active : c[2] = "failed"

\* A network that was opened and is not connected is going to try again.
RetryPending ==
  phase \in {"open", "closing"} /\ ~isConnected /\ AutoReconnect =>
    timers > 0 \/ \E c \in Active : c[2] = "subscribing"

\* A batch that has reached its size does not wait for ever.
FullBatchLeaves ==
  \A m \in Msgs : (Len(messages) = MaxSize /\ InBatch(m)) ~> ~InBatch(m)

\* A network that is not connected becomes so, or is closed; or, if a relay's address is
\* none, it tries again and again.
Reconnects ==
  (phase = "open" /\ ~isConnected) ~>
    (isConnected \/ phase = "closed"
      \/ (addresses = "invalid" /\ running[<<"reconnect", "subscribing">>] = 1))
=============================================================================

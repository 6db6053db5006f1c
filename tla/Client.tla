-------------------------------- MODULE Client --------------------------------
(***************************************************************************)
(* The two classes that own a NostrNetwork: AgentPulseClient               *)
(* (src/src/sdk/index.js) and AgentRuntime (src/src/agent/runtime.js), one *)
(* of which a program uses.  Their methods may be called at any time, also *)
(* while init or start awaits the network; each creates a new network.     *)
(*                                                                         *)
(* Of a network an owner sees what NostrNetwork and Subscriptions show:    *)
(* connect returns or throws, later attempts are made by its timer, and    *)
(* close, which nobody awaits, takes a moment and does not stop an attempt *)
(* that is under way.  It calls the handler while it has sockets.  Every   *)
(* copy that a socket delivers is a message here: no owner compares them.  *)
(* Its batcher keeps a message until it is full, or flush or close empties *)
(* it.  sendResult of a runtime publishes at once and is left out.         *)
(***************************************************************************)
EXTENDS Integers, Sequences, FiniteSets, SequencesExt, Subsequences

CONSTANTS
  Networks,   \* 1..n: networks in the order of their creation
  Msgs,
  Encrypted,  \* messages whose content is a string, which is decrypted
  Waiters,    \* calls of waitForMessage
  Accepts,    \* messages that pass the filter of each of them
  Subscriber, \* the callback of subscribe
  Sends       \* calls that send a message

ASSUME ClientAssumption ==
  /\ Networks \subseteq Nat \ {0}
  /\ Encrypted \subseteq Msgs
  /\ Accepts \in [Waiters -> SUBSET Msgs] /\ Subscriber \notin Waiters

VARIABLES
  owner,      \* which class
  net,        \* stage of each network
  asked,      \* networks whose close has been called
  network,    \* this.network or this._network; 0 is null
  starting,   \* networks that calls of init or start await
  connected,  \* this.connected, or whether _startTime is set
  crossed,    \* history: a call came while init awaited, or init for an open client
  fate,       \* how far each message has come
  queue,      \* this.messageQueue
  listeners,  \* listeners of 'message', in their order
  timers,     \* waiters whose timer runs
  outcome,    \* of each waiter
  stage,      \* of each call that sends
  given,      \* the network that got its message; 0 before
  batched,    \* calls whose message is in the batcher of that network
  parted      \* history: init or disconnect came during the call

ownerVars == <<net, asked, network, starting, connected, crossed>>
msgVars == <<fate, queue, listeners, timers, outcome>>
sendVars == <<stage, given, batched, parted>>
vars == <<owner, ownerVars, msgVars, sendVars>>

Trying == {"connecting", "retrying"}
Hearing == Trying \cup {"up", "waiting"}

TypeOK ==
  /\ owner \in {"client", "runtime"}
  /\ net \in [Networks -> Hearing \cup {"none", "ended"}]
  /\ asked \subseteq Networks /\ network \in Networks \cup {0} /\ starting \subseteq Networks
  /\ connected \in BOOLEAN /\ crossed \in BOOLEAN
  /\ fate \in [Msgs -> {"unseen", "dropped", "decrypting", "handled"}]
  /\ queue \subseteq Msgs
  /\ listeners \in Seq(Waiters \cup {Subscriber}) /\ timers \subseteq Waiters
  /\ outcome \in [Waiters -> {"none", "waiting", "message", "timeout"}]
  /\ stage \in [Sends -> {"none", "encrypting", "given", "flushed", "ok", "failed"}]
  /\ given \in [Sends -> Networks \cup {0}] /\ batched \subseteq Sends /\ parted \subseteq Sends

Init ==
  /\ owner \in {"client", "runtime"}
  /\ net = [n \in Networks |-> "none"] /\ asked = {}
  /\ network = 0 /\ starting = {} /\ connected = FALSE /\ crossed = FALSE
  /\ fate = [m \in Msgs |-> "unseen"] /\ queue = {}
  /\ listeners = <<>> /\ timers = {} /\ outcome = [w \in Waiters |-> "none"]
  /\ stage = [s \in Sends |-> "none"] /\ given = [s \in Sends |-> 0]
  /\ batched = {} /\ parted = {}

----------------------------------------------------------------------------
(* The networks. *)

Goes(n, from, to) == net[n] = from /\ net' = [net EXCEPT ![n] = to]
Held == network # 0 /\ network \notin asked
InBatch(n) == {s \in batched : given[s] = n}

\* init or disconnect comes while calls of send await something.
Part ==
  /\ parted' = parted \cup {s \in Sends : stage[s] \in {"encrypting", "given", "flushed"}}
  /\ UNCHANGED <<stage, given>>

\* A retry starts, succeeds or fails; what the owner believes stays.
Retry(n) ==
  /\ Goes(n, "waiting", "retrying") \/ Goes(n, "retrying", "up") \/ Goes(n, "retrying", "waiting")
  /\ UNCHANGED <<owner, asked, network, starting, connected, crossed, msgVars, sendVars>>

\* close comes to its end: it stops the timer and closes the sockets, but not an
\* attempt that is under way.
NetworkCloses(n) ==
  /\ n \in asked
  /\ Goes(n, "up", "ended") \/ Goes(n, "waiting", "ended")
  /\ UNCHANGED <<owner, asked, network, starting, connected, crossed, msgVars, sendVars>>

\* A new network, whose connect is awaited.
Create(n) ==
  /\ \A k \in Networks : k < n => net[k] # "none"
  /\ Goes(n, "none", "connecting")
  /\ network' = n /\ starting' = starting \cup {n}

----------------------------------------------------------------------------
(* AgentPulseClient. *)

ClientInit(n) ==
  /\ owner = "client" /\ Create(n)
  /\ crossed' = (crossed \/ starting # {} \/ Held)
  /\ Part /\ batched' = batched
  /\ UNCHANGED <<owner, asked, connected, msgVars>>

ClientInitReturns(n) ==
  /\ owner = "client" /\ n \in starting /\ Goes(n, "connecting", "up")
  /\ starting' = starting \ {n} /\ connected' = TRUE
  /\ UNCHANGED <<owner, asked, network, crossed, msgVars, sendVars>>

\* The error is returned; the network is kept, and goes on trying.
ClientInitFails(n) ==
  /\ owner = "client" /\ n \in starting /\ Goes(n, "connecting", "waiting")
  /\ starting' = starting \ {n}
  /\ UNCHANGED <<owner, asked, network, connected, crossed, msgVars, sendVars>>

\* this.network stays; listeners and timers of waitForMessage stay too.
Disconnect ==
  /\ owner = "client"
  /\ crossed' = (crossed \/ starting # {})
  /\ asked' = asked \cup ({network} \ {0})
  /\ connected' = FALSE /\ queue' = {}
  /\ network' = network
  /\ Part /\ batched' = batched \ InBatch(network)
  /\ UNCHANGED <<owner, net, starting, fate, listeners, timers, outcome>>

----------------------------------------------------------------------------
(* AgentRuntime. *)

Start(n) ==
  /\ owner = "runtime" /\ network = 0 /\ starting = {}
  /\ Create(n)
  /\ UNCHANGED <<owner, asked, connected, crossed, msgVars, sendVars>>

StartReturns(n) ==
  /\ owner = "runtime" /\ n \in starting /\ Goes(n, "connecting", "up")
  /\ starting' = {} /\ connected' = TRUE
  /\ UNCHANGED <<owner, asked, network, crossed, msgVars, sendVars>>

\* Mutant: the network is forgotten, not closed.
CleanupForgets ==
  /\ network' = 0 /\ connected' = FALSE /\ asked' = asked
  /\ UNCHANGED sendVars

\* _cleanup; close begins by flushing the batch.
Cleanup ==
  /\ network' = 0 /\ connected' = FALSE
  /\ asked' = asked \cup ({network} \ {0})
  /\ batched' = batched \ InBatch(network)
  /\ UNCHANGED <<stage, given, parted>>

StartFails(n) ==
  /\ owner = "runtime" /\ n \in starting /\ Goes(n, "connecting", "waiting")
  /\ starting' = {} /\ Cleanup
  /\ UNCHANGED <<owner, crossed, msgVars>>

CloseRuntime ==
  /\ owner = "runtime" /\ Cleanup
  /\ crossed' = (crossed \/ starting # {})
  /\ UNCHANGED <<owner, net, starting, msgVars>>

----------------------------------------------------------------------------
(* Messages. *)

\* The listeners that get m: all, or those up to a subscriber that throws.
Reached(threw) ==
  {listeners[k] : k \in {n \in DOMAIN listeners :
                          threw => \A j \in 1..(n - 1) : listeners[j] # Subscriber}}

\* off: the listeners that remain, in their order.
Off(gone) == Passing(listeners, {k \in DOMAIN listeners : listeners[k] \notin gone})

\* Mutant: the timer is cleared before the filter is asked.
EmitUnfiltered(m, threw) ==
  LET reached == Reached(threw) \cap Waiters
      served == {w \in reached : m \in Accepts[w]}
  IN /\ timers' = timers \ reached
     /\ outcome' = [w \in Waiters |-> IF w \in served THEN "message" ELSE outcome[w]]
     /\ listeners' = Off(served)

\* Mutant: a message answers the first waiter that takes it.
EmitOnce(m, threw) ==
  LET takes == SelectSeq(listeners, LAMBDA x : x \in Reached(threw) \cap Waiters /\ m \in Accepts[x])
      served == IF takes = <<>> THEN {} ELSE {Head(takes)}
  IN /\ timers' = timers \ served
     /\ outcome' = [w \in Waiters |-> IF w \in served THEN "message" ELSE outcome[w]]
     /\ listeners' = Off(served)

\* emit('message', m).  The emission by its content's own type that may follow is
\* for other listeners, or for those of 'message' that did not take m.
Emit(m, threw) ==
  LET served == {w \in Reached(threw) \cap Waiters : m \in Accepts[w]}
  IN /\ timers' = timers \ served
     /\ outcome' = [w \in Waiters |-> IF w \in served THEN "message" ELSE outcome[w]]
     /\ listeners' = Off(served)

\* The end of _handleMessage; an exception is caught there.
Handle(m) ==
  /\ fate' = [fate EXCEPT ![m] = "handled"]
  /\ queue' = queue \cup {m}
  /\ \E threw \in {FALSE, (Subscriber \in ToSet(listeners))} : Emit(m, threw)

\* Too many from its sender, or for somebody else.
Drop(m) ==
  /\ fate' = [fate EXCEPT ![m] = "dropped"]
  /\ UNCHANGED <<queue, listeners, timers, outcome>>

\* _handleMessage; a runtime passes the message on.
Receive(n, m) ==
  /\ net[n] \in Hearing /\ fate[m] = "unseen"
  /\ \/ owner = "client" /\ Drop(m)
     \/ owner = "client" /\ m \notin Encrypted /\ Handle(m)
     \/ /\ owner = "client" /\ m \in Encrypted
        /\ fate' = [fate EXCEPT ![m] = "decrypting"]
        /\ UNCHANGED <<queue, listeners, timers, outcome>>
     \/ owner = "runtime" /\ fate' = [fate EXCEPT ![m] = "handled"]
        /\ UNCHANGED <<queue, listeners, timers, outcome>>
  /\ UNCHANGED <<owner, ownerVars, sendVars>>

\* Whether it could be decrypted or not; also after a disconnect.
Decrypted(m) ==
  /\ fate[m] = "decrypting" /\ Handle(m)
  /\ UNCHANGED <<owner, ownerVars, sendVars>>

\* With clear, whatever the options have selected.
Recv ==
  /\ queue # {} /\ queue' = {}
  /\ UNCHANGED <<owner, ownerVars, sendVars, fate, listeners, timers, outcome>>

WaitForMessage(w) ==
  /\ owner = "client" /\ outcome[w] = "none"
  /\ outcome' = [outcome EXCEPT ![w] = "waiting"]
  /\ timers' = timers \cup {w} /\ listeners' = Append(listeners, w)
  /\ UNCHANGED <<owner, ownerVars, sendVars, fate, queue>>

WaitTimeout(w) ==
  /\ w \in timers /\ timers' = timers \ {w}
  /\ outcome' = [outcome EXCEPT ![w] = "timeout"]
  /\ listeners' = Off({w})
  /\ UNCHANGED <<owner, ownerVars, sendVars, fate, queue>>

Subscribe ==
  /\ owner = "client"
  /\ listeners' = IF Subscriber \in ToSet(listeners)
                  THEN Off({Subscriber})
                  ELSE Append(listeners, Subscriber)
  /\ UNCHANGED <<owner, ownerVars, sendVars, fate, queue, timers, outcome>>

----------------------------------------------------------------------------
(* Sending.  Only close and flush empty a batch that is not full. *)

\* What send asks before it starts; otherwise it returns an error.
MaySend == connected

Send(s) ==
  /\ owner = "client" /\ stage[s] = "none" /\ MaySend
  /\ stage' = [stage EXCEPT ![s] = "encrypting"]
  /\ UNCHANGED <<owner, ownerVars, msgVars, given, batched, parted>>

\* The key cannot be decoded, or encryption fails: caught.
SendFails(s) ==
  /\ stage[s] = "encrypting" /\ stage' = [stage EXCEPT ![s] = "failed"]
  /\ UNCHANGED <<owner, ownerVars, msgVars, given, batched, parted>>

\* sendTask of the network that this.network is by now; a full batch goes first.
GiveTo(s, full) ==
  /\ given' = [given EXCEPT ![s] = network]
  /\ batched' = (batched \ (IF full THEN InBatch(network) ELSE {})) \cup {s}
  /\ UNCHANGED <<owner, ownerVars, msgVars, parted>>

HandOver(s) ==
  /\ stage[s] = "encrypting" /\ stage' = [stage EXCEPT ![s] = "given"]
  /\ \E full \in BOOLEAN : GiveTo(s, full)

\* flush of the network that it is after that.
FlushSent(s) ==
  /\ stage[s] = "given" /\ stage' = [stage EXCEPT ![s] = "flushed"]
  /\ batched' = batched \ InBatch(network)
  /\ UNCHANGED <<owner, ownerVars, msgVars, given, parted>>

SendReturns(s) ==
  /\ stage[s] = "flushed" /\ stage' = [stage EXCEPT ![s] = "ok"]
  /\ UNCHANGED <<owner, ownerVars, msgVars, given, batched, parted>>

\* _ensureStarted lets pass who has a network, also while start awaits it.
Started == network # 0

\* broadcast and sendTask of a runtime.
Broadcast(s) ==
  /\ owner = "runtime" /\ stage[s] = "none" /\ Started
  /\ stage' = [stage EXCEPT ![s] = "ok"]
  /\ \E full \in BOOLEAN : GiveTo(s, full)

\* The timer that a full batch has started.
BatchLeaves(n) ==
  /\ InBatch(n) # {} /\ batched' = batched \ InBatch(n)
  /\ UNCHANGED <<owner, ownerVars, msgVars, stage, given, parted>>

SendStep(s) ==
  \/ Send(s) \/ SendFails(s) \/ HandOver(s) \/ FlushSent(s) \/ SendReturns(s) \/ Broadcast(s)

OwnerStep(n) ==
  \/ ClientInit(n) \/ ClientInitReturns(n) \/ ClientInitFails(n)
  \/ Start(n) \/ StartReturns(n) \/ StartFails(n)
  \/ Retry(n) \/ NetworkCloses(n) \/ BatchLeaves(n)

Next ==
  \/ \E n \in Networks : OwnerStep(n) \/ \E m \in Msgs : Receive(n, m)
  \/ Disconnect \/ CloseRuntime
  \/ \E m \in Msgs : Decrypted(m)
  \/ Recv \/ Subscribe
  \/ \E s \in Sends : SendStep(s)
  \/ \E w \in Waiters : WaitForMessage(w) \/ WaitTimeout(w)

\* Timers fire.
Spec == Init /\ [][Next]_vars /\ \A w \in Waiters : WF_vars(WaitTimeout(w))

----------------------------------------------------------------------------
(* Properties. *)

\* Whoever has finished one call of init, disconnect, start or close before the
\* next, and disconnects before a second init, never loses hold of a network that
\* can still deliver: it is the present one, or has been told to close.  And an owner
\* that says it is connected, or started, has a network that was connected once and
\* has not been told to close.
NetworksHeld ==
  ~crossed =>
    /\ \A n \in Networks : net[n] \in Hearing /\ n \notin asked => n = network
    /\ connected => Held /\ net[network] \in {"up", "waiting", "retrying"}

\* A call of send that is about to report success leaves its message in a batcher only
\* if init has replaced the network that took it, however send, init and disconnect
\* cross.  And one during which neither of them came has used the network that the
\* client still holds, one that was connected.  A runtime that is closed, or whose
\* start fails, leaves nothing in the batcher of a network that it no longer has.
SentLeaves ==
  /\ \A s \in Sends : stage[s] = "flushed" =>
       /\ s \in batched => given[s] # network /\ s \in parted
       /\ ~crossed /\ s \notin parted =>
            Held /\ given[s] = network /\ net[network] # "connecting"
  /\ owner = "runtime" => \A s \in batched : given[s] = network

\* An owner keeps hold of its networks and of the messages it has given them.
HeldOrClosed == NetworksHeld /\ SentLeaves

\* A waiter misses a message it would accept, while it waits, only if a subscriber
\* that came before it throws: neither a timer nor a message that another waiter
\* took, in the same emission or while this one was being decrypted, stops it.
WaitersServed ==
  [][\A w \in Waiters, m \in Msgs :
       outcome[w] = "waiting" /\ m \in Accepts[w] /\ fate[m] # "handled" /\ fate[m]' = "handled" =>
         \/ outcome[w]' = "message"
         \/ \E j, k \in DOMAIN listeners : j < k /\ listeners[j] = Subscriber /\ listeners[k] = w]_vars

\* Every call of waitForMessage comes to an end, whatever messages pass by.
WaitersEnd == \A w \in Waiters : outcome[w] = "waiting" ~> outcome[w] # "waiting"
=============================================================================

----------------------------- MODULE Subscriptions -----------------------------
(***************************************************************************)
(* The WebSockets of NostrNetwork (src/src/network/nostr-network.js): each *)
(* attempt to connect opens one per relay and enters it in wsSubscriptions,*)
(* close closes those it finds there, and the circuit breaker counts how   *)
(* they end.  The steps of connect, its retries and close are those of     *)
(* module NostrNetwork, here with what they do to the sockets.             *)
(*                                                                         *)
(* A socket is the relay and the number of the attempt that opened it.     *)
(* Events of a socket come in the order of package ws: terminate during    *)
(* the handshake, and a handshake that fails, emit error and close         *)
(* together; an error of an open socket precedes its close.  Scores and    *)
(* latencies only order the relays for publishing and are left out, and so *)
(* is what a relay whose address is none does to the sockets of the others.*)
(***************************************************************************)
EXTENDS NostrNetwork, FiniteSets

CONSTANTS
  Relays,
  Threshold,    \* CIRCUIT_BREAKER_THRESHOLD
  MaxAttempts   \* bound: attempts to connect

ASSUME SubscriptionsAssumption ==
  /\ IsFiniteSet(Relays) /\ Relays # {}
  /\ Threshold \in Nat \ {0} /\ MaxAttempts \in Nat

VARIABLES
  attempt,    \* number of attempts so far
  socket,     \* state of each socket
  pending,    \* sockets whose subscriptionTimeout runs
  resolved,   \* relays whose promise of the last attempt is settled
  opened,     \* connectedCount of the last attempt
  entry,      \* wsSubscriptions: attempt of each relay's socket, or 0
  breaker,    \* circuitBreaker
  failing,    \* history: sockets of a relay that failed since it last succeeded
  cutShort    \* history: close came while an attempt to connect was under way

sockets == <<socket, pending, resolved, opened, entry>>
health == <<breaker, failing>>
subVars == <<attempt, sockets, health, cutShort>>
allVars == <<vars, subVars>>

Sockets == Relays \X (1..MaxAttempts)
Breaker == [failures : Nat, open : {"no", "yes", "over"}]

SubTypeOK ==
  /\ attempt \in 0..MaxAttempts
  /\ socket \in [Sockets -> {"none", "connecting", "open", "closing", "closed"}]
  /\ pending \subseteq Sockets /\ resolved \subseteq Relays /\ opened \in Nat
  /\ entry \in [Relays -> 0..MaxAttempts]
  /\ breaker \in [Relays -> Breaker]
  /\ failing \in [Relays -> SUBSET (1..MaxAttempts)]
  /\ cutShort \in BOOLEAN

SubInit ==
  /\ Init /\ addresses = "valid"
  /\ attempt = 0
  /\ socket = [s \in Sockets |-> "none"] /\ pending = {} /\ resolved = {} /\ opened = 0
  /\ entry = [r \in Relays |-> 0]
  /\ breaker = [r \in Relays |-> [failures |-> 0, open |-> "no"]]
  /\ failing = [r \in Relays |-> {}] /\ cutShort = FALSE

Required == IF Cardinality(Relays) < 2 THEN 1 ELSE Cardinality(Relays) \div 2

----------------------------------------------------------------------------
(* connect, its retries and close, with the sockets. *)

\* An older entry is overwritten.
SetEntries(n) == entry' = [r \in Relays |-> n]

\* _subscribeDirect; sockets of earlier attempts are left as they are.
OpenSockets ==
  /\ attempt < MaxAttempts /\ attempt' = attempt + 1
  /\ socket' = [s \in Sockets |-> IF s[2] = attempt' THEN "connecting" ELSE socket[s]]
  /\ pending' = pending \cup {s \in Sockets : s[2] = attempt'}
  /\ resolved' = {} /\ opened' = 0
  /\ SetEntries(attempt')
  /\ UNCHANGED <<health, cutShort>>

SubConnect == Connect /\ OpenSockets

SubReconnectTimer ==
  /\ ReconnectTimer
  /\ IF isConnected THEN UNCHANGED subVars ELSE OpenSockets

\* All promises are settled, or the time is over: the timers of the sockets have
\* the same length and were started before.
SubSubscribed(caller) ==
  /\ Subscribed(caller)
  /\ resolved = Relays \/ \A s \in pending : s[2] # attempt
  /\ UNCHANGED subVars

\* Mutant: the entries are cleared first.
CloseNoSubscriptions ==
  /\ socket' = socket
  /\ entry' = [r \in Relays |-> 0]

\* _closeWsSubscriptions: only what is open, of what is entered.
CloseSubscriptions ==
  /\ socket' = [s \in Sockets |->
       IF entry[s[1]] = s[2] /\ socket[s] = "open" THEN "closing" ELSE socket[s]]
  /\ entry' = [r \in Relays |-> 0]

SubClosed ==
  /\ Closed /\ CloseSubscriptions
  /\ cutShort' = (Active # {})
  /\ UNCHANGED <<attempt, pending, resolved, opened, health>>

----------------------------------------------------------------------------
(* The events of a socket. *)

\* Mutant: a success leaves the count.
RecordSuccessKept(r) ==
  /\ breaker' = [breaker EXCEPT ![r].open = "no"]
  /\ failing' = [failing EXCEPT ![r] = {}]

\* _recordSuccess
RecordSuccess(r) ==
  /\ breaker' = [breaker EXCEPT ![r] = [failures |-> 0, open |-> "no"]]
  /\ failing' = [failing EXCEPT ![r] = {}]

\* _recordFailure, called n times for socket s.
RecordFailure(s, n) ==
  LET r == s[1] IN
  /\ breaker' = [breaker EXCEPT ![r] =
       [failures |-> @.failures + n,
        open |-> IF @.failures + n >= Threshold THEN "yes" ELSE @.open]]
  /\ failing' = [failing EXCEPT ![r] = @ \cup {s[2]}]

Current(s) == s[2] = attempt
ClearTimeout(s) == pending' = pending \ {s}
Settle(s) == resolved' = IF Current(s) THEN resolved \cup {s[1]} ELSE resolved
Becomes(s, state) == socket' = [socket EXCEPT ![s] = state]

\* The close event removes the entry of the relay, whichever socket it is of.
DeleteEntry(s) == entry' = [entry EXCEPT ![s[1]] = 0]

\* The promise is settled only when enough relays are connected.
SocketOpens(s) ==
  /\ socket[s] = "connecting" /\ Becomes(s, "open")
  /\ ClearTimeout(s) /\ RecordSuccess(s[1])
  /\ opened' = IF Current(s) THEN opened + 1 ELSE opened
  /\ IF Current(s) /\ opened' >= Required THEN Settle(s) ELSE UNCHANGED resolved
  /\ UNCHANGED <<vars, attempt, entry, cutShort>>

SocketFails(s) ==
  /\ socket[s] = "connecting" /\ Becomes(s, "closed")
  /\ ClearTimeout(s) /\ RecordFailure(s, 1) /\ Settle(s) /\ DeleteEntry(s)
  /\ UNCHANGED <<vars, attempt, opened, cutShort>>

\* The failure is recorded, and again when terminate makes the socket fail.
SubscriptionTimeout(s) ==
  /\ s \in pending /\ Becomes(s, "closed")
  /\ ClearTimeout(s) /\ RecordFailure(s, 2) /\ Settle(s) /\ DeleteEntry(s)
  /\ UNCHANGED <<vars, attempt, opened, cutShort>>

SocketErrors(s) ==
  /\ socket[s] = "open" /\ Becomes(s, "closing")
  /\ RecordFailure(s, 1) /\ Settle(s)
  /\ UNCHANGED <<vars, attempt, pending, opened, entry, cutShort>>

\* The relay or the network ends the connection, or it was being closed.  The
\* NostrNetwork is not told: isConnected stays as it is.
SocketCloses(s) ==
  /\ socket[s] \in {"open", "closing"} /\ Becomes(s, "closed")
  /\ DeleteEntry(s)
  /\ UNCHANGED <<vars, attempt, pending, resolved, opened, health, cutShort>>

\* CIRCUIT_BREAKER_TIMEOUT passes; the count stays.
BreakerTime(r) ==
  /\ breaker[r].open = "yes"
  /\ breaker' = [breaker EXCEPT ![r].open = "over"]
  /\ UNCHANGED <<vars, attempt, sockets, failing, cutShort>>

SocketStep(s) ==
  \/ SocketOpens(s) \/ SocketFails(s) \/ SubscriptionTimeout(s)
  \/ SocketErrors(s) \/ SocketCloses(s)

\* The steps of the network that concern no socket.
SubAnnounced ==
  /\ \/ \E caller \in {"connect", "reconnect"} : Announced(caller) \/ AnnounceFails(caller)
     \/ ReconnectFails \/ Close
  /\ UNCHANGED subVars

SubNext ==
  \/ SubConnect \/ SubReconnectTimer \/ SubClosed \/ SubAnnounced
  \/ \E caller \in {"connect", "reconnect"} : SubSubscribed(caller)
  \/ \E s \in Sockets : SocketStep(s)
  \/ \E r \in Relays : BreakerTime(r)

SubSpec == SubInit /\ [][SubNext]_allVars

----------------------------------------------------------------------------
(* Properties. *)

OlderOneClosed(s) == \E k \in 1..(s[2] - 1) : socket[<<s[1], k>>] = "closed"

\* A close that cuts no attempt to connect short is final: nothing is received any
\* more but over sockets of an attempt that was overtaken, or whose entry an older
\* one has removed; none is still connecting and no later attempt is made.
SilentAfterClose ==
  phase = "closed" /\ ~cutShort =>
    \A s \in Sockets : socket[s] \in {"connecting", "open"} => ~Current(s) \/ OlderOneClosed(s)

\* The circuit opens for consecutive failures: at least half as many sockets as the
\* threshold says, since each that times out counts twice, have failed since the
\* relay last answered, whatever attempts they belong to and however late they end.
OpenMeansFailing ==
  \A r \in Relays : breaker[r].open # "no" => 2 * Cardinality(failing[r]) >= Threshold
=============================================================================

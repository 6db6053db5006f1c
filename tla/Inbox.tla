------------------------------- MODULE Inbox -------------------------------
(***************************************************************************)
(* How the worker receives messages: saveMessage of                        *)
(* src/src/service/worker.js with the rate limiter, the replay protection, *)
(* the cache of processed ids and the rotation of MSG_FILE it calls.       *)
(* Everything up to the first await runs in one piece (Receive); the rest  *)
(* of each call interleaves with the other calls.  Relays deliver copies   *)
(* of a message at any time and any number of times.  A group message      *)
(* carries the id of its event; a direct one carries none, so the          *)
(* subscription callbacks give each of its copies a new id.                *)
(***************************************************************************)
EXTENDS Integers, Sequences, FiniteSets, FiniteSetsExt

CONSTANTS
  Senders, GroupMsgs, DirectMsgs,
  From,          \* the sender of each message
  Stamp,         \* the time each message carries, by its sender's clock
  EventTTL,      \* MESSAGE_TTL of _handleEvent
  Tolerance,     \* TIMESTAMP_TOLERANCE_MS
  Window,        \* windowMs
  MaxPerKey,     \* maxPerKey
  CleanupEvery,  \* cleanupInterval
  NonceSize,     \* NONCE_CACHE_SIZE
  DedupSize,     \* CONFIG.DEDUP_CACHE_SIZE
  MaxLines,      \* lines that make MSG_FILE larger than MAX_MSG_FILE_SIZE
  MaxKeep,       \* CONFIG.MAX_MESSAGES_KEEP
  MaxNow,        \* bound: time is followed up to here
  MaxArrivals,   \* bound: deliveries by the relays
  MaxSaves,      \* bound: calls of saveMessage past the checks at once
  MaxRestarts    \* bound: restarts of the worker

Messages == GroupMsgs \cup DirectMsgs
Times == 0..MaxNow

ASSUME InboxAssumption ==
  /\ GroupMsgs \cap DirectMsgs = {}
  /\ From \in [Messages -> Senders] /\ Stamp \in [Messages -> Nat]
  /\ MaxPerKey \in Nat \ {0} /\ DedupSize \in Nat \ {0} /\ NonceSize \in Nat
  /\ DedupSize <= NonceSize /\ Window <= 2 * CleanupEvery
  /\ {EventTTL, Tolerance, Window, CleanupEvery} \subseteq Nat
  /\ {MaxLines, MaxKeep, MaxNow, MaxArrivals, MaxSaves, MaxRestarts} \subseteq Nat

VARIABLES
  now,        \* Date.now()
  arrivals,   \* deliveries so far: generateId, for messages without an id
  windows,    \* messageRateLimiter.windows: the requests it let through
  access,     \* messageRateLimiter.lastAccess, -1 if the sender has no limiter
  nonces,     \* replayProtection.seenNonces, oldest first
  processed,  \* processedMessages, oldest first
  saves,      \* calls of saveMessage past the checks, by their place in accepted
  plain,      \* MSG_FILE: lines that are not encrypted, which come first
  file,       \* MSG_FILE: ids of the encrypted lines
  groupLog,   \* ids in the history files of the groups
  passed,     \* history: all requests this process let through
  accepted,   \* history: ids that passed the checks, with time and process
  process     \* history: restarts of the worker

limiter == <<windows, access, passed>>
caches == <<nonces, processed, accepted>>
disk == <<plain, file, groupLog>>
vars == <<now, arrivals, limiter, caches, saves, disk, process>>

Ids == Messages \X (0..MaxArrivals)
Request == [at : Times, nr : 1..MaxArrivals]
Stages == {"decrypting", "checking", "reading", "rotating", "appending"}
Acceptance == [id : Ids, at : Times, process : 0..MaxRestarts]

TypeOK ==
  /\ now \in Times /\ process \in 0..MaxRestarts
  /\ arrivals \in 0..MaxArrivals
  /\ windows \in [Senders -> SUBSET Request] /\ passed \in [Senders -> SUBSET Request]
  /\ access \in [Senders -> {-1} \cup Times]
  /\ nonces \in Seq(Ids) /\ Len(nonces) <= NonceSize
  /\ processed \in Seq(Ids) /\ Len(processed) <= DedupSize
  /\ accepted \in Seq(Acceptance)
  /\ DOMAIN saves \subseteq DOMAIN accepted
  /\ \A q \in DOMAIN saves : saves[q] \in [at : Stages, kept : Nat]
  /\ plain \in Nat /\ file \in Seq(Ids) /\ groupLog \subseteq Ids

----------------------------------------------------------------------------
(* The checks of saveMessage. *)

\* The id given by the subscription callbacks of the worker.
IdOf(m) == IF m \in GroupMsgs THEN <<m, 0>> ELSE <<m, arrivals + 1>>

\* Mutant: the newest elements give way instead of the oldest.
FirstOf(s, n) == IF Len(s) <= n THEN s ELSE SubSeq(s, 1, n)

\* The last n elements of a sequence (LRUCache, Array.slice).
LastOf(s, n) == IF Len(s) <= n THEN s ELSE SubSeq(s, Len(s) - n + 1, Len(s))
Has(cache, id) == \E k \in DOMAIN cache : cache[k] = id

\* LRUCache.add, which is called only for an id that the cache has not.
Add(cache, id, size) == LastOf(Append(cache, id), size)

Within(requests, t) == {r \in requests : r.at <= t /\ r.at > t - Window}
Recent(s) == Within(windows[s], now)

\* Mutant: the limit is checked as if it were the last allowed index.
LimitedLate(s) == Cardinality(Recent(s)) > MaxPerKey
Limited(s) == Cardinality(Recent(s)) >= MaxPerKey

\* SlidingWindowLimiter.tryRequest lets the request through.
LetThrough(s) ==
  /\ ~Limited(s)
  /\ LET request == [at |-> now, nr |-> arrivals + 1]
     IN /\ windows' = [windows EXCEPT ![s] = Recent(s) \cup {request}]
        /\ passed' = [passed EXCEPT ![s] = @ \cup {request}]
  /\ access' = [access EXCEPT ![s] = now]

\* Mutant: messages from a clock that runs ahead pass whatever their time.
FreshIfPast(m) == now - Stamp[m] <= Tolerance
Fresh(m) == now - Stamp[m] <= Tolerance /\ Stamp[m] - now <= Tolerance

\* A relay delivers a copy and _handleEvent (direct messages only) lets it in.
Arrives(m) ==
  /\ arrivals < MaxArrivals /\ Cardinality(DOMAIN saves) < MaxSaves
  /\ m \in DirectMsgs => now - Stamp[m] <= EventTTL
  /\ arrivals' = arrivals + 1

\* Too many requests: the message is dropped, and its sender's limiter was used.
ReceiveLimited(m) ==
  /\ Arrives(m) /\ Limited(From[m])
  /\ access' = [access EXCEPT ![From[m]] = now]
  /\ UNCHANGED <<now, windows, passed, caches, saves, disk, process>>

\* checkNonce says no: the request has been counted all the same.
ReceiveRejected(m) ==
  /\ Arrives(m) /\ LetThrough(From[m])
  /\ ~Fresh(m) \/ Has(nonces, IdOf(m))
  /\ UNCHANGED <<now, caches, saves, disk, process>>
Record(id) ==
  /\ nonces' = Add(nonces, id, NonceSize)
  /\ processed' = IF Has(processed, id) THEN processed ELSE Add(processed, id, DedupSize)

\* The message passes the limiter and checkNonce; if the older check against
\* processedMessages does not stop it, it is going to be saved.
ReceiveAccepted(m) ==
  LET id == IdOf(m) IN
  /\ Arrives(m) /\ LetThrough(From[m])
  /\ Fresh(m) /\ ~Has(nonces, id)
  /\ Record(id)
  /\ IF Has(processed, id) THEN UNCHANGED <<accepted, saves>>
     ELSE /\ accepted' = Append(accepted, [id |-> id, at |-> now, process |-> process])
          /\ saves' = [q \in DOMAIN saves \cup {Len(accepted) + 1} |->
               IF q \in DOMAIN saves THEN saves[q] ELSE [at |-> "decrypting", kept |-> 0]]
  /\ UNCHANGED <<now, disk, process>>

Receive(m) == ReceiveLimited(m) \/ ReceiveRejected(m) \/ ReceiveAccepted(m)

----------------------------------------------------------------------------
(* The rest of saveMessage: place q of accepted is being saved. *)

At(q, stage) == q \in DOMAIN saves /\ saves[q].at = stage
Goto(q, stage) == saves' = [saves EXCEPT ![q].at = stage]
End(q) == saves' = [p \in DOMAIN saves \ {q} |-> saves[p]]

\* A group message goes to the history of its group, errors being logged only.
Decrypted(q) ==
  /\ At(q, "decrypting")
  /\ \/ UNCHANGED groupLog
     \/ accepted[q].id[1] \in GroupMsgs /\ groupLog' = groupLog \cup {accepted[q].id}
  /\ Goto(q, "checking")
  /\ UNCHANGED <<now, arrivals, limiter, caches, plain, file, process>>

CheckSize(q) ==
  /\ At(q, "checking") /\ plain + Len(file) > MaxLines
  /\ Goto(q, "reading")
  /\ UNCHANGED <<now, arrivals, limiter, caches, disk, process>>

\* readJsonLinesAsync is not told to decrypt and drops the lines it cannot parse;
\* if the file cannot be read it returns none.
RotateRead(q) ==
  /\ At(q, "reading")
  /\ \E lines \in {plain, 0} :
       saves' = [saves EXCEPT ![q] = [at |-> "rotating", kept |-> Min({lines, MaxKeep})]]
  /\ UNCHANGED <<now, arrivals, limiter, caches, disk, process>>

RotateWrite(q) ==
  /\ At(q, "rotating")
  /\ plain' = saves[q].kept /\ file' = <<>>
  /\ Goto(q, "appending")
  /\ UNCHANGED <<now, arrivals, limiter, caches, groupLog, process>>

\* The file is small, or the rotation failed, which is only logged.
NoRotation(q) ==
  /\ At(q, "checking") \/ At(q, "rotating")
  /\ Goto(q, "appending")
  /\ UNCHANGED <<now, arrivals, limiter, caches, disk, process>>

\* Under the lock, or without it when it is taken.
AppendRecord(q) ==
  /\ At(q, "appending")
  /\ file' = Append(file, accepted[q].id)
  /\ End(q)
  /\ UNCHANGED <<now, arrivals, limiter, caches, plain, groupLog, process>>

AppendFails(q) ==
  /\ At(q, "appending")
  /\ End(q)
  /\ UNCHANGED <<now, arrivals, limiter, caches, disk, process>>

Save(q) ==
  \/ Decrypted(q) \/ CheckSize(q) \/ RotateRead(q) \/ RotateWrite(q)
  \/ NoRotation(q) \/ AppendRecord(q) \/ AppendFails(q)

----------------------------------------------------------------------------
(* The rest of the worker. *)

\* PerKeyRateLimiter._cleanup, whenever its timer fires.
Idle(s) == access[s] # -1 /\ access[s] < now - 2 * CleanupEvery
Cleanup ==
  /\ \E s \in Senders : Idle(s)
  /\ windows' = [s \in Senders |-> IF Idle(s) THEN {} ELSE windows[s]]
  /\ access' = [s \in Senders |-> IF Idle(s) THEN -1 ELSE access[s]]
  /\ UNCHANGED <<now, arrivals, passed, caches, saves, disk, process>>

Tick ==
  /\ now < MaxNow /\ now' = now + 1
  /\ UNCHANGED <<arrivals, limiter, caches, saves, disk, process>>

\* The process ends and another starts: what is in memory is gone.
Restart ==
  /\ process < MaxRestarts /\ process' = process + 1
  /\ windows' = [s \in Senders |-> {}]
  /\ access' = [s \in Senders |-> -1]
  /\ passed' = [s \in Senders |-> {}]
  /\ nonces' = <<>> /\ processed' = <<>>
  /\ saves' = [q \in {} |-> 0]
  /\ UNCHANGED <<now, arrivals, accepted, disk>>

Init ==
  /\ now = 0 /\ process = 0
  /\ arrivals = 0
  /\ windows = [s \in Senders |-> {}] /\ access = [s \in Senders |-> -1]
  /\ passed = [s \in Senders |-> {}]
  /\ nonces = <<>> /\ processed = <<>> /\ accepted = <<>>
  /\ saves = [q \in {} |-> 0]
  /\ plain \in 0..(MaxLines + 1) /\ file = <<>>
  /\ groupLog = {}

Next ==
  \/ \E m \in Messages : Receive(m)
  \/ \E q \in DOMAIN saves : Save(q)
  \/ Cleanup \/ Tick \/ Restart

Spec == Init /\ [][Next]_vars

----------------------------------------------------------------------------
(* Properties. *)

\* "30 messages per minute per sender" (rate-limiter.js): in no window of time,
\* wherever it begins, does one process let more requests of a sender through,
\* although idle limiters are dropped and rebuilt.
RateBound ==
  \A s \in Senders, t \in Times : Cardinality(Within(passed[s], t)) <= MaxPerKey

\* The same id is accepted again by one process only after the cache of nonces
\* has forgotten it: at least NonceSize other ids came in between.
RepeatsNeedEviction ==
  \A p, q \in DOMAIN accepted :
    /\ p < q /\ accepted[p].id = accepted[q].id
    /\ accepted[p].process = accepted[q].process
    => q - p > NonceSize

\* Evictions and restarts forget ids, but a repetition comes soon or not at all.
RepeatsAreSoon ==
  \A p, q \in DOMAIN accepted :
    p < q /\ accepted[p].id = accepted[q].id => accepted[q].at - accepted[p].at <= 2 * Tolerance

\* processedMessages never stops a message that replayProtection let through.
ProcessedAreNonces == \A k \in DOMAIN processed : Has(nonces, processed[k])
=============================================================================

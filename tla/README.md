# A TLA+ specification of agent-pulse

agent-pulse lets agents exchange end-to-end encrypted messages over Nostr relays. A
command line program and an SDK talk to a background worker through files; the worker
talks to the relays. This directory specifies the parts of it whose behaviour depends on
the order in which things happen: TLA+ modules, TLC configurations that check them on
small instances, and TLAPS proofs for all instances.

Paths below are relative to the repository (`src/src/...` is its `src/` directory).

- [1. Inventory](#1-inventory) - the parts of the system, their state, what is hard about them
- [2. Plan](#2-plan) - which modules exist, which come next
- [3. Modules](#3-modules) - how each corresponds to the code, and what it abstracts
- [4. Runs](#4-runs) - what each checks, its bounds
- [5. Fairness](#5-fairness)
- [6. Proofs](#6-proofs)
- [7. Where code and documentation differ](#7-where-code-and-documentation-differ)
- [8. What is not modelled](#8-what-is-not-modelled)

## 1. Inventory

Everything runs on Node.js: one process executes one piece of code at a time, up to the
next `await`, and anything else may run there. Several processes (worker, command line,
SDK) share the files of the data directory.

### Processes and how they interact

    command line / SDK --appends commands--> CMD_FILE -----> worker
    command line       <--reads------------- RESULT_FILE, MSG_FILE <--writes-- worker
    worker --enqueue, markSuccess, markFailure--> message queue --saves--> OFFLINE_QUEUE_FILE
    worker, SDK --sendTask, broadcast--> NostrNetwork --add--> MessageBatcher
                       MessageBatcher --flushCallback--> NostrNetwork --publish--> relays
    relays --events--> NostrNetwork --callback--> worker.saveMessage --> MSG_FILE, group files
    every access to CMD_FILE, RESULT_FILE, MSG_FILE --withLock--> file lock

### Components

| Component | State | Operations | What makes it hard | What makes it correct |
|---|---|---|---|---|
| Offline queue, `service/message-queue.js` | Map of messages, `initialized`, `savePromise`; the file | enqueue, markSuccess, markFailure, cleanExpired, clear, flush, init | saves coalesce while one is in flight; a load can finish late; crash between change and save | bounded; the file is always some earlier state and only goes forward; no change outside both the file and a save, except as stated |
| Worker, sending: `service/worker.js` handleCommand, processRetryQueue, saveResult | progress of every async call, RESULT_FILE | send command, retry pass, clean-up timer | overlapping calls of the retry timer, lists that are stale after an await, results that cannot be written | no message lost in silence; OK means sent; every command answered |
| Worker, receiving: saveMessage, checkAndRotateFile, `utils/rate-limiter.js`, `utils/replay-protection.js`, `utils/lru-cache.js` | sliding windows, cache of nonces, processed ids, MSG_FILE | one delivery, rotation, clean-up of idle limiters | copies from several relays, eviction, clocks, restarts, two saves at once | rate bound; repetitions only after eviction and only within the tolerance; a message stored once |
| Worker, lifecycle: main, shutdown, updateHealth | PID file, health file | start, signals, shutdown | signals during awaits, a file that is truncated before it is written | a signalled worker ends, its queue saved first |
| Worker, groups: subscribeToGroup and the group commands | subscriptions by topic, group history | join, leave, send, load at start | joins that overlap between check and store, two groups with one topic, lost connections, restarts | what the Map has is what is joined, filed under its own group; nothing else stays open but what overlapping joins leave |
| File lock, `utils/file-lock.js` | a directory with a pid file | acquireLock, releaseLock, withLock | several processes, each call to the file system may interleave; holders die | mutual exclusion; a lock left behind is removed |
| Groups, `service/group-manager.js` | owner, members with role, mute, ban; a history file per group | create, join, leave, kick, ban, mute, setAdmin, transfer | long sequences of legal calls | one owner, who is a member; sanctions that survive |
| JSON files, `utils/json-file.js` | none of its own | append, read, rewrite, delete | write-then-rename with a temporary name shared in a process, appends to a file that is being replaced | what is published is whole |
| Service control, `service/server.js` | PID file, files shared with the worker | start, stop, ensureRunning, getStatus; relay commands | checks that are stale when used, a PID file read while it is written | one worker, which can be found and stopped |
| Network, sending: `network/nostr-network.js`, with MessageBatcher of `utils/performance.js` | `isConnected`, `reconnectTimer`, `reconnectAttempt`; the batch, its bytes, its timer | connect, sendTask, broadcast, flush, close, reconnection | a batch is published after its senders returned; connect fails in two places; close against reconnect | a message at one place until its fate is known; one attempt at a time; an offline network tries again; batches leave |
| Network, receiving: subscriptions, circuit breaker of `nostr-network.js` | WebSockets per relay, failure counts | subscribe, reconnect, close, event | the close event of an old socket after a new one exists; timeout, error and opening race | silence after close; an open circuit means a relay that fails |
| Relay manager, `network/relay-manager.js` | statistics, a delayed save | record, flush, close, load, getBestRelay | a timer against flush, close and a save under way | no change is forgotten |
| Enhanced relay manager, `network/enhanced-relay-manager.js` | statistics and blacklist, in memory and in two files | record, add, remove, blacklist, recover, getHealthyRelays | recovery against new failures, commands of another process, one of two files written | failing relays are not offered, a relay comes back only when it has earned it |
| Message journal, `service/message-journal.js` | index, file, index file | append, get, delete, flush, compact, clear, close | calls overlap, the index is written later than the file | an offset in the index is where its message begins |
| Storage key, `utils/storage-encryption.js` | a cached key per process, the key file | get, rotate, encrypt, decrypt | two processes that create it at once | lines stay readable for every process |
| Identity and encrypted storage, `core/identity.js`, `core/storage.js` | identity file, key files | load or create, migrate | a crash between two files, two first starts | the identity never changes |
| Message format: batches and compression of `utils/performance.js` | none | compressBatch, decompressBatch | thresholds, text that looks like a batch | the receiver finds what was sent |
| Token bucket, `utils/rate-limiter.js` | tokens, lastRefill | consume, refill | whole tokens from a clock in milliseconds | never more than capacity and rate allow |
| SDK and agents, `sdk/index.js`, `agent/runtime.js` | buffer, handlers, waiters | init, disconnect, send, recv, waitForMessage, subscribe | a message racing a waiter's timeout, disconnect during init or send | every waiter that matches is served, every network is held or closed |
| Contacts, `service/contacts.js` | a map and its file | add, import, remove, touch | saves that fail, another process | what is held is what is stored |
| Signatures, nip19, validation, errors, logging, configuration, command line | none that lasts | - | - | - |

The 40 hazards these lead to are listed in `PROJECT.json`, each at its line with the
properties that watch it.

## 2. Plan

Built, in this order (the most important behaviour first: messages must not be lost,
doubled or falsely reported):

1. `WriteBehind` (abstract) and `MessageQueue`, which implements it.
2. `RetryWorker` EXTENDS `MessageQueue`: the worker's senders composed with the queue.
3. `FileLock`, under every file access.
4. `GroupManager`.
5. `Inbox`: receiving, with the limiter, the caches and the rotation.
6. `MessageBatcher` and `NostrNetwork`, which EXTENDS it: batches and connection.
7. `ServiceControl`: `isRunning`, `start` and `stop` with main and shutdown of the worker.
8. `EnhancedRelays`, `RelayScores`, `RelayManager`: blacklist, scores, statistics.
9. `JsonFiles`, `MessageJournal`, `StorageKey`, `IdentityStore`, `Contacts`: what is on disk.
10. `Subscriptions`: sockets and circuit breaker; `Client`: the owners of a network.
11. `GroupSubscriptions`, `MessageCodec`, `TokenBucket`.

Modules that need a run of their own have an `MC` module; `MCStandalone` and
`MCEnhancedRelays` hold several small components that share no state, each of which runs
while the others stay as they began, so that their state spaces add up instead of
multiplying. The `...Proofs` modules hold the theorems; each is about the components of
one part of the system.

`Subsequences` is a helper: the elements of a list that pass a filter, by a recursive
function on places (recursive operators are out of the prover's reach).

Next, in this order:

- `RelayManager` and the index of `MessageJournal` as refinements of `WriteBehind`;
- the probe `checkRelayStatus` with its own WebSocket and timeout;
- the group commands' answers, and commands handled before `init` has finished.

## 3. Modules

Conventions: one action is what runs between two awaits (`FileLock`: between two calls to
the file system, because there the actors are processes). A method with several awaits
is several actions, linked by a stage. History variables are marked *history* and
are never read by a guard. Definitions whose comment starts with *Mutant* are plausible
mistakes; nothing uses them, each exists to show that a property notices it.

### WriteBehind, MessageQueue

`WriteBehind` says what a store that saves later promises: memory and disk are two
numbers of changes, a save raises the second up to the first, a crash lowers the first to
the second. `MessageQueue` refines it with `mem <- changes`, `disk <- file.version`.

| Code | Model |
|---|---|
| `this.queue`, `this.initialized` | `queue`, `initialized` |
| `init`, `_loadQueue` (import-time and from enqueue) | `load`, `EnqueueEarly`, `ReadFile`, `InitFails`, `FinishInit` |
| `_saveQueue`, `savePromise` | `SaveQueue` (inside every changing action), `saves`, `SaveCommit`, `SaveFail` |
| enqueue with eviction, markSuccess, markFailure, cleanExpired, clear | actions of the same names |
| the process ends anywhere | `Restart` |

Timestamps are kept as distances from now (`age` up to TTL, `wait` down to 0), in units
of MESSAGE_RETRY_DELAY, so time needs no bound. Where the order of the Map would break a
tie every outcome is allowed. The module has the boundary of the class: the repository
itself calls neither `clear` nor `enqueue` before init has finished, except at start-up.
`InitFails` is a load that ends because the data directory cannot be made: the queue stays
uninitialized, and the next `enqueue` loads again.

### RetryWorker

`handleCommand` for `send` (`SendOffline`, `SendOnline`, `SendSucceeds`, `SendFails`,
`MarkSendFailed`, `ReportCommand`, `ReportFails`), `processRetryQueue` (`RetryStart`,
`RetryPick`, `RetrySucceeds`, `RetryFails`, `RetryMarked`, `ReportRetry`,
`ReportRetryFails`, `RetryReturn`; `Calls` are the calls that overlap because setInterval
does not wait), the cleaning timer, the network's state as an outside variable, restarts.

Two facts about the code matter here. `entry.nextRetry` and `CONFIG.MESSAGE_RETRY_MAX`,
which processRetryQueue compares with, do not exist: both checks let everything through,
and the model has no guard for them. `AwaitedMark` is the save that a call of markSuccess
or markFailure waits for: none if its id is no key of the Map. And `processCommands` calls
`readJsonLines`, which worker.js does not import, so no command of the file reaches
handleCommand in this commit; handleCommand is modelled at its own boundary, for commands
handled after init().

### FileLock

Each process is at a place of `acquireLock`, `fn` or `releaseLock`; `dir` is the lock
directory with the pid in it, and `maker`, who made it (*history*, like `broken`).
`rmSync` with `recursive` is two calls, and acts on whatever directory has the name by
then. A pid file that is created but empty reads as missing, so writing it is
one step. Reuse of pids and EPERM from `kill(pid, 0)` are not modelled.

### GroupManager

One group (groups do not touch each other), one action per operation; refused calls are no
steps. A mute keeps its remaining time. `_save` calls `atomicWriteFileSync`, which the
module does not import, so nothing is ever written: `Restart` forgets everything. The
file of a group's history is in `GroupSubscriptions`. Left out: `lastSeen` and settings,
which no operation reads, and the migration of an old `GROUPS_FILE`.

### Inbox

`Receive` is everything of `saveMessage` up to its first await: the limiter, the nonce
check with its tolerance, the processed ids. The rest of each call is a stage per await
(`Decrypted`, `CheckSize`, `RotateRead`, `RotateWrite`, `NoRotation`, `AppendRecord`,
`AppendFails`). Caches are sequences, oldest first. Assumed: time does not run backwards,
payloads carry `ts`, clocks differ by less than the year after which validation refuses a
time, and lines written before encryption was introduced precede encrypted ones. Two
rotations at once share their temporary file name; which of the two contents wins is not
told apart, because both are the plain lines. Readers of MSG_FILE never write it:
server.readMessages uses a function it does not import.

### MessageBatcher, NostrNetwork

`MessageBatcher` is the class of performance.js: `Add`, `AddAfterFlush` (refusal, flush
and second attempt, as every caller does it), `Emptied`. `NostrNetwork` decides what a
flushed batch becomes: `HandOver` is `_publishBatch` up to its first await, after which
the batch is published message by message (`Answered`, `Thrown`), several batches at a
time. Connection: `Connect`, `Subscribed`, `Announced`, `AnnounceFails`,
`HandleDisconnect`, `ReconnectFails`, `ReconnectTimer`, `Close`, `Closed`.
`useDirectSubscription` is never FALSE, so subscribing fails only when the constructor of
WebSocket throws, for an address that is none: `addresses` says whether all are valid,
which never changes, and if not, `SubscribeFails` is what every attempt does. Relays that
accept nothing show at the announcement. `MaxRetryCount` caps `reconnectAttempt`. Left
out: compression (undone before publishing), publishing over several paths (a different
choice of relays), subscriptions, console patching. The user calls connect once. The
worker ends when its first connect fails; the model also covers the SDK, which goes on,
and so allows more.

### ServiceControl

The command line processes (`Callers`) run `isRunning`, `ensureRunning`, `start`, `stop`
and `getStatus`; the workers run `main` and `shutdown`. All meet in `PID_FILE`, without a
lock, so one action is one access to it, one signal, or the part of a process between two.

| Code | Model |
|---|---|
| `existsSync`, read and `kill(pid, 0)`, unlink of `isRunning` | `Exists`, `ReadPid`, `UnlinkStale`, shared by all callers |
| `start`: spawn and polling until START_TIMEOUT | `Spawn`, `SpawnFails`, `StartFinds`, `StartPolls`, `StartGivesUp` |
| `stop`: kill, polling for two seconds, clean-up | `Kill`, `StopPolls`, `StopWaited`, `Cleanup`, `StopFindsNone` |
| `main`: the PID file in two steps, connecting, the handlers | `OpenPid`, `WritePid`, `Ready`, `MainFails`, `UpdateHealth` |
| signals, `shutdown`, the end | `Signalled`, `Interrupted`, `Flush`, `UnlinkPid`, `Exit`, `Crash` |

`disturbed` (*history*) records what makes the properties false of the code: a start that
crosses another command, a PID file read while it is being written, a start or stop that
stops waiting. Everything else, every crash and failed start included, is allowed.

### Subscriptions

EXTENDS `NostrNetwork`: its steps of connect, reconnection and close with what they do to
the WebSockets. A socket is a relay and the number of the attempt that opened it;
`wsSubscriptions` holds one per relay, and several sockets of a relay can be alive.
`SocketOpens`, `SocketFails`, `SubscriptionTimeout`, `SocketErrors` and `SocketCloses` are
the event handlers, `RecordSuccess` and `RecordFailure` the circuit breaker, `BreakerTime`
its timeout. Events of one socket come in the order in which package ws emits them. The
module is about relays with valid `addresses`, without which no attempt gets
as far as waiting for its sockets.

### EnhancedRelays, RelayScores, RelayManager

`EnhancedRelays` is the blacklist: the manager's methods on its records and on
`blacklist`, the two files it writes after each (`todo`, `WriteFile`, `WriteFails`),
`Restart` between them, and a command of another process, which reads, edits and writes
each file (`ReadList`, `WriteList`, `ReadStats`, `WriteStats`). Streaks are counted up to
the length that matters. `RelayScores` is the arithmetic of both managers on counts,
latencies and health, with `getHealthyRelays`, `getBestRelay`, `getMultiPathRelays`,
`getHealthSummary` and `getAllRelayStatus`; scores are integers in thousandths. The sorts
are stable: `Ranked` orders places by score and, where scores are equal, by place.
`RelayManager` is the delayed save of the plain manager: `_scheduleSave` and `_saveStats`
inside every changing action, the timer, the threshold of operations, `flush`, `close`,
and a load that may end after changes were made.

### JsonFiles

One file, written with `atomicWriteFile`, `appendJsonLineAsync`, the synchronous rewrite or
`writeJsonAsync` by several processes with several calls each. A content is a set of lines
and whole unless a write of it has only begun or two have mixed. A call keeps the file it
has opened, wherever that is renamed to; the name of a temporary file is the process's.

### MessageJournal

Each method is several actions, one per access to the file system: `InitJournal`,
`AppendSize` and `AppendMessage` (the size is read before the write), `DeleteMessage`,
`CompactBegin`, `CompactGet`, `Clear`, `UnlinkData`, `UnlinkIndex`, `CompactAppend`,
`FlushBegin`, `FlushTruncate`, `FlushWrite`, failures of each, `JournalRestart`. A message
has length 1, so that an offset is the number of messages before it. `mixed` (*history*)
says that appends overlapped, or that clear or compact overlapped with anything.

### StorageKey, IdentityStore, Contacts

`StorageKey`: the key each process caches, the key file, and the keys that lines were
encrypted under; `getStorageKey` in two steps where it creates the file, because its rename
is what other processes see. `IdentityStore`: `loadOrCreateIdentity` over
`readEncryptedJson`, `writeEncryptedJson` and the key file of the working directory, with
the migration of a plain file, several processes, crashes and failing writes. `Contacts`:
what each process holds, the file, and which changes could not be written; every method is
synchronous, so the only interleavings are those of processes.

### GroupSubscriptions, MessageCodec, TokenBucket

`GroupSubscriptions` relates the groups that were joined to `groupSubscriptions` (by
topic) and to the other open subscriptions of the pool, through commands, lost
connections, loading at start, shutdown and restarts; and what a group's history holds to
what was sent and decrypted. `subscribeToGroup` is two actions, because it awaits
`subscribeToTopic` between the check of the Map and the store: `SubscribeToGroup` checks
and opens (`subscribing` are those opened and not stored yet), `StoreSubscription` stores.
The await lasts one microtask, and calls of `processCommands` that one coalesced save
resumes go on in turn within it, so two joins of a topic can both pass the check. `strays`
are the subscriptions that a later one has replaced in the Map and nothing closes;
`joined` and `overlaps` (how many joins overlapped an earlier one of their topic) are
*history*. `MessageCodec` has the functions of performance.js on batches as operators,
with their inputs in `McInit`; nothing moves. Texts have sizes and gzip makes them other
sizes. `TokenBucket` is `_refill` and `consume` with the floor of the division and the
clock; `granted` and `since` are *history*.

### Client

`AgentPulseClient` and `AgentRuntime`, one of which a program uses, over several networks,
each seen through what `NostrNetwork` and `Subscriptions` show of it (connect returns or
throws, later attempts by its timer, a close that takes a moment). Actions: `ClientInit`
to `Disconnect`, `Start` to `CloseRuntime`, `Receive` and `Decrypted` (an encrypted message
is awaited), `Emit` inside both, `WaitForMessage`, `WaitTimeout`, `Subscribe`, `Recv`.
`Send` to `SendReturns` follow `send` over its three awaits, each of which `Disconnect` and
`ClientInit` may come between; `Broadcast` is a runtime's, and `BatchLeaves` the timer of a
full batch. `parted` (*history*) names the calls of `send` during which they did.
`crossed` (*history*) says that calls overlapped or that init was called twice without a
disconnect; both lose hold of a network, see section 7.

## 4. Runs

TLC, two workers. "Distinct" is the number of distinct states; the search is exhaustive.

| Run (`.cfg`) | Bounds | Distinct | Shows |
|---|---|---|---|
| `mq` (MCMessageQueue) | 3 keys, 1 given id, queue of 2, 3 attempts, TTL 2, a second loader, 4 unlost changes | 876k | the queue and its file stay within the limit (`SizeBound`), the newest change is on disk or being saved except after coalescing or a failed save (`ChangesCovered`), the queue refines `WriteBehind` (`WriteBehindSpec`) |
| `worker` (MCRetryWorkerSafety) | 2 commands, queue of 1, 2 attempts, 1 retry call, 3 changes | 1.38M | no message leaves in silence (`NoSilentLoss`), OK means sent (`OkMeansSent`) |
| `worker_live` (MCRetryWorkerLive) | 1 command, 2 overlapping retry calls, 6 changes | 87k | `CommandAnswered`, `EventuallyLeaves` |
| `worker_resend` (MCRetryWorkerSent) | 1 command, 2 retry calls | violated | `SentMeansRemoved`: see 7 |
| `lock` (MCFileLock) | 3 processes | 11k | two processes are inside only after a live holder's directory was removed (`ExclusionUnlessBroken`); a lock left behind is removed (`LeftoverRemoved`) |
| `inbox` (MCInbox) | 2 senders, 2 group and 1 direct message, caches of 1, 1 request per window, 3 deliveries, 2 saves at once, 1 restart, time up to 3 | 654k | `RateBound`, `RepeatsNeedEviction`, `RepeatsAreSoon` |
| `net` (MCNostrNetwork) | batch of 2 messages or 3 bytes; two messages of 1, one of 3, one of 4 bytes; addresses valid or not | 12k | `Accounted`, `SingleAttempt`, `FullBatchLeaves`, `Reconnects` |
| `relays` (MCEnhancedRelays) | *blacklist*: 1 relay, 2 failures to get on it, 2 successes to get off; *scores*: 2 relays, 6 operations, 2 latencies; *files*: 3 calls in 2 processes, each call once | 1.42M | what is offered is healthy and as good as what is not (`BestOffered`); failing relays stay excluded and come back when they have earned it (`FailingExcluded`, `BlacklistSurvives`, `RecoveryEarned`); what is published is whole and holds what was appended (`FilesWhole`) |
| `service` (MCServiceControl) | 2 workers, 2 command lines | 496k | one worker, findable, until two commands cross (`OneWorker`, `Findable`); `stop` ends it (`StopEnds`, `SignalledEnds`) |
| `subs` (MCSubscriptions) | 2 relays, 3 attempts, threshold 5 | 654k | silence after a close that cuts no attempt short (`SilentAfterClose`); an open circuit has failures behind it (`OpenMeansFailing`) |
| `client` (MCClient) | 2 networks, and either 2 messages (1 encrypted), 2 waiters (1 with a filter) and 1 subscriber, or 2 calls that send | 155k | no network is lost hold of, nor a message in its batcher (`HeldOrClosed`), no waiter is passed over or waits for ever (`WaitersServed`, `WaitersEnd`) |
| `standalone` (MCStandalone) | see below | 806k | `IdentityStays`, `LinesReadable`, `HeldIsStored`, `OffsetsRight`, `StatsSaved`, `BatchDecodes`, `BucketBounds`, `SubscriptionsMatch`, `OneOwner`, `SanctionsKept` |

`standalone`: two processes, two working directories and three identities; two processes
and five storage keys; two holders of three aliases, one of them invalid; two journal
calls at once on a file of up to 2 messages; two relays, one known from the start, counts
up to 1, a save after 3 changes; batches of up to 2 texts with sizes on both sides of each
threshold; a bucket of 3 tokens, 2 per 3 units of time, up to time 9; four groups over
three topics, two of which share one and one of which has a topic too long for a key, with
one message to a group, and either histories of 2 or of 1 and one overlapping join; three
users of a group and mutes of 1 unit or endless.

Why the bounds are enough for what the properties tell apart:

- `MaxChanges` bounds changes *not lost*, so that a restart gives some back and the model
  keeps moving. Four are what it takes to fill a queue of two, evict, and change it again
  while a save is in flight. In `worker_live` the bound of 6 is never reached, so that
  liveness is not an effect of it.
- A queue of one message makes the two commands of `worker` compete for it, which is
  where eviction meets retries. With three keys a generated key is free when one
  message is in the queue and one only in the file. Where no key is free, `Enqueue`
  waits; a load or save that ends frees one.
- Three processes are one that holds the lock, one that found it stale too early and one
  that profits. Three users are owner, admin and target.
- Caches of one id make eviction and repetition happen with three deliveries; times up to
  3 with a tolerance of 1 reach both ends of the tolerance, the expiry of a window
  of 2 and the clean-up after 2.
- The four messages of `net` fill a batch by number, fill it by bytes exactly, do not fit
  beside another, and do not fit at all.
- Two workers and two command lines: the second worker is the one that must not be, and two
  commands are what can cross.
- Three attempts to connect give each relay an old, a replaced and a present socket, and
  three failures that count twice reach the real threshold of five.
- One join that overlaps another makes one stray; more would repeat it with the same entries.
  An instance with histories of 2 beside the overlap has about four times the states and no
  other kind of step (`Spent` bounds the two together); the theorem has no such bound.
- `reconnectAttempt` is capped at 2 by `MaxRetryCount`; only networks with an invalid address
  get there, and no guard reads it.
- One relay suffices for the blacklist, whose records do not touch each other; the choice
  between relays is in `RelayScores`, with two.
- Two calls of the same process share a temporary name, and a third is in another process.
- `MCFiles` stops an instance once two rewrites have overlapped, and when a write in place
  ends; `MCJournal` stops once calls have mixed: from there on the properties of the
  module say nothing any more (findings of section 7), and states would only be counted.
- Three unequal rates (capacity 3, 2 tokens per 3 units) make every refill round; nine
  units are three full periods.
- Keys, ids and users are symmetric (`SYMMETRY`) in runs of safety only.

Deadlock is checked in `mq`, `worker`, `worker_live` and `service`, where something can
always happen (in `service` a command can always begin). Elsewhere everything may be at
its end: in `lock` every process may be dead, in `net`, `subs` and `client` every network
may be closed, in `standalone` and `relays` a component may have used its bounds (and
`MessageCodec` never moves), in `inbox` the bounds on time and deliveries end every
behaviour.

Every property has a mutant in `PROJECT.json`: a definition that models code, changed the
way a likely bug would change it, under which TLC finds that property violated.

## 5. Fairness

- `WFairSpec` of `RetryWorker`: weak fairness of started file
  operations, of time, of the cleaning timer (setInterval fires), of the continuation of
  handlers whose await is over, and of each retry call. Nothing makes a command
  arrive, the network come back, or the process restart. `CommandAnswered` therefore says
  "answered, or lost with the process".
- `FairSpec` of `FileLock`: a live process inside withLock goes on. Nothing makes it
  call, time out, fail to write or die.
- `FairSpec` of `NostrNetwork`: timers fire; promises settle (the subscription by its own
  timeout, publications by that of the relay pool); close, once called, ends. Nothing
  makes a relay accept anything: `Reconnects` holds because `isConnected` becomes true
  when the subscriptions were opened, before any relay has answered, which is what the
  code does; a network with an invalid address does not get there and tries for ever.
- `Spec` of `ServiceControl`: a worker in shutdown goes on, because each step of shutdown
  waits for file operations or for sockets that it closes itself. Nothing makes a command
  line act, so `SignalledEnds` does not depend on the process that sent the signal.
- `MCSpec` of `MCClient`: the timeout of a waiter fires. Nothing makes a message arrive.

## 6. Proofs

Every invariant and every action property that a run checks is a theorem: TLC shows it on
a small instance, the theorem for every value of the constants that satisfies the modules'
named assumptions, so for any number of keys, processes, users, relays and messages, and
bounds (`MaxChanges`, `MaxNow`, ...) of any size. The assumptions are `QueueAssumption`,
`WorkerAssumption`, `LockAssumption`, `JsonFilesAssumption`, `StorageKeyAssumption`,
`ContactsAssumption`, `IdentityAssumption`, `JournalAssumption`, `GroupAssumption`,
`GroupSubscriptionsAssumption`, `MessageCodecAssumption`, `InboxAssumption`,
`TokenBucketAssumption`, `BatcherAssumption`, `NetworkAssumption`,
`SubscriptionsAssumption`, `RelayManagerAssumption`, `StatsFileAssumption`,
`RelaysAssumption`, `RelayScoresAssumption`, `ClientAssumption` and `ServiceAssumption`;
they say what the constants are (sizes and limits are numbers, a marker such as "no file"
is not a value) and TLC evaluates each in some run. The theorems are about the
specifications without fairness, hence about the fair ones too (`Spec` of
`ServiceControl` has its fairness in it, which no proof uses).

Most properties are not inductive. Each paragraph names the invariant that is, and why it
has to say more. Functions that recurse over numbers (`Passing`, the counts of
`RelayScores`) are reasoned about without the library's induction theorems, which take an
operator: a set of numbers that holds 0 and every successor is all of `Nat`, because one
that is not has a smallest missing number (`WFMin`).

**QueueProofs** (`MessageQueue`, `RetryWorker`). `TypeCorrect`. `ChangesAreCovered` and
`ImplementsWriteBehind` use `SavesInv`: at most one save is in flight, its version is
newer than the file's and not newer than the queue, and it is the newest unless a change
was missed. That at most one is in flight is the whole point of `savePromise`; without it
a later save could commit first. `SizeIsBounded` uses `SizeInv`, which adds the save and
the load in flight to what is bounded: the file is bounded because the save it came from
was, and the queue after a restart because the file was. `WorkerUsesQueue`: every step of
the worker is a step of the queue or leaves it alone, so that these theorems hold in the
worker. `WorkerTypeCorrect`. `ReportsAreTrue` (`OkMeansSent`) uses `OkInv`: whoever is
about to report OK has given the message to the network, and what is counted as sent stays
so. `NothingLostSilently` (`NoSilentLoss`) is about steps: a message leaves the queue
sent, expired, failed for the last time, evicted or with the process. The list of a retry
pass may be stale, so the invariant relates that list to the commands and not to the queue
(`RetriesOfIds`), and says the same of the queue, the file, the saves and the load in
flight (`StoreOfIds`).

**FileProofs** (`FileLock`, `JsonFiles`, `StorageKey`, `Contacts`). `LockExcludes` uses
`HolderInv`: as long as no live holder's directory was removed, whoever holds the lock is
the maker of the directory, so that two holders are one. `LockTypeCorrect`,
`LockNotLeaked`. `FilesStayWhole` (`FilesWhole`) uses `FilesInv`: while no rewrites of one
process overlap, its temporary file is empty before the write and holds the image before
the rename (`RewritesApart`); while no call begins before the last one ends, a rewrite's
image holds everything in the file but what it means to drop (`CallsApart`).
`LinesStayReadable` uses `KeyInv`: until the key has lapsed, there is one key in the file,
in every process that holds one and under every line, or there is none and at most one
process is writing one. `HeldContactsStored` (`HeldIsStored`) uses `ContactsInv`: the
process that wrote or read last differs from the file only in aliases whose write failed.

**GroupManagerProofs.** `GroupTypeCorrect`. `OwnerStaysMember`, `OwnerRoleIsOwners` and
`OwnerIsOne` (from `OwnerInv`), `SanctionsAreKept`, an action property.

**InboxProofs** (`Inbox`, `TokenBucket`). `InboxTypeCorrect`. `DedupIsRedundant`
(`DedupInv`: the younger cache is the end of the older one, counted from its newest
entry). `RepeatsOnlyAfterEviction` (`HistoryInv`: the cache is the end of the history of
this process). `RepeatsComeSoon` (`FreshInv`: every acceptance was within the tolerance of
the message's own time). `RateIsBounded` (`RateInv`: whatever was dropped from a window or
with an idle limiter is too old to count together with anything that can come); the proof
needs `Window <= 2 * CleanupEvery`, which the configured values satisfy and nothing in the
code enforces. `BucketIsBounded` uses `BucketInv`, which compares products, since the code
divides and rounds down: tokens granted and held beyond the capacity, times the unit, are
at most the time up to the last refill times the rate. `BucketTypeCorrect`.

**NetworkProofs** (`NostrNetwork`, `Subscriptions`, `RelayManager`). `NetworkTypeCorrect`.
`TimerRunsIffFull` (`BatcherInv`: the limits are never exceeded, so that full means exactly
full). `AttemptsAreSingle` and `RetryIsPending` (`ConnInv`: at most one call of connect is
under way, none but a failed one while the timer runs, the field holds a timer exactly if
one runs, and, with valid addresses, `reconnectAttempt` is 0 or, only while a reconnection
is subscribing, 1).
`MessagesAreAccounted` (`SendInv`: batch and batches in publication are disjoint, without
repetition, and hold accepted messages only). `ClosedIsSilent` and `OpenCircuitsFail` use
`SocketsInv` on top of `ConnInv`: a socket connects as long as its timer runs
(`SocketsKnown`), those of the last attempt only while a call of connect waits for them
(`AwaitedSockets`); until the close the network has an entry for each of these, unless the
end of an older socket removed it (`EnteredSockets`), which is why the close reaches them
(`QuietAfterClose`); a socket fails once and counts at most twice (`FailuresCounted`).
`StatsAreSaved` uses `StatsInv`, which says for each changed relay which of file, save and
timer covers it. `StatsTypeCorrect`.

**RelayProofs** (`EnhancedRelays`, `RelayScores`). `FailingRelaysExcluded`,
`BlacklistingsSurvive` and `RecoveriesEarned` follow from `RelaysInv`: records with too many
failures have the flag, in memory, in the file and in the hands of another process
(`RecordsSound`); list and flag agree on the first relays (`ListedFlagged`); a command
that nothing overtook holds what the file holds (`CommandFresh`); the two files, between
whose writes the process may end, have together what the manager knows (`FilesFollow`);
successes counted, before or after a restart, were earned since the conviction
(`StreaksEarned`). `BestAreOffered` (`BestOffered`) is arithmetic: `ScoresInv` bounds the
counts of each record; a score never falls when a relay does better in every respect
(`ScoresMore`, from lemmas on the quotients it is made of), and the sort puts a higher score
first and loses no place (`Ranking`).

**AgentProofs** (`Client`, `IdentityStore`, `MessageCodec`, `GroupSubscriptions`,
`MessageJournal`). `NetworksAndMessagesHeld` (`HeldOrClosed`) uses `ClientInv`: a new
network is one that nothing refers to (`UsedKnown`); until calls cross, only the present network
can be awaited, by an owner that is not connected (`StartIsLast`); a call of `send` that
neither init nor disconnect came between has a connected client and has used its present
network (`SendsFollow`). `WaitersAreServed` uses `WaitersListen`: a
waiter that waits is in the list of handlers, whatever handlers before it removed while the
list was walked through. `StoredIdentityStays` (`IdentityStays`) uses `IdentityInv`, what
each stage of `loadOrCreateIdentity` has in its hands. `BatchesDecode`: what
compressIfNeeded made of a text is read as that text, batches being told from texts by
their form. `SubscriptionsAlwaysMatch` (`SubscriptionsMatch`) uses
`GroupsInv`: a topic's strays and the joins that have opened and not stored are at most as
many as its overlapping joins, and one more while the Map has no entry (`Bounded`), which is
what the check of the Map buys; entries are for joined groups, and a joined group that
shares its topic with no other has its entry (`Heard`), because whatever joins or leaves a
topic is then that group; and a history holds what belongs to its group (`HistoryBelongs`).
`OffsetsStayRight` (`OffsetsRight`) uses `JournalInv`: until calls mix, what the
index has, and what append and flush have in their hands, is where the message begins in
the file, and so is what the index file has, but between the two deletions of a clear.

**ServiceControlProofs.** `ServiceTypeCorrect`, `OneWorkerServes`, `WorkerIsFindable` and
`StopMeansEnded` follow from `ServiceInv`, for any number of workers and command lines.
While nothing is `disturbed`: a start excludes other commands (`NotCrossed`), `PID_FILE`
follows the one worker that serves from its first write to the end of its flush
(`FileIsOf`), a worker that has not written it yet has a start waiting for it
(`StartsAwaited`), and a command that found no pid is right about it (`NoneServes`). The
properties alone are not inductive: without `StartsAwaited` a second start could find no
file while a worker is about to write it.

`PidInUse`, `ProcessedAreNonces`, `TimerIffFull`, `RetryPending`, `OwnerIsMember` and
`OnlyOwnerHasRole` are theorems without a run, as are the types of the modules named above.
The proofs of the other modules contain their types too, as the first conjunct of the
invariant.

Only model-checked: liveness (`CommandAnswered`, `EventuallyLeaves`, `LeftoverRemoved`,
`FullBatchLeaves`, `Reconnects`, `SignalledEnds`, `WaitersEnd`), whose fairness speaks of
`ENABLED`, which is beyond the prover.

## 7. Where code and documentation differ

Found while modelling. `worker_resend` is a run that TLC finds violated, of the worker as it
is once it can read its commands (`worker.js:349`); the others were
read off the code when a property had to except them, and `PROJECT.json` quotes both sides.
A property that excepts such a case names it in a history variable (`disturbed`, `crossed`,
`mixed`, `overlapped`, `overtaken`, `lapsed`, `cutShort`) rather than leaving it out of the
model: the steps are there, and the property says nothing after them.

| Where | What |
|---|---|
| `worker.js:425` (`worker_resend`) | a retried message is looked up by the command's id, kept under another key, and so never removed: it is sent again until it expires |
| `message-queue.js:309` | a change coalesced into a save that no longer takes it is in no save when `flush()` returns |
| `file-lock.js:59` | the lock counts as stale between mkdir and the pid; two processes can be inside |
| `worker.js:754` | direct messages carry no id, so copies from two relays are stored twice |
| `worker.js:326` | rotation reads without decrypting and keeps no encrypted line |
| `worker.js:349`, `server.js:184`, `group-manager.js:80` | functions that are called but not imported: no command of the file is handled, readers never clear, groups are never saved |
| `worker.js:647` | group subscriptions are kept by topic: two groups with one topic share one, and leaving either silences both |
| `worker.js:653` | two joins of a topic that one coalesced save resumes both find it missing and both subscribe; the first subscription is replaced and never closed, so a group that was left is still heard |
| `performance.js:198` | the batch timer starts only when the batch is full; a message in a batch that never fills waits for ever |
| `nostr-network.js:457` | the attempt counter is reset before the attempt can fail: the back-off stays at its first value |
| `nostr-network.js:492`, `:508`, `:559`, `:565`, `:1193` | a timeout counts as two failures; connect waits for the slowest socket; lost sockets are not noticed; a reconnection overwrites entries without closing their sockets; close does not stop an attempt under way |
| `nostr-network.js:899`, `:979` | publishing over several paths throws; what `broadcastToTopic` sends is in a field the worker does not read |
| `json-file.js:207` | overlapping atomic writes of one process share the temporary file |
| `server.js:37`, `:134`, `:809`, `auto-start.js:10` | a PID file that is being written is removed as stale; stop reports success when its time is over; the relay commands are undone by the running manager; a promise is tested instead of its value |
| `enhanced-relay-manager.js:282`, `:464` | a relay blacklisted by hand keeps its run of successes; `addRelay` does not look at the blacklist |
| `relay-manager.js:149` | a save asked for during another leaves the statistics dirty without a timer |
| `message-journal.js:130`, `:227` | only the last message can be read, so compact loses the others; clear stops at the first missing file |
| `storage-encryption.js:55` | rotation re-encrypts nothing |
| `identity.js:134` | an identity that cannot be decrypted is replaced by a new one |
| `contacts.js:191`, `nip19.js:124`, `group-manager.js:595` | import counts refused entries; a hex key of the right length is refused; `slice(-0)` is everything |
| `sdk/index.js:66`, `:232`, `:277` | a second init loses hold of the first network; `send` reports success for a network closed or replaced meanwhile; `recv` with a filter empties the buffer |

## 8. What is not modelled

- Signatures, key agreement and nip19 are computations on bytes without state. Encryption
  appears as what can be read under which key.
- Validation, error codes, the error reporter, logging, configuration and the updater:
  checks, formatting and a call of npm, without state that other parts depend on; their
  constants are constants here.
- The command line parses arguments, calls `server.js` and prints what it returns. The
  functions of `server.js` that append one line to `CMD_FILE` or read a file for display are
  single accesses, whose interleavings are those of `JsonFiles` and `FileLock`.
- `checkRelayStatus`, the probe of a relay: its outcome is the record of a success or a
  failure, which any state of the managers allows.
- Publishing over several paths, which throws (section 7), and the branch of `connect` with
  `useDirectSubscription` FALSE, which no code selects.
- The relays and the pool of the Nostr library: they appear as the outcomes the code
  distinguishes (accepted by one, refused by all, delivered any number of times).

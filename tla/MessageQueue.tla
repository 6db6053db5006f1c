---------------------------- MODULE MessageQueue ----------------------------
(***************************************************************************)
(* The offline message queue of src/src/service/message-queue.js: class    *)
(* MessageQueue over its JavaScript Map, the file it is saved to and the   *)
(* saves and loads in flight.  Every method runs without interruption up   *)
(* to its first await, so a method is one action; the file system calls it *)
(* awaits are actions of their own (ReadFile, InitFails, FinishInit,       *)
(* SaveCommit, SaveFail), and anything may happen before them.             *)
(*                                                                         *)
(* A timestamp is kept as its distance from the present: age is            *)
(* now - createdAt, counted up to TTL, and wait is nextRetryAt - now,      *)
(* counted down to 0, so that time never ends.  One unit is                *)
(* CONFIG.MESSAGE_RETRY_DELAY.  The order of the Map is not kept: where it *)
(* breaks a tie (equal createdAt, equal id) every outcome is allowed.      *)
(***************************************************************************)
EXTENDS Integers, FiniteSets, Functions

CONSTANTS
  Keys,         \* what generateId() can return
  Ids,          \* ids that callers pass in options.id (command ids)
  NoId,         \* enqueue was given no options.id
  Loaders,      \* callers that can have an init() in flight
  Importer,     \* the one started when the module is imported
  MaxQueueSize, \* CONFIG.MAX_QUEUE_SIZE
  RetryCount,   \* CONFIG.MESSAGE_RETRY_COUNT
  RetryDelay,   \* CONFIG.MESSAGE_RETRY_DELAY, in units of itself
  Backoff,      \* CONFIG.MESSAGE_RETRY_BACKOFF
  TTL,          \* CONFIG.MESSAGE_TTL, in the same unit
  MaxChanges    \* bound: changes made and not lost

\* Delay before the next attempt once n attempts have failed.
BackoffDelay(n) == RetryDelay * Backoff^(n - 1)

ASSUME QueueAssumption ==
  /\ IsFiniteSet(Keys) /\ IsFiniteSet(Ids) /\ Keys \cap Ids = {}
  /\ NoId \notin Keys \cup Ids
  /\ Importer \in Loaders
  /\ MaxQueueSize \in Nat \ {0} /\ RetryCount \in Nat \ {0}
  /\ TTL \in Nat /\ MaxChanges \in Nat
  /\ \A n \in 1..RetryCount : BackoffDelay(n) \in Nat

VARIABLES
  queue,        \* this.queue: Map key -> message
  initialized,  \* this.initialized
  load,         \* each caller's init() in flight
  file,         \* OFFLINE_QUEUE_FILE: its messages, and how many changes they hold
  saves,        \* the saves in flight: savePromise is set iff there is one
  changes,      \* history: changes made to queue, those lost by crashes not counted
  missed,       \* history: why the newest changes are in no save, if they are not
  merged        \* history: an init() finished when the queue was in use already

vars == <<queue, initialized, load, file, saves, changes, missed, merged>>

Message == [id : Keys \cup Ids, age : 0..TTL, retry : 0..(RetryCount - 1), wait : Nat]
Snapshot == [entries : SUBSET Message, version : Nat]
Load == [at : {"idle", "reading", "read"}, got : SUBSET Message,
         opt : Ids \cup {NoId}]

NoLoad == [at |-> "idle", got |-> {}, opt |-> NoId]
Empty == [k \in {} |-> {}]

TypeOK ==
  /\ DOMAIN queue \subseteq Keys \cup Ids
  /\ \A k \in DOMAIN queue : queue[k] \in Message
  /\ initialized \in BOOLEAN
  /\ load \in [Loaders -> Load]
  /\ file \in Snapshot
  /\ saves \subseteq Snapshot
  /\ changes \in Nat
  /\ missed \in {"no", "coalesced", "failed"}
  /\ merged \in BOOLEAN

\* Mutant: > where the code has >=, on an age that stops at TTL.
ExpiredStrictly(m) == m.age > TTL

Expired(m) == m.age = TTL
Due(m) == m.wait = 0

Without(q, gone) == Restrict(q, DOMAIN q \ gone)

\* Keys in no queue, file or save: generateId() never repeats one of those.
FreshKeys ==
  Keys \ (DOMAIN queue \cup
          {m.id : m \in Range(queue) \cup file.entries
                        \cup UNION {s.entries : s \in saves}
                        \cup UNION {load[c].got : c \in Loaders}})

----------------------------------------------------------------------------
(* Saving. *)

\* Mutant: savePromise is not looked at, so that saves can overlap.
SaveQueueAlways ==
  /\ saves' = saves \cup {[entries |-> Range(queue'), version |-> changes']}
  /\ missed' = "no"

\* _saveQueue: a save in flight is returned as it is, and the change just made
\* is not part of it; otherwise the lines are taken from the queue at once.
SaveQueue ==
  \/ /\ saves = {}
     /\ saves' = {[entries |-> Range(queue'), version |-> changes']}
     /\ missed' = "no"
  \/ /\ saves # {}
     /\ missed' = "coalesced"
     /\ UNCHANGED saves

\* Every operation that changes the queue ends in a save.
ChangeQueue(q) ==
  /\ changes < MaxChanges
  /\ queue' = q
  /\ changes' = changes + 1
  /\ SaveQueue
  /\ UNCHANGED file

\* atomicWriteFile: the rename is the one step others can see.
SaveCommit ==
  \E s \in saves :
    /\ file' = s
    /\ saves' = saves \ {s}
    /\ UNCHANGED <<queue, initialized, load, changes, missed, merged>>

\* The write or the rename fails: the error is logged, the file is as it was.
SaveFail ==
  \E s \in saves :
    /\ saves' = saves \ {s}
    /\ missed' = "failed"
    /\ UNCHANGED <<queue, initialized, load, file, changes, merged>>

----------------------------------------------------------------------------
(* Operations. *)

\* Mutant: > where the code has >=.
EvictionsLate(q) ==
  IF Cardinality(DOMAIN q) > MaxQueueSize
  THEN {{k} : k \in {j \in DOMAIN q : \A i \in DOMAIN q : q[i].age <= q[j].age}}
  ELSE {{}}

\* The keys evicted to make room: one with the smallest createdAt, if full.
Evictions(q) ==
  IF Cardinality(DOMAIN q) >= MaxQueueSize
  THEN {{k} : k \in {j \in DOMAIN q : \A i \in DOMAIN q : q[i].age <= q[j].age}}
  ELSE {{}}

\* A new message under key k; options.id overrides its id, not its key.
NewMessage(k, opt) ==
  [id |-> IF opt = NoId THEN k ELSE opt, age |-> 0, retry |-> 0, wait |-> 0]

Added(q, k, opt) ==
  [j \in DOMAIN q \cup {k} |-> IF j = k THEN NewMessage(k, opt) ELSE q[j]]

EnqueueInto(q, opt) ==
  \E gone \in Evictions(q), k \in FreshKeys :
    ChangeQueue(Added(Without(q, gone), k, opt))

Enqueue(opt) ==
  /\ initialized
  /\ EnqueueInto(queue, opt)
  /\ UNCHANGED <<initialized, load, merged>>

\* Mutant: the deletion is not saved.
MarkSuccessUnsaved(k) ==
  /\ k \in DOMAIN queue /\ changes < MaxChanges
  /\ queue' = Without(queue, {k})
  /\ changes' = changes + 1
  /\ UNCHANGED <<initialized, load, file, saves, missed, merged>>

MarkSuccess(k) ==
  /\ k \in DOMAIN queue
  /\ ChangeQueue(Without(queue, {k}))
  /\ UNCHANGED <<initialized, load, merged>>

Failed(m) ==
  [m EXCEPT !.retry = @ + 1, !.wait = BackoffDelay(m.retry + 1)]

MarkFailure(k) ==
  /\ k \in DOMAIN queue
  /\ ChangeQueue(IF queue[k].retry + 1 >= RetryCount
                 THEN Without(queue, {k})
                 ELSE [queue EXCEPT ![k] = Failed(@)])
  /\ UNCHANGED <<initialized, load, merged>>

CleanExpired ==
  LET gone == {k \in DOMAIN queue : Expired(queue[k])}
  IN /\ gone # {}
     /\ ChangeQueue(Without(queue, gone))
     /\ UNCHANGED <<initialized, load, merged>>

Clear ==
  /\ ChangeQueue(Empty)
  /\ UNCHANGED <<initialized, load, merged>>

----------------------------------------------------------------------------
(* Loading. *)

\* enqueue on a queue that is not initialized starts a load of its own, also
\* when another one is in flight: initialized is set only when one finishes.
EnqueueEarly(c, opt) ==
  /\ ~initialized
  /\ load[c].at = "idle"
  /\ load' = [load EXCEPT ![c] = [at |-> "reading", got |-> {}, opt |-> opt]]
  /\ UNCHANGED <<queue, initialized, file, saves, changes, missed, merged>>

\* readJsonLinesAsync: an error other than a missing file also reads as no lines.
ReadFile(c) ==
  /\ load[c].at = "reading"
  /\ \E lines \in {file.entries, {}} :
       load' = [load EXCEPT ![c].at = "read", ![c].got = lines]
  /\ UNCHANGED <<queue, initialized, file, saves, changes, missed, merged>>

\* ensureDataDirAsync throws: init rejects, and so does the enqueue that was waiting for it.
InitFails(c) ==
  /\ load[c].at = "reading"
  /\ load' = [load EXCEPT ![c] = NoLoad]
  /\ UNCHANGED <<queue, initialized, file, saves, changes, missed, merged>>

\* The queue once the lines that are not expired are set in it, under their id.
Merges(q, lines) ==
  LET live == {m \in lines : ~Expired(m)}
      ids == {m.id : m \in live}
      pick == {p \in [ids -> live] : \A i \in ids : p[i].id = i}
  IN {[k \in DOMAIN q \cup ids |-> IF k \in ids THEN p[k] ELSE q[k]] : p \in pick}

\* The rest of _loadQueue and init, and of the enqueue that was waiting for it.
FinishInit(c) ==
  /\ load[c].at = "read"
  /\ initialized' = TRUE
  /\ merged' = (merged \/ initialized)
  /\ load' = [load EXCEPT ![c] = NoLoad]
  /\ \E q \in Merges(queue, load[c].got) :
       IF c = Importer
       THEN queue' = q /\ UNCHANGED <<file, saves, changes, missed>>
       ELSE EnqueueInto(q, load[c].opt)

----------------------------------------------------------------------------
\* Time passes for every copy of a message.
Older(m) ==
  [m EXCEPT !.age = IF @ < TTL THEN @ + 1 ELSE TTL,
            !.wait = IF @ > 0 THEN @ - 1 ELSE 0]

OlderAll(ms) == {Older(m) : m \in ms}
OlderSnapshot(s) == [s EXCEPT !.entries = OlderAll(@)]

Tick ==
  /\ queue' = [k \in DOMAIN queue |-> Older(queue[k])]
  /\ file' = OlderSnapshot(file)
  /\ saves' = {OlderSnapshot(s) : s \in saves}
  /\ load' = [c \in Loaders |-> [load[c] EXCEPT !.got = OlderAll(@)]]
  /\ UNCHANGED <<initialized, changes, missed, merged>>

\* The process ends at any point and a new one imports the module.
Restart ==
  /\ queue' = Empty
  /\ initialized' = FALSE
  /\ load' = [c \in Loaders |->
                IF c = Importer THEN [NoLoad EXCEPT !.at = "reading"] ELSE NoLoad]
  /\ saves' = {}
  /\ changes' = file.version
  /\ missed' = "no"
  /\ UNCHANGED <<file, merged>>

Init ==
  /\ queue = Empty
  /\ initialized = FALSE
  /\ load = [c \in Loaders |->
               IF c = Importer THEN [NoLoad EXCEPT !.at = "reading"] ELSE NoLoad]
  /\ file = [entries |-> {}, version |-> 0]
  /\ saves = {}
  /\ changes = 0
  /\ missed = "no"
  /\ merged = FALSE

Operation ==
  \/ \E opt \in Ids \cup {NoId} : Enqueue(opt)
  \/ \E k \in Keys \cup Ids : MarkSuccess(k) \/ MarkFailure(k)
  \/ CleanExpired
  \/ Clear

Background ==
  \/ \E c \in Loaders : ReadFile(c) \/ InitFails(c) \/ FinishInit(c)
  \/ SaveCommit
  \/ SaveFail

Next ==
  \/ Operation
  \/ \E c \in Loaders \ {Importer}, opt \in Ids \cup {NoId} : EnqueueEarly(c, opt)
  \/ Background
  \/ Tick
  \/ Restart

Spec == Init /\ [][Next]_vars

----------------------------------------------------------------------------
(* Properties. *)

\* The queue never holds more than MAX_QUEUE_SIZE messages, in memory, on disk
\* or on its way there, provided no second init() merged the file into a queue
\* already in use: eviction makes room for what enqueue adds, and a load fills
\* an empty queue with at most what a bounded queue once saved.
SizeBound ==
  ~merged =>
    /\ Cardinality(DOMAIN queue) <= MaxQueueSize
    /\ Cardinality(file.entries) <= MaxQueueSize

\* Whatever the order of operations, saves, failures of saves, loads and
\* restarts, the newest state of the queue is on disk or in the save in flight
\* unless the last change came while an older save was in flight (_saveQueue
\* returns that one) or the last save failed.
ChangesCovered ==
  missed = "no" =>
    \/ file.version = changes /\ saves = {}
    \/ \E s \in saves : s.version = changes

\* The queue with its file is a write-behind store: saves land in the order of
\* the changes, the file never goes back to an older state of the queue, and a
\* restart loses only changes that no save had committed.
Durable == INSTANCE WriteBehind WITH mem <- changes, disk <- file.version
WriteBehindSpec == Durable!WBSpec
=============================================================================

------------------------------ MODULE QueueProofs ------------------------------
(*****************************************************************************)
(* Theorems about the offline queue (MessageQueue) and the worker that sends *)
(* over it (RetryWorker), for any messages, agents and bounds.               *)
(*****************************************************************************)
EXTENDS RetryWorker, FiniteSetTheorems, TLAPS

----------------------------------------------------------------------------
(* The queue. *)

QueueOK(q) == DOMAIN q \subseteq Keys \cup Ids /\ \A k \in DOMAIN q : q[k] \in Message

----------------------------------------------------------------------------
(* The pieces the operations are made of. *)

\* Dropping keys from the Map leaves a well-typed Map.
LEMMA WithoutType ==
  ASSUME NEW q, QueueOK(q), NEW gone
  PROVE  QueueOK(Without(q, gone))
BY DEF QueueOK, Without, Restrict

\* So does adding a new message under a generated key.
LEMMA AddedType ==
  ASSUME NEW q, QueueOK(q), NEW k \in Keys, NEW opt \in Ids \cup {NoId}
  PROVE  QueueOK(Added(q, k, opt))
<1>1. NewMessage(k, opt) \in Message
  BY QueueAssumption DEF NewMessage, Message
<1>2. QED
  BY <1>1 DEF QueueOK, Added

\* And setting lines read from the file in it.
LEMMA MergesType ==
  ASSUME NEW q, QueueOK(q), NEW lines \in SUBSET Message, NEW r \in Merges(q, lines)
  PROVE  QueueOK(r)
<1> DEFINE live == {m \in lines : ~Expired(m)}
           ids == {m.id : m \in live}
           pick == {p \in [ids -> live] : \A i \in ids : p[i].id = i}
<1>1. PICK p \in pick : r = [k \in DOMAIN q \cup ids |-> IF k \in ids THEN p[k] ELSE q[k]]
  BY DEF Merges
<1>2. ids \subseteq Keys \cup Ids
  BY DEF Message
<1>3. \A i \in ids : p[i] \in Message
  OBVIOUS
<1>4. QED
  BY <1>1, <1>2, <1>3 DEF QueueOK

\* Messages stay messages when their counters are given values of their types.
LEMMA RetryFieldsType ==
  ASSUME NEW m \in Message, NEW n \in 0..(RetryCount - 1), NEW wait \in Nat
  PROVE  [m EXCEPT !.retry = n, !.wait = wait] \in Message
BY DEF Message

LEMMA AgeFieldsType ==
  ASSUME NEW m \in Message, NEW age \in 0..TTL, NEW wait \in Nat
  PROVE  [m EXCEPT !.age = age, !.wait = wait] \in Message
BY DEF Message

\* A failed attempt that is not the last one leaves a message well typed.
LEMMA FailedType ==
  ASSUME NEW m \in Message, m.retry + 1 < RetryCount
  PROVE  Failed(m) \in Message
<1>1. BackoffDelay(m.retry + 1) \in Nat
  BY QueueAssumption DEF Message
<1>2. m.retry + 1 \in 0..(RetryCount - 1)
  BY QueueAssumption DEF Message
<1>3. QED
  BY <1>1, <1>2, RetryFieldsType DEF Failed

\* Time leaves messages and snapshots well typed.
LEMMA OlderType ==
  ASSUME NEW m \in Message
  PROVE  Older(m) \in Message
<1> DEFINE age == IF m.age < TTL THEN m.age + 1 ELSE TTL
           wait == IF m.wait > 0 THEN m.wait - 1 ELSE 0
<1>1. age \in 0..TTL /\ wait \in Nat
  BY QueueAssumption DEF Message
<1>2. Older(m) = [m EXCEPT !.age = age, !.wait = wait]
  BY DEF Older
<1> HIDE DEF age, wait
<1>3. QED
  BY <1>1, <1>2, AgeFieldsType

LEMMA OlderSnapshotType ==
  ASSUME NEW s \in Snapshot
  PROVE  OlderSnapshot(s) \in Snapshot
BY OlderType DEF Snapshot, OlderSnapshot, OlderAll

\* A change of the queue, and the save it starts or joins, is well typed when
\* the new queue is.
LEMMA ChangeQueueType ==
  ASSUME TypeOK, NEW q, QueueOK(q), ChangeQueue(q)
  PROVE  /\ QueueOK(queue') /\ file' = file
         /\ saves' \subseteq Snapshot /\ changes' \in Nat
         /\ missed' \in {"no", "coalesced", "failed"}
<1>1. Range(q) \subseteq Message
  BY DEF QueueOK, Range
<1>2. changes' \in Nat
  BY DEF TypeOK, ChangeQueue
<1>3. [entries |-> Range(q), version |-> changes'] \in Snapshot
  BY <1>1, <1>2 DEF Snapshot
<1>4. QED
  BY <1>2, <1>3 DEF TypeOK, ChangeQueue, SaveQueue

\* The same for the operation that puts a new message in.
LEMMA EnqueueIntoType ==
  ASSUME TypeOK, NEW q, QueueOK(q), NEW opt \in Ids \cup {NoId}, EnqueueInto(q, opt)
  PROVE  /\ QueueOK(queue') /\ file' = file
         /\ saves' \subseteq Snapshot /\ changes' \in Nat
         /\ missed' \in {"no", "coalesced", "failed"}
<1>1. PICK gone \in Evictions(q), k \in FreshKeys :
             ChangeQueue(Added(Without(q, gone), k, opt))
  BY DEF EnqueueInto
<1>2. QueueOK(Added(Without(q, gone), k, opt))
  BY WithoutType, AddedType DEF FreshKeys
<1>3. QED
  BY <1>1, <1>2, ChangeQueueType

LEMMA NoLoadType == NoLoad \in Load
BY DEF NoLoad, Load

----------------------------------------------------------------------------
(* Type correctness. *)

\* The queue starts well typed, and every step of it keeps the types.
LEMMA InitType == Init => TypeOK
<1> SUFFICES ASSUME Init PROVE TypeOK
  OBVIOUS
<1>1. load \in [Loaders -> Load]
  BY DEF Init, NoLoad, Load
<1>2. QED
  BY <1>1 DEF Init, TypeOK, Empty, Snapshot

LEMMA NextKeepsType ==
  ASSUME TypeOK, [Next]_vars
  PROVE  TypeOK'
<1>0. QueueOK(queue)
  BY DEF TypeOK, QueueOK
<1>1. ASSUME NEW opt \in Ids \cup {NoId}, Enqueue(opt) PROVE TypeOK'
  BY <1>0, <1>1, EnqueueIntoType DEF Enqueue, TypeOK, QueueOK
<1>2. ASSUME NEW k \in Keys \cup Ids, MarkSuccess(k) PROVE TypeOK'
  BY <1>0, <1>2, WithoutType, ChangeQueueType DEF MarkSuccess, TypeOK, QueueOK
<1>3. ASSUME NEW k \in Keys \cup Ids, MarkFailure(k) PROVE TypeOK'
  <2> DEFINE q == IF queue[k].retry + 1 >= RetryCount
                  THEN Without(queue, {k})
                  ELSE [queue EXCEPT ![k] = Failed(@)]
  <2>1. ASSUME queue[k].retry + 1 >= RetryCount PROVE QueueOK(q)
    <3>1. q = Without(queue, {k})
      BY <2>1
    <3>2. QED
      BY <1>0, <3>1, WithoutType
  <2>2. ASSUME ~(queue[k].retry + 1 >= RetryCount) PROVE QueueOK(q)
    <3>1. k \in DOMAIN queue /\ queue[k] \in Message
      BY <1>0, <1>3 DEF MarkFailure, QueueOK
    <3>2. queue[k].retry + 1 < RetryCount
      BY <2>2, <3>1, QueueAssumption DEF Message
    <3>3. Failed(queue[k]) \in Message
      BY <3>1, <3>2, FailedType
    <3>4. QED
      BY <1>0, <2>2, <3>3 DEF QueueOK
  <2>3. QueueOK(q)
    BY <2>1, <2>2
  <2>4. ChangeQueue(q) /\ UNCHANGED <<initialized, load, merged>>
    BY <1>3 DEF MarkFailure
  <2> HIDE DEF q
  <2>5. QED
    BY <2>3, <2>4, ChangeQueueType DEF TypeOK, QueueOK
<1>4. CASE CleanExpired
  BY <1>0, <1>4, WithoutType, ChangeQueueType DEF CleanExpired, TypeOK, QueueOK
<1>5. CASE Clear
  <2>1. QueueOK(Empty)
    BY DEF QueueOK, Empty
  <2>2. QED
    BY <1>5, <2>1, ChangeQueueType DEF Clear, TypeOK, QueueOK
<1>6. ASSUME NEW c \in Loaders, NEW opt \in Ids \cup {NoId}, EnqueueEarly(c, opt)
      PROVE  TypeOK'
  BY <1>6 DEF EnqueueEarly, TypeOK, Load
<1>7. ASSUME NEW c \in Loaders, ReadFile(c) PROVE TypeOK'
  <2>1. PICK lines \in {file.entries, {}} :
          load' = [load EXCEPT ![c].at = "read", ![c].got = lines]
    BY <1>7 DEF ReadFile
  <2>2. lines \subseteq Message /\ load[c] \in Load
    BY DEF TypeOK, Snapshot
  <2>3. [load[c] EXCEPT !.at = "read", !.got = lines] \in Load
    BY <2>2 DEF Load
  <2>4. load' \in [Loaders -> Load]
    BY <2>1, <2>3 DEF TypeOK
  <2>5. QED
    BY <1>7, <2>4 DEF ReadFile, TypeOK
<1>8. ASSUME NEW c \in Loaders, FinishInit(c) PROVE TypeOK'
  <2>1. PICK q \in Merges(queue, load[c].got) :
          IF c = Importer
          THEN queue' = q /\ UNCHANGED <<file, saves, changes, missed>>
          ELSE EnqueueInto(q, load[c].opt)
    BY <1>8 DEF FinishInit
  <2>2. load[c].got \in SUBSET Message /\ load[c].opt \in Ids \cup {NoId}
    BY DEF TypeOK, Load
  <2>3. QueueOK(q)
    BY <1>0, <2>1, <2>2, MergesType
  <2>4. load' \in [Loaders -> Load] /\ initialized' \in BOOLEAN /\ merged' \in BOOLEAN
    BY <1>8, NoLoadType DEF FinishInit, TypeOK
  <2>5. CASE c = Importer
    BY <2>1, <2>3, <2>4, <2>5 DEF TypeOK, QueueOK
  <2>6. CASE c # Importer
    BY <2>1, <2>2, <2>3, <2>4, <2>6, EnqueueIntoType DEF TypeOK, QueueOK
  <2>7. QED
    BY <2>5, <2>6
<1>9. CASE SaveCommit
  BY <1>9 DEF SaveCommit, TypeOK
<1>10. CASE SaveFail
  BY <1>10 DEF SaveFail, TypeOK
<1>11. CASE Tick
  <2>1. DOMAIN queue' \subseteq Keys \cup Ids /\ \A k \in DOMAIN queue' : queue'[k] \in Message
    BY <1>0, <1>11, OlderType DEF Tick, QueueOK
  <2>2. file' \in Snapshot /\ saves' \subseteq Snapshot
    BY <1>11, OlderSnapshotType DEF Tick, TypeOK
  <2>3. ASSUME NEW c \in Loaders
        PROVE  [load[c] EXCEPT !.got = OlderAll(@)] \in Load
    <3>1. load[c] \in Load
      BY DEF TypeOK
    <3>2. OlderAll(load[c].got) \in SUBSET Message
      BY <3>1, OlderType DEF OlderAll, Load
    <3>3. QED
      BY <3>1, <3>2 DEF Load
  <2>4. load' \in [Loaders -> Load]
    BY <1>11, <2>3 DEF Tick
  <2>5. QED
    BY <1>11, <2>1, <2>2, <2>4 DEF Tick, TypeOK
<1>12. CASE Restart
  <2>1. load' \in [Loaders -> Load]
    BY <1>12 DEF Restart, NoLoad, Load
  <2>2. QED
    BY <1>12, <2>1 DEF Restart, TypeOK, Empty, Snapshot
<1>13. CASE UNCHANGED vars
  BY <1>13 DEF vars, TypeOK
<1>14. ASSUME NEW c \in Loaders, InitFails(c) PROVE TypeOK'
  BY <1>14, NoLoadType DEF InitFails, TypeOK
<1>15. QED
  BY <1>1, <1>2, <1>3, <1>4, <1>5, <1>6, <1>7, <1>8, <1>9, <1>10, <1>11, <1>12, <1>13, <1>14
  DEF Next, Operation, Background

\* Every value the worker keeps, writes or reads back has its type; among it,
\* no stored message has used up its MESSAGE_RETRY_COUNT attempts.
THEOREM TypeCorrect == Spec => []TypeOK
<1>1. Init => TypeOK
  BY InitType
<1>2. TypeOK /\ [Next]_vars => TypeOK'
  BY NextKeepsType
<1>3. QED
  BY <1>1, <1>2, PTL DEF Spec

----------------------------------------------------------------------------
(* Saving: what is on disk, what is on its way there. *)

\* Saves do not overlap (savePromise), and one in flight is newer than the file.
\* ChangesCovered is not inductive without it: a save that commits might not be
\* the newest one.
SavesInv ==
  /\ file.version <= changes
  /\ \A s \in saves : file.version < s.version /\ s.version <= changes
  /\ \A s, t \in saves : s = t
  /\ ChangesCovered

\* Any change of the queue keeps it, whatever becomes of the queue.
LEMMA ChangeKeepsSaves ==
  ASSUME TypeOK, SavesInv, NEW q, ChangeQueue(q)
  PROVE  SavesInv'
<1>1. /\ changes' = changes + 1 /\ file' = file
      /\ file.version \in Nat /\ changes \in Nat
  BY DEF ChangeQueue, TypeOK, Snapshot
<1>2. CASE saves = {}
  <2> DEFINE new == [entries |-> Range(queue'), version |-> changes']
  <2>1. saves' = {new} /\ new.version = changes'
    BY <1>2 DEF ChangeQueue, SaveQueue
  <2>2. QED
    BY <1>1, <2>1 DEF SavesInv, ChangesCovered
<1>3. CASE saves # {}
  <2>1. saves' = saves /\ missed' = "coalesced"
    BY <1>3 DEF ChangeQueue, SaveQueue
  <2>2. \A s \in saves : s.version \in Nat
    BY DEF TypeOK, Snapshot
  <2>3. QED
    BY <1>1, <2>1, <2>2 DEF SavesInv, ChangesCovered
<1>4. QED
  BY <1>2, <1>3

\* Every step either changes the queue through ChangeQueue, or is one of the
\* few that touch the file, the saves or the history; the rest leave them alone.
SavingUnchanged == UNCHANGED <<file, saves, changes, missed>>

LEMMA NextCases ==
  ASSUME TypeOK, [Next]_vars
  PROVE  \/ \E q : ChangeQueue(q)
         \/ SaveCommit \/ SaveFail \/ Tick \/ Restart
         \/ SavingUnchanged
<1>1. ASSUME NEW opt, Enqueue(opt) PROVE \E q : ChangeQueue(q)
  BY <1>1 DEF Enqueue, EnqueueInto
<1>2. ASSUME NEW k, MarkSuccess(k) \/ MarkFailure(k) PROVE \E q : ChangeQueue(q)
  BY <1>2 DEF MarkSuccess, MarkFailure
<1>3. CASE CleanExpired \/ Clear
  BY <1>3 DEF CleanExpired, Clear
<1>4. ASSUME NEW c, NEW opt, EnqueueEarly(c, opt) PROVE SavingUnchanged
  BY <1>4 DEF EnqueueEarly, SavingUnchanged
<1>5. ASSUME NEW c, ReadFile(c) \/ InitFails(c) PROVE SavingUnchanged
  BY <1>5 DEF ReadFile, InitFails, SavingUnchanged
<1>6. ASSUME NEW c, FinishInit(c) PROVE SavingUnchanged \/ \E q : ChangeQueue(q)
  BY <1>6 DEF FinishInit, EnqueueInto, SavingUnchanged
<1>7. CASE UNCHANGED vars
  BY <1>7 DEF vars, SavingUnchanged
<1>8. QED
  BY <1>1, <1>2, <1>3, <1>4, <1>5, <1>6, <1>7 DEF Next, Operation, Background

LEMMA TickVersions ==
  ASSUME TypeOK, Tick
  PROVE  /\ file'.version = file.version /\ changes' = changes /\ missed' = missed
         /\ saves' = {OlderSnapshot(s) : s \in saves}
         /\ \A s \in saves : OlderSnapshot(s).version = s.version
BY DEF TypeOK, Tick, OlderSnapshot, Snapshot

\* Every step keeps the invariant of the saves.
LEMMA NextKeepsSaves ==
  ASSUME TypeOK, SavesInv, [Next]_vars
  PROVE  SavesInv'
<1>1. CASE \E q : ChangeQueue(q)
  BY <1>1, ChangeKeepsSaves
<1>2. CASE SaveCommit
  <2>1. PICK s \in saves : file' = s /\ saves' = saves \ {s}
    BY <1>2 DEF SaveCommit
  <2>2. saves' = {} /\ file'.version = s.version /\ changes' = changes /\ missed' = missed
    BY <1>2, <2>1 DEF SaveCommit, SavesInv
  <2>3. QED
    BY <2>1, <2>2 DEF SavesInv, ChangesCovered
<1>3. CASE SaveFail
  BY <1>3 DEF SaveFail, SavesInv, ChangesCovered
<1>4. CASE Tick
  <2>1. \A s, t \in saves' : s = t
    BY <1>4, TickVersions DEF SavesInv
  <2>2. ChangesCovered'
    BY <1>4, TickVersions DEF SavesInv, ChangesCovered
  <2>3. QED
    BY <1>4, <2>1, <2>2, TickVersions DEF SavesInv
<1>5. CASE Restart
  BY <1>5 DEF Restart, SavesInv, ChangesCovered, TypeOK, Snapshot
<1>6. CASE SavingUnchanged
  BY <1>6 DEF SavingUnchanged, SavesInv, ChangesCovered
<1>7. QED
  BY <1>1, <1>2, <1>3, <1>4, <1>5, <1>6, NextCases

LEMMA SavesCorrect == Spec => []SavesInv
<1>1. Init => SavesInv
  BY DEF Init, SavesInv, ChangesCovered
<1>2. TypeOK /\ SavesInv /\ [Next]_vars => SavesInv'
  BY NextKeepsSaves
<1>3. QED
  BY <1>1, <1>2, TypeCorrect, PTL DEF Spec

\* The newest state of the queue is on disk or on its way there, unless a
\* change was left to a save already in flight or a save failed.
THEOREM ChangesAreCovered == Spec => []ChangesCovered
<1>1. SavesInv => ChangesCovered
  BY DEF SavesInv
<1>2. QED
  BY <1>1, SavesCorrect, PTL

\* The queue implements the write-behind store: saves commit in order and a
\* restart loses unsaved changes only.
THEOREM ImplementsWriteBehind == Spec => WriteBehindSpec
<1>1. Init => Durable!WBInit
  BY DEF Init, Durable!WBInit
<1>2. TypeOK /\ SavesInv /\ [Next]_vars => [Durable!WBNext]_(Durable!wbvars)
  <2> SUFFICES ASSUME TypeOK, SavesInv, [Next]_vars
               PROVE  Durable!WBNext \/ UNCHANGED <<changes, file.version>>
    BY DEF Durable!wbvars
  <2>1. ASSUME NEW q, ChangeQueue(q) PROVE Durable!Change
    BY <2>1 DEF ChangeQueue, Durable!Change
  <2>2. CASE SaveCommit
    <3>1. PICK s \in saves : file' = s
      BY <2>2 DEF SaveCommit
    <3>2. s.version \in (file.version + 1)..changes /\ changes' = changes
      BY <2>2, <3>1 DEF SaveCommit, SavesInv, TypeOK, Snapshot
    <3>3. QED
      BY <3>1, <3>2 DEF Durable!WBNext, Durable!Save
  <2>3. CASE SaveFail
    BY <2>3 DEF SaveFail
  <2>4. CASE Tick
    BY <2>4, TickVersions
  <2>5. CASE Restart
    BY <2>5 DEF Restart, Durable!WBNext, Durable!LoseUnsaved
  <2>6. CASE SavingUnchanged
    BY <2>6 DEF SavingUnchanged
  <2>7. QED
    BY <2>1, <2>2, <2>3, <2>4, <2>5, <2>6, NextCases DEF Durable!WBNext
<1>3. QED
  BY <1>1, <1>2, TypeCorrect, SavesCorrect, PTL
  DEF Spec, WriteBehindSpec, Durable!WBSpec, Durable!wbvars

----------------------------------------------------------------------------
(* Size. *)

Small(S) == IsFiniteSet(S) /\ Cardinality(S) <= MaxQueueSize

\* SizeBound is not inductive by itself: the next queue can come from a load,
\* which holds what the file held, which holds what a save held; and a load only
\* fills the queue alone because an uninitialized queue is empty.
SizeInv ==
  ~merged =>
    /\ Small(DOMAIN queue)
    /\ Small(file.entries)
    /\ \A s \in saves : Small(s.entries)
    /\ \A c \in Loaders : Small(load[c].got)
    /\ ~initialized => DOMAIN queue = {}

LEMMA SmallEmpty == Small({})
BY FS_EmptySet, QueueAssumption DEF Small

LEMMA SmallSubset ==
  ASSUME NEW S, Small(S), NEW T \in SUBSET S
  PROVE  Small(T)
<1>1. /\ IsFiniteSet(T) /\ Cardinality(T) <= Cardinality(S)
      /\ Cardinality(S) \in Nat /\ Cardinality(T) \in Nat
  BY FS_Subset, FS_CardinalityType DEF Small
<1>2. QED
  BY <1>1, QueueAssumption DEF Small

\* A set with no more elements than a small one is small.
LEMMA SmallSurjection ==
  ASSUME NEW S, Small(S), NEW T, NEW f \in [S -> T],
         \A t \in T : \E s \in S : f[s] = t
  PROVE  Small(T)
<1>1. f \in Surjection(S, T)
  BY DEF Surjection
<1>2. /\ IsFiniteSet(T) /\ Cardinality(T) <= Cardinality(S)
      /\ Cardinality(S) \in Nat /\ Cardinality(T) \in Nat
  BY <1>1, FS_Surjection, FS_CardinalityType DEF Small
<1>3. QED
  BY <1>2, QueueAssumption DEF Small

LEMMA SmallRange ==
  ASSUME NEW q, Small(DOMAIN q)
  PROVE  Small(Range(q))
<1> DEFINE f == [k \in DOMAIN q |-> q[k]]
<1>1. f \in [DOMAIN q -> Range(q)] /\ \A m \in Range(q) : \E k \in DOMAIN q : f[k] = m
  BY DEF Range
<1>2. QED
  BY <1>1, SmallSurjection

LEMMA SmallOlder ==
  ASSUME NEW S, Small(S)
  PROVE  Small(OlderAll(S))
<1> DEFINE f == [m \in S |-> Older(m)]
<1>1. f \in [S -> OlderAll(S)] /\ \A t \in OlderAll(S) : \E m \in S : f[m] = t
  BY DEF OlderAll
<1>2. QED
  BY <1>1, SmallSurjection

\* Eviction leaves room for one more message.
LEMMA EvictionMakesRoom ==
  ASSUME NEW q, Small(DOMAIN q), NEW gone \in Evictions(q), NEW k, NEW opt
  PROVE  Small(DOMAIN Added(Without(q, gone), k, opt))
<1> DEFINE rest == DOMAIN q \ gone
<1>1. DOMAIN Added(Without(q, gone), k, opt) = rest \cup {k}
  BY DEF Added, Without, Restrict
<1>2. Cardinality(DOMAIN q) \in Nat /\ Cardinality(DOMAIN q) <= MaxQueueSize
  BY FS_CardinalityType DEF Small
<1>3. IsFiniteSet(rest) /\ Cardinality(rest) \in Nat /\ Cardinality(rest) < MaxQueueSize
  <2>1. CASE Cardinality(DOMAIN q) >= MaxQueueSize
    <3>1. PICK j \in DOMAIN q : gone = {j}
      BY <2>1 DEF Evictions
    <3>2. IsFiniteSet(rest) /\ Cardinality(rest) = Cardinality(DOMAIN q) - 1
      BY <3>1, FS_RemoveElement DEF Small
    <3>3. QED
      BY <1>2, <3>2, FS_CardinalityType, QueueAssumption
  <2>2. CASE ~(Cardinality(DOMAIN q) >= MaxQueueSize)
    <3>1. gone = {}
      BY <2>2 DEF Evictions
    <3>2. rest = DOMAIN q
      BY <3>1
    <3>3. QED
      BY <1>2, <2>2, <3>2, QueueAssumption DEF Small
  <2>3. QED
    BY <2>1, <2>2
<1> HIDE DEF rest
<1>4. /\ IsFiniteSet(rest \cup {k})
      /\ Cardinality(rest \cup {k}) =
           IF k \in rest THEN Cardinality(rest) ELSE Cardinality(rest) + 1
  BY <1>3, FS_AddElement, Zenon
<1>5. Cardinality(rest \cup {k}) \in Nat
  BY <1>4, FS_CardinalityType
<1>6. QED
  BY <1>1, <1>3, <1>4, <1>5, QueueAssumption DEF Small

\* A load into an empty queue fills it with at most what was read.
LEMMA LoadIsSmall ==
  ASSUME NEW q, DOMAIN q = {}, NEW lines, Small(lines), NEW r \in Merges(q, lines)
  PROVE  Small(DOMAIN r)
<1> DEFINE live == {m \in lines : ~Expired(m)}
           ids == {m.id : m \in live}
           f == [m \in live |-> m.id]
<1>1. DOMAIN r = ids
  BY DEF Merges
<1>2. Small(live)
  BY SmallSubset
<1>3. f \in [live -> ids] /\ \A i \in ids : \E m \in live : f[m] = i
  OBVIOUS
<1> HIDE DEF f, live, ids
<1>4. Small(ids)
  BY <1>2, <1>3, SmallSurjection
<1>5. QED
  BY <1>1, <1>4

\* A change to a small queue leaves every set of the invariant small.
LEMMA ChangeKeepsSize ==
  ASSUME SizeInv, ~merged, NEW q, Small(DOMAIN q), ChangeQueue(q)
  PROVE  /\ Small(DOMAIN queue') /\ Small(file'.entries)
         /\ \A s \in saves' : Small(s.entries)
<1>1. queue' = q /\ file' = file /\ Small(Range(q))
  BY SmallRange DEF ChangeQueue
<1>2. \A s \in saves' : Small(s.entries)
  BY <1>1 DEF ChangeQueue, SaveQueue, SizeInv
<1>3. QED
  BY <1>1, <1>2 DEF SizeInv

\* The same for enqueue.
LEMMA EnqueueKeepsSize ==
  ASSUME SizeInv, ~merged, NEW q, Small(DOMAIN q), NEW opt, EnqueueInto(q, opt)
  PROVE  /\ Small(DOMAIN queue') /\ Small(file'.entries)
         /\ \A s \in saves' : Small(s.entries)
<1>1. PICK gone \in Evictions(q), k \in FreshKeys :
             ChangeQueue(Added(Without(q, gone), k, opt))
  BY DEF EnqueueInto
<1>2. Small(DOMAIN Added(Without(q, gone), k, opt))
  BY EvictionMakesRoom
<1>3. QED
  BY <1>1, <1>2, ChangeKeepsSize

\* Every step keeps the sizes.
LEMMA NextKeepsSize ==
  ASSUME TypeOK, SizeInv, [Next]_vars
  PROVE  SizeInv'
<1> SUFFICES ASSUME ~merged'
             PROVE  /\ Small(DOMAIN queue') /\ Small(file'.entries)
                    /\ \A s \in saves' : Small(s.entries)
                    /\ \A c \in Loaders : Small(load'[c].got)
                    /\ ~initialized' => DOMAIN queue' = {}
  BY DEF SizeInv
<1> DEFINE Goal == /\ Small(DOMAIN queue') /\ Small(file'.entries)
                   /\ \A s \in saves' : Small(s.entries)
                   /\ \A c \in Loaders : Small(load'[c].got)
                   /\ ~initialized' => DOMAIN queue' = {}
<1>0. ASSUME ~merged
      PROVE  /\ Small(DOMAIN queue) /\ Small(file.entries)
             /\ \A s \in saves : Small(s.entries)
             /\ \A c \in Loaders : Small(load[c].got)
             /\ ~initialized => DOMAIN queue = {}
  BY <1>0 DEF SizeInv
<1>1. ASSUME NEW opt, Enqueue(opt) PROVE Goal
  BY <1>0, <1>1, EnqueueKeepsSize DEF Enqueue
<1>2. ASSUME ~merged, NEW gone, Without(queue, gone) = queue', ChangeQueue(Without(queue, gone)),
             UNCHANGED <<initialized, load>>
      PROVE  Goal
  <2>1. DOMAIN Without(queue, gone) \in SUBSET DOMAIN queue
    BY DEF Without, Restrict
  <2>2. Small(DOMAIN Without(queue, gone))
    BY <1>0, <1>2, <2>1, SmallSubset
  <2>3. QED
    BY <1>0, <1>2, <2>1, <2>2, ChangeKeepsSize
<1>3. ASSUME NEW k, MarkSuccess(k) PROVE Goal
  BY <1>2, <1>3 DEF MarkSuccess, ChangeQueue
<1>4. ASSUME NEW k, MarkFailure(k) PROVE Goal
  <2>1. CASE queue[k].retry + 1 >= RetryCount
    BY <1>2, <1>4, <2>1 DEF MarkFailure, ChangeQueue
  <2>2. CASE ~(queue[k].retry + 1 >= RetryCount)
    <3> DEFINE q == [queue EXCEPT ![k] = Failed(@)]
    <3>1. ChangeQueue(q) /\ DOMAIN q = DOMAIN queue /\ queue' = q /\ ~merged
          /\ UNCHANGED <<initialized, load>>
      BY <1>4, <2>2 DEF MarkFailure, ChangeQueue
    <3> HIDE DEF q
    <3>2. Small(DOMAIN q)
      BY <1>0, <3>1
    <3>3. QED
      BY <1>0, <3>1, <3>2, ChangeKeepsSize
  <2>3. QED
    BY <2>1, <2>2
<1>5. ASSUME CleanExpired PROVE Goal
  BY <1>2, <1>5 DEF CleanExpired, ChangeQueue
<1>6. ASSUME Clear PROVE Goal
  <2>1. DOMAIN Empty = {} /\ Small(DOMAIN Empty)
    BY SmallEmpty DEF Empty
  <2>2. QED
    BY <1>0, <1>6, <2>1, ChangeKeepsSize DEF Clear, ChangeQueue
<1>7. ASSUME NEW c \in Loaders, NEW opt, EnqueueEarly(c, opt) PROVE Goal
  BY <1>0, <1>7, SmallEmpty DEF EnqueueEarly, TypeOK
<1>8. ASSUME NEW c \in Loaders, ReadFile(c) PROVE Goal
  <2>1. PICK lines \in {file.entries, {}} :
          load' = [load EXCEPT ![c].at = "read", ![c].got = lines]
    BY <1>8 DEF ReadFile
  <2>2. Small(lines)
    BY <1>0, <1>8, SmallEmpty DEF ReadFile
  <2>3. \A d \in Loaders : load'[d].got = IF d = c THEN lines ELSE load[d].got
    BY <2>1 DEF TypeOK, Load
  <2>4. QED
    BY <1>0, <1>8, <2>2, <2>3 DEF ReadFile
<1>9. ASSUME NEW c \in Loaders, FinishInit(c) PROVE Goal
  <2>1. ~merged /\ ~initialized /\ initialized'
    BY <1>9 DEF FinishInit
  <2>2. PICK q \in Merges(queue, load[c].got) :
          IF c = Importer
          THEN queue' = q /\ UNCHANGED <<file, saves, changes, missed>>
          ELSE EnqueueInto(q, load[c].opt)
    BY <1>9 DEF FinishInit
  <2>3. Small(DOMAIN q)
    BY <1>0, <2>1, <2>2, LoadIsSmall
  <2>4. \A d \in Loaders : Small(load'[d].got)
    BY <1>0, <1>9, <2>1, SmallEmpty DEF FinishInit, TypeOK, NoLoad
  <2>5. CASE c = Importer
    BY <1>0, <2>1, <2>2, <2>3, <2>4, <2>5
  <2>6. CASE c # Importer
    BY <1>0, <2>1, <2>2, <2>3, <2>4, <2>6, EnqueueKeepsSize
  <2>7. QED
    BY <2>5, <2>6
<1>10. ASSUME SaveCommit PROVE Goal
  BY <1>0, <1>10 DEF SaveCommit
<1>11. ASSUME SaveFail PROVE Goal
  BY <1>0, <1>11 DEF SaveFail
<1>12. ASSUME Tick PROVE Goal
  <2>1. \A c \in Loaders : Small(load'[c].got)
    <3>1. \A c \in Loaders : load'[c].got = OlderAll(load[c].got)
      BY <1>12 DEF Tick, TypeOK, Load
    <3>2. QED
      BY <1>0, <1>12, <3>1, SmallOlder DEF Tick
  <2>2. \A s \in saves' : Small(s.entries)
    <3>1. \A s \in saves : OlderSnapshot(s).entries = OlderAll(s.entries)
      BY DEF OlderSnapshot, TypeOK, Snapshot
    <3>2. QED
      BY <1>0, <1>12, <3>1, SmallOlder DEF Tick
  <2>3. file'.entries = OlderAll(file.entries) /\ DOMAIN queue' = DOMAIN queue
    BY <1>12 DEF Tick, OlderSnapshot, TypeOK, Snapshot
  <2>4. QED
    BY <1>0, <1>12, <2>1, <2>2, <2>3, SmallOlder DEF Tick
<1>13. ASSUME Restart PROVE Goal
  BY <1>0, <1>13, SmallEmpty DEF Restart, NoLoad, Empty
<1>14. ASSUME UNCHANGED vars PROVE Goal
  BY <1>0, <1>14 DEF vars
<1>15. ASSUME NEW c \in Loaders, InitFails(c) PROVE Goal
  BY <1>0, <1>15, SmallEmpty DEF InitFails, TypeOK, NoLoad
<1> HIDE DEF Goal
<1>16. Goal
  BY <1>1, <1>3, <1>4, <1>5, <1>6, <1>7, <1>8, <1>9, <1>10, <1>11, <1>12, <1>13, <1>14,
     <1>15
  DEF Next, Operation, Background
<1>17. QED
  BY <1>16 DEF Goal

\* The queue and its file never exceed MAX_QUEUE_SIZE messages unless a second
\* init() merged the file into a queue already in use.
THEOREM SizeIsBounded == Spec => []SizeBound
<1>1. Init => SizeInv
  BY SmallEmpty DEF Init, SizeInv, NoLoad, Empty
<1>2. TypeOK /\ SizeInv /\ [Next]_vars => SizeInv'
  BY NextKeepsSize
<1>3. SizeInv => SizeBound
  BY DEF SizeInv, SizeBound, Small
<1>4. QED
  BY <1>1, <1>2, <1>3, TypeCorrect, PTL DEF Spec

----------------------------------------------------------------------------
(* The worker and its queue. *)

\* A markSuccess or markFailure is a step of the queue, or leaves it alone when
\* the id is not a key of the Map.
LEMMA ByIdIsQueueStep ==
  ASSUME TypeOK, NEW i, MarkSuccessById(i) \/ MarkFailureById(i)
  PROVE  [Next]_vars
<1>1. CASE i \in DOMAIN queue
  <2>1. i \in Keys \cup Ids
    BY <1>1 DEF TypeOK
  <2>2. MarkSuccess(i) \/ MarkFailure(i)
    BY <1>1 DEF MarkSuccessById, MarkFailureById
  <2>3. QED
    BY <2>1, <2>2 DEF Next, Operation
<1>2. CASE i \notin DOMAIN queue
  BY <1>2 DEF MarkSuccessById, MarkFailureById, MarkSuccess, MarkFailure, qvars
<1>3. QED
  BY <1>1, <1>2

\* Every step of the worker is a step of its queue or leaves the queue alone.
LEMMA WorkerStepIsQueueStep ==
  ASSUME TypeOK, [WNext]_wvars
  PROVE  [Next]_vars
<1>1. ASSUME NEW i \in Ids, HandleCommand(i) PROVE [Next]_vars
  <2>1. CASE SendOffline(i) \/ SendFails(i)
    <3>1. Enqueue(i)
      BY <2>1 DEF SendOffline, SendFails
    <3>2. QED
      BY <3>1 DEF Next, Operation
  <2>2. CASE SendSucceeds(i) \/ MarkSendFailed(i)
    BY <2>2, ByIdIsQueueStep DEF SendSucceeds, MarkSendFailed
  <2>3. CASE SendOnline(i) \/ ReportCommand(i)
    BY <2>3 DEF SendOnline, ReportCommand, qvars
  <2>4. CASE ReportFails(i)
    <3>1. Enqueue(i) \/ UNCHANGED vars
      BY <2>4 DEF ReportFails, qvars
    <3>2. QED
      BY <3>1 DEF Next, Operation
  <2>5. QED
    BY <1>1, <2>1, <2>2, <2>3, <2>4 DEF HandleCommand
<1>2. ASSUME NEW c \in Calls, ProcessRetryQueue(c) PROVE [Next]_vars
  <2>1. CASE RetrySucceeds(c) \/ RetryFails(c) \/ ReportRetryFails(c)
    BY <2>1, ByIdIsQueueStep DEF RetrySucceeds, RetryFails, ReportRetryFails
  <2>2. CASE RetryStart(c) \/ RetryPick(c) \/ RetryReturn(c) \/ ReportRetry(c) \/ RetryMarked(c)
    BY <2>2 DEF RetryStart, RetryPick, RetryReturn, ReportRetry, RetryMarked, qvars
  <2>3. QED
    BY <1>2, <2>1, <2>2 DEF ProcessRetryQueue
<1>3. CASE CleanTimer \/ QueueIO \/ TimePasses \/ WRestart
  BY <1>3 DEF CleanTimer, QueueIO, TimePasses, WRestart, Next, Operation
<1>4. CASE NetworkChange \/ UNCHANGED wvars
  BY <1>4 DEF NetworkChange, wvars, qvars
<1>5. QED
  BY <1>1, <1>2, <1>3, <1>4 DEF WNext

LEMMA WorkerQueueType == WSpec => []TypeOK
<1>1. WInit => TypeOK
  BY InitType DEF WInit
<1>2. TypeOK /\ [WNext]_wvars => TypeOK'
  BY WorkerStepIsQueueStep, NextKeepsType
<1>3. QED
  BY <1>1, <1>2, PTL DEF WSpec

\* Whatever commands, retries and timers do, the queue only sees its own
\* operations: what is proved about MessageQueue holds of the worker's queue.
THEOREM WorkerUsesQueue == WSpec => Spec
<1>1. WInit => Init
  BY DEF WInit
<1>2. TypeOK /\ [WNext]_wvars => [Next]_vars
  BY WorkerStepIsQueueStep
<1>3. QED
  BY <1>1, <1>2, WorkerQueueType, PTL DEF WSpec, Spec

----------------------------------------------------------------------------
(* Type correctness. *)

CommandsOK == command \in [Ids -> Command]
RetriesOK == retry \in [Calls -> RetryCall]

\* What a sender waits for is the version of a save, or nothing.
LEMMA AwaitedSaveType ==
  ASSUME TypeOK'
  PROVE  AwaitedSave \in Nat /\ \A i : AwaitedMark(i) \in Nat
<1>1. \A s \in saves' : s.version \in Nat
  BY DEF TypeOK, Snapshot
<1>2. ASSUME saves' = {} PROVE AwaitedSave \in Nat
  BY <1>2 DEF AwaitedSave
<1>3. ASSUME saves' # {} PROVE AwaitedSave \in Nat
  <2>1. (CHOOSE s \in saves' : TRUE) \in saves'
    BY <1>3
  <2>2. AwaitedSave = (CHOOSE s \in saves' : TRUE).version
    BY <1>3 DEF AwaitedSave
  <2>3. QED
    BY <1>1, <2>1, <2>2
<1>4. AwaitedSave \in Nat
  BY <1>2, <1>3
<1>5. QED
  BY <1>4 DEF AwaitedMark

LEMMA CountSentType ==
  ASSUME WTypeOK, NEW i, CountSent(i)
  PROVE  sent' \in [Ids -> 0..MaxSent]
<1> DEFINE n == IF sent[i] < MaxSent THEN sent[i] + 1 ELSE sent[i]
<1>1. sent' = [sent EXCEPT ![i] = n] /\ sent \in [Ids -> 0..MaxSent]
  BY DEF WTypeOK, CountSent
<1>2. i \in Ids => n \in 0..MaxSent
  BY <1>1, WorkerAssumption
<1> HIDE DEF n
<1>3. QED
  BY <1>1, <1>2

\* The commands stay well typed in every step.
LEMMA CommandsType ==
  ASSUME WTypeOK, TypeOK', [WNext]_wvars
  PROVE  CommandsOK'
<1>1. command \in [Ids -> Command] /\ AwaitedSave \in Nat /\ \A i : AwaitedMark(i) \in Nat
  BY AwaitedSaveType DEF WTypeOK
<1>2. ASSUME NEW i \in Ids, HandleCommand(i) PROVE CommandsOK'
  BY <1>1, <1>2 DEF HandleCommand, SendOffline, SendOnline, SendSucceeds, SendFails,
                    MarkSendFailed, ReportCommand, ReportFails, CommandsOK, Command, Codes
<1>3. ASSUME NEW c \in Calls, ProcessRetryQueue(c) PROVE CommandsOK'
  BY <1>1, <1>3 DEF ProcessRetryQueue, RetryStart, RetryPick, RetryReturn, RetrySucceeds,
                    ReportRetry, ReportRetryFails, RetryFails, RetryMarked, CommandsOK
<1>4. CASE CleanTimer \/ QueueIO \/ TimePasses \/ NetworkChange \/ UNCHANGED wvars
  BY <1>1, <1>4 DEF CleanTimer, QueueIO, TimePasses, NetworkChange, wvars, CommandsOK
<1>5. CASE WRestart
  BY <1>1, <1>5 DEF WRestart, CommandsOK, Command
<1>6. QED
  BY <1>2, <1>3, <1>4, <1>5 DEF WNext

\* The calls of processRetryQueue stay well typed in every step.
LEMMA RetriesType ==
  ASSUME WTypeOK, TypeOK', [WNext]_wvars
  PROVE  RetriesOK'
<1>1. /\ retry \in [Calls -> RetryCall] /\ NoCall \in RetryCall
      /\ \A i : AwaitedMark(i) \in Nat
  BY AwaitedSaveType DEF WTypeOK, NoCall, RetryCall
<1>2. ASSUME NEW i \in Ids, HandleCommand(i) PROVE RetriesOK'
  BY <1>1, <1>2 DEF HandleCommand, SendOffline, SendOnline, SendSucceeds, SendFails,
                    MarkSendFailed, ReportCommand, ReportFails, RetriesOK
<1>3. ASSUME NEW c \in Calls, RetryStart(c) PROVE RetriesOK'
  <2> DEFINE due == {k \in DOMAIN queue : Due(queue[k])}
             todo == {[key |-> k, id |-> queue[k].id] : k \in due}
  <2>1. todo \in SUBSET Pending
    BY DEF WTypeOK, TypeOK, Pending, Message
  <2>2. retry' = [retry EXCEPT ![c] = [NoCall EXCEPT !.at = "looping", !.todo = todo]]
    BY <1>3 DEF RetryStart
  <2> HIDE DEF todo
  <2>3. [NoCall EXCEPT !.at = "looping", !.todo = todo] \in RetryCall
    BY <2>1 DEF NoCall, RetryCall
  <2>4. QED
    BY <1>1, <2>2, <2>3 DEF RetriesOK
<1>4. ASSUME NEW c \in Calls, RetryPick(c) PROVE RetriesOK'
  <2>1. PICK e \in retry[c].todo :
          retry' = [retry EXCEPT ![c].at = "sending", ![c].entry = e, ![c].todo = @ \ {e}]
    BY <1>4 DEF RetryPick
  <2>2. e \in Pending
    BY <1>1 DEF RetryCall
  <2>3. QED
    BY <1>1, <2>1, <2>2 DEF RetriesOK, RetryCall
<1>5. ASSUME NEW c \in Calls, RetryReturn(c) \/ RetrySucceeds(c) \/ ReportRetry(c)
                              \/ ReportRetryFails(c) \/ RetryFails(c) \/ RetryMarked(c)
      PROVE  RetriesOK'
  BY <1>1, <1>5 DEF RetryReturn, RetrySucceeds, ReportRetry, ReportRetryFails, RetryFails,
                    RetryMarked, RetriesOK, RetryCall
<1>6. CASE CleanTimer \/ QueueIO \/ TimePasses \/ NetworkChange \/ UNCHANGED wvars
  BY <1>1, <1>6 DEF CleanTimer, QueueIO, TimePasses, NetworkChange, wvars, RetriesOK
<1>7. CASE WRestart
  BY <1>1, <1>7 DEF WRestart, RetriesOK
<1>8. QED
  BY <1>2, <1>3, <1>4, <1>5, <1>6, <1>7 DEF WNext, ProcessRetryQueue

\* The rest: the network, the results and the count of transmissions.
LEMMA ReportsType ==
  ASSUME WTypeOK, [WNext]_wvars
  PROVE  /\ connected' \in BOOLEAN /\ results' \subseteq (Keys \cup Ids) \X Codes
         /\ sent' \in [Ids -> 0..MaxSent]
<1> DEFINE Goal == /\ connected' \in BOOLEAN /\ results' \subseteq (Keys \cup Ids) \X Codes
                   /\ sent' \in [Ids -> 0..MaxSent]
<1>1. /\ connected \in BOOLEAN /\ results \subseteq (Keys \cup Ids) \X Codes
      /\ sent \in [Ids -> 0..MaxSent]
  BY DEF WTypeOK
<1>2. ASSUME NEW i \in Ids, HandleCommand(i) PROVE Goal
  <2>1. CASE ReportCommand(i)
    <3>1. command[i].code \in Codes
      BY <2>1 DEF ReportCommand, WTypeOK, Command
    <3>2. QED
      BY <1>1, <2>1, <3>1 DEF ReportCommand
  <2>2. CASE SendSucceeds(i)
    BY <1>1, <2>2, CountSentType DEF SendSucceeds
  <2>3. CASE SendOffline(i) \/ SendOnline(i) \/ SendFails(i) \/ MarkSendFailed(i) \/ ReportFails(i)
    BY <1>1, <2>3 DEF SendOffline, SendOnline, SendFails, MarkSendFailed, ReportFails
  <2>4. QED
    BY <1>2, <2>1, <2>2, <2>3 DEF HandleCommand
<1>3. ASSUME NEW c \in Calls, ProcessRetryQueue(c) PROVE Goal
  <2>1. CASE ReportRetry(c)
    <3>1. retry[c].entry.id \in Keys \cup Ids
      BY <2>1 DEF ReportRetry, WTypeOK, RetryCall, Pending
    <3>2. QED
      BY <1>1, <2>1, <3>1 DEF ReportRetry, Codes
  <2>2. CASE RetrySucceeds(c)
    BY <1>1, <2>2, CountSentType DEF RetrySucceeds
  <2>3. CASE RetryStart(c) \/ RetryPick(c) \/ RetryReturn(c) \/ ReportRetryFails(c)
             \/ RetryFails(c) \/ RetryMarked(c)
    BY <1>1, <2>3
    DEF RetryStart, RetryPick, RetryReturn, ReportRetryFails, RetryFails, RetryMarked
  <2>4. QED
    BY <1>3, <2>1, <2>2, <2>3 DEF ProcessRetryQueue
<1>4. ASSUME CleanTimer \/ QueueIO \/ TimePasses \/ WRestart \/ NetworkChange \/ UNCHANGED wvars
      PROVE  Goal
  BY <1>1, <1>4 DEF CleanTimer, QueueIO, TimePasses, WRestart, NetworkChange, wvars
<1> HIDE DEF Goal
<1>5. Goal
  BY <1>2, <1>3, <1>4 DEF WNext
<1>6. QED
  BY <1>5 DEF Goal

\* Every value the worker's senders keep has its type; among it, what they report
\* is a result, and what they send or mark is an entry of the list they took.
THEOREM WorkerTypeCorrect == WSpec => []WTypeOK
<1>1. WInit => WTypeOK
  <2> SUFFICES ASSUME WInit PROVE WTypeOK
    OBVIOUS
  <2>1. [at |-> "new", code |-> "none", on |-> 0] \in Command
    BY DEF Command
  <2>2. NoCall \in RetryCall
    BY DEF NoCall, RetryCall
  <2>3. 0 \in 0..MaxSent
    BY WorkerAssumption
  <2>4. QED
    BY <2>1, <2>2, <2>3, InitType DEF WInit, WTypeOK
<1>2. WTypeOK /\ [WNext]_wvars => WTypeOK'
  <2> SUFFICES ASSUME WTypeOK, [WNext]_wvars PROVE WTypeOK'
    OBVIOUS
  <2>1. TypeOK'
    BY WorkerStepIsQueueStep, NextKeepsType DEF WTypeOK
  <2>2. QED
    BY <2>1, CommandsType, RetriesType, ReportsType DEF WTypeOK, CommandsOK, RetriesOK
<1>3. QED
  BY <1>1, <1>2, PTL DEF WSpec

----------------------------------------------------------------------------
\* OkMeansSent, and why a report of OK that is still waiting for a save is true.
OkInv ==
  /\ OkMeansSent
  /\ \A i \in Ids : command[i].at = "reporting" /\ command[i].code = "OK" => sent[i] > 0
  /\ \A c \in Calls : retry[c].at = "reporting" /\ retry[c].entry.id \in Ids
                        => sent[retry[c].entry.id] > 0

\* What has been sent stays sent.
LEMMA SentGrows ==
  ASSUME WTypeOK, NEW i, CountSent(i)
  PROVE  /\ \A j \in Ids : sent[j] > 0 => sent'[j] > 0
         /\ i \in Ids => sent'[i] > 0
BY WorkerAssumption DEF WTypeOK, CountSent

\* A message is reported OK only if it was given to the network.
THEOREM ReportsAreTrue == WSpec => []OkMeansSent
<1>1. WInit => OkInv
  BY DEF WInit, OkInv, OkMeansSent, NoCall
<1>2. WTypeOK /\ OkInv /\ [WNext]_wvars => OkInv'
  <2> SUFFICES ASSUME WTypeOK, OkInv, [WNext]_wvars PROVE OkInv'
    OBVIOUS
  <2>1. /\ command \in [Ids -> Command] /\ retry \in [Calls -> RetryCall]
        /\ sent \in [Ids -> 0..MaxSent]
    BY DEF WTypeOK
  <2>2. ASSUME NEW i \in Ids, HandleCommand(i) PROVE OkInv'
    <3>1. CASE SendSucceeds(i)
      <4>1. /\ \A j \in Ids : sent[j] > 0 => sent'[j] > 0
            /\ sent'[i] > 0
        BY <3>1, SentGrows DEF SendSucceeds
      <4>2. QED
        BY <2>1, <3>1, <4>1 DEF SendSucceeds, OkInv, OkMeansSent
    <3>2. CASE ReportCommand(i)
      BY <2>1, <3>2 DEF ReportCommand, OkInv, OkMeansSent, Command
    <3>3. CASE SendOffline(i) \/ SendOnline(i) \/ SendFails(i) \/ MarkSendFailed(i) \/ ReportFails(i)
      BY <2>1, <3>3 DEF SendOffline, SendOnline, SendFails, MarkSendFailed, ReportFails,
                        OkInv, OkMeansSent, Command
    <3>4. QED
      BY <2>2, <3>1, <3>2, <3>3 DEF HandleCommand
  <2>3. ASSUME NEW c \in Calls, ProcessRetryQueue(c) PROVE OkInv'
    <3>1. CASE RetrySucceeds(c)
      <4>1. /\ \A j \in Ids : sent[j] > 0 => sent'[j] > 0
            /\ retry[c].entry.id \in Ids => sent'[retry[c].entry.id] > 0
        BY <3>1, SentGrows DEF RetrySucceeds
      <4>2. \A d \in Calls : /\ retry'[d].entry = retry[d].entry
                             /\ d # c => retry'[d] = retry[d]
        BY <2>1, <3>1 DEF RetrySucceeds, RetryCall
      <4>3. QED
        <5>1. UNCHANGED <<command, results>>
          BY <3>1 DEF RetrySucceeds
        <5>2. OkMeansSent'
          BY <4>1, <5>1 DEF OkInv, OkMeansSent
        <5>3. \A d \in Calls : retry'[d].at = "reporting" /\ retry'[d].entry.id \in Ids
                                 => sent'[retry'[d].entry.id] > 0
          BY <4>1, <4>2 DEF OkInv
        <5>4. QED
          BY <4>1, <5>1, <5>2, <5>3 DEF OkInv
    <3>2. CASE ReportRetry(c)
      <4>1. \A d \in Calls : retry'[d].at = "reporting" => retry'[d] = retry[d]
        BY <2>1, <3>2 DEF ReportRetry, RetryCall
      <4>2. retry[c].entry.id \in Ids => sent[retry[c].entry.id] > 0
        BY <3>2 DEF ReportRetry, OkInv
      <4>3. \A i \in Ids : <<i, "OK">> \in results' => sent[i] > 0
        BY <3>2, <4>2 DEF ReportRetry, OkInv, OkMeansSent
      <4>4. UNCHANGED <<command, sent>>
        BY <3>2 DEF ReportRetry
      <4>5. QED
        BY <4>1, <4>3, <4>4 DEF OkInv, OkMeansSent
    <3>3. CASE RetryStart(c) \/ RetryPick(c) \/ RetryReturn(c) \/ ReportRetryFails(c)
               \/ RetryFails(c) \/ RetryMarked(c)
      <4>1. \A d \in Calls : retry'[d].at = "reporting" => retry'[d] = retry[d]
        <5>0. retry[c] \in RetryCall
          BY <2>1
        <5>1. \A d \in Calls : d # c => retry'[d] = retry[d]
          BY <2>1, <3>3
          DEF RetryStart, RetryPick, RetryReturn, ReportRetryFails, RetryFails, RetryMarked
        <5>2. CASE RetryStart(c) \/ RetryReturn(c)
          <6>1. \A todo : [NoCall EXCEPT !.at = "looping", !.todo = todo].at = "looping"
            BY DEF NoCall
          <6>2. RetryStart(c) => retry'[c].at = "looping"
            BY <2>1, <6>1 DEF RetryStart
          <6>3. RetryReturn(c) => retry'[c].at = "idle"
            BY <2>1 DEF RetryReturn, NoCall
          <6>4. QED
            BY <5>1, <5>2, <6>2, <6>3
        <5>3. CASE RetryPick(c)
          <6>1. PICK e \in retry[c].todo :
                  retry' = [retry EXCEPT ![c].at = "sending", ![c].entry = e, ![c].todo = @ \ {e}]
            BY <5>3 DEF RetryPick
          <6>2. retry'[c].at = "sending"
            BY <2>1, <5>0, <6>1 DEF RetryCall
          <6>3. QED
            BY <5>1, <6>2
        <5>4. CASE ReportRetryFails(c) \/ RetryFails(c) \/ RetryMarked(c)
          <6>1. retry'[c].at \in {"marking", "looping"}
            BY <2>1, <5>0, <5>4 DEF ReportRetryFails, RetryFails, RetryMarked, RetryCall
          <6>2. QED
            BY <5>1, <6>1
        <5>5. QED
          BY <3>3, <5>2, <5>3, <5>4
      <4>2. UNCHANGED <<command, results, sent>>
        BY <3>3
        DEF RetryStart, RetryPick, RetryReturn, ReportRetryFails, RetryFails, RetryMarked
      <4>3. QED
        BY <4>1, <4>2 DEF OkInv, OkMeansSent
    <3>4. QED
      BY <2>3, <3>1, <3>2, <3>3 DEF ProcessRetryQueue
  <2>4. CASE CleanTimer \/ QueueIO \/ TimePasses \/ NetworkChange \/ UNCHANGED wvars
    BY <2>4 DEF CleanTimer, QueueIO, TimePasses, NetworkChange, wvars, OkInv, OkMeansSent
  <2>5. CASE WRestart
    BY <2>1, <2>5 DEF WRestart, NoCall, OkInv, OkMeansSent
  <2>6. QED
    BY <2>2, <2>3, <2>4, <2>5 DEF WNext
<1>3. OkInv => OkMeansSent
  BY DEF OkInv
<1>4. QED
  BY <1>1, <1>2, <1>3, WorkerTypeCorrect, PTL DEF WSpec

----------------------------------------------------------------------------
(* What leaves the memory of the worker. *)

\* The worker puts only commands into the queue: every message has the id of one, and
\* lies under it if its key is one.
AllOfIds(messages) == \A m \in messages : m.id \in Ids
OfIds(q) == \A k \in DOMAIN q : q[k].id \in Ids /\ (k \in Ids => q[k].id = k)

StoreOfIds ==
  /\ OfIds(queue) /\ AllOfIds(file.entries)
  /\ \A s \in saves : AllOfIds(s.entries)
  /\ \A c \in Loaders : AllOfIds(load[c].got) /\ (c # Importer => load[c].at = "idle")

RetriesOfIds ==
  \A c \in Calls :
    /\ \A e \in retry[c].todo : e.id \in Ids
    /\ retry[c].at \in {"sending", "reporting", "marking"} => retry[c].entry.id \in Ids

\* The ways in which a message may leave the queue.
MayLeave(i) ==
  \/ sent'[i] > 0
  \/ ~initialized'
  \/ Cardinality(DOMAIN queue) >= MaxQueueSize /\ \E j \in Ids \ {i} : Held(j)'
  \/ \E k \in DOMAIN queue : /\ queue[k].id = i
                             /\ Expired(queue[k]) \/ queue[k].retry + 1 = RetryCount

Stays == \A i \in Ids : Held(i) /\ ~Held(i)' => MayLeave(i)

\* A changed queue is what a save takes.
LEMMA ChangeOfIds ==
  ASSUME NEW q, OfIds(q), StoreOfIds, ChangeQueue(q), UNCHANGED load
  PROVE  StoreOfIds'
<1>1. queue' = q /\ file' = file
  BY DEF ChangeQueue
<1>2. AllOfIds(Range(q))
  BY DEF AllOfIds, OfIds, Range
<1>3. \A s \in saves' : AllOfIds(s.entries)
  BY <1>1, <1>2 DEF ChangeQueue, SaveQueue, StoreOfIds
<1> QED
  BY <1>1, <1>3 DEF StoreOfIds

LEMMA LessOfIds ==
  ASSUME NEW q, OfIds(q), NEW gone
  PROVE  /\ OfIds(Without(q, gone)) /\ DOMAIN Without(q, gone) = DOMAIN q \ gone
         /\ \A k \in DOMAIN q \ gone : Without(q, gone)[k] = q[k]
BY DEF OfIds, Without, Restrict

\* enqueue loses only what it evicts, and holds the new message.
LEMMA EnqueueStays ==
  ASSUME StoreOfIds, NEW i \in Ids, Enqueue(i)
  PROVE  StoreOfIds' /\ Stays
<1>1. PICK gone \in Evictions(queue), k \in FreshKeys :
        ChangeQueue(Added(Without(queue, gone), k, i))
  BY DEF Enqueue, EnqueueInto
<1> DEFINE q == Added(Without(queue, gone), k, i)
<1>2. k \in Keys /\ k \notin DOMAIN queue /\ k \notin Ids
  BY QueueAssumption DEF FreshKeys
<1>3. /\ DOMAIN q = (DOMAIN queue \ gone) \cup {k} /\ q[k].id = i
      /\ \A j \in DOMAIN queue \ gone : q[j] = queue[j]
  <2>1. /\ DOMAIN Without(queue, gone) = DOMAIN queue \ gone
        /\ \A j \in DOMAIN queue \ gone : Without(queue, gone)[j] = queue[j]
    BY LessOfIds DEF StoreOfIds
  <2>2. NewMessage(k, i).id = i
    BY QueueAssumption DEF NewMessage
  <2> QED
    BY <1>2, <2>1, <2>2 DEF Added
<1> HIDE DEF q
<1>4. OfIds(q)
  BY <1>2, <1>3 DEF OfIds, StoreOfIds
<1>5. queue' = q /\ UNCHANGED load
  BY <1>1 DEF Enqueue, ChangeQueue, q
<1>6. Held(i)'
  BY <1>3, <1>5 DEF Held
<1>7. ASSUME NEW j \in Ids, Held(j), ~Held(j)' PROVE MayLeave(j)
  <2>1. PICK l \in DOMAIN queue : queue[l].id = j
    BY <1>7 DEF Held
  <2>2. l \in gone
    BY <1>3, <1>5, <1>7, <2>1 DEF Held
  <2>3. Cardinality(DOMAIN queue) >= MaxQueueSize
    BY <2>2 DEF Evictions
  <2> QED
    BY <1>6, <1>7, <2>3 DEF MayLeave
<1>8. StoreOfIds'
  BY <1>1, <1>4, <1>5, ChangeOfIds DEF q
<1> QED
  BY <1>7, <1>8 DEF Stays

\* markSuccess takes the message with that id, which has been sent.
LEMMA SuccessStays ==
  ASSUME WTypeOK, StoreOfIds, NEW i \in Ids, MarkSuccessById(i), CountSent(i)
  PROVE  StoreOfIds' /\ Stays
<1>1. sent'[i] > 0
  BY SentGrows
<1>2. CASE i \notin DOMAIN queue
  <2>1. UNCHANGED vars
    BY <1>2 DEF MarkSuccessById, MarkSuccess, qvars
  <2> QED
    BY <2>1 DEF vars, StoreOfIds, Stays, Held
<1>3. CASE i \in DOMAIN queue
  <2>1. ChangeQueue(Without(queue, {i})) /\ UNCHANGED load
    BY <1>3 DEF MarkSuccessById, MarkSuccess
  <2>2. queue' = Without(queue, {i}) /\ OfIds(queue)
    BY <2>1 DEF ChangeQueue, StoreOfIds
  <2>3. StoreOfIds'
    BY <2>1, <2>2, LessOfIds, ChangeOfIds
  <2>4. ASSUME NEW j \in Ids, Held(j), ~Held(j)' PROVE MayLeave(j)
    <3>1. PICK l \in DOMAIN queue : queue[l].id = j
      BY <2>4 DEF Held
    <3>2. l = i
      <4>1. /\ DOMAIN queue' = DOMAIN queue \ {i}
            /\ \A k \in DOMAIN queue \ {i} : queue'[k] = queue[k]
        BY <2>2, LessOfIds
      <4> QED
        BY <2>4, <3>1, <4>1 DEF Held
    <3>3. j = i
      BY <2>2, <3>1, <3>2 DEF OfIds
    <3> QED
      BY <1>1, <3>3 DEF MayLeave
  <2> QED
    BY <2>3, <2>4 DEF Stays
<1> QED
  BY <1>2, <1>3

\* markFailure removes a message that has failed for the last time.
LEMMA FailureStays ==
  ASSUME WTypeOK, StoreOfIds, NEW i \in Ids, MarkFailureById(i)
  PROVE  StoreOfIds' /\ Stays
<1>1. CASE i \notin DOMAIN queue
  <2>1. UNCHANGED vars
    BY <1>1 DEF MarkFailureById, MarkFailure, qvars
  <2> QED
    BY <2>1 DEF vars, StoreOfIds, Stays, Held
<1>2. CASE i \in DOMAIN queue /\ queue[i].retry + 1 >= RetryCount
  <2>1. ChangeQueue(Without(queue, {i})) /\ UNCHANGED load
    BY <1>2 DEF MarkFailureById, MarkFailure
  <2>2. queue' = Without(queue, {i}) /\ OfIds(queue)
    BY <2>1 DEF ChangeQueue, StoreOfIds
  <2>3. StoreOfIds'
    BY <2>1, <2>2, LessOfIds, ChangeOfIds
  <2>4. queue[i].retry + 1 = RetryCount
    BY <1>2, QueueAssumption DEF WTypeOK, TypeOK, Message
  <2>5. ASSUME NEW j \in Ids, Held(j), ~Held(j)' PROVE MayLeave(j)
    <3>1. PICK l \in DOMAIN queue : queue[l].id = j
      BY <2>5 DEF Held
    <3>2. l = i
      <4>1. /\ DOMAIN queue' = DOMAIN queue \ {i}
            /\ \A k \in DOMAIN queue \ {i} : queue'[k] = queue[k]
        BY <2>2, LessOfIds
      <4> QED
        BY <2>5, <3>1, <4>1 DEF Held
    <3> QED
      BY <2>4, <3>1, <3>2 DEF MayLeave
  <2> QED
    BY <2>3, <2>5 DEF Stays
<1>3. CASE i \in DOMAIN queue /\ ~(queue[i].retry + 1 >= RetryCount)
  <2> DEFINE q == [queue EXCEPT ![i] = Failed(@)]
  <2>1. ChangeQueue(q) /\ UNCHANGED load
    BY <1>3 DEF MarkFailureById, MarkFailure
  <2>2. queue' = q /\ OfIds(queue)
    BY <2>1 DEF ChangeQueue, StoreOfIds
  <2>3. Failed(queue[i]).id = queue[i].id
    BY <1>3 DEF WTypeOK, TypeOK, Message, Failed
  <2>4. DOMAIN q = DOMAIN queue /\ \A k \in DOMAIN queue : q[k].id = queue[k].id
    BY <2>3
  <2> HIDE DEF q
  <2>5. StoreOfIds'
    BY <2>1, <2>2, <2>4, ChangeOfIds DEF OfIds
  <2>6. \A j \in Ids : Held(j) => Held(j)'
    BY <2>2, <2>4 DEF Held
  <2> QED
    BY <2>5, <2>6 DEF Stays
<1> QED
  BY <1>1, <1>2, <1>3

\* cleanExpired removes what has expired.
LEMMA CleanStays ==
  ASSUME StoreOfIds, CleanExpired
  PROVE  StoreOfIds' /\ Stays
<1> DEFINE gone == {k \in DOMAIN queue : Expired(queue[k])}
<1>1. ChangeQueue(Without(queue, gone)) /\ UNCHANGED load
  BY DEF CleanExpired
<1>2. queue' = Without(queue, gone) /\ OfIds(queue)
  BY <1>1 DEF ChangeQueue, StoreOfIds
<1>3. \A k \in gone : Expired(queue[k])
  OBVIOUS
<1> HIDE DEF gone
<1>4. StoreOfIds'
  BY <1>1, <1>2, LessOfIds, ChangeOfIds
<1>5. ASSUME NEW j \in Ids, Held(j), ~Held(j)' PROVE MayLeave(j)
  <2>1. PICK l \in DOMAIN queue : queue[l].id = j
    BY <1>5 DEF Held
  <2>2. /\ DOMAIN queue' = DOMAIN queue \ gone
        /\ \A k \in DOMAIN queue \ gone : queue'[k] = queue[k]
    BY <1>2, LessOfIds
  <2>3. l \in gone
    BY <1>5, <2>1, <2>2 DEF Held
  <2> QED
    BY <1>3, <2>1, <2>3 DEF MayLeave
<1> QED
  BY <1>4, <1>5 DEF Stays

\* Loading replaces a message only by one with the same id.
LEMMA LoadStays ==
  ASSUME WTypeOK, StoreOfIds, NEW c \in Loaders, FinishInit(c)
  PROVE  StoreOfIds' /\ Stays
<1>1. c = Importer
  BY DEF StoreOfIds, FinishInit
<1>2. PICK q \in Merges(queue, load[c].got) : queue' = q /\ UNCHANGED <<file, saves>>
  BY <1>1 DEF FinishInit
<1> DEFINE live == {m \in load[c].got : ~Expired(m)}
           ids == {m.id : m \in live}
<1>3. PICK p \in [ids -> live] :
        /\ \A i \in ids : p[i].id = i
        /\ q = [k \in DOMAIN queue \cup ids |-> IF k \in ids THEN p[k] ELSE queue[k]]
  BY <1>2 DEF Merges
<1>4. ids \subseteq Ids
  BY DEF StoreOfIds, AllOfIds
<1> HIDE DEF ids, live
<1>5. OfIds(q)
  BY <1>3, <1>4 DEF OfIds, StoreOfIds
<1>6. \A k \in DOMAIN queue : k \in DOMAIN q /\ q[k].id = queue[k].id
  BY <1>3, <1>4 DEF OfIds, StoreOfIds
<1>7. \A d \in Loaders : load'[d] = load[d] \/ load'[d] = NoLoad
  BY DEF FinishInit, WTypeOK, TypeOK
<1>8. StoreOfIds'
  BY <1>2, <1>5, <1>7 DEF StoreOfIds, NoLoad, AllOfIds
<1>9. \A j \in Ids : Held(j) => Held(j)'
  BY <1>2, <1>6 DEF Held
<1> QED
  BY <1>8, <1>9 DEF Stays

LEMMA FileIOStays ==
  ASSUME WTypeOK, StoreOfIds, Background
  PROVE  StoreOfIds' /\ Stays
<1>1. ASSUME NEW c \in Loaders, ReadFile(c) PROVE StoreOfIds' /\ Stays
  <2>1. PICK lines \in {file.entries, {}} :
          load' = [load EXCEPT ![c].at = "read", ![c].got = lines]
    BY <1>1 DEF ReadFile
  <2>2. AllOfIds(lines) /\ c = Importer
    BY <1>1 DEF ReadFile, StoreOfIds, AllOfIds
  <2>3. load'[c].got = lines /\ \A d \in Loaders \ {c} : load'[d] = load[d]
    BY <2>1 DEF WTypeOK, TypeOK, Load
  <2>4. UNCHANGED <<queue, file, saves>>
    BY <1>1 DEF ReadFile
  <2>5. StoreOfIds'
    BY <2>2, <2>3, <2>4 DEF StoreOfIds
  <2> QED
    BY <2>4, <2>5 DEF Stays, Held
<1>2. ASSUME NEW c \in Loaders, InitFails(c) PROVE StoreOfIds' /\ Stays
  <2>1. \A d \in Loaders : load'[d] = load[d] \/ load'[d] = NoLoad
    BY <1>2 DEF InitFails, WTypeOK, TypeOK
  <2>2. UNCHANGED <<queue, file, saves>>
    BY <1>2 DEF InitFails
  <2> QED
    BY <2>1, <2>2 DEF StoreOfIds, NoLoad, AllOfIds, Stays, Held
<1>3. CASE SaveCommit \/ SaveFail
  <2>1. UNCHANGED <<queue, load>> /\ saves' \subseteq saves
        /\ (file' = file \/ file' \in saves)
    BY <1>3 DEF SaveCommit, SaveFail
  <2> QED
    BY <2>1 DEF StoreOfIds, Stays, Held
<1> QED
  BY <1>1, <1>2, <1>3, LoadStays DEF Background

\* Time changes no id.
LEMMA TickStays ==
  ASSUME WTypeOK, StoreOfIds, Tick
  PROVE  StoreOfIds' /\ Stays
<1>1. \A m \in Message : Older(m).id = m.id
  BY DEF Message, Older
<1>2. \A ms \in SUBSET Message : AllOfIds(ms) => AllOfIds(OlderAll(ms))
  BY <1>1 DEF AllOfIds, OlderAll
<1>3. OfIds(queue') /\ \A j \in Ids : Held(j) => Held(j)'
  BY <1>1 DEF Tick, WTypeOK, TypeOK, OfIds, StoreOfIds, Held
<1>4. \A s \in Snapshot : OlderSnapshot(s).entries = OlderAll(s.entries)
  BY DEF Snapshot, OlderSnapshot
<1>5. AllOfIds(file'.entries) /\ \A s \in saves' : AllOfIds(s.entries)
  <2>1. file \in Snapshot /\ saves \subseteq Snapshot
    BY DEF WTypeOK, TypeOK
  <2>2. file' = OlderSnapshot(file) /\ saves' = {OlderSnapshot(s) : s \in saves}
    BY DEF Tick
  <2>3. \A s \in Snapshot : AllOfIds(s.entries) => AllOfIds(OlderSnapshot(s).entries)
    BY <1>2, <1>4 DEF Snapshot
  <2> QED
    BY <2>1, <2>2, <2>3 DEF StoreOfIds
<1>6. \A c \in Loaders : AllOfIds(load'[c].got) /\ load'[c].at = load[c].at
  <2>1. \A c \in Loaders : load[c] \in Load
    BY DEF WTypeOK, TypeOK
  <2>2. \A c \in Loaders : load'[c] = [load[c] EXCEPT !.got = OlderAll(@)]
    BY DEF Tick
  <2>3. \A c \in Loaders : load'[c].got = OlderAll(load[c].got) /\ load'[c].at = load[c].at
    BY <2>1, <2>2 DEF Load
  <2> QED
    BY <1>2, <2>1, <2>3 DEF StoreOfIds, Load
<1> QED
  BY <1>3, <1>5, <1>6 DEF StoreOfIds, Stays

LEMMA RetriesKept ==
  ASSUME WTypeOK, StoreOfIds, RetriesOfIds, [WNext]_wvars
  PROVE  RetriesOfIds'
<1>1. retry \in [Calls -> RetryCall]
  BY DEF WTypeOK
<1>2. CASE UNCHANGED retry
  BY <1>2 DEF RetriesOfIds
<1>3. ASSUME NEW c \in Calls, RetryStart(c) PROVE RetriesOfIds'
  <2> DEFINE due == {k \in DOMAIN queue : Due(queue[k])}
             todo == {[key |-> k, id |-> queue[k].id] : k \in due}
  <2>1. \A e \in todo : e.id \in Ids
    BY DEF StoreOfIds, OfIds
  <2>2. retry' = [retry EXCEPT ![c] = [NoCall EXCEPT !.at = "looping", !.todo = todo]]
    BY <1>3 DEF RetryStart
  <2> HIDE DEF todo
  <2>3. retry'[c].at = "looping" /\ retry'[c].todo = todo
    BY <1>1, <2>2 DEF NoCall
  <2>4. \A d \in Calls \ {c} : retry'[d] = retry[d]
    BY <1>1, <2>2
  <2> QED
    BY <2>1, <2>3, <2>4 DEF RetriesOfIds
<1>4. ASSUME NEW c \in Calls, RetryPick(c) PROVE RetriesOfIds'
  <2>1. PICK e \in retry[c].todo :
          retry' = [retry EXCEPT ![c].at = "sending", ![c].entry = e, ![c].todo = @ \ {e}]
    BY <1>4 DEF RetryPick
  <2>2. retry'[c].entry = e /\ retry'[c].todo = retry[c].todo \ {e}
    BY <1>1, <2>1 DEF RetryCall
  <2>3. \A d \in Calls \ {c} : retry'[d] = retry[d]
    BY <1>1, <2>1
  <2> QED
    BY <2>2, <2>3 DEF RetriesOfIds
<1>5. ASSUME NEW c \in Calls,
             RetrySucceeds(c) \/ ReportRetry(c) \/ ReportRetryFails(c) \/ RetryFails(c)
               \/ RetryMarked(c)
      PROVE  RetriesOfIds'
  <2>1. retry[c] \in RetryCall /\ \A d \in Calls \ {c} : retry'[d] = retry[d]
    BY <1>1, <1>5
    DEF RetrySucceeds, ReportRetry, ReportRetryFails, RetryFails, RetryMarked
  <2>2. /\ retry'[c].todo = retry[c].todo
        /\ \/ retry'[c].at = "looping"
           \/ /\ retry[c].at \in {"sending", "reporting"}
              /\ retry'[c].entry = retry[c].entry
    BY <1>1, <1>5, <2>1
    DEF RetrySucceeds, ReportRetry, ReportRetryFails, RetryFails, RetryMarked, RetryCall
  <2> QED
    BY <2>1, <2>2 DEF RetriesOfIds
<1>6. ASSUME NEW c \in Calls, RetryReturn(c) PROVE RetriesOfIds'
  BY <1>1, <1>6 DEF RetryReturn, NoCall, RetriesOfIds
<1>7. CASE WRestart
  BY <1>7 DEF WRestart, NoCall, RetriesOfIds
<1>8. \/ UNCHANGED retry \/ WRestart \/ \E c \in Calls : ProcessRetryQueue(c)
  BY DEF WNext, HandleCommand, SendOffline, SendOnline, SendSucceeds, SendFails,
         MarkSendFailed, ReportCommand, ReportFails, CleanTimer, QueueIO, TimePasses,
         NetworkChange, wvars
<1> QED
  BY <1>2, <1>3, <1>4, <1>5, <1>6, <1>7, <1>8 DEF ProcessRetryQueue

LEMMA WorkerStays ==
  ASSUME WTypeOK, StoreOfIds, RetriesOfIds, [WNext]_wvars
  PROVE  StoreOfIds' /\ Stays
<1>1. CASE UNCHANGED vars
  BY <1>1 DEF vars, StoreOfIds, Stays, Held
<1>2. ASSUME NEW i \in Ids, HandleCommand(i) PROVE StoreOfIds' /\ Stays
  <2>1. CASE SendOffline(i) \/ SendFails(i)
    BY <2>1, EnqueueStays DEF SendOffline, SendFails
  <2>2. CASE SendSucceeds(i)
    BY <2>2, SuccessStays DEF SendSucceeds
  <2>3. CASE MarkSendFailed(i)
    BY <2>3, FailureStays DEF MarkSendFailed
  <2>4. CASE ReportFails(i)
    BY <1>1, <2>4, EnqueueStays DEF ReportFails, qvars
  <2>5. CASE SendOnline(i) \/ ReportCommand(i)
    BY <1>1, <2>5 DEF SendOnline, ReportCommand, qvars
  <2> QED
    BY <1>2, <2>1, <2>2, <2>3, <2>4, <2>5 DEF HandleCommand
<1>3. ASSUME NEW c \in Calls, ProcessRetryQueue(c) PROVE StoreOfIds' /\ Stays
  <2>1. CASE RetrySucceeds(c)
    <3>1. retry[c].entry.id \in Ids
      BY <2>1 DEF RetrySucceeds, RetriesOfIds
    <3> QED
      BY <2>1, <3>1, SuccessStays DEF RetrySucceeds
  <2>2. CASE RetryFails(c) \/ ReportRetryFails(c)
    <3>1. retry[c].entry.id \in Ids
      BY <2>2 DEF RetryFails, ReportRetryFails, RetriesOfIds
    <3> QED
      BY <2>2, <3>1, FailureStays DEF RetryFails, ReportRetryFails
  <2>3. CASE RetryStart(c) \/ RetryPick(c) \/ RetryReturn(c) \/ ReportRetry(c) \/ RetryMarked(c)
    BY <1>1, <2>3 DEF RetryStart, RetryPick, RetryReturn, ReportRetry, RetryMarked, qvars
  <2> QED
    BY <1>3, <2>1, <2>2, <2>3 DEF ProcessRetryQueue
<1>4. CASE CleanTimer
  BY <1>4, CleanStays DEF CleanTimer
<1>5. CASE QueueIO
  BY <1>5, FileIOStays DEF QueueIO
<1>6. CASE TimePasses
  BY <1>6, TickStays DEF TimePasses
<1>7. CASE WRestart
  <2>1. /\ ~initialized' /\ queue' = Empty /\ saves' = {} /\ file' = file
        /\ load' = [c \in Loaders |->
                      IF c = Importer THEN [NoLoad EXCEPT !.at = "reading"] ELSE NoLoad]
    BY <1>7 DEF WRestart, Restart
  <2>2. StoreOfIds'
    BY <2>1 DEF StoreOfIds, OfIds, AllOfIds, Empty, NoLoad
  <2> QED
    BY <2>1, <2>2 DEF Stays, MayLeave
<1>8. CASE NetworkChange \/ UNCHANGED wvars
  BY <1>1, <1>8 DEF NetworkChange, wvars, qvars
<1> QED
  BY <1>2, <1>3, <1>4, <1>5, <1>6, <1>7, <1>8 DEF WNext

\* No interleaving of commands, retries, timers, loads and restarts loses a message that
\* was neither sent nor evicted, expired or failed for the last time.
THEOREM NothingLostSilently == WSpec => NoSilentLoss
<1>1. WInit => StoreOfIds /\ RetriesOfIds
  BY DEF WInit, Init, StoreOfIds, RetriesOfIds, OfIds, AllOfIds, Empty, NoLoad, NoCall
<1>2. WTypeOK /\ StoreOfIds /\ RetriesOfIds /\ [WNext]_wvars => (StoreOfIds /\ RetriesOfIds)'
  BY WorkerStays, RetriesKept
<1>3. WSpec => [](StoreOfIds /\ RetriesOfIds)
  BY <1>1, <1>2, WorkerTypeCorrect, PTL DEF WSpec
<1>4. WTypeOK /\ StoreOfIds /\ RetriesOfIds /\ [WNext]_wvars =>
        [\A i \in Ids : Held(i) /\ ~Held(i)' =>
           \/ sent'[i] > 0
           \/ ~initialized'
           \/ Cardinality(DOMAIN queue) >= MaxQueueSize /\ \E j \in Ids \ {i} : Held(j)'
           \/ \E k \in DOMAIN queue : /\ queue[k].id = i
                                      /\ Expired(queue[k]) \/ queue[k].retry + 1 = RetryCount]_wvars
  BY WorkerStays DEF Stays, MayLeave
<1> QED
  BY <1>3, <1>4, WorkerTypeCorrect, PTL DEF WSpec, NoSilentLoss
================================================================================

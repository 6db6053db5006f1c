------------------------------ MODULE InboxProofs ------------------------------
(*****************************************************************************)
(* Theorems about the inbox of the worker (Inbox) and the token bucket       *)
(* (TokenBucket).                                                            *)
(*****************************************************************************)
EXTENDS Inbox, TokenBucket, FiniteSetTheorems, TLAPS

----------------------------------------------------------------------------
(* The inbox. *)

(* The i-th element of a sequence before its last one. *)
Back(s, i) == s[Len(s) - i]

LEMMA AppendBack ==
  ASSUME NEW S, NEW s \in Seq(S), NEW x \in S
  PROVE  /\ Append(s, x) \in Seq(S) /\ Len(Append(s, x)) = Len(s) + 1
         /\ Back(Append(s, x), 0) = x
         /\ \A i \in 1..Len(s) : Back(Append(s, x), i) = Back(s, i - 1)
BY DEF Back

(* The last elements of a sequence, as the caches keep them. *)
LEMMA LastOfBack ==
  ASSUME NEW S, NEW s \in Seq(S), NEW n \in Nat
  PROVE  /\ LastOf(s, n) \in Seq(S)
         /\ Len(LastOf(s, n)) = IF Len(s) <= n THEN Len(s) ELSE n
         /\ \A i \in 0..(Len(LastOf(s, n)) - 1) : Back(LastOf(s, n), i) = Back(s, i)
<1>1. CASE Len(s) <= n
  BY <1>1 DEF LastOf
<1>2. CASE Len(s) > n
  <2>1. LastOf(s, n) = SubSeq(s, Len(s) - n + 1, Len(s))
    BY <1>2 DEF LastOf
  <2>2. SubSeq(s, Len(s) - n + 1, Len(s)) \in Seq(S)
    BY <1>2
  <2>3. Len(SubSeq(s, Len(s) - n + 1, Len(s))) = n
    BY <1>2
  <2> QED
    BY <1>2, <2>1, <2>2, <2>3 DEF Back
<1> QED
  BY <1>1, <1>2

(* A new element at the end of a cache. *)
LEMMA AddBack ==
  ASSUME NEW S, NEW s \in Seq(S), NEW x \in S, NEW n \in Nat, Len(s) <= n, n > 0
  PROVE  /\ Add(s, x, n) \in Seq(S)
         /\ Len(Add(s, x, n)) = IF Len(s) < n THEN Len(s) + 1 ELSE n
         /\ Back(Add(s, x, n), 0) = x
         /\ \A i \in 1..(Len(Add(s, x, n)) - 1) : Back(Add(s, x, n), i) = Back(s, i - 1)
<1> DEFINE a == Append(s, x)
<1>1. /\ a \in Seq(S) /\ Len(a) = Len(s) + 1 /\ Back(a, 0) = x
      /\ \A i \in 1..Len(s) : Back(a, i) = Back(s, i - 1)
  BY AppendBack
<1>2. Add(s, x, n) = LastOf(a, n)
  BY DEF Add
<1> HIDE DEF a
<1>3. /\ LastOf(a, n) \in Seq(S)
      /\ Len(LastOf(a, n)) = IF Len(a) <= n THEN Len(a) ELSE n
      /\ \A i \in 0..(Len(LastOf(a, n)) - 1) : Back(LastOf(a, n), i) = Back(a, i)
  BY <1>1, LastOfBack
<1>4. Len(LastOf(a, n)) \in 1..(Len(s) + 1)
  BY <1>1, <1>3
<1> QED
  BY <1>1, <1>2, <1>3, <1>4

(* The assumption and the type invariant in the pieces that the proofs use. *)
LEMMA Constants ==
  /\ EventTTL \in Nat /\ Tolerance \in Nat /\ Window \in Nat /\ CleanupEvery \in Nat
  /\ MaxLines \in Nat /\ MaxKeep \in Nat /\ MaxNow \in Nat /\ MaxArrivals \in Nat
  /\ MaxRestarts \in Nat /\ MaxPerKey \in Nat /\ NonceSize \in Nat /\ DedupSize \in Nat
  /\ DedupSize <= NonceSize /\ Window <= 2 * CleanupEvery /\ MaxPerKey > 0 /\ DedupSize > 0
<1>1. {EventTTL, Tolerance, Window, CleanupEvery} \subseteq Nat
  BY InboxAssumption
<1>2. {MaxLines, MaxKeep, MaxNow, MaxArrivals, MaxSaves, MaxRestarts} \subseteq Nat
  BY InboxAssumption
<1>3. MaxPerKey \in Nat \ {0} /\ DedupSize \in Nat \ {0} /\ NonceSize \in Nat
  BY InboxAssumption
<1>4. DedupSize <= NonceSize /\ Window <= 2 * CleanupEvery
  BY InboxAssumption
<1> QED
  BY <1>1, <1>2, <1>3, <1>4

LEMMA Counters ==
  ASSUME TypeOK
  PROVE  now \in 0..MaxNow /\ arrivals \in 0..MaxArrivals /\ process \in 0..MaxRestarts
BY DEF TypeOK, Times

LEMMA IdType ==
  ASSUME TypeOK, NEW m \in Messages, arrivals < MaxArrivals
  PROVE  IdOf(m) \in Ids
BY Constants, Counters DEF IdOf, Ids

LEMMA LimiterType ==
  ASSUME TypeOK, NEW s \in Senders, LetThrough(s), arrivals < MaxArrivals
  PROVE  /\ windows' \in [Senders -> SUBSET Request] /\ passed' \in [Senders -> SUBSET Request]
         /\ access' \in [Senders -> {-1} \cup Times]
<1>1. [at |-> now, nr |-> arrivals + 1] \in Request
  BY Constants, Counters DEF Request, Times
<1>2. Recent(s) \subseteq windows[s]
  BY DEF Recent, Within
<1> QED
  BY <1>1, <1>2 DEF TypeOK, LetThrough

\* What an accepted message changes.
LEMMA AcceptedType ==
  ASSUME TypeOK, NEW m \in Messages, ReceiveAccepted(m)
  PROVE  /\ nonces' \in Seq(Ids) /\ Len(nonces') <= NonceSize
         /\ processed' \in Seq(Ids) /\ Len(processed') <= DedupSize
         /\ accepted' \in Seq(Acceptance)
         /\ DOMAIN saves' \subseteq DOMAIN accepted'
         /\ \A q \in DOMAIN saves' : saves'[q] \in [at : Stages, kept : Nat]
<1> DEFINE id == IdOf(m)
           new == [id |-> id, at |-> now, process |-> process]
<1>1. id \in Ids
  BY IdType DEF ReceiveAccepted, Arrives
<1>2. new \in Acceptance
  BY <1>1 DEF TypeOK, Acceptance
<1>3. nonces' = Add(nonces, id, NonceSize) /\ processed' \in {processed, Add(processed, id, DedupSize)}
  BY DEF ReceiveAccepted, Record
<1>4. \/ accepted' = accepted /\ saves' = saves
      \/ /\ accepted' = Append(accepted, new)
         /\ saves' = [q \in DOMAIN saves \cup {Len(accepted) + 1} |->
              IF q \in DOMAIN saves THEN saves[q] ELSE [at |-> "decrypting", kept |-> 0]]
  BY DEF ReceiveAccepted
<1> HIDE DEF id, new
<1>5. nonces' \in Seq(Ids) /\ Len(nonces') <= NonceSize
  <2>1. nonces \in Seq(Ids) /\ NonceSize \in Nat /\ Len(nonces) <= NonceSize
    BY Constants DEF TypeOK
  <2>2. Add(nonces, id, NonceSize) \in Seq(Ids) /\ Len(Add(nonces, id, NonceSize)) <= NonceSize
    BY <1>1, <2>1, Constants, AddBack
  <2> QED
    BY <1>3, <2>2
<1>6. processed' \in Seq(Ids) /\ Len(processed') <= DedupSize
  <2>1. processed \in Seq(Ids) /\ DedupSize \in Nat /\ Len(processed) <= DedupSize
    BY Constants DEF TypeOK
  <2>2. Add(processed, id, DedupSize) \in Seq(Ids) /\ Len(Add(processed, id, DedupSize)) <= DedupSize
    BY <1>1, <2>1, Constants, AddBack
  <2> QED
    BY <1>3, <2>1, <2>2
<1>7. CASE accepted' = accepted /\ saves' = saves
  BY <1>5, <1>6, <1>7 DEF TypeOK
<1>8. CASE /\ accepted' = Append(accepted, new)
           /\ saves' = [q \in DOMAIN saves \cup {Len(accepted) + 1} |->
                IF q \in DOMAIN saves THEN saves[q] ELSE [at |-> "decrypting", kept |-> 0]]
  <2>1. accepted' \in Seq(Acceptance) /\ DOMAIN accepted' = 1..(Len(accepted) + 1)
    BY <1>2, <1>8 DEF TypeOK
  <2>2. DOMAIN saves' = DOMAIN saves \cup {Len(accepted) + 1} /\ DOMAIN accepted = 1..Len(accepted)
    BY <1>8 DEF TypeOK
  <2>3. DOMAIN saves' \subseteq DOMAIN accepted'
    BY <2>1, <2>2 DEF TypeOK
  <2>4. [at |-> "decrypting", kept |-> 0] \in [at : Stages, kept : Nat]
    BY DEF Stages
  <2>5. \A q \in DOMAIN saves' : saves'[q] \in [at : Stages, kept : Nat]
    BY <1>8, <2>4 DEF TypeOK
  <2> QED
    BY <1>5, <1>6, <2>1, <2>3, <2>5
<1> QED
  BY <1>4, <1>7, <1>8

\* A save in another stage keeps its type, as do the others.
LEMMA StageType ==
  ASSUME TypeOK, NEW q \in DOMAIN saves, NEW stage \in Stages
  PROVE  LET now_ == [saves EXCEPT ![q].at = stage]
         IN  DOMAIN now_ = DOMAIN saves /\ \A p \in DOMAIN saves : now_[p] \in [at : Stages, kept : Nat]
BY DEF TypeOK

LEMMA SaveType ==
  ASSUME TypeOK, NEW q \in DOMAIN saves, Save(q)
  PROVE  TypeOK'
<1>1. q \in DOMAIN accepted /\ accepted[q].id \in Ids
  <2>1. q \in DOMAIN accepted /\ accepted \in Seq(Acceptance)
    BY DEF TypeOK
  <2>2. accepted[q] \in Acceptance
    BY <2>1
  <2> QED
    BY <2>1, <2>2 DEF Acceptance
<1>2. {"checking", "reading", "appending"} \subseteq Stages
  BY DEF Stages
<1>3. CASE Decrypted(q)
  BY <1>1, <1>2, <1>3, StageType DEF Decrypted, Goto, TypeOK, limiter, caches
<1>4. CASE CheckSize(q)
  BY <1>2, <1>4, StageType DEF CheckSize, Goto, TypeOK, limiter, caches, disk
<1>5. CASE RotateRead(q)
  <2>1. PICK lines \in {plain, 0} :
          saves' = [saves EXCEPT ![q] = [at |-> "rotating", kept |-> Min({lines, MaxKeep})]]
    BY <1>5 DEF RotateRead
  <2>2. Min({lines, MaxKeep}) \in {lines, MaxKeep}
    <3>1. lines \in Nat /\ MaxKeep \in Nat
      BY Constants DEF TypeOK
    <3>2. \E x \in {lines, MaxKeep} : \A y \in {lines, MaxKeep} : x <= y
      <4>1. lines <= MaxKeep \/ MaxKeep <= lines
        BY <3>1
      <4> QED
        BY <3>1, <4>1
    <3> QED
      BY <3>2 DEF Min
  <2>3. Min({lines, MaxKeep}) \in Nat
    BY <2>2, Constants DEF TypeOK
  <2>4. [at |-> "rotating", kept |-> Min({lines, MaxKeep})] \in [at : Stages, kept : Nat]
    BY <2>3 DEF Stages
  <2> QED
    BY <1>5, <2>1, <2>4 DEF RotateRead, TypeOK, limiter, caches, disk
<1>6. CASE RotateWrite(q)
  <2>1. saves[q].kept \in Nat
    BY DEF TypeOK
  <2> QED
    BY <1>2, <1>6, <2>1, StageType DEF RotateWrite, Goto, TypeOK, limiter, caches
<1>7. CASE NoRotation(q)
  BY <1>2, <1>7, StageType DEF NoRotation, Goto, TypeOK, limiter, caches, disk
<1>8. CASE AppendRecord(q)
  <2>1. file' \in Seq(Ids)
    BY <1>1, <1>8 DEF AppendRecord, TypeOK
  <2> QED
    BY <1>8, <2>1 DEF AppendRecord, End, TypeOK, limiter, caches
<1>9. CASE AppendFails(q)
  BY <1>9 DEF AppendFails, End, TypeOK, limiter, caches, disk
<1> QED
  BY <1>3, <1>4, <1>5, <1>6, <1>7, <1>8, <1>9 DEF Save

LEMMA NextKeepsType == TypeOK /\ [Next]_vars => TypeOK'
<1> SUFFICES ASSUME TypeOK, [Next]_vars PROVE TypeOK'
  OBVIOUS
<1>1. ASSUME NEW m \in Messages, ReceiveLimited(m) PROVE TypeOK'
  <2>1. now \in {-1} \cup Times /\ arrivals' \in 0..MaxArrivals
    BY <1>1, Counters, Constants DEF ReceiveLimited, Arrives, Times
  <2> QED
    BY <1>1, <2>1 DEF ReceiveLimited, TypeOK, caches, disk
<1>2. ASSUME NEW m \in Messages, ReceiveRejected(m) PROVE TypeOK'
  <2>1. LetThrough(From[m]) /\ arrivals < MaxArrivals /\ arrivals' = arrivals + 1
    BY <1>2 DEF ReceiveRejected, Arrives
  <2>4. arrivals' \in 0..MaxArrivals
    BY <2>1, Counters, Constants
  <2>2. From[m] \in Senders
    BY InboxAssumption
  <2> QED
    BY <1>2, <2>1, <2>2, <2>4, LimiterType DEF ReceiveRejected, TypeOK, caches, disk
<1>3. ASSUME NEW m \in Messages, ReceiveAccepted(m) PROVE TypeOK'
  <2>1. LetThrough(From[m]) /\ arrivals < MaxArrivals /\ arrivals' = arrivals + 1
    BY <1>3 DEF ReceiveAccepted, Arrives
  <2>4. arrivals' \in 0..MaxArrivals
    BY <2>1, Counters, Constants
  <2>2. From[m] \in Senders
    BY InboxAssumption
  <2>3. UNCHANGED <<now, disk, process>>
    BY <1>3 DEF ReceiveAccepted
  <2> QED
    BY <1>3, <2>1, <2>2, <2>3, <2>4, LimiterType, AcceptedType DEF TypeOK, disk
<1>4. ASSUME NEW q \in DOMAIN saves, Save(q) PROVE TypeOK'
  BY <1>4, SaveType
<1>5. CASE Cleanup
  <2>1. windows' \in [Senders -> SUBSET Request] /\ access' \in [Senders -> {-1} \cup Times]
    BY <1>5 DEF Cleanup, TypeOK
  <2> QED
    BY <1>5, <2>1 DEF Cleanup, TypeOK, caches, disk
<1>6. CASE Tick
  <2>1. now' \in Times
    BY <1>6, Counters, Constants DEF Tick, Times
  <2> QED
    BY <1>6, <2>1 DEF Tick, TypeOK, limiter, caches, disk
<1>7. CASE Restart
  <2>1. process' \in 0..MaxRestarts
    BY <1>7, Counters, Constants DEF Restart
  <2> QED
    BY <1>7, <2>1, Constants DEF Restart, TypeOK, disk
<1>8. CASE UNCHANGED vars
  BY <1>8 DEF vars, limiter, caches, disk, TypeOK
<1> QED
  BY <1>1, <1>2, <1>3, <1>4, <1>5, <1>6, <1>7, <1>8 DEF Next, Receive

\* Every variable keeps its type, and neither cache outgrows its size.
THEOREM InboxTypeCorrect == Spec => []TypeOK
<1>1. Init => TypeOK
  BY Constants DEF Init, TypeOK, Times
<1> QED
  BY <1>1, NextKeepsType, PTL DEF Spec

----------------------------------------------------------------------------
(* The caches.  processed is always the newest part of nonces, and nonces    *)
(* the ids of the newest part of accepted: this is what makes the check      *)
(* against nonces reach back NonceSize acceptances.                          *)

DedupInv ==
  /\ Len(processed) <= Len(nonces)
  /\ \A i \in 0..(Len(processed) - 1) : Back(processed, i) = Back(nonces, i)

Accepts(m) ==
  LET id == IdOf(m) IN
  /\ ~Has(nonces, id) /\ Fresh(m)
  /\ nonces' = Add(nonces, id, NonceSize) /\ processed' = Add(processed, id, DedupSize)
  /\ accepted' = Append(accepted, [id |-> id, at |-> now, process |-> process])
  /\ process' = process

Forgets ==
  /\ nonces' = <<>> /\ processed' = <<>>
  /\ accepted' = accepted /\ process' = process + 1

LEMMA ProcessedHas ==
  ASSUME TypeOK, DedupInv, NEW id, Has(processed, id)
  PROVE  Has(nonces, id)
<1>1. PICK k \in 1..Len(processed) : processed[k] = id
  BY DEF Has, TypeOK
<1>2. Len(processed) - k \in 0..(Len(processed) - 1) /\ Back(processed, Len(processed) - k) = id
  BY <1>1 DEF TypeOK, Back
<1>3. Back(nonces, Len(processed) - k) = id
  BY <1>2 DEF DedupInv
<1>4. Len(nonces) - (Len(processed) - k) \in DOMAIN nonces
  BY <1>2 DEF DedupInv, TypeOK
<1> QED
  BY <1>3, <1>4 DEF Has, Back

\* What a step does to the caches: nothing, an acceptance, or a restart.
LEMMA CacheSteps ==
  ASSUME TypeOK, DedupInv, [Next]_vars
  PROVE  \/ UNCHANGED <<nonces, processed, accepted, process>>
         \/ \E m \in Messages : Accepts(m) /\ IdOf(m) \in Ids
         \/ Forgets
<1>1. ASSUME NEW m \in Messages, ReceiveAccepted(m)
      PROVE  Accepts(m) /\ IdOf(m) \in Ids
  <2>1. ~Has(nonces, IdOf(m)) /\ ~Has(processed, IdOf(m))
    BY <1>1, ProcessedHas DEF ReceiveAccepted
  <2>2. IdOf(m) \in Ids
    BY <1>1, IdType DEF ReceiveAccepted, Arrives
  <2> QED
    BY <1>1, <2>1, <2>2 DEF ReceiveAccepted, Accepts, Record
<1>2. ASSUME NEW m \in Messages, ReceiveLimited(m) \/ ReceiveRejected(m)
      PROVE  UNCHANGED <<nonces, processed, accepted, process>>
  BY <1>2 DEF ReceiveLimited, ReceiveRejected, caches
<1>3. ASSUME NEW q \in DOMAIN saves, Save(q)
      PROVE  UNCHANGED <<nonces, processed, accepted, process>>
  BY <1>3 DEF Save, Decrypted, CheckSize, RotateRead, RotateWrite, NoRotation, AppendRecord,
             AppendFails, caches
<1>4. CASE Cleanup \/ Tick \/ UNCHANGED vars
  BY <1>4 DEF Cleanup, Tick, vars, caches
<1>5. CASE Restart
  BY <1>5 DEF Restart, Forgets
<1> QED
  BY <1>1, <1>2, <1>3, <1>4, <1>5 DEF Next, Receive

LEMMA NextKeepsDedupInv == TypeOK /\ DedupInv /\ [Next]_vars => DedupInv'
<1> SUFFICES ASSUME TypeOK, DedupInv, [Next]_vars PROVE DedupInv'
  OBVIOUS
<1>1. CASE UNCHANGED <<nonces, processed, accepted, process>>
  BY <1>1 DEF DedupInv
<1>2. CASE Forgets
  BY <1>2 DEF Forgets, DedupInv
<1>3. ASSUME NEW m \in Messages, Accepts(m), IdOf(m) \in Ids PROVE DedupInv'
  <2> DEFINE id == IdOf(m)
             p == Add(processed, id, DedupSize)
             n == Add(nonces, id, NonceSize)
  <2>1. processed' = p /\ nonces' = n
    BY <1>3 DEF Accepts
  <2>2. /\ nonces \in Seq(Ids) /\ Len(nonces) <= NonceSize
        /\ processed \in Seq(Ids) /\ Len(processed) <= DedupSize /\ id \in Ids
    BY <1>3 DEF TypeOK
  <2> HIDE DEF id
  <2>3. /\ Len(p) = IF Len(processed) < DedupSize THEN Len(processed) + 1 ELSE DedupSize
        /\ Back(p, 0) = id
        /\ \A i \in 1..(Len(p) - 1) : Back(p, i) = Back(processed, i - 1)
    BY <2>2, Constants, AddBack
  <2>4. NonceSize > 0
    BY Constants
  <2>5. /\ Len(n) = IF Len(nonces) < NonceSize THEN Len(nonces) + 1 ELSE NonceSize
        /\ Back(n, 0) = id
        /\ \A i \in 1..(Len(n) - 1) : Back(n, i) = Back(nonces, i - 1)
    BY <2>2, <2>4, Constants, AddBack
  <2> HIDE DEF p, n
  <2>6. /\ Len(p) \in Nat /\ Len(n) \in Nat /\ Len(p) <= Len(n)
        /\ Len(p) <= Len(processed) + 1 /\ Len(processed) \in Nat
    BY <2>2, <2>3, <2>5, Constants DEF DedupInv
  <2>7. ASSUME NEW i \in 0..(Len(p) - 1) PROVE Back(p, i) = Back(n, i)
    <3>1. CASE i = 0
      BY <2>3, <2>5, <3>1
    <3>2. CASE i > 0
      <4>1. i - 1 \in 0..(Len(processed) - 1) /\ i \in 1..(Len(p) - 1) /\ i \in 1..(Len(n) - 1)
        BY <2>6, <3>2
      <4> QED
        BY <2>3, <2>5, <4>1 DEF DedupInv
    <3> QED
      BY <3>1, <3>2
  <2> QED
    BY <2>1, <2>6, <2>7 DEF DedupInv, Back
<1> QED
  BY <1>1, <1>2, <1>3, CacheSteps

LEMMA DedupInvariant == Spec => [](TypeOK /\ DedupInv)
<1>1. Init => DedupInv
  BY DEF Init, DedupInv
<1> QED
  BY <1>1, InboxTypeCorrect, NextKeepsDedupInv, PTL DEF Spec

\* The older cache never stops a message that the replay protection let
\* through: saveMessage's second check is redundant.
THEOREM DedupIsRedundant == Spec => []ProcessedAreNonces
<1>1. TypeOK /\ DedupInv => ProcessedAreNonces
  BY ProcessedHas DEF ProcessedAreNonces, Has
<1> QED
  BY <1>1, DedupInvariant, PTL

----------------------------------------------------------------------------
(* Repetitions. *)

HistoryInv ==
  /\ Len(nonces) <= Len(accepted)
  /\ \A i \in 0..(Len(nonces) - 1) : Back(accepted, i).id = Back(nonces, i)
  /\ \A p \in DOMAIN accepted : accepted[p].process <= process
  /\ Len(nonces) < NonceSize =>
       \A p \in 1..(Len(accepted) - Len(nonces)) : accepted[p].process < process
  /\ RepeatsNeedEviction

LEMMA NextKeepsHistoryInv == TypeOK /\ DedupInv /\ HistoryInv /\ [Next]_vars => HistoryInv'
<1> SUFFICES ASSUME TypeOK, DedupInv, HistoryInv, [Next]_vars PROVE HistoryInv'
  OBVIOUS
<1>1. CASE UNCHANGED <<nonces, processed, accepted, process>>
  BY <1>1 DEF HistoryInv, RepeatsNeedEviction
<1>2. CASE Forgets
  <2>1. \A p \in DOMAIN accepted : accepted[p].process \in Nat
    <3>1. \A p \in DOMAIN accepted : accepted[p] \in Acceptance
      BY DEF TypeOK
    <3> QED
      BY <3>1 DEF Acceptance
  <2>2. process \in Nat /\ accepted \in Seq(Acceptance)
    BY Counters DEF TypeOK
  <2> QED
    BY <1>2, <2>1, <2>2 DEF Forgets, HistoryInv, RepeatsNeedEviction
<1>3. ASSUME NEW m \in Messages, Accepts(m), IdOf(m) \in Ids PROVE HistoryInv'
  <2> DEFINE id == IdOf(m)
             new == [id |-> id, at |-> now, process |-> process]
             n == Add(nonces, id, NonceSize)
             a == Append(accepted, new)
  <2>1. nonces' = n /\ accepted' = a /\ process' = process /\ ~Has(nonces, id)
    BY <1>3 DEF Accepts
  <2>2. /\ nonces \in Seq(Ids) /\ Len(nonces) <= NonceSize /\ accepted \in Seq(Acceptance)
        /\ id \in Ids /\ new \in Acceptance /\ new.id = id /\ new.process = process
        /\ process \in Nat
    BY <1>3, Counters DEF TypeOK, Acceptance
  <2> HIDE DEF id, new
  <2>3. NonceSize > 0 /\ NonceSize \in Nat
    BY Constants
  <2>4. /\ Len(n) = IF Len(nonces) < NonceSize THEN Len(nonces) + 1 ELSE NonceSize
        /\ Back(n, 0) = id
        /\ \A i \in 1..(Len(n) - 1) : Back(n, i) = Back(nonces, i - 1)
    BY <2>2, <2>3, AddBack
  <2>5. /\ Len(a) = Len(accepted) + 1 /\ Back(a, 0) = new
        /\ \A i \in 1..Len(accepted) : Back(a, i) = Back(accepted, i - 1)
        /\ \A p \in 1..Len(accepted) : a[p] = accepted[p]
        /\ a[Len(accepted) + 1] = new
        /\ DOMAIN a = 1..(Len(accepted) + 1) /\ DOMAIN accepted = 1..Len(accepted)
    BY <2>2, AppendBack
  <2> HIDE DEF n, a
  <2>6. /\ Len(nonces) \in Nat /\ Len(accepted) \in Nat /\ Len(nonces) <= Len(accepted)
        /\ Len(n) \in 1..(Len(nonces) + 1)
    BY <2>2, <2>3, <2>4 DEF HistoryInv
  <2>7. ASSUME NEW i \in 0..(Len(n) - 1) PROVE Back(a, i).id = Back(n, i)
    <3>1. CASE i = 0
      BY <2>2, <2>4, <2>5, <3>1
    <3>2. CASE i > 0
      <4>1. i - 1 \in 0..(Len(nonces) - 1) /\ i \in 1..(Len(n) - 1) /\ i \in 1..Len(accepted)
        BY <2>6, <3>2
      <4> QED
        BY <2>4, <2>5, <4>1 DEF HistoryInv
    <3> QED
      BY <3>1, <3>2
  <2>8. ASSUME NEW p \in DOMAIN a PROVE a[p].process <= process
    <3>1. CASE p \in DOMAIN accepted
      BY <2>5, <3>1 DEF HistoryInv
    <3>2. CASE p = Len(accepted) + 1
      BY <2>2, <2>5, <3>2
    <3> QED
      BY <2>5, <2>6, <3>1, <3>2
  <2>9. ASSUME Len(n) < NonceSize, NEW p \in 1..(Len(a) - Len(n))
        PROVE  a[p].process < process
    <3>1. Len(nonces) < NonceSize /\ Len(n) = Len(nonces) + 1
      BY <2>3, <2>4, <2>6, <2>9
    <3>2. p \in 1..(Len(accepted) - Len(nonces)) /\ p \in 1..Len(accepted)
      BY <2>5, <2>6, <3>1
    <3> QED
      BY <2>5, <3>1, <3>2 DEF HistoryInv
  <2>10. ASSUME NEW p \in 1..Len(accepted), accepted[p].id = id, accepted[p].process = process
         PROVE  Len(accepted) + 1 - p > NonceSize
    <3>1. CASE p > Len(accepted) - Len(nonces)
      <4>1. Len(accepted) - p \in 0..(Len(nonces) - 1)
        BY <2>6, <3>1
      <4>2. Back(accepted, Len(accepted) - p) = accepted[p]
        BY <2>6 DEF Back
      <4>3. Back(nonces, Len(accepted) - p) = id
        BY <2>10, <4>1, <4>2 DEF HistoryInv
      <4>4. Len(nonces) - (Len(accepted) - p) \in DOMAIN nonces
        BY <2>2, <2>6, <4>1
      <4> QED
        BY <2>1, <4>3, <4>4 DEF Has, Back
    <3>2. CASE p <= Len(accepted) - Len(nonces)
      <4>1. p \in 1..(Len(accepted) - Len(nonces))
        BY <2>6, <3>2
      <4>2. ~(accepted[p].process < process)
        BY <2>2, <2>10
      <4>3. Len(nonces) = NonceSize
        BY <2>2, <2>3, <2>6, <4>1, <4>2 DEF HistoryInv
      <4> QED
        BY <2>6, <3>2, <4>3
    <3> QED
      BY <2>6, <3>1, <3>2
  <2>11. ASSUME NEW p \in DOMAIN a, NEW q \in DOMAIN a, p < q,
                a[p].id = a[q].id, a[p].process = a[q].process
         PROVE  q - p > NonceSize
    <3>1. p \in 1..Len(accepted) /\ a[p] = accepted[p]
      BY <2>5, <2>6, <2>11
    <3>2. CASE q \in 1..Len(accepted)
      <4>1. a[q] = accepted[q] /\ p \in DOMAIN accepted /\ q \in DOMAIN accepted
        BY <2>5, <3>1, <3>2
      <4>2. RepeatsNeedEviction
        BY DEF HistoryInv
      <4> QED
        BY <2>11, <3>1, <4>1, <4>2 DEF RepeatsNeedEviction
    <3>3. CASE q = Len(accepted) + 1
      BY <2>2, <2>5, <2>10, <2>11, <3>1, <3>3
    <3> QED
      BY <2>5, <2>6, <3>2, <3>3
  <2>12. Len(n) <= Len(a)
    BY <2>5, <2>6
  <2> QED
    BY <2>1, <2>7, <2>8, <2>9, <2>11, <2>12 DEF HistoryInv, RepeatsNeedEviction, Back
<1> QED
  BY <1>1, <1>2, <1>3, CacheSteps

\* An id is accepted twice by a process only if NonceSize others came between.
THEOREM RepeatsOnlyAfterEviction == Spec => []RepeatsNeedEviction
<1>1. Init => HistoryInv
  BY DEF Init, HistoryInv, RepeatsNeedEviction
<1>2. HistoryInv => RepeatsNeedEviction
  BY DEF HistoryInv
<1> QED
  BY <1>1, <1>2, DedupInvariant, NextKeepsHistoryInv, PTL DEF Spec

\* Everything accepted was fresh when it was, in any process.
FreshInv ==
  \A p \in DOMAIN accepted :
    /\ accepted[p].at - Stamp[accepted[p].id[1]] <= Tolerance
    /\ Stamp[accepted[p].id[1]] - accepted[p].at <= Tolerance

LEMMA NextKeepsFreshInv == TypeOK /\ DedupInv /\ FreshInv /\ [Next]_vars => FreshInv'
<1> SUFFICES ASSUME TypeOK, DedupInv, FreshInv, [Next]_vars PROVE FreshInv'
  OBVIOUS
<1>1. CASE UNCHANGED <<nonces, processed, accepted, process>> \/ Forgets
  BY <1>1 DEF FreshInv, Forgets
<1>2. ASSUME NEW m \in Messages, Accepts(m), IdOf(m) \in Ids PROVE FreshInv'
  <2> DEFINE new == [id |-> IdOf(m), at |-> now, process |-> process]
  <2>1. accepted' = Append(accepted, new) /\ Fresh(m)
    BY <1>2 DEF Accepts
  <2>2. new.at = now /\ new.id[1] = m
    BY DEF IdOf
  <2>3. new \in Acceptance /\ accepted \in Seq(Acceptance)
    BY <1>2 DEF TypeOK, Acceptance
  <2> HIDE DEF new
  <2>4. /\ DOMAIN accepted' = 1..(Len(accepted) + 1) /\ accepted'[Len(accepted) + 1] = new
        /\ \A p \in 1..Len(accepted) : accepted'[p] = accepted[p]
    BY <2>1, <2>3
  <2> QED
    BY <2>1, <2>2, <2>3, <2>4 DEF FreshInv, Fresh
<1> QED
  BY <1>1, <1>2, CacheSteps

\* Even across restarts, which forget everything, a repetition comes within
\* twice the tolerance.
THEOREM RepeatsComeSoon == Spec => []RepeatsAreSoon
<1>1. Init => FreshInv
  BY DEF Init, FreshInv
<1>2. TypeOK /\ FreshInv => RepeatsAreSoon
  <2> SUFFICES ASSUME TypeOK, FreshInv, NEW p \in DOMAIN accepted, NEW q \in DOMAIN accepted,
                      accepted[p].id = accepted[q].id
               PROVE  accepted[q].at - accepted[p].at <= 2 * Tolerance
    BY DEF RepeatsAreSoon
  <2>1. accepted[p] \in Acceptance /\ accepted[q] \in Acceptance
    BY DEF TypeOK
  <2>2. accepted[p].at \in Nat /\ accepted[q].at \in Nat /\ accepted[p].id[1] \in Messages
    BY <2>1 DEF Acceptance, Ids, Times
  <2>3. Stamp[accepted[p].id[1]] \in Nat
    BY <2>2, InboxAssumption
  <2> QED
    BY <2>2, <2>3, Constants DEF FreshInv
<1> QED
  BY <1>1, <1>2, DedupInvariant, NextKeepsFreshInv, PTL DEF Spec

----------------------------------------------------------------------------
(* The rate limit.  The limiter of a sender may forget a request, but only   *)
(* one that has left the window; idle limiters are old enough for that.      *)

RateInv ==
  \A s \in Senders :
    /\ IsFiniteSet(passed[s]) /\ windows[s] \subseteq passed[s]
    /\ \A r \in passed[s] : r.at <= now /\ (r.at > now - Window => r \in windows[s])
    /\ \A r \in windows[s] : r.at <= access[s]

LEMMA WithinFinite ==
  ASSUME NEW R, IsFiniteSet(R), NEW t
  PROVE  IsFiniteSet(Within(R, t))
BY FS_Subset DEF Within

\* No window holds more than the one that ends now.
LEMMA LatestWindow ==
  ASSUME NEW R \in SUBSET Request, IsFiniteSet(R), NEW n \in Int, \A r \in R : r.at <= n,
         NEW t \in Int, t >= n
  PROVE  Cardinality(Within(R, t)) <= Cardinality(Within(R, n))
<1>1. Within(R, t) \subseteq Within(R, n)
  BY Constants DEF Within, Request, Times
<1> QED
  BY <1>1, WithinFinite, FS_Subset

\* A request let through.
LEMMA LetThroughRate ==
  ASSUME TypeOK, RateInv, RateBound, NEW s \in Senders, LetThrough(s), arrivals < MaxArrivals,
         now' = now
  PROVE  RateInv' /\ RateBound'
<1> DEFINE request == [at |-> now, nr |-> arrivals + 1]
<1>1. /\ windows' = [windows EXCEPT ![s] = Recent(s) \cup {request}]
      /\ passed' = [passed EXCEPT ![s] = @ \cup {request}]
      /\ access' = [access EXCEPT ![s] = now]
      /\ ~(Cardinality(Recent(s)) >= MaxPerKey)
  BY DEF LetThrough, Limited
<1>2. request \in Request /\ request.at = now /\ now \in Nat /\ now \in Times
  BY Constants, Counters DEF Request, Times
<1> HIDE DEF request
<1>3. /\ windows'[s] = Recent(s) \cup {request} /\ passed'[s] = passed[s] \cup {request}
      /\ access'[s] = now
      /\ \A u \in Senders \ {s} :
           windows'[u] = windows[u] /\ passed'[u] = passed[u] /\ access'[u] = access[u]
  BY <1>1 DEF TypeOK
<1>4. Recent(s) \subseteq Request /\ passed[s] \subseteq Request
  BY DEF Recent, Within, TypeOK
<1>5. \A r \in Recent(s) : r.at <= now /\ r.at > now - Window
  BY DEF Recent, Within
<1>6. ASSUME NEW u \in Senders
      PROVE  /\ IsFiniteSet(passed'[u]) /\ windows'[u] \subseteq passed'[u]
             /\ \A r \in passed'[u] : r.at <= now /\ (r.at > now - Window => r \in windows'[u])
             /\ \A r \in windows'[u] : r.at <= access'[u]
  <2>1. CASE u # s
    BY <1>3, <2>1 DEF RateInv
  <2>2. CASE u = s
    <3>1. IsFiniteSet(passed'[s])
      <4>1. IsFiniteSet(passed[s])
        BY DEF RateInv
      <4>2. IsFiniteSet(passed[s] \cup {request})
        BY <4>1, FS_AddElement, Zenon
      <4> QED
        BY <1>3, <4>2
    <3>2. ASSUME NEW r \in passed[s] PROVE r.at <= now /\ (r.at > now - Window => r \in Recent(s))
      BY DEF RateInv, Recent, Within
    <3>3. Recent(s) \subseteq passed[s]
      BY DEF RateInv, Recent, Within
    <3>4. windows'[s] \subseteq passed'[s]
      BY <1>3, <3>3
    <3>5. ASSUME NEW r \in passed'[s]
          PROVE  r.at <= now /\ (r.at > now - Window => r \in windows'[s])
      <4>1. CASE r = request
        BY <1>2, <1>3, <4>1
      <4>2. CASE r \in passed[s]
        BY <1>3, <3>2, <4>2
      <4> QED
        BY <1>3, <4>1, <4>2
    <3>6. \A r \in windows'[s] : r.at <= access'[s]
      BY <1>2, <1>3, <1>5
    <3> QED
      BY <2>2, <3>1, <3>4, <3>5, <3>6
  <2> QED
    BY <2>1, <2>2
<1>7. RateInv'
  BY <1>6 DEF RateInv
<1>8. Cardinality(Within(passed'[s], now)) <= MaxPerKey
  <2>1. Within(passed'[s], now) \subseteq Recent(s) \cup {request}
    BY <1>3 DEF Within, Recent, RateInv
  <2>2. Recent(s) \subseteq passed[s] /\ IsFiniteSet(passed[s])
    BY DEF RateInv, Recent, Within
  <2>3. IsFiniteSet(Recent(s))
    BY <2>2, FS_Subset
  <2>4. /\ IsFiniteSet(Recent(s) \cup {request})
        /\ Cardinality(Recent(s) \cup {request}) <= Cardinality(Recent(s)) + 1
    <3>1. /\ IsFiniteSet(Recent(s) \cup {request})
          /\ \/ Cardinality(Recent(s) \cup {request}) = Cardinality(Recent(s))
             \/ Cardinality(Recent(s) \cup {request}) = Cardinality(Recent(s)) + 1
      BY <2>3, FS_AddElement, Zenon
    <3>2. Cardinality(Recent(s)) \in Nat
      BY <2>3, FS_CardinalityType
    <3> QED
      BY <3>1, <3>2
  <2>5. Cardinality(Within(passed'[s], now)) <= Cardinality(Recent(s) \cup {request})
    BY <2>1, <2>4, FS_Subset
  <2>6. Cardinality(Recent(s)) \in Nat /\ Cardinality(Within(passed'[s], now)) \in Nat
        /\ Cardinality(Recent(s) \cup {request}) \in Nat
    BY <2>1, <2>3, <2>4, FS_Subset, FS_CardinalityType
  <2> QED
    BY <1>1, <2>4, <2>5, <2>6, Constants
<1>9. ASSUME NEW u \in Senders, NEW t \in Times PROVE Cardinality(Within(passed'[u], t)) <= MaxPerKey
  <2>1. CASE u # s
    BY <1>3, <2>1 DEF RateBound
  <2>2. CASE u = s /\ t < now
    <3>1. Within(passed'[s], t) = Within(passed[s], t)
      BY <1>2, <1>3, <2>2 DEF Within, Times
    <3> QED
      BY <2>2, <3>1 DEF RateBound
  <2>3. CASE u = s /\ t >= now
    <3>1. passed'[s] \in SUBSET Request /\ IsFiniteSet(passed'[s]) /\ \A r \in passed'[s] : r.at <= now
      BY <1>2, <1>3, <1>4, <1>6
    <3>2. Cardinality(Within(passed'[s], t)) <= Cardinality(Within(passed'[s], now))
      BY <1>2, <2>3, <3>1, LatestWindow DEF Times
    <3>3. /\ Cardinality(Within(passed'[s], t)) \in Nat
          /\ Cardinality(Within(passed'[s], now)) \in Nat
      BY <3>1, WithinFinite, FS_CardinalityType
    <3> QED
      BY <1>8, <2>3, <3>2, <3>3, Constants
  <2> QED
    BY <1>2, <2>1, <2>2, <2>3 DEF Times
<1>10. RateBound'
  BY <1>9 DEF RateBound
<1> QED
  BY <1>7, <1>10

LEMMA NoneIsFew == Cardinality({}) <= MaxPerKey
BY FS_EmptySet, Constants

LEMMA NextKeepsRateInv ==
  TypeOK /\ RateInv /\ RateBound /\ [Next]_vars => RateInv' /\ RateBound'
<1> SUFFICES ASSUME TypeOK, RateInv, RateBound, [Next]_vars PROVE RateInv' /\ RateBound'
  OBVIOUS
<1>1. ASSUME NEW m \in Messages, ReceiveLimited(m) PROVE RateInv' /\ RateBound'
  <2>1. /\ access' = [access EXCEPT ![From[m]] = now] /\ windows' = windows
        /\ passed' = passed /\ now' = now
    BY <1>1 DEF ReceiveLimited
  <2>2. \A s \in Senders : access'[s] \in {access[s], now}
    BY <2>1 DEF TypeOK
  <2>3. \A s \in Senders : \A r \in windows[s] : r.at <= now
    BY DEF RateInv
  <2>4. RateInv'
    BY <2>1, <2>2, <2>3 DEF RateInv
  <2> QED
    BY <2>1, <2>4 DEF RateBound
<1>2. ASSUME NEW m \in Messages, ReceiveRejected(m) \/ ReceiveAccepted(m) PROVE RateInv' /\ RateBound'
  <2>1. LetThrough(From[m]) /\ arrivals < MaxArrivals /\ now' = now
    BY <1>2 DEF ReceiveRejected, ReceiveAccepted, Arrives
  <2>2. From[m] \in Senders
    BY InboxAssumption
  <2> QED
    BY <2>1, <2>2, LetThroughRate
<1>3. CASE Cleanup
  <2>1. now' = now /\ passed' = passed
    BY <1>3 DEF Cleanup
  <2>2. ASSUME NEW s \in Senders
        PROVE  /\ windows'[s] \subseteq passed[s]
               /\ \A r \in passed[s] : r.at > now - Window => r \in windows'[s]
               /\ \A r \in windows'[s] : r.at <= access'[s]
    <3>1. CASE ~Idle(s)
      BY <1>3, <3>1 DEF Cleanup, RateInv
    <3>2. CASE Idle(s)
      <4>1. windows'[s] = {}
        BY <1>3, <3>2 DEF Cleanup
      <4>2. ASSUME NEW r \in passed[s], r.at > now - Window PROVE FALSE
        <5>1. r \in windows[s] /\ r.at <= access[s]
          BY <4>2 DEF RateInv
        <5>2. r.at \in Nat /\ access[s] \in Int /\ access[s] < now - 2 * CleanupEvery /\ now \in Nat
          BY <3>2, <5>1, Counters DEF Idle, TypeOK, Request, Times
        <5> QED
          BY <4>2, <5>1, <5>2, Constants
      <4> QED
        BY <4>1, <4>2
    <3> QED
      BY <3>1, <3>2
  <2>3. RateInv'
    BY <2>1, <2>2 DEF RateInv
  <2> QED
    BY <2>1, <2>3 DEF RateBound
<1>4. CASE Tick
  <2>1. now' = now + 1 /\ UNCHANGED <<windows, access, passed>>
    BY <1>4 DEF Tick, limiter
  <2>2. \A s \in Senders : \A r \in passed[s] : r.at \in Nat
    BY DEF TypeOK, Request, Times
  <2>3. now \in Nat
    BY Counters, Constants
  <2>4. \A s \in Senders : \A r \in passed[s] :
          r.at <= now' /\ (r.at > now' - Window => r \in windows[s])
    BY <2>1, <2>2, <2>3, Constants DEF RateInv
  <2>5. RateInv'
    <3>1. ASSUME NEW s \in Senders
          PROVE  /\ IsFiniteSet(passed'[s]) /\ windows'[s] \subseteq passed'[s]
                 /\ \A r \in windows'[s] : r.at <= access'[s]
      BY <2>1 DEF RateInv
    <3>2. ASSUME NEW s \in Senders, NEW r \in passed'[s]
          PROVE  r.at <= now' /\ (r.at > now' - Window => r \in windows'[s])
      BY <2>1, <2>4, <3>2
    <3> QED
      BY <3>1, <3>2 DEF RateInv
  <2> QED
    BY <2>1, <2>5 DEF RateBound
<1>5. CASE Restart
  <2>1. \A s \in Senders : windows'[s] = {} /\ passed'[s] = {}
    BY <1>5 DEF Restart
  <2>2. \A t \in Times : Within({}, t) = {}
    BY DEF Within
  <2>3. RateInv'
    BY <1>5, <2>1, FS_EmptySet DEF RateInv, Restart
  <2> QED
    BY <2>1, <2>2, <2>3, NoneIsFew DEF RateBound
<1>6. ASSUME NEW q \in DOMAIN saves, Save(q) PROVE RateInv' /\ RateBound'
  <2>1. UNCHANGED <<now, windows, access, passed>>
    BY <1>6 DEF Save, Decrypted, CheckSize, RotateRead, RotateWrite, NoRotation, AppendRecord,
               AppendFails, limiter
  <2> QED
    BY <2>1 DEF RateInv, RateBound
<1>7. CASE UNCHANGED vars
  BY <1>7 DEF vars, limiter, RateInv, RateBound
<1> QED
  BY <1>1, <1>2, <1>3, <1>4, <1>5, <1>6, <1>7 DEF Next, Receive

\* No window of time sees more than MaxPerKey requests of a sender let through,
\* although limiters forget requests and are dropped when idle.
THEOREM RateIsBounded == Spec => []RateBound
<1>1. Init => RateInv /\ RateBound
  <2> SUFFICES ASSUME Init PROVE RateInv /\ RateBound
    OBVIOUS
  <2>1. \A s \in Senders : windows[s] = {} /\ passed[s] = {}
    BY DEF Init
  <2>2. \A t \in Times : Within({}, t) = {}
    BY DEF Within
  <2> QED
    BY <2>1, <2>2, FS_EmptySet, NoneIsFew DEF RateInv, RateBound
<1> QED
  BY <1>1, InboxTypeCorrect, NextKeepsRateInv, PTL DEF Spec

----------------------------------------------------------------------------
(* Arithmetic. *)

LEMMA DivisionBound ==
  ASSUME NEW a \in Nat, NEW s \in Nat \ {0}
  PROVE  a \div s \in Nat /\ (a \div s) * s <= a
  BY SMTT(30)

LEMMA Distributes ==
  ASSUME NEW a \in Int, NEW b \in Int, NEW c \in Int
  PROVE  (a + b) * c = a * c + b * c /\ (a - b) * c = a * c - b * c /\ a * c \in Int
  BY SMTT(30)

LEMMA ProductGrows ==
  ASSUME NEW a \in Int, NEW b \in Int, NEW c \in Nat, a <= b
  PROVE  a * c <= b * c
  BY SMTT(30)

----------------------------------------------------------------------------
(* The token bucket. *)

\* _refill forgets no time: what is granted, and can be, is bounded by the time up to the
\* last refill, from which the next one counts.
BucketInv ==
  /\ TbTypeOK
  /\ since <= lastRefill
  /\ (granted + tokens - Capacity) * Second <= (lastRefill - since) * RefillRate

\* A refill leaves the bucket with at most what the time since the last one has brought.
LEMMA RefillIsEarned ==
  ASSUME TbTypeOK
  PROVE  /\ Refilled.tokens \in 0..Capacity /\ Refilled.tokens >= tokens
         /\ Refilled.last \in lastRefill..clock
         /\ (Refilled.tokens - tokens) * Second <= (Refilled.last - lastRefill) * RefillRate
  <1>a. /\ Capacity \in Nat /\ RefillRate \in Nat /\ Second \in Nat \ {0} /\ MaxTime \in Nat
        /\ tokens \in 0..Capacity /\ clock \in Nat /\ lastRefill \in Nat /\ lastRefill <= clock
    BY TokenBucketAssumption DEF TbTypeOK
  <1> DEFINE earned == (clock - lastRefill) * RefillRate
  <1>1. earned \in Nat
    <2>1. clock - lastRefill \in Nat /\ 0 <= clock - lastRefill
      BY <1>a
    <2>2. 0 * RefillRate <= earned
      BY <1>a, <2>1, ProductGrows
    <2> QED BY <1>a, <2>1, <2>2, Distributes
  <1>2. TokensToAdd \in Nat /\ TokensToAdd * Second <= earned
    BY <1>a, <1>1, DivisionBound DEF TokensToAdd
  <1>3. CASE TokensToAdd > 0
    <2> DEFINE t == Least(Capacity, tokens + TokensToAdd)
    <2>1. t \in 0..Capacity /\ t >= tokens /\ t - tokens <= TokensToAdd
      BY <1>a, <1>2 DEF Least
    <2>2. (t - tokens) * Second <= TokensToAdd * Second
      BY <1>a, <1>2, <2>1, ProductGrows
    <2>3. (t - tokens) * Second <= earned
      <3>1. (t - tokens) * Second \in Int /\ TokensToAdd * Second \in Int
        BY <1>a, <1>2, <2>1, Distributes
      <3> HIDE DEF t, earned
      <3> QED BY <1>1, <1>2, <2>2, <3>1
    <2>4. Refilled = [tokens |-> t, last |-> clock]
      BY <1>3 DEF Refilled
    <2> QED BY <1>a, <2>1, <2>3, <2>4
  <1>4. CASE ~(TokensToAdd > 0)
    <2>1. Refilled = [tokens |-> tokens, last |-> lastRefill]
      BY <1>4 DEF Refilled
    <2> QED BY <1>a, <2>1
  <1> QED BY <1>3, <1>4

LEMMA BucketInit == TbInit => BucketInv
  <1> SUFFICES ASSUME TbInit PROVE BucketInv
    OBVIOUS
  <1>1. /\ Capacity \in Nat /\ RefillRate \in Nat /\ Second \in Nat /\ MaxTime \in Nat
    BY TokenBucketAssumption
  <1>2. TbTypeOK /\ since <= lastRefill
    BY <1>1 DEF TbInit, TbTypeOK
  <1>3. granted + tokens - Capacity = 0 /\ lastRefill - since = 0
    BY <1>1 DEF TbInit
  <1>4. 0 * Second = 0 /\ 0 * RefillRate = 0
    BY <1>1
  <1> QED BY <1>2, <1>3, <1>4 DEF BucketInv

LEMMA BucketStep == BucketInv /\ [TbNext]_tbVars => BucketInv'
  <1> SUFFICES ASSUME BucketInv, [TbNext]_tbVars PROVE BucketInv'
    OBVIOUS
  <1>a. /\ Capacity \in Nat /\ RefillRate \in Nat /\ Second \in Nat \ {0} /\ MaxTime \in Nat
    BY TokenBucketAssumption
  <1>b. /\ tokens \in 0..Capacity /\ clock \in 0..MaxTime /\ lastRefill \in 0..clock
        /\ since \in 0..clock /\ since <= lastRefill /\ timerOn \in BOOLEAN /\ granted \in Nat
    BY DEF BucketInv, TbTypeOK
  <1>1. CASE TbTick
    <2>1. TbTypeOK'
      BY <1>1, <1>a, <1>b DEF TbTick, TbTypeOK
    <2> QED BY <2>1, <1>1 DEF BucketInv, TbTick
  <1>2. CASE ResetBucket
    <2>1. TbTypeOK' /\ (since <= lastRefill)'
      BY <1>2, <1>a, <1>b DEF ResetBucket, TbTypeOK
    <2>2. granted' + tokens' - Capacity = 0 /\ lastRefill' - since' = 0
      BY <1>2, <1>a, <1>b DEF ResetBucket
    <2>3. 0 * Second = 0 /\ 0 * RefillRate = 0
      BY <1>a
    <2> QED BY <2>1, <2>2, <2>3 DEF BucketInv
  <1>3. CASE StopTimer
    BY <1>3, <1>b DEF StopTimer, BucketInv, TbTypeOK
  <1>4. ASSUME NEW count \in 0..(Capacity + 1), TryConsume(count) PROVE BucketInv'
    <2> DEFINE r == Refilled
               had == granted + tokens - Capacity
               got == r.tokens - tokens
               old == lastRefill - since
               new == r.last - lastRefill
    <2>1. r.tokens \in 0..Capacity /\ r.tokens >= tokens /\ r.last \in lastRefill..clock
      BY RefillIsEarned DEF BucketInv
    <2>e. got * Second <= new * RefillRate
      BY RefillIsEarned DEF BucketInv
    <2>2. /\ lastRefill' = r.last /\ granted' + tokens' = granted + r.tokens
          /\ tokens' \in 0..Capacity /\ granted' \in Nat
      BY <1>4, <1>a, <1>b, <2>1 DEF TryConsume
    <2>3. TbTypeOK' /\ (since <= lastRefill)'
      <3>1. clock' = clock /\ timerOn' = timerOn /\ since' = since
        BY <1>4 DEF TryConsume
      <3> HIDE DEF r
      <3> QED BY <1>a, <1>b, <2>1, <2>2, <3>1 DEF TbTypeOK
    <2>i. /\ r.tokens \in Int /\ r.last \in Int /\ tokens \in Int /\ granted \in Int
          /\ Capacity \in Int /\ lastRefill \in Int /\ since \in Int
      <3> HIDE DEF r
      <3> QED BY <1>a, <1>b, <2>1
    <2>4. had \in Int /\ got \in Int /\ old \in Int /\ new \in Int
      <3> HIDE DEF r
      <3> QED BY <2>i
    <2>s. granted' + tokens' - Capacity = had + got /\ lastRefill' - since' = old + new
      <3>1. since' = since
        BY <1>4 DEF TryConsume
      <3>2. granted' + tokens' = granted + r.tokens /\ lastRefill' = r.last
        BY <2>2
      <3>3. tokens' \in Int /\ granted' \in Int
        BY <1>a, <2>2
      <3> HIDE DEF r
      <3> QED BY <2>i, <3>1, <3>2, <3>3
    <2>5. had * Second <= old * RefillRate
      BY DEF BucketInv
    <2> HIDE DEF r, had, got, old, new
    <2>6. (had + got) * Second = had * Second + got * Second /\ had * Second \in Int
          /\ got * Second \in Int
      BY <1>a, <2>4, Distributes
    <2>7. (old + new) * RefillRate = old * RefillRate + new * RefillRate
          /\ old * RefillRate \in Int /\ new * RefillRate \in Int
      BY <1>a, <2>4, Distributes
    <2>8. (had + got) * Second <= (old + new) * RefillRate
      BY <2>e, <2>5, <2>6, <2>7
    <2> QED BY <2>3, <2>s, <2>8 DEF BucketInv
  <1>5. CASE UNCHANGED tbVars
    BY <1>5 DEF tbVars, BucketInv, TbTypeOK
  <1> QED BY <1>1, <1>2, <1>3, <1>4, <1>5 DEF TbNext

LEMMA BucketInvHolds == TbSpec => []BucketInv
  BY BucketInit, BucketStep, PTL DEF TbSpec

\* The tokens never exceed the capacity, and no time is later than the clock.
THEOREM BucketTypeCorrect == TbSpec => []TbTypeOK
  BY BucketInvHolds, PTL DEF BucketInv

\* However often the bucket is refilled and at whatever fractions of a token, consume
\* grants no more than the capacity and the rate allow.
THEOREM BucketIsBounded == TbSpec => []BucketBounds
  <1>1. BucketInv => BucketBounds
    <2> SUFFICES ASSUME BucketInv PROVE BucketBounds
      OBVIOUS
    <2>1. /\ Capacity \in Nat /\ RefillRate \in Nat /\ Second \in Nat /\ MaxTime \in Nat
          /\ tokens \in Int /\ granted \in Int /\ clock \in Nat /\ lastRefill \in Nat
          /\ since \in Nat /\ lastRefill - since <= clock - since
      BY TokenBucketAssumption DEF BucketInv, TbTypeOK
    <2>2. (lastRefill - since) * RefillRate <= (clock - since) * RefillRate
      BY <2>1, ProductGrows
    <2>3. /\ (granted + tokens - Capacity) * Second \in Int
          /\ (lastRefill - since) * RefillRate \in Int /\ (clock - since) * RefillRate \in Int
      BY <2>1, Distributes
    <2> QED BY <2>2, <2>3 DEF BucketInv, BucketBounds
  <1> QED BY <1>1, BucketInvHolds, PTL
================================================================================

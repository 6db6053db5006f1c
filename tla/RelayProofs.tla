------------------------------ MODULE RelayProofs ------------------------------
(*****************************************************************************)
(* Theorems about relays: blacklistings in two files (EnhancedRelays), and the*)
(* scores that decide which relays are offered (RelayScores), for any relays,*)
(* thresholds, latencies and commands.                                       *)
(*****************************************************************************)
EXTENDS EnhancedRelays, RelayScores, FiniteSetTheorems, WellFoundedInduction, TLAPS

----------------------------------------------------------------------------
(* The blacklist. *)

\* A file that the method just run has still to write.
Among(file, writes) == \E k \in 1..Len(writes) : writes[k] = file

\* A record that a failure or a success has left: the flag goes with the reason for it,
\* and a streak of failures has ended that of successes.
SoundStats(s) ==
  /\ s.failures >= Threshold => s.blacklisted
  /\ s.failures > 0 => s.successes = 0
SoundTable(table) == \A r \in DOMAIN table : SoundStats(table[r])

RecordsSound == SoundTable(relays) /\ SoundTable(statsFile) /\ SoundTable(command.stats)

\* A relay that the manager begins with has the flag whenever it is on the list, and
\* one that has been removed is on no list.
ListedFlagged == \A r \in Initial \cap blacklist : r \in Known /\ Blacklisted(r)

\* A command that nothing has overtaken holds what the file holds.
CommandFresh ==
  /\ command.at = "list" /\ ~command.stale => command.list = listFile
  /\ command.at = "stats" /\ ~command.stale => command.stats = statsFile
  /\ command.at # "idle" /\ command.does = "recover" => command.relay \in pardoned

\* What the two files hold of what the manager knows, while no write is lost.
FilesFollow ==
  ~lost =>
    /\ ~Among("list", todo) => blacklist \ pardoned \subseteq listFile
    /\ \A r \in (Known \cap Initial) \ pardoned : Blacklisted(r) =>
         \/ Among("stats", todo) \/ r \in blacklist
         \/ r \in DOMAIN statsFile /\ statsFile[r].blacklisted
    /\ ~Among("stats", todo) => \A r \in Known : LoadedStats(r).successes = relays[r].successes

\* Successes counted, in memory and in the file, were earned since the conviction.
StreaksEarned ==
  /\ convicted \subseteq Known
  /\ ~lost => \A r \in convicted :
       relays[r].successes <= earned[r] /\ LoadedStats(r).successes <= earned[r]

RelaysInv ==
  /\ TypeOK /\ RecordsSound /\ ListedFlagged /\ CommandFresh /\ FilesFollow /\ StreaksEarned

----------------------------------------------------------------------------
(* Tables, and what is left to write. *)

LEMMA Thresholds ==
  /\ Initial \subseteq Relays
  /\ Threshold \in Nat /\ Threshold > 1 /\ RecoverAfter \in Nat /\ RecoverAfter > 0
BY RelaysAssumption

LEMMA TableOf ==
  ASSUME NEW t
  PROVE  t \in Table <=> DOMAIN t \subseteq Relays /\ t \in [DOMAIN t -> Stats]
BY DEF Table

LEMMA NewStatsSound == NewStats \in Stats /\ SoundStats(NewStats)
BY Thresholds DEF NewStats, Stats, SoundStats

\* What unblacklistRelay and the command recoverRelay make of a record.
LEMMA PardonedStats ==
  ASSUME NEW s \in Stats
  PROVE  LET t == [s EXCEPT !.blacklisted = FALSE, !.failures = 0]
         IN t \in Stats /\ SoundStats(t) /\ t.failures = 0 /\ t.successes = s.successes
<1> DEFINE u == [s EXCEPT !.blacklisted = FALSE]
           t == [u EXCEPT !.failures = 0]
<1>1. u \in Stats /\ u.successes = s.successes
  BY DEF Stats
<1>2. t \in Stats /\ t.successes = u.successes /\ t.failures = 0
  <2>1. 0 \in 0..Threshold
    BY Thresholds
  <2>2. t \in Stats
    BY <1>1, <2>1 DEF Stats
  <2> QED
    BY <1>1, <2>2 DEF Stats
<1>3. SoundStats(t)
  BY <1>2, Thresholds DEF SoundStats
<1>4. t = [s EXCEPT !.blacklisted = FALSE, !.failures = 0]
  OBVIOUS
<1> QED
  BY <1>1, <1>2, <1>3, <1>4

LEMMA NoTableSound == NoTable \in Table /\ SoundTable(NoTable) /\ DOMAIN NoTable = {}
<1>1. DOMAIN NoTable = {} /\ NoTable \in [{} -> Stats]
  BY DEF NoTable
<1> QED
  BY <1>1, TableOf DEF SoundTable

\* Changing one record of a table, and adding one.
LEMMA WithTable ==
  ASSUME NEW t \in Table, SoundTable(t), NEW r \in Relays, NEW s \in Stats, SoundStats(s)
  PROVE  With(t, r, s) \in Table /\ SoundTable(With(t, r, s))
<1>1. DOMAIN With(t, r, s) = DOMAIN t \cup {r}
  BY DEF With
<1>2. \A q \in DOMAIN t \cup {r} : With(t, r, s)[q] = IF q = r THEN s ELSE t[q]
  BY DEF With
<1>3. With(t, r, s) \in [DOMAIN t \cup {r} -> Stats]
  BY TableOf DEF With
<1>4. With(t, r, s) \in Table
  BY <1>1, <1>3, TableOf
<1> QED
  BY <1>1, <1>2, <1>4 DEF SoundTable

LEMMA ExceptTable ==
  ASSUME NEW t \in Table, SoundTable(t), NEW r \in DOMAIN t, NEW s \in Stats, SoundStats(s)
  PROVE  /\ [t EXCEPT ![r] = s] \in Table /\ SoundTable([t EXCEPT ![r] = s])
         /\ DOMAIN [t EXCEPT ![r] = s] = DOMAIN t
<1>1. [t EXCEPT ![r] = s] \in [DOMAIN t -> Stats] /\ DOMAIN [t EXCEPT ![r] = s] = DOMAIN t
  BY TableOf
<1> QED
  BY <1>1, TableOf DEF SoundTable

LEMMA WithoutTable ==
  ASSUME NEW t \in Table, SoundTable(t), NEW r
  PROVE  /\ WithoutRelay(t, r) \in Table /\ SoundTable(WithoutRelay(t, r))
         /\ DOMAIN WithoutRelay(t, r) = DOMAIN t \ {r}
         /\ \A q \in DOMAIN t \ {r} : WithoutRelay(t, r)[q] = t[q]
<1>1. /\ DOMAIN WithoutRelay(t, r) = DOMAIN t \ {r}
      /\ \A q \in DOMAIN t \ {r} : WithoutRelay(t, r)[q] = t[q]
  BY DEF WithoutRelay, Restrict
<1>2. WithoutRelay(t, r) \in [DOMAIN t \ {r} -> Stats]
  BY TableOf DEF WithoutRelay, Restrict
<1> QED
  BY <1>1, <1>2, TableOf DEF SoundTable

Writes == {w \in Seq({"list", "stats"}) : Len(w) <= 3}

LEMMA WritesLeft ==
  ASSUME todo \in Writes, todo # <<>>
  PROVE  /\ Tail(todo) \in Writes /\ Head(todo) \in {"list", "stats"}
         /\ \A f : Among(f, todo) => f = Head(todo) \/ Among(f, Tail(todo))
<1> DEFINE F == {"list", "stats"}
<1>1. todo \in Seq(F) /\ Len(todo) <= 3 /\ Len(todo) \in Nat
  BY DEF Writes
<1>2. Len(todo) > 0 /\ Head(todo) = todo[1]
  BY <1>1
<1>3. Tail(todo) \in Seq(F) /\ Len(Tail(todo)) = Len(todo) - 1
  BY <1>1
<1>4. \A k \in 1..Len(Tail(todo)) : Tail(todo)[k] = todo[k + 1]
  BY <1>1, <1>2, <1>3
<1>5. Head(todo) \in F
  BY <1>1, <1>2
<1>6. /\ Len(todo) \in Nat /\ Len(todo) > 0 /\ Len(Tail(todo)) = Len(todo) - 1
      /\ \A k \in 1..Len(Tail(todo)) : Tail(todo)[k] = todo[k + 1]
  BY <1>1, <1>2, <1>3, <1>4
<1>7. ASSUME NEW f, Among(f, todo), f # Head(todo) PROVE Among(f, Tail(todo))
  <2>1. PICK k \in 1..Len(todo) : todo[k] = f
    BY <1>7 DEF Among
  <2>2. k # 1 /\ k - 1 \in 1..Len(Tail(todo)) /\ Tail(todo)[k - 1] = f
    BY <1>6, <1>7, <1>2, <2>1
  <2> QED
    BY <2>2 DEF Among
<1> QED
  BY <1>7, <1>1, <1>3, <1>5 DEF Writes

LEMMA NoWrites == <<>> \in Writes /\ \A f : ~Among(f, <<>>)
BY DEF Among, Writes

\* What each kind of method leaves to write.
LEMMA MethodWrites ==
  /\ \A w \in {<<"list", "stats">>, <<"stats", "list">>, <<"list", "stats", "stats">>} :
       w \in Writes /\ Among("list", w) /\ Among("stats", w)
  /\ <<"stats">> \in Writes /\ Among("stats", <<"stats">>)
<1>1. <<"list", "stats">> \in Writes /\ Among("list", <<"list", "stats">>)
      /\ Among("stats", <<"list", "stats">>)
  BY DEF Writes, Among
<1>2. <<"stats", "list">> \in Writes /\ Among("list", <<"stats", "list">>)
      /\ Among("stats", <<"stats", "list">>)
  BY DEF Writes, Among
<1>3. <<"list", "stats", "stats">> \in Writes /\ Among("list", <<"list", "stats", "stats">>)
      /\ Among("stats", <<"list", "stats", "stats">>)
  BY DEF Writes, Among
<1>4. <<"stats">> \in Writes /\ Among("stats", <<"stats">>)
  BY DEF Writes, Among
<1> QED
  BY <1>1, <1>2, <1>3, <1>4

----------------------------------------------------------------------------
(* The methods of the manager. *)

\* A method that gives relay r the record s, and writes what has changed.
MethodOn(r, s, w) ==
  /\ r \in Known /\ s \in Stats /\ SoundStats(s) /\ relays' = [relays EXCEPT ![r] = s]
  /\ w \in Writes /\ Among("stats", w) /\ Method(w)
  /\ blacklist' \subseteq Relays /\ blacklist' \ {r} = blacklist \ {r}
  /\ r \in Initial \cap blacklist' => s.blacklisted
  /\ Among("list", w) \/ blacklist' = blacklist
  /\ convicted' \subseteq convicted \cup {r}
  /\ earned' \in [Relays -> 0..RecoverAfter] /\ \A q \in Relays \ {r} : earned'[q] = earned[q]
  /\ r \in convicted' /\ ~lost =>
       s.successes <= earned'[r] /\ LoadedStats(r).successes <= earned'[r]

LEMMA MethodKeeps ==
  ASSUME RelaysInv, NEW r, NEW s, NEW w, MethodOn(r, s, w)
  PROVE  RelaysInv'
<1> USE DEF RelaysInv, MethodOn, Known, Blacklisted
<1>1. r \in Relays /\ relays \in Table /\ SoundTable(relays) /\ todo = <<>> /\ todo' = w
  BY TableOf DEF TypeOK, RecordsSound, Method
<1>2. relays' \in Table /\ SoundTable(relays') /\ DOMAIN relays' = DOMAIN relays
  BY <1>1, ExceptTable
<1>3. relays'[r] = s /\ \A q \in Known \ {r} : relays'[q] = relays[q]
  BY <1>1, TableOf
<1>4. /\ statsFile' = statsFile /\ listFile' = listFile /\ command' = command
      /\ lost' = lost /\ pardoned' = pardoned
  BY DEF Method, files
<1>5. TypeOK'
  <2>1. todo' \in Seq({"list", "stats"}) /\ Len(todo') <= 3
    BY <1>1 DEF Writes
  <2>2. convicted' \subseteq Relays
    BY <1>1 DEF TypeOK
  <2> QED
    BY <1>2, <1>4, <2>1, <2>2 DEF TypeOK
<1>6. RecordsSound'
  BY <1>2, <1>4 DEF RecordsSound, SoundTable, SoundStats
<1>7. ListedFlagged'
  BY <1>2, <1>3 DEF ListedFlagged
<1>8. CommandFresh'
  BY <1>4 DEF CommandFresh
<1>9. FilesFollow'
  <2>1. ~Among("list", todo') => blacklist' = blacklist /\ ~Among("list", todo)
    BY <1>1, NoWrites
  <2>2. Among("stats", todo')
    BY <1>1
  <2> QED
    BY <1>4, <2>1, <2>2 DEF FilesFollow
<1>10. StreaksEarned'
  <2>1. convicted' \subseteq Known'
    BY <1>2 DEF StreaksEarned
  <2>2. \A q : LoadedStats(q)' = LoadedStats(q)
    BY <1>4 DEF LoadedStats
  <2>3. ASSUME ~lost', NEW q \in convicted'
        PROVE  relays'[q].successes <= earned'[q] /\ LoadedStats(q)'.successes <= earned'[q]
    <3>1. CASE q = r
      BY <1>3, <1>4, <2>2, <2>3, <3>1
    <3>2. CASE q # r
      <4>1. q \in convicted /\ q \in Known /\ q \in Relays
        BY <1>1, <2>3, <3>2, TableOf DEF StreaksEarned
      <4> QED
        BY <1>3, <1>4, <2>2, <2>3, <3>2, <4>1 DEF StreaksEarned
    <3> QED
      BY <3>1, <3>2
  <2> QED
    BY <2>1, <2>3 DEF StreaksEarned
<1> QED
  BY <1>5, <1>6, <1>7, <1>8, <1>9, <1>10 DEF RelaysInv

\* The record of a known relay, and what its streaks are at a method.
LEMMA KnownRecord ==
  ASSUME RelaysInv, NEW r \in Known
  PROVE  /\ r \in Relays /\ relays[r] \in Stats /\ SoundStats(relays[r])
         /\ relays[r].failures \in 0..Threshold /\ relays[r].successes \in 0..RecoverAfter
         /\ relays[r].blacklisted \in BOOLEAN
         /\ earned[r] \in 0..RecoverAfter
         /\ r \in Initial /\ r \in blacklist => relays[r].blacklisted
         /\ todo = <<>> /\ ~lost => LoadedStats(r).successes = relays[r].successes
<1>1. r \in Relays /\ relays[r] \in Stats /\ SoundStats(relays[r]) /\ earned[r] \in 0..RecoverAfter
  BY TableOf DEF RelaysInv, TypeOK, RecordsSound, SoundTable, Known
<1>2. /\ relays[r].failures \in 0..Threshold /\ relays[r].successes \in 0..RecoverAfter
      /\ relays[r].blacklisted \in BOOLEAN
  BY <1>1 DEF Stats
<1> QED
  BY <1>1, <1>2, NoWrites DEF RelaysInv, ListedFlagged, FilesFollow, Known, Blacklisted

LEMMA RecordSuccessKeeps ==
  ASSUME RelaysInv, NEW r \in Relays, RecordSuccess(r) PROVE RelaysInv'
<1> DEFINE s == relays[r]
           t == [failures |-> 0, successes |-> UpTo(s.successes + 1, RecoverAfter),
                 blacklisted |-> s.blacklisted /\ ~Recovers(s)]
           w == IF Recovers(s) THEN <<"list", "stats">> ELSE <<"stats">>
<1>1. /\ r \in Known /\ Earned(r) /\ relays' = [relays EXCEPT ![r] = t] /\ Method(w)
      /\ Recovers(s) => blacklist' = blacklist \ {r} /\ convicted' = convicted \ {r}
      /\ ~Recovers(s) => blacklist' = blacklist /\ convicted' = convicted
  BY DEF RecordSuccess
<1>2. /\ s.failures \in 0..Threshold /\ s.successes \in 0..RecoverAfter
      /\ s.blacklisted \in BOOLEAN /\ earned[r] \in 0..RecoverAfter
  BY <1>1, KnownRecord
<1>3. UpTo(s.successes + 1, RecoverAfter) \in 0..RecoverAfter
  BY <1>2, Thresholds DEF UpTo
<1>4. t \in Stats /\ SoundStats(t)
  BY <1>2, <1>3, Thresholds DEF Stats, SoundStats, Recovers
<1>5. w \in Writes /\ Among("stats", w) /\ (Among("list", w) \/ ~Recovers(s))
  BY MethodWrites
<1>6. earned' = [earned EXCEPT ![r] = UpTo(earned[r] + 1, RecoverAfter)]
  BY <1>1 DEF Earned
<1>7. /\ earned' \in [Relays -> 0..RecoverAfter]
      /\ earned'[r] = UpTo(earned[r] + 1, RecoverAfter)
      /\ \A q \in Relays \ {r} : earned'[q] = earned[q]
  BY <1>2, <1>6, <1>3, Thresholds DEF RelaysInv, TypeOK, UpTo
<1>8. r \in Initial \cap blacklist' => t.blacklisted
  BY <1>1, KnownRecord
<1>9. r \in convicted' /\ ~lost =>
        t.successes <= earned'[r] /\ LoadedStats(r).successes <= earned'[r]
  <2> SUFFICES ASSUME r \in convicted', ~lost
               PROVE  t.successes <= earned'[r] /\ LoadedStats(r).successes <= earned'[r]
    OBVIOUS
  <2>1. r \in convicted /\ todo = <<>>
    BY <1>1 DEF Method
  <2>2. s.successes <= earned[r] /\ LoadedStats(r).successes = s.successes
    BY <1>1, <2>1, KnownRecord DEF RelaysInv, StreaksEarned
  <2>3. /\ UpTo(s.successes + 1, RecoverAfter) <= UpTo(earned[r] + 1, RecoverAfter)
        /\ s.successes <= UpTo(earned[r] + 1, RecoverAfter)
    BY <1>2, <2>2, Thresholds DEF UpTo
  <2> QED
    BY <1>7, <2>2, <2>3
<1>10. blacklist' \subseteq Relays /\ blacklist' \ {r} = blacklist \ {r}
  BY <1>1 DEF RelaysInv, TypeOK
<1>11. MethodOn(r, t, w)
  BY <1>1, <1>4, <1>5, <1>7, <1>8, <1>9, <1>10 DEF MethodOn
<1> QED
  BY <1>11, MethodKeeps

LEMMA RecordFailureKeeps ==
  ASSUME RelaysInv, NEW r \in Relays, RecordFailure(r) PROVE RelaysInv'
<1> DEFINE s == relays[r]
           out == ~s.blacklisted /\ s.failures + 1 >= Threshold
           t == [failures |-> UpTo(s.failures + 1, Threshold), successes |-> 0,
                 blacklisted |-> s.blacklisted \/ s.failures + 1 >= Threshold]
           w == IF out THEN <<"list", "stats", "stats">> ELSE <<"stats">>
<1>1. /\ r \in Known /\ relays' = [relays EXCEPT ![r] = t] /\ Method(w)
      /\ out => Convict(r)
      /\ ~out => blacklist' = blacklist /\ convicted' = convicted /\ earned' = earned
  BY DEF RecordFailure
<1>2. /\ s.failures \in 0..Threshold /\ s.successes \in 0..RecoverAfter
      /\ s.blacklisted \in BOOLEAN /\ earned[r] \in 0..RecoverAfter /\ SoundStats(s)
  BY <1>1, KnownRecord
<1>3. /\ UpTo(s.failures + 1, Threshold) \in 0..Threshold
      /\ UpTo(s.failures + 1, Threshold) >= Threshold => s.failures + 1 >= Threshold
  BY <1>2, Thresholds DEF UpTo
<1>4. t \in Stats /\ SoundStats(t)
  <2>1. t.failures >= Threshold => t.blacklisted
    BY <1>3
  <2>2. (s.blacklisted \/ s.failures + 1 >= Threshold) \in BOOLEAN
    OBVIOUS
  <2>3. t \in Stats
    BY <1>3, <2>2, Thresholds DEF Stats
  <2> QED
    BY <2>1, <2>3 DEF SoundStats
<1>5. w \in Writes /\ Among("stats", w) /\ (Among("list", w) \/ ~out)
  BY MethodWrites
<1>6. /\ earned' \in [Relays -> 0..RecoverAfter] /\ (out => earned'[r] = 0)
      /\ \A q \in Relays \ {r} : earned'[q] = earned[q]
  BY <1>1, Thresholds DEF RelaysInv, TypeOK, Convict
<1>7. r \in Initial \cap blacklist' => t.blacklisted
  BY <1>1, KnownRecord
<1>8. r \in convicted' /\ ~lost =>
        t.successes <= earned'[r] /\ LoadedStats(r).successes <= earned'[r]
  <2> SUFFICES ASSUME r \in convicted', ~lost
               PROVE  0 <= earned'[r] /\ LoadedStats(r).successes <= earned'[r]
    OBVIOUS
  <2>1. LoadedStats(r).successes = s.successes
    BY <1>1, KnownRecord DEF Method
  <2>2. CASE out
    \* It has failed before, at least once, which ended its streak of successes.
    <3>1. s.failures > 0
      BY <1>2, <2>2, Thresholds
    <3> QED
      BY <1>2, <1>6, <2>1, <2>2, <3>1 DEF SoundStats
  <2>3. CASE ~out
    BY <1>1, <1>2, <2>1, <2>3 DEF RelaysInv, StreaksEarned
  <2> QED
    BY <2>2, <2>3
<1>9. /\ blacklist' \subseteq Relays /\ blacklist' \ {r} = blacklist \ {r}
      /\ convicted' \subseteq convicted \cup {r}
  BY <1>1 DEF RelaysInv, TypeOK, Convict
<1>10. MethodOn(r, t, w)
  BY <1>1, <1>4, <1>5, <1>6, <1>7, <1>8, <1>9 DEF MethodOn
<1> QED
  BY <1>10, MethodKeeps

LEMMA ByHandKeeps ==
  ASSUME RelaysInv, NEW r \in Relays,
         BlacklistRelay(r) \/ UnblacklistRelay(r) \/ ResetRelay(r)
  PROVE  RelaysInv'
<1> DEFINE s == relays[r]
<1>1. r \in Known
  BY DEF BlacklistRelay, UnblacklistRelay, ResetRelay
<1>2. /\ relays \in [Known -> Stats] /\ s \in Stats /\ SoundStats(s)
      /\ s.failures \in 0..Threshold /\ s.successes \in 0..RecoverAfter
  BY <1>1, KnownRecord, TableOf DEF RelaysInv, TypeOK, Known
<1>3. CASE BlacklistRelay(r)
  <2> DEFINE t == [s EXCEPT !.blacklisted = TRUE]
  <2>1. relays' = [relays EXCEPT ![r] = t] /\ Method(<<"list", "stats">>)
        /\ blacklist' = blacklist \cup {r} /\ convicted' = convicted /\ earned' = earned
    BY <1>1, <1>2, <1>3 DEF BlacklistRelay
  <2>2. t \in Stats /\ SoundStats(t) /\ t.successes = s.successes /\ t.blacklisted
    BY <1>2 DEF Stats, SoundStats
  <2>3. r \in convicted' /\ ~lost =>
          t.successes <= earned'[r] /\ LoadedStats(r).successes <= earned'[r]
    BY <1>1, <2>1, <2>2 DEF RelaysInv, StreaksEarned
  <2>4. MethodOn(r, t, <<"list", "stats">>)
    BY <1>1, <2>1, <2>2, <2>3, MethodWrites DEF MethodOn, RelaysInv, TypeOK
  <2> QED
    BY <2>4, MethodKeeps
<1>4. CASE UnblacklistRelay(r)
  <2> DEFINE t == [s EXCEPT !.blacklisted = FALSE, !.failures = 0]
  <2>1. relays' = [relays EXCEPT ![r] = t] /\ Method(<<"list", "stats">>) /\ Unlisted(r)
    BY <1>1, <1>2, <1>4 DEF UnblacklistRelay
  <2>2. t \in Stats /\ SoundStats(t)
    BY <1>2, PardonedStats
  <2>3. MethodOn(r, t, <<"list", "stats">>)
    BY <1>1, <2>1, <2>2, MethodWrites DEF MethodOn, Unlisted, RelaysInv, TypeOK
  <2> QED
    BY <2>3, MethodKeeps
<1>5. CASE ResetRelay(r)
  <2>1. relays' = [relays EXCEPT ![r] = NewStats] /\ Method(<<"stats", "list">>) /\ Unlisted(r)
    BY <1>5 DEF ResetRelay
  <2>2. MethodOn(r, NewStats, <<"stats", "list">>)
    BY <1>1, <2>1, NewStatsSound, MethodWrites DEF MethodOn, Unlisted, RelaysInv, TypeOK
  <2> QED
    BY <2>2, MethodKeeps
<1> QED
  BY <1>3, <1>4, <1>5

LEMMA RemoveRelayKeeps ==
  ASSUME RelaysInv, NEW r \in Relays, RemoveRelay(r) PROVE RelaysInv'
<1> DEFINE w == <<"stats", "list">>
<1>1. /\ r \in Known /\ relays' = WithoutRelay(relays, r) /\ Method(w)
      /\ blacklist' = blacklist \ {r} /\ convicted' = convicted \ {r} /\ earned' = earned
  BY DEF RemoveRelay, Unlisted
<1>2. /\ relays' \in Table /\ SoundTable(relays') /\ DOMAIN relays' = DOMAIN relays \ {r}
      /\ \A q \in DOMAIN relays \ {r} : relays'[q] = relays[q]
  BY <1>1, WithoutTable DEF RelaysInv, TypeOK, RecordsSound
<1>3. /\ todo = <<>> /\ todo' = w /\ UNCHANGED <<statsFile, listFile, command, lost, pardoned>>
  BY <1>1 DEF Method, files
<1>4. w \in Writes /\ Among("stats", w) /\ Among("list", w)
  BY MethodWrites
<1>5. TypeOK' /\ RecordsSound'
  BY <1>1, <1>2, <1>3, <1>4 DEF RelaysInv, TypeOK, Writes, RecordsSound, SoundTable, SoundStats
<1>6. ListedFlagged' /\ CommandFresh'
  BY <1>1, <1>2, <1>3 DEF RelaysInv, ListedFlagged, CommandFresh, Known, Blacklisted
<1>7. FilesFollow'
  BY <1>3, <1>4 DEF FilesFollow
<1>8. StreaksEarned'
  BY <1>1, <1>2, <1>3 DEF RelaysInv, StreaksEarned, LoadedStats, Known
<1> QED
  BY <1>5, <1>6, <1>7, <1>8 DEF RelaysInv

LEMMA AddRelayKeeps ==
  ASSUME RelaysInv, NEW r \in Relays, AddRelay(r) PROVE RelaysInv'
<1> DEFINE w == <<"stats">>
<1>1. /\ r \notin Known /\ relays' = With(relays, r, NewStats) /\ Method(w)
      /\ blacklist' = blacklist /\ convicted' = convicted /\ earned' = earned
  BY DEF AddRelay
<1>2. relays' \in Table /\ SoundTable(relays')
  BY <1>1, WithTable, NewStatsSound DEF RelaysInv, TypeOK, RecordsSound
<1>3. /\ DOMAIN relays' = DOMAIN relays \cup {r}
      /\ \A q \in DOMAIN relays : relays'[q] = relays[q]
  BY <1>1 DEF With, Known
<1>4. /\ todo = <<>> /\ todo' = w /\ UNCHANGED <<statsFile, listFile, command, lost, pardoned>>
  BY <1>1 DEF Method, files
<1>5. w \in Writes /\ Among("stats", w)
  BY MethodWrites
<1>6. TypeOK' /\ RecordsSound'
  BY <1>1, <1>2, <1>4, <1>5 DEF RelaysInv, TypeOK, Writes, RecordsSound, SoundTable, SoundStats
<1>7. ListedFlagged' /\ CommandFresh'
  BY <1>1, <1>3, <1>4 DEF RelaysInv, ListedFlagged, CommandFresh, Known, Blacklisted
<1>8. FilesFollow'
  BY <1>1, <1>4, <1>5, NoWrites DEF RelaysInv, FilesFollow
<1>9. StreaksEarned'
  BY <1>1, <1>3, <1>4 DEF RelaysInv, StreaksEarned, LoadedStats, Known
<1> QED
  BY <1>6, <1>7, <1>8, <1>9 DEF RelaysInv

----------------------------------------------------------------------------
(* The files, the end of the process, and the commands. *)

LEMMA WriteFileKeeps == ASSUME RelaysInv, WriteFile PROVE RelaysInv'
<1> USE DEF RelaysInv, files, history
<1>1. /\ todo \in Writes /\ todo' = Tail(todo) /\ todo' \in Writes
      /\ Head(todo) \in {"list", "stats"}
      /\ \A f : Among(f, todo) => f = Head(todo) \/ Among(f, todo')
  BY WritesLeft DEF WriteFile, TypeOK, Writes
<1>2. UNCHANGED <<relays, blacklist, lost, pardoned, earned, convicted>>
  BY DEF WriteFile
<1>3. /\ command' = [command EXCEPT !.stale = command'.stale] /\ command'.stale \in BOOLEAN
      /\ command' \in Command
      /\ command'.at = command.at /\ command'.list = command.list
      /\ command'.stats = command.stats /\ command'.relay = command.relay
      /\ command'.does = command.does
      /\ command.stale => command'.stale
      /\ command.at = Head(todo) => command'.stale
  BY DEF WriteFile, Overtakes, TypeOK, Command
<1>4. CASE Head(todo) = "list"
  <2>1. listFile' = blacklist /\ statsFile' = statsFile
    BY <1>4 DEF WriteFile
  <2>2. TypeOK' /\ RecordsSound'
    BY <1>1, <1>2, <1>3, <2>1 DEF TypeOK, Writes, RecordsSound, SoundTable, SoundStats
  <2>3. ListedFlagged' /\ CommandFresh'
    BY <1>2, <1>3, <1>4, <2>1 DEF ListedFlagged, CommandFresh, Known, Blacklisted
  <2>4. FilesFollow' /\ StreaksEarned'
    BY <1>1, <1>2, <1>4, <2>1 DEF FilesFollow, StreaksEarned, LoadedStats, Known, Blacklisted
  <2> QED
    BY <2>2, <2>3, <2>4
<1>5. CASE Head(todo) = "stats"
  <2>1. statsFile' = relays /\ listFile' = listFile
    BY <1>5 DEF WriteFile
  <2>2. TypeOK' /\ RecordsSound'
    BY <1>1, <1>2, <1>3, <2>1 DEF TypeOK, Writes, RecordsSound, SoundTable, SoundStats
  <2>3. ListedFlagged' /\ CommandFresh'
    BY <1>2, <1>3, <1>5, <2>1 DEF ListedFlagged, CommandFresh, Known, Blacklisted
  <2>4. FilesFollow' /\ StreaksEarned'
    BY <1>1, <1>2, <1>5, <2>1 DEF FilesFollow, StreaksEarned, LoadedStats, Known, Blacklisted
  <2> QED
    BY <2>2, <2>3, <2>4
<1> QED
  BY <1>1, <1>4, <1>5

LEMMA WriteFailsKeeps == ASSUME RelaysInv, WriteFails PROVE RelaysInv'
<1>1. /\ todo' \in Writes /\ lost'
      /\ UNCHANGED <<relays, blacklist, statsFile, listFile, command, pardoned, earned, convicted>>
  BY WritesLeft DEF WriteFails, files, RelaysInv, TypeOK, Writes
<1> QED
  BY <1>1 DEF RelaysInv, TypeOK, Writes, RecordsSound, SoundTable, SoundStats, ListedFlagged,
       CommandFresh, FilesFollow, StreaksEarned, Known, Blacklisted

LEMMA RestartKeeps == ASSUME RelaysInv, Restart PROVE RelaysInv'
<1> USE DEF RelaysInv, files
<1>1. /\ relays' = [r \in Initial |-> Loaded(r)] /\ blacklist' = listFile /\ todo' = <<>>
      /\ pardoned' = IF command.at # "idle" /\ command.does = "recover"
                     THEN {command.relay} ELSE {}
      /\ convicted' \subseteq convicted \cap Initial
      /\ UNCHANGED <<statsFile, listFile, command, lost, earned>>
  BY DEF Restart
<1>2. \A r \in Relays :
        LoadedStats(r) \in Stats /\ SoundStats(LoadedStats(r)) /\ LoadedStats(r)' = LoadedStats(r)
  BY <1>1, NewStatsSound, TableOf DEF TypeOK, RecordsSound, SoundTable, LoadedStats
<1>3. \A r \in Relays :
        /\ Loaded(r) \in Stats /\ SoundStats(Loaded(r))
        /\ Loaded(r).blacklisted <=> LoadedStats(r).blacklisted \/ r \in listFile
        /\ Loaded(r).successes = LoadedStats(r).successes
  <2> SUFFICES ASSUME NEW r \in Relays
      PROVE /\ Loaded(r) \in Stats /\ SoundStats(Loaded(r))
            /\ Loaded(r).blacklisted <=> LoadedStats(r).blacklisted \/ r \in listFile
            /\ Loaded(r).successes = LoadedStats(r).successes
    OBVIOUS
  <2>1. Loaded(r) = [LoadedStats(r) EXCEPT !.blacklisted = LoadedStats(r).blacklisted \/ r \in listFile]
    BY DEF Loaded
  <2>2. (LoadedStats(r).blacklisted \/ r \in listFile) \in BOOLEAN
    OBVIOUS
  <2> QED
    BY <1>2, <2>1, <2>2 DEF Stats, SoundStats
<1>4. /\ DOMAIN relays' = Initial /\ \A r \in Initial : relays'[r] = Loaded(r)
      /\ relays' \in [Initial -> Stats] /\ Initial \subseteq Relays
  BY <1>1, <1>3, Thresholds
<1>5. TypeOK' /\ RecordsSound'
  <2>1. relays' \in Table /\ SoundTable(relays')
    BY <1>3, <1>4, TableOf DEF SoundTable
  <2>2. todo' \in Writes
    BY <1>1, NoWrites
  <2>3. pardoned' \subseteq Relays
    BY <1>1 DEF TypeOK, Command
  <2> QED
    BY <1>1, <2>1, <2>2, <2>3 DEF TypeOK, Writes, RecordsSound, SoundTable, SoundStats
<1>6. ListedFlagged' /\ CommandFresh'
  BY <1>1, <1>3, <1>4 DEF ListedFlagged, CommandFresh, Known, Blacklisted
<1>7. FilesFollow'
  <2>1. blacklist' \ pardoned' \subseteq listFile'
    BY <1>1
  <2>2. \A r \in Initial : relays'[r].blacklisted =>
          r \in blacklist' \/ (r \in DOMAIN statsFile' /\ statsFile'[r].blacklisted)
    BY <1>1, <1>3, <1>4 DEF LoadedStats, NewStats
  <2>3. \A r \in Initial : LoadedStats(r)'.successes = relays'[r].successes
    BY <1>2, <1>3, <1>4
  <2> QED
    BY <1>4, <2>1, <2>2, <2>3 DEF FilesFollow, Known, Blacklisted
<1>8. StreaksEarned'
  BY <1>1, <1>2, <1>3, <1>4 DEF StreaksEarned, Known
<1> QED
  BY <1>5, <1>6, <1>7, <1>8

LEMMA CommandKeeps ==
  ASSUME RelaysInv, \/ \E r \in Relays, does \in {"blacklist", "recover"} : ReadList(does, r)
                    \/ WriteList \/ ReadStats \/ WriteStats \/ CommandEnds
  PROVE  RelaysInv'
<1> USE DEF RelaysInv, files, history
<1> DEFINE Same == UNCHANGED <<relays, blacklist, todo, earned, convicted>>
<1>1. Same /\ command \in Command
  BY DEF ReadList, WriteList, ReadStats, WriteStats, CommandEnds, TypeOK
<1>2. ASSUME /\ statsFile' \in Table /\ SoundTable(statsFile') /\ listFile' \subseteq Relays
             /\ lost' \in BOOLEAN /\ pardoned' \subseteq Relays
             /\ command' \in Command /\ SoundTable(command'.stats)
      PROVE  TypeOK' /\ RecordsSound' /\ ListedFlagged'
  BY <1>1, <1>2 DEF TypeOK, RecordsSound, ListedFlagged, Known, Blacklisted, SoundTable, SoundStats
<1>3. ASSUME UNCHANGED statsFile \/ (lost' \/ \A r \in Relays :
               LoadedStats(r)'.successes = LoadedStats(r).successes), lost => lost'
      PROVE  StreaksEarned'
  <2>1. \A r \in convicted : r \in Relays
    BY DEF TypeOK
  <2> QED
    BY <1>1, <1>3, <2>1 DEF StreaksEarned, Known, LoadedStats
<1>4. ASSUME NEW r \in Relays, NEW does \in {"blacklist", "recover"}, ReadList(does, r)
      PROVE  RelaysInv'
  <2>1. /\ command' = [command EXCEPT !.at = "list", !.does = does, !.relay = r,
                         !.list = listFile, !.stats = NoTable, !.stale = FALSE]
        /\ pardoned' = IF does = "recover" THEN pardoned \cup {r} ELSE pardoned
        /\ UNCHANGED <<statsFile, listFile, lost>>
    BY <1>4 DEF ReadList
  <2>2. /\ command' \in Command /\ command'.at = "list" /\ command'.list = listFile
        /\ command'.stats = NoTable /\ command'.does = does /\ command'.relay = r
    BY <1>1, <2>1, NoTableSound DEF Command, TypeOK
  <2>3. TypeOK' /\ RecordsSound' /\ ListedFlagged'
    BY <1>2, <2>1, <2>2, NoTableSound DEF TypeOK, RecordsSound
  <2>4. CommandFresh'
    BY <2>1, <2>2 DEF CommandFresh
  <2>5. FilesFollow'
    BY <1>1, <2>1 DEF FilesFollow, LoadedStats, Known, Blacklisted
  <2> QED
    BY <1>3, <2>1, <2>3, <2>4, <2>5
<1>5. CASE WriteList
  <2>1. /\ command.at = "list" /\ listFile' = Edited(command.list)
        /\ lost' = (lost \/ command.stale)
        /\ command' = [command EXCEPT !.at = "listed", !.stale = FALSE]
        /\ UNCHANGED <<statsFile, pardoned>>
    BY <1>5 DEF WriteList, Goto
  <2>2. /\ command' \in Command /\ command'.at = "listed" /\ command'.stats = command.stats
        /\ command'.does = command.does /\ command'.relay = command.relay
    BY <1>1, <2>1 DEF Command
  <2>3. listFile' \subseteq Relays /\ lost' \in BOOLEAN
    BY <1>1, <2>1 DEF Command, Edited, TypeOK
  <2>4. TypeOK' /\ RecordsSound' /\ ListedFlagged'
    BY <1>2, <2>1, <2>2, <2>3 DEF TypeOK, RecordsSound
  <2>5. CommandFresh'
    BY <2>1, <2>2 DEF CommandFresh
  <2>6. FilesFollow'
    <3>1. ~lost' => listFile \ pardoned \subseteq listFile'
      BY <1>1, <2>1 DEF Edited, CommandFresh, Command
    <3> QED
      BY <1>1, <2>1, <3>1 DEF FilesFollow, LoadedStats, Known, Blacklisted
  <2> QED
    BY <1>3, <2>1, <2>4, <2>5, <2>6
<1>6. CASE ReadStats
  <2>1. /\ command.at = "listed"
        /\ \/ command' = [command EXCEPT !.at = "stats", !.stats = statsFile]
           \/ command' = [command EXCEPT !.at = "idle", !.stale = FALSE]
        /\ UNCHANGED <<statsFile, listFile, lost, pardoned>>
    BY <1>6 DEF ReadStats, Goto
  <2>2. /\ command' \in Command /\ command'.at \in {"stats", "idle"}
        /\ command'.at = "stats" => command'.stats = statsFile
        /\ command'.stats \in {statsFile, command.stats}
        /\ command'.does = command.does /\ command'.relay = command.relay
    BY <1>1, <2>1 DEF Command, TypeOK
  <2>3. TypeOK' /\ RecordsSound' /\ ListedFlagged'
    BY <1>2, <2>1, <2>2 DEF TypeOK, RecordsSound
  <2>4. CommandFresh'
    BY <2>1, <2>2 DEF CommandFresh
  <2>5. FilesFollow'
    BY <1>1, <2>1 DEF FilesFollow, LoadedStats, Known, Blacklisted
  <2> QED
    BY <1>3, <2>1, <2>3, <2>4, <2>5
<1>7. CASE WriteStats
  <2> DEFINE t == command.stats
             r == command.relay
             s == IF r \in DOMAIN t THEN t[r] ELSE NewStats
             old == [s EXCEPT !.blacklisted = TRUE]
             new == [t[r] EXCEPT !.blacklisted = FALSE, !.failures = 0]
  <2>1. /\ command.at = "stats"
        /\ command.does = "blacklist" => statsFile' = With(t, r, old)
        /\ command.does # "blacklist" => statsFile' = Pardoned(t, r)
        /\ lost' = (lost \/ command.stale)
        /\ command' = [command EXCEPT !.at = "idle", !.list = {}, !.stats = NoTable, !.stale = FALSE]
        /\ UNCHANGED <<listFile, pardoned>>
    BY <1>7 DEF WriteStats, Condemned
  <2>2. command' \in Command /\ command'.at = "idle" /\ command'.stats = NoTable
    BY <1>1, <2>1, NoTableSound DEF Command
  <2>3. /\ t \in Table /\ SoundTable(t) /\ t \in [DOMAIN t -> Stats] /\ r \in Relays
        /\ s \in Stats /\ SoundStats(s) /\ command.does \in {"blacklist", "recover"}
    BY <1>1, NewStatsSound, TableOf DEF RecordsSound, SoundTable, Command
  <2>4. old \in Stats /\ SoundStats(old) /\ old.successes = s.successes /\ old.blacklisted
    BY <2>3 DEF Stats, SoundStats
  <2>5. r \in DOMAIN t => /\ new \in Stats /\ new.failures = 0 /\ new.successes = t[r].successes
                          /\ Pardoned(t, r) = [t EXCEPT ![r] = new]
    <3> SUFFICES ASSUME r \in DOMAIN t
                 PROVE  /\ new \in Stats /\ new.failures = 0 /\ new.successes = t[r].successes
                        /\ Pardoned(t, r) = [t EXCEPT ![r] = new]
      OBVIOUS
    <3>1. t[r] \in Stats
      BY <2>3
    <3>2. new \in Stats /\ new.failures = 0 /\ new.successes = t[r].successes
      BY <3>1, PardonedStats
    <3>3. Pardoned(t, r) = [t EXCEPT ![r] = new]
      BY <2>3 DEF Pardoned
    <3> QED
      BY <3>2, <3>3
  <2>6. r \in DOMAIN t => SoundStats(new)
    BY <2>5, Thresholds DEF SoundStats
  <2>7. statsFile' \in Table /\ SoundTable(statsFile')
    <3>1. CASE command.does = "blacklist"
      BY <2>1, <2>3, <2>4, <3>1, WithTable
    <3>2. CASE command.does # "blacklist" /\ r \in DOMAIN t
      BY <2>1, <2>3, <2>5, <2>6, <3>2, ExceptTable
    <3>3. CASE command.does # "blacklist" /\ r \notin DOMAIN t
      BY <2>1, <2>3, <3>3 DEF Pardoned
    <3> QED
      BY <3>1, <3>2, <3>3
  <2>8. TypeOK' /\ RecordsSound' /\ ListedFlagged'
    BY <1>2, <2>1, <2>2, <2>7, NoTableSound DEF TypeOK
  <2>9. CommandFresh'
    BY <2>2 DEF CommandFresh
  <2>10. ~command.stale => t = statsFile
    BY <2>1 DEF CommandFresh
  <2>11. \/ lost'
         \/ /\ \A q \in Relays : LoadedStats(q)'.successes = LoadedStats(q).successes
            /\ \A q \in Relays \ pardoned : q \in DOMAIN statsFile /\ statsFile[q].blacklisted =>
                 q \in DOMAIN statsFile' /\ statsFile'[q].blacklisted
    <3> SUFFICES ASSUME ~command.stale
                 PROVE  /\ \A q \in Relays : LoadedStats(q)'.successes = LoadedStats(q).successes
                        /\ \A q \in Relays \ pardoned :
                             q \in DOMAIN statsFile /\ statsFile[q].blacklisted =>
                               q \in DOMAIN statsFile' /\ statsFile'[q].blacklisted
      BY <2>1
    <3>1. CASE command.does = "blacklist"
      <4>1. /\ DOMAIN statsFile' = DOMAIN t \cup {r}
            /\ \A q \in DOMAIN t \cup {r} : statsFile'[q] = IF q = r THEN old ELSE t[q]
        BY <2>1, <3>1 DEF With
      <4> QED
        BY <2>4, <2>10, <4>1 DEF LoadedStats
    <3>2. CASE command.does # "blacklist"
      <4>1. r \in pardoned
        BY <2>1, <2>3, <3>2 DEF CommandFresh
      <4>2. /\ DOMAIN statsFile' = DOMAIN t
            /\ \A q \in DOMAIN t \ {r} : statsFile'[q] = t[q]
            /\ r \in DOMAIN t => statsFile'[r].successes = t[r].successes
        BY <2>1, <2>3, <2>5, <3>2 DEF Pardoned
      <4> QED
        BY <2>10, <4>1, <4>2 DEF LoadedStats
    <3> QED
      BY <3>1, <3>2
  <2>12. FilesFollow'
    <3> SUFFICES ASSUME ~lost' PROVE FilesFollow'
      BY DEF FilesFollow
    <3>1. ~lost /\ Known \subseteq Relays
      BY <2>1, TableOf DEF TypeOK, Known
    <3> QED
      BY <1>1, <2>1, <2>11, <3>1 DEF FilesFollow, Known, Blacklisted
  <2> QED
    BY <1>3, <2>1, <2>8, <2>9, <2>11, <2>12
<1>8. CASE CommandEnds
  <2>1. /\ command' = [command EXCEPT !.at = "idle", !.list = {}, !.stats = NoTable, !.stale = FALSE]
        /\ UNCHANGED <<statsFile, listFile, lost, pardoned>>
    BY <1>8 DEF CommandEnds
  <2>2. command' \in Command /\ command'.at = "idle" /\ command'.stats = NoTable
    BY <1>1, <2>1, NoTableSound DEF Command
  <2>3. TypeOK' /\ RecordsSound' /\ ListedFlagged'
    BY <1>2, <2>1, <2>2, NoTableSound DEF TypeOK, RecordsSound
  <2>4. CommandFresh'
    BY <2>2 DEF CommandFresh
  <2>5. FilesFollow'
    BY <1>1, <2>1 DEF FilesFollow, LoadedStats, Known, Blacklisted
  <2> QED
    BY <1>3, <2>1, <2>3, <2>4, <2>5
<1> QED
  BY <1>4, <1>5, <1>6, <1>7, <1>8

----------------------------------------------------------------------------
(* The theorems. *)

\* The invariant of the relays holds at the start, and at every step.
LEMMA RelaysInvInit == Init => RelaysInv
<1> SUFFICES ASSUME Init PROVE RelaysInv
  OBVIOUS
<1>1. relays \in Table /\ SoundTable(relays) /\ DOMAIN relays = Initial
      /\ \A r \in Initial : relays[r] = NewStats
  <2>1. relays = [r \in Initial |-> NewStats]
    BY DEF Init
  <2> QED
    BY <2>1, TableOf, NewStatsSound, Thresholds DEF SoundTable
<1>2. /\ command \in Command /\ command.at = "idle" /\ command.stats = NoTable
  <2>1. PICK r \in Relays :
          command = [at |-> "idle", does |-> "recover", relay |-> r, list |-> {},
                     stats |-> NoTable, stale |-> FALSE]
    BY DEF Init
  <2> QED
    BY <2>1, NoTableSound DEF Command
<1>3. /\ blacklist = {} /\ todo = <<>> /\ statsFile = NoTable /\ listFile = {}
      /\ lost = FALSE /\ pardoned = {} /\ convicted = {} /\ earned = [r \in Relays |-> 0]
  BY DEF Init
<1>4. TypeOK
  <2>1. earned \in [Relays -> 0..RecoverAfter]
    BY <1>3, Thresholds
  <2>2. todo \in Writes
    BY <1>3, NoWrites
  <2> QED
    BY <1>1, <1>2, <1>3, <2>1, <2>2, NoTableSound DEF TypeOK, Writes
<1>5. RecordsSound
  BY <1>1, <1>2, <1>3, NoTableSound DEF RecordsSound
<1>6. FilesFollow
  BY <1>1, <1>3, NoTableSound DEF FilesFollow, LoadedStats, NewStats, Known, Blacklisted
<1>7. ListedFlagged /\ CommandFresh /\ StreaksEarned
  BY <1>2, <1>3 DEF ListedFlagged, CommandFresh, StreaksEarned
<1> QED
  BY <1>4, <1>5, <1>6, <1>7 DEF RelaysInv

LEMMA RelaysInvKept == RelaysInv /\ [Next]_vars => RelaysInv'
<1> SUFFICES ASSUME RelaysInv, [Next]_vars PROVE RelaysInv'
  OBVIOUS
<1>1. CASE UNCHANGED vars
  <2>1. UNCHANGED <<relays, blacklist, todo, statsFile, listFile, command, lost, pardoned,
                    earned, convicted>>
    BY <1>1 DEF vars, files, history
  <2> QED
    BY <2>1 DEF RelaysInv, TypeOK, RecordsSound, SoundTable, SoundStats, ListedFlagged,
         CommandFresh, FilesFollow, StreaksEarned, Known, Blacklisted, LoadedStats
<1>2. ASSUME NEW r \in Relays, ManagerMethod(r) PROVE RelaysInv'
  BY <1>2, RecordSuccessKeeps, RecordFailureKeeps, ByHandKeeps, RemoveRelayKeeps, AddRelayKeeps
     DEF ManagerMethod
<1> QED
  BY <1>1, <1>2, WriteFileKeeps, WriteFailsKeeps, RestartKeeps, CommandKeeps DEF Next

LEMMA RelaysInvHolds == Spec => []RelaysInv
  BY RelaysInvInit, RelaysInvKept, PTL DEF Spec

\* A relay that failed so often in a row is excluded in memory and in its saved statistics, a
\* relay on the list is not used, and the saved list lacks only relays that were pardoned.
THEOREM FailingRelaysExcluded == Spec => []FailingExcluded
<1>1. ASSUME RelaysInv PROVE FailingExcluded
  <2>1. \A r \in Known : relays[r].failures >= Threshold => Blacklisted(r)
    BY <1>1 DEF RelaysInv, RecordsSound, SoundTable, SoundStats, Known, Blacklisted
  <2>2. \A r \in Known : r \in Initial /\ r \in blacklist => Blacklisted(r)
    BY <1>1 DEF RelaysInv, ListedFlagged
  <2>3. \A r \in DOMAIN statsFile : statsFile[r].failures >= Threshold => statsFile[r].blacklisted
    BY <1>1 DEF RelaysInv, RecordsSound, SoundTable, SoundStats
  <2>4. todo = <<>> /\ ~lost => blacklist \ pardoned \subseteq listFile
    BY <1>1, NoWrites DEF RelaysInv, FilesFollow
  <2>5. \A r \in listFile : GetRelayHealth(r) = "blacklisted"
    BY DEF GetRelayHealth
  <2> QED
    BY <2>1, <2>2, <2>3, <2>4, <2>5 DEF FailingExcluded
<1> QED
  BY <1>1, RelaysInvHolds, PTL

\* A blacklisted relay of the configuration is still blacklisted after a restart, whichever of
\* the two files says so, unless a write is under way or failed or a command pardoned it.
THEOREM BlacklistingsSurvive == Spec => BlacklistSurvives
<1>1. RelaysInv /\ Restart /\ todo = <<>> /\ ~lost =>
        \A r \in (Known \cap Initial) \ pardoned : Blacklisted(r) => Blacklisted(r)'
  <2> SUFFICES ASSUME RelaysInv, Restart, todo = <<>>, ~lost,
                      NEW r \in (Known \cap Initial) \ pardoned, Blacklisted(r)
               PROVE  Blacklisted(r)'
    OBVIOUS
  <2>1. r \in listFile \/ (r \in DOMAIN statsFile /\ statsFile[r].blacklisted)
    BY NoWrites DEF RelaysInv, FilesFollow
  <2>2. r \in Relays /\ LoadedStats(r) \in Stats
    BY NewStatsSound, TableOf, Thresholds DEF RelaysInv, TypeOK, LoadedStats
  <2>3. relays'[r] = [LoadedStats(r) EXCEPT !.blacklisted = LoadedStats(r).blacklisted \/ r \in listFile]
    BY DEF Restart, Loaded
  <2>4. relays'[r].blacklisted = (LoadedStats(r).blacklisted \/ r \in listFile)
    BY <2>2, <2>3 DEF Stats
  <2> QED
    BY <2>1, <2>4 DEF Blacklisted, LoadedStats
<1> QED
  BY <1>1, RelaysInvHolds, PTL DEF BlacklistSurvives

\* A success takes a relay that failed too often off the blacklist only after so many
\* successes since its last failure, restarts between them or not.
THEOREM RecoveriesEarned == Spec => RecoveryEarned
<1>1. RelaysInv => \A r \in convicted \cap Known :
        RecordSuccess(r) /\ Blacklisted(r) /\ ~Blacklisted(r)' /\ ~lost =>
          earned'[r] >= RecoverAfter
  <2> SUFFICES ASSUME RelaysInv, NEW r \in convicted \cap Known,
                      RecordSuccess(r), Blacklisted(r), ~Blacklisted(r)', ~lost
               PROVE  earned'[r] >= RecoverAfter
    OBVIOUS
  <2>1. /\ r \in Relays /\ relays[r].successes \in 0..RecoverAfter
        /\ earned[r] \in 0..RecoverAfter /\ relays[r].successes <= earned[r]
    BY KnownRecord DEF RelaysInv, StreaksEarned
  <2>2. relays'[r].blacklisted = (relays[r].blacklisted /\ ~Recovers(relays[r]))
    BY DEF RecordSuccess, Known
  <2>3. relays[r].successes + 1 >= RecoverAfter
    BY <2>2 DEF Blacklisted, Recovers
  <2>4. earned'[r] = UpTo(earned[r] + 1, RecoverAfter)
    BY <2>1 DEF RecordSuccess, Earned, RelaysInv, TypeOK
  <2> QED
    BY <2>1, <2>3, <2>4, Thresholds DEF UpTo
<1> QED
  BY <1>1, RelaysInvHolds, PTL DEF RecoveryEarned

----------------------------------------------------------------------------
(* Induction. *)

\* A set of numbers that is not empty has a smallest one.
LEMMA Smallest ==
  ASSUME NEW T, T \subseteq Nat, T # {}
  PROVE  \E x \in T : \A y \in T : x <= y
<1> DEFINE Below == {pair \in Nat \X Nat : pair[1] < pair[2]}
<1>1. IsWellFoundedOn(Below, Nat)
  BY NatLessThanWellFounded DEF OpToRel
<1>2. \A x, y \in Nat : y < x => <<y, x>> \in Below
  OBVIOUS
<1> HIDE DEF Below
<1>3. PICK x \in T : \A y \in T : ~(<<y, x>> \in Below)
  BY <1>1, WFMin, Zenon
<1>4. ASSUME NEW y \in T PROVE x <= y
  <2>1. x \in Nat /\ y \in Nat /\ ~(y < x)
    BY <1>2, <1>3
  <2> QED
    BY <2>1
<1> QED
  BY <1>4

\* What holds of 0 and, when it holds of a number, of the next, holds of all up to n.
LEMMA Induction ==
  ASSUME NEW n \in Nat, NEW S, 0 \in S, \A k \in 0..(n - 1) : k \in S => k + 1 \in S
  PROVE  0..n \subseteq S
<1> SUFFICES ASSUME ~(0..n \subseteq S) PROVE FALSE
  OBVIOUS
<1> DEFINE T == {k \in 0..n : k \notin S}
<1>1. T \subseteq Nat /\ T # {}
  OBVIOUS
<1> HIDE DEF T
<1>2. PICK x \in T : \A y \in T : x <= y
  BY <1>1, Smallest
<1>3. x \in 1..n /\ x - 1 \in 0..(n - 1) /\ x - 1 \notin T
  BY <1>1, <1>2 DEF T
<1> QED
  BY <1>2, <1>3 DEF T

----------------------------------------------------------------------------
(* The scores. *)

\* The function that FailurePenalty is defined to be, by recursion, exists.
Penalises(f) ==
  f = [n \in 0..MaxOperations |-> IF n = 0 THEN 1000 ELSE (9 * f[n - 1]) \div 10]

LEMMA PenaltyExists == \E f : Penalises(f)
<1> DEFINE N == MaxOperations
           Next1(f, n) == (9 * f[n - 1]) \div 10
           Starts(f, k) == f[0] = 1000 /\ \A n \in 1..k : f[n] = Next1(f, n)
           Good == {k \in 0..N : \E f : Starts(f, k)}
<1>1. N \in Nat
  BY RelayScoresAssumption
<1>2. 0 \in Good
  <2> DEFINE f == [n \in 0..0 |-> 1000]
  <2>1. f[0] = 1000 /\ 1..0 = {}
    OBVIOUS
  <2> HIDE DEF f
  <2>2. Starts(f, 0)
    BY <2>1
  <2> HIDE DEF Starts
  <2> QED
    BY <1>1, <2>2
<1>3. ASSUME NEW k \in 0..(N - 1), k \in Good PROVE k + 1 \in Good
  <2>1. PICK f : Starts(f, k)
    BY <1>3
  <2> DEFINE g == [n \in 0..(k + 1) |-> IF n = k + 1 THEN Next1(f, n) ELSE f[n]]
  <2>2. /\ k + 1 \in 0..(k + 1) /\ \A n \in 0..k : n \in 0..(k + 1) /\ n # k + 1 /\ g[n] = f[n]
        /\ g[k + 1] = Next1(f, k + 1)
    BY <1>1
  <2> HIDE DEF g
  <2>3. g[0] = 1000
    BY <1>1, <2>1, <2>2
  <2>4. ASSUME NEW n \in 1..(k + 1) PROVE g[n] = Next1(g, n)
    <3>1. n - 1 \in 0..k
      BY <1>1
    <3>2. g[n - 1] = f[n - 1]
      BY <2>2, <3>1
    <3> QED
      BY <1>1, <2>1, <2>2, <3>1, <3>2
  <2>5. Starts(g, k + 1)
    BY <2>3, <2>4
  <2> QED
    BY <1>1, <2>5
<1>4. PICK f : Starts(f, N)
  <2> HIDE DEF Good, N
  <2>1. 0..N \subseteq Good
    BY <1>1, <1>2, <1>3, Induction, Zenon
  <2> HIDE DEF Starts
  <2> QED
    BY <1>1, <2>1 DEF Good
<1> DEFINE h == [n \in 0..N |-> f[n]]
<1>5. h = [n \in 0..N |-> IF n = 0 THEN 1000 ELSE (9 * h[n - 1]) \div 10]
  <2>1. ASSUME NEW n \in 0..N PROVE f[n] = IF n = 0 THEN 1000 ELSE (9 * h[n - 1]) \div 10
    <3>1. CASE n = 0
      BY <1>4, <3>1
    <3>2. CASE n # 0
      <4>1. n \in 1..N /\ n - 1 \in 0..N
        BY <1>1, <3>2
      <4> QED
        BY <1>4, <3>2, <4>1
    <3> QED
      BY <3>1, <3>2
  <2> QED
    BY <2>1
<1> QED
  BY <1>5 DEF Penalises

LEMMA PenaltyIs == Penalises(FailurePenalty)
<1>1. FailurePenalty = CHOOSE f : Penalises(f)
  BY Zenon DEF FailurePenalty, Penalises
<1> QED
  BY <1>1, PenaltyExists, Zenon

\* A penalty only lowers a score.
LEMMA PenaltyLowers == \A n \in 0..MaxOperations : FailurePenalty[n] \in 0..1000
<1>1. Penalises(FailurePenalty)
  BY PenaltyIs
<1> DEFINE Good == {n \in 0..MaxOperations : FailurePenalty[n] \in 0..1000}
<1>2. MaxOperations \in Nat
  BY RelayScoresAssumption
<1>3. FailurePenalty[0] = 1000
  BY <1>1, <1>2 DEF Penalises
<1>4. 0 \in Good
  BY <1>2, <1>3
<1>5. ASSUME NEW k \in 0..(MaxOperations - 1), k \in Good PROVE k + 1 \in Good
  <2>1. k + 1 \in 0..MaxOperations /\ k + 1 # 0 /\ (k + 1) - 1 = k
    BY <1>2
  <2>2. FailurePenalty[k + 1] = (9 * FailurePenalty[(k + 1) - 1]) \div 10
    BY <1>1, <2>1, Zenon DEF Penalises
  <2>3. FailurePenalty[k] \in 0..1000
    BY <1>5
  <2>4. (9 * FailurePenalty[k]) \div 10 \in 0..1000
    BY <2>3
  <2> QED
    BY <2>1, <2>2, <2>4
<1> HIDE DEF Good
<1>6. 0..MaxOperations \subseteq Good
  BY <1>2, <1>4, <1>5, Induction, Zenon
<1> QED
  BY <1>6 DEF Good

Record ==
  [success : 0..MaxOperations, failure : 0..MaxOperations, latency : Nat,
   inRowFailed : 0..MaxOperations, inRowDone : 0..MaxOperations,
   healthy : BOOLEAN, blacklisted : BOOLEAN]

\* What the operations leave: no more of a kind in a row than in all, and a relay is
\* unhealthy only if it has failed.
RecordOK(s) ==
  /\ s \in Record /\ Total(s) <= MaxOperations
  /\ s.inRowFailed <= s.failure /\ s.inRowDone <= s.success
  /\ s.healthy \/ s.failure > 0

ScoresInv == counts \in [ScoredRelays -> Record] /\ \A r \in ScoredRelays : RecordOK(counts[r])

LEMMA Division ==
  ASSUME NEW a \in Nat, NEW s \in Nat \ {0}
  PROVE  a \div s \in Nat /\ (a \div s) * s <= a
  BY SMTT(30)

LEMMA ProductBound ==
  ASSUME NEW a \in Nat, NEW b \in 0..1000
  PROVE  a * b \in Nat /\ a * b <= 1000 * a
  BY SMTT(30)

\* A pardon ends the streak of failures.
LEMMA AfterPardon ==
  ASSUME NEW s \in Record, NEW banned \in BOOLEAN, NEW zero \in 0..MaxOperations
  PROVE  LET t == [s EXCEPT !.blacklisted = banned, !.inRowFailed = zero] IN
         /\ t \in Record /\ t.success = s.success /\ t.failure = s.failure
         /\ t.inRowFailed = zero /\ t.inRowDone = s.inRowDone /\ t.healthy = s.healthy
<1> DEFINE t == [s EXCEPT !.blacklisted = banned, !.inRowFailed = zero]
<1>1. t \in Record
  BY DEF Record
<1>2. /\ t.success = s.success /\ t.failure = s.failure
      /\ t.inRowFailed = zero /\ t.inRowDone = s.inRowDone /\ t.healthy = s.healthy
  BY DEF Record
<1> QED
  BY <1>1, <1>2

\* A relay that has failed once has a success rate below 1, and so, unhealthy, less than
\* MinScore.
LEMMA UnhealthyScore ==
  ASSUME NEW s, RecordOK(s), ~s.healthy
  PROVE  Score(s) \in 0..299
<1>1. /\ s.success \in Nat /\ s.failure \in Nat /\ s.failure > 0 /\ s.latency \in Nat
      /\ Total(s) = s.success + s.failure /\ Total(s) > 0 /\ Total(s) \in Nat
      /\ s.inRowFailed \in 0..MaxOperations
  BY RelayScoresAssumption DEF RecordOK, Record, Total
<1>2. SuccessRate(s) \in 0..999
  <2> DEFINE q == (1000 * s.success) \div Total(s)
  <2>1. q \in Nat /\ q * Total(s) <= 1000 * s.success
    <3>1. PICK a \in Nat : a = 1000 * s.success
      BY <1>1
    <3>2. PICK d \in Nat \ {0} : d = Total(s)
      BY <1>1
    <3>3. a \div d \in Nat /\ (a \div d) * d <= a
      BY Division
    <3> QED
      BY <3>1, <3>2, <3>3
  <2>2. 1000 * s.success < 1000 * Total(s)
    BY <1>1
  <2> HIDE DEF q
  <2>3. q < 1000
    <3> SUFFICES ASSUME q >= 1000 PROVE FALSE
      BY <2>1
    <3>1. q * Total(s) >= 1000 * Total(s)
      BY <1>1, <2>1, SMTT(30)
    <3> QED
      BY <1>1, <2>1, <2>2, <3>1
  <2> QED
    BY <2>1, <2>3 DEF q, SuccessRate
<1>3. LatencyScore(s) \in 0..1000
  <2>1. CASE s.success = 0
    BY <2>1 DEF LatencyScore
  <2>2. CASE s.success # 0
    <3>1. 5 * s.success \in Nat \ {0}
      BY <1>1, <2>2
    <3>2. s.latency \div (5 * s.success) \in Nat
      BY <1>1, <3>1, Division
    <3> QED
      BY <2>2, <3>2 DEF LatencyScore, Smaller
  <2> QED
    BY <2>1, <2>2
<1> DEFINE score == (7 * SuccessRate(s) + 3 * LatencyScore(s)) \div 10
<1>4. score \in 0..999
  <2>1. PICK a \in 0..999 : a = SuccessRate(s)
    BY <1>2
  <2>2. PICK b \in 0..1000 : b = LatencyScore(s)
    BY <1>3
  <2>3. (7 * a + 3 * b) \div 10 \in 0..999
    OBVIOUS
  <2> QED
    BY <2>1, <2>2, <2>3
<1> HIDE DEF score
<1>5. (score * FailurePenalty[s.inRowFailed]) \div 1000 \in 0..999
  <2> DEFINE p == FailurePenalty[s.inRowFailed]
  <2>1. p \in 0..1000
    BY <1>1, PenaltyLowers
  <2> HIDE DEF p
  <2>2. score * p \in Nat /\ score * p <= 1000 * score
    BY <1>4, <2>1, ProductBound
  <2>3. (score * p) \div 1000 \in 0..999
    BY <1>4, <2>2
  <2> QED
    BY <2>3 DEF p
<1>6. Weighed(s) \in 0..999
  BY <1>4, <1>5 DEF Weighed, score
<1>7. (3 * Weighed(s)) \div 10 \in 0..299
  BY <1>6
<1> QED
  BY <1>1, <1>7 DEF Score

LEMMA RecordsAfter ==
  ASSUME ScoresInv, NEW r \in ScoredRelays, NEW s, RecordOK(s), counts' = [counts EXCEPT ![r] = s]
  PROVE  ScoresInv'
BY DEF ScoresInv, RecordOK

LEMMA ScoresKept == ScoresInv /\ [RsNext]_rsVars => ScoresInv'
<1> SUFFICES ASSUME ScoresInv, [RsNext]_rsVars PROVE ScoresInv'
  OBVIOUS
<1>0. /\ MaxOperations \in Nat /\ 0 \in 0..MaxOperations /\ TRUE \in BOOLEAN /\ FALSE \in BOOLEAN
      /\ \A r \in ScoredRelays : counts[r] \in Record /\ RecordOK(counts[r])
  BY RelayScoresAssumption DEF ScoresInv
<1>1. ASSUME NEW r \in ScoredRelays, NEW latency \in Latencies, CountSuccess(r, latency)
      PROVE  ScoresInv'
  <2> DEFINE s == counts[r]
             recovers == s.blacklisted /\ s.inRowDone + 1 >= RecoverySuccesses
             banned == s.blacklisted /\ ~recovers
             t == [s EXCEPT !.success = s.success + 1, !.latency = s.latency + latency,
                            !.inRowFailed = 0, !.inRowDone = s.inRowDone + 1, !.healthy = TRUE,
                            !.blacklisted = banned]
  <2>1. counts' = [counts EXCEPT ![r] = t] /\ Total(s) < MaxOperations
    BY <1>1 DEF CountSuccess
  <2>2. s \in Record /\ s.inRowFailed <= s.failure /\ s.inRowDone <= s.success
    BY <1>0 DEF RecordOK
  <2>3. latency \in Nat /\ banned \in BOOLEAN
    BY RelayScoresAssumption
  <2> HIDE DEF s, banned
  <2>4. /\ s.success + 1 \in 0..MaxOperations /\ s.latency + latency \in Nat
        /\ s.inRowDone + 1 \in 0..MaxOperations /\ s.success + s.failure + 1 <= MaxOperations
    BY <1>0, <2>1, <2>2, <2>3 DEF Record, Total
  <2>5. /\ t \in Record /\ t.success = s.success + 1 /\ t.failure = s.failure /\ t.inRowFailed = 0
        /\ t.inRowDone = s.inRowDone + 1 /\ t.healthy = TRUE
    <3>1. PICK done \in 0..MaxOperations : done = s.success + 1
      BY <2>4
    <3>2. PICK late \in Nat : late = s.latency + latency
      BY <2>4
    <3>3. PICK inRow \in 0..MaxOperations : inRow = s.inRowDone + 1
      BY <2>4
    <3>4. PICK zero \in 0..MaxOperations : zero = 0
      BY <1>0
    <3>5. PICK well \in BOOLEAN : well = TRUE
      BY <1>0
    <3>6. PICK ban \in BOOLEAN : ban = banned
      BY <2>3
    <3> DEFINE u == [s EXCEPT !.success = done, !.latency = late, !.inRowFailed = zero,
                              !.inRowDone = inRow, !.healthy = well, !.blacklisted = ban]
    <3>7. /\ u \in Record /\ u.success = done /\ u.failure = s.failure /\ u.inRowFailed = zero
          /\ u.inRowDone = inRow /\ u.healthy = well
      <4>1. u \in Record
        BY <2>2 DEF Record
      <4>2. /\ u.success = done /\ u.failure = s.failure /\ u.inRowFailed = zero
            /\ u.inRowDone = inRow
        BY <2>2 DEF Record
      <4>3. u.healthy = well
        BY <2>2 DEF Record
      <4> QED
        BY <4>1, <4>2, <4>3
    <3>8. t = u
      BY <3>1, <3>2, <3>3, <3>4, <3>5, <3>6
    <3> HIDE DEF u
    <3> QED
      BY <3>1, <3>3, <3>4, <3>5, <3>7, <3>8
  <2> HIDE DEF t
  <2>6. RecordOK(t)
    BY <1>0, <2>2, <2>4, <2>5 DEF RecordOK, Record, Total
  <2> QED
    BY <2>1, <2>6, RecordsAfter
<1>2. ASSUME NEW r \in ScoredRelays, CountFailure(r) PROVE ScoresInv'
  <2> DEFINE s == [counts[r] EXCEPT !.failure = @ + 1, !.inRowFailed = @ + 1, !.inRowDone = 0]
             blacklists == Enhanced /\ s.inRowFailed >= BlacklistAfter
             banned == s.blacklisted \/ blacklists
             well == s.healthy /\ (blacklists \/ ~TooManyFailures(s))
             t == [s EXCEPT !.blacklisted = @ \/ blacklists,
                            !.healthy = @ /\ (blacklists \/ ~TooManyFailures(s))]
  <2>1. counts' = [counts EXCEPT ![r] = t] /\ Total(counts[r]) < MaxOperations
    BY <1>2 DEF CountFailure
  <2>2. /\ s \in Record /\ Total(s) <= MaxOperations /\ s.failure > 0
        /\ s.inRowFailed <= s.failure /\ s.inRowDone <= s.success
    <3> DEFINE c == counts[r]
    <3>1. /\ c \in Record /\ c.inRowFailed <= c.failure
          /\ c.success + c.failure + 1 <= MaxOperations
      BY <1>0, <2>1 DEF RecordOK, Record, Total
    <3> HIDE DEF c
    <3>2. c.failure + 1 \in 0..MaxOperations /\ c.inRowFailed + 1 \in 0..MaxOperations
      BY <1>0, <3>1 DEF Record
    <3>3. s = [c EXCEPT !.failure = c.failure + 1, !.inRowFailed = c.inRowFailed + 1,
                        !.inRowDone = 0]
      BY DEF c
    <3> HIDE DEF s
    <3>4. /\ s \in Record /\ s.success = c.success /\ s.failure = c.failure + 1
          /\ s.inRowFailed = c.inRowFailed + 1 /\ s.inRowDone = 0
      <4>1. PICK failed \in 0..MaxOperations : failed = c.failure + 1
        BY <3>2
      <4>2. PICK inRow \in 0..MaxOperations : inRow = c.inRowFailed + 1
        BY <3>2
      <4>3. PICK zero \in 0..MaxOperations : zero = 0
        BY <1>0
      <4> DEFINE u == [c EXCEPT !.failure = failed, !.inRowFailed = inRow, !.inRowDone = zero]
      <4>4. /\ u \in Record /\ u.success = c.success /\ u.failure = failed
            /\ u.inRowFailed = inRow /\ u.inRowDone = zero
        <5>1. u \in Record
          BY <3>1 DEF Record
        <5>2. /\ u.success = c.success /\ u.failure = failed
              /\ u.inRowFailed = inRow /\ u.inRowDone = zero
          BY <3>1 DEF Record
        <5> QED
          BY <5>1, <5>2
      <4>5. s = u
        BY <3>3, <4>1, <4>2, <4>3
      <4> HIDE DEF u
      <4> QED
        BY <4>1, <4>2, <4>3, <4>4, <4>5
    <3> QED
      BY <1>0, <3>1, <3>4 DEF Record, Total
  <2> HIDE DEF s
  <2>3. banned \in BOOLEAN /\ well \in BOOLEAN
    OBVIOUS
  <2>4. t = [s EXCEPT !.blacklisted = banned, !.healthy = well]
    BY <2>2 DEF Record
  <2> HIDE DEF t, banned, well
  <2>5. RecordOK(t)
    BY <2>2, <2>3, <2>4 DEF RecordOK, Record, Total
  <2> QED
    BY <2>1, <2>5, RecordsAfter
<1>3. ASSUME NEW r \in ScoredRelays, Recount(r) PROVE ScoresInv'
  <2>1. RecordOK(Uncounted)
    BY <1>0 DEF RecordOK, Record, Total, Uncounted
  <2> QED
    BY <1>3, <2>1, RecordsAfter DEF Recount
<1>4. ASSUME NEW r \in ScoredRelays, SetBlacklisted(r) PROVE ScoresInv'
  <2> DEFINE t == [counts[r] EXCEPT !.blacklisted = TRUE]
  <2>1. counts' = [counts EXCEPT ![r] = t]
    BY <1>4 DEF SetBlacklisted
  <2>2. RecordOK(t)
    BY <1>0 DEF RecordOK, Record, Total
  <2> HIDE DEF t
  <2> QED
    BY <2>1, <2>2, RecordsAfter
<1>5. ASSUME NEW r \in ScoredRelays, SetUnblacklisted(r) PROVE ScoresInv'
  <2> DEFINE t == [counts[r] EXCEPT !.blacklisted = FALSE, !.inRowFailed = 0]
  <2>1. counts' = [counts EXCEPT ![r] = t]
    BY <1>5 DEF SetUnblacklisted, ScoresInv
  <2>2. /\ t \in Record /\ t.success = counts[r].success /\ t.failure = counts[r].failure
        /\ t.inRowFailed = 0 /\ t.inRowDone = counts[r].inRowDone
        /\ t.healthy = counts[r].healthy
    BY <1>0, AfterPardon, Zenon
  <2>3. RecordOK(counts[r]) /\ counts[r] \in Record
    BY <1>0
  <2> HIDE DEF t
  <2>4. RecordOK(t)
    BY <1>0, <2>2, <2>3 DEF RecordOK, Record, Total
  <2> QED
    BY <2>1, <2>4, RecordsAfter
<1>6. CASE UNCHANGED rsVars
  BY <1>6 DEF rsVars, ScoresInv
<1> QED
  BY <1>1, <1>2, <1>3, <1>4, <1>5, <1>6 DEF RsNext

LEMMA ScoresAtStart == RsInit => ScoresInv
<1>1. RecordOK(Uncounted)
  BY RelayScoresAssumption DEF RecordOK, Record, Total, Uncounted
<1> QED
  BY <1>1 DEF RsInit, ScoresInv, RecordOK

\* The score never admits an unhealthy relay to those that are offered.
LEMMA HealthyOffered ==
  ASSUME ScoresInv, NEW r \in ScoredRelays
  PROVE  Offered(counts[r]) <=> counts[r].healthy /\ ~counts[r].blacklisted
<1>1. ~counts[r].healthy => Score(counts[r]) \in 0..299
  BY UnhealthyScore DEF ScoresInv
<1>2. ~counts[r].healthy => ~(Score(counts[r]) >= MinScore)
  BY <1>1 DEF MinScore
<1> QED
  BY <1>2 DEF Offered

----------------------------------------------------------------------------
(* The order of the relays. *)

\* Ranked goes through all places, and the scores fall.
LEMMA Ranking ==
  ASSUME NEW n \in Nat, NEW places, places \subseteq 1..n,
         NEW score, \A i \in places : score[i] \in Int
  PROVE  /\ Cardinality(places) \in Nat
         /\ DOMAIN Ranked(places, score) = 1..Cardinality(places)
         /\ \A k \in 1..Cardinality(places) : Ranked(places, score)[k] \in places
         /\ \A i \in places : \E k \in 1..Cardinality(places) : Ranked(places, score)[k] = i
         /\ \A k, l \in 1..Cardinality(places) :
              k <= l => score[Ranked(places, score)[k]] >= score[Ranked(places, score)[l]]
<1> DEFINE Ahead(i) == {j \in places : score[j] > score[i] \/ (score[j] = score[i] /\ j < i)}
           Rank(i) == Cardinality(Ahead(i))
           c == Cardinality(places)
           R == Ranked(places, score)
<1>1. IsFiniteSet(places) /\ c \in Nat /\ \A i \in places : i \in Int
  <2>1. IsFiniteSet(1..n)
    BY FS_Interval
  <2>2. IsFiniteSet(places)
    BY <2>1, FS_Subset
  <2> QED
    BY <2>2, FS_CardinalityType
<1>2. R = [k \in 1..c |-> CHOOSE i \in places : Rank(i) = k - 1]
  BY DEF Ranked
<1>3. \A i, j \in places : i # j => (i \in Ahead(j) \/ j \in Ahead(i))
  BY <1>1
<1>4. \A i, j \in places : i \in Ahead(j) => score[i] >= score[j]
  BY <1>1
<1>5. ASSUME NEW i \in places PROVE IsFiniteSet(Ahead(i)) /\ Rank(i) \in 0..(c - 1)
  <2>1. Ahead(i) \subseteq places \ {i}
    BY <1>1
  <2>2. IsFiniteSet(places \ {i}) /\ Cardinality(places \ {i}) = c - 1
    BY <1>1, FS_RemoveElement
  <2> HIDE DEF Ahead
  <2>3. IsFiniteSet(Ahead(i)) /\ Rank(i) <= Cardinality(places \ {i})
    BY <2>1, <2>2, FS_Subset
  <2>4. Rank(i) \in Nat
    BY <2>3, FS_CardinalityType
  <2> HIDE DEF Rank, c
  <2> QED
    BY <1>1, <2>2, <2>3, <2>4
<1>6. ASSUME NEW i \in places, NEW j \in places, i \in Ahead(j) PROVE Rank(i) < Rank(j)
  <2>1. ASSUME NEW h \in Ahead(i) PROVE h \in Ahead(j)
    <3>1. score[h] \in Int /\ score[i] \in Int /\ score[j] \in Int /\ {h, i, j} \subseteq Int
      BY <1>1, <2>1
    <3>2. score[h] > score[i] \/ (score[h] = score[i] /\ h < i)
      BY <2>1
    <3>3. score[i] > score[j] \/ (score[i] = score[j] /\ i < j)
      BY <1>6
    <3>4. score[h] > score[j] \/ (score[h] = score[j] /\ h < j)
      BY <3>1, <3>2, <3>3
    <3> QED
      BY <2>1, <3>4
  <2>2. i \notin Ahead(i)
    BY <1>1
  <2> HIDE DEF Ahead
  <2>3. Rank(i) <= Rank(j) /\ Rank(i) # Rank(j)
    BY <1>5, <1>6, <2>1, <2>2, FS_Subset
  <2> HIDE DEF Rank
  <2> QED
    BY <1>1, <1>5, <2>3
<1> HIDE DEF Ahead, Rank, c, R
<1>7. \A i, j \in places : Rank(i) = Rank(j) => i = j
  <2> SUFFICES ASSUME NEW i \in places, NEW j \in places, Rank(i) = Rank(j), i # j PROVE FALSE
    OBVIOUS
  <2>1. Rank(i) < Rank(j) \/ Rank(j) < Rank(i)
    BY <1>3, <1>6
  <2> QED
    BY <1>1, <1>5, <2>1
<1>8. \A m \in 0..(c - 1) : \E i \in places : Rank(i) = m
  <2> DEFINE f == [i \in places |-> Rank(i)]
  <2>1. f \in Injection(places, 0..(c - 1))
    <3>1. f \in [places -> 0..(c - 1)]
      BY <1>5
    <3>2. \A i, j \in places : f[i] = f[j] => i = j
      BY <1>7
    <3> HIDE DEF f
    <3> QED
      BY <3>1, <3>2 DEF Injection, IsInjective
  <2>2. IsFiniteSet(0..(c - 1)) /\ Cardinality(0..(c - 1)) = c
    <3>1. 0 \in Int /\ c - 1 \in Int
      BY <1>1
    <3>2. IsFiniteSet(0..(c - 1)) /\ Cardinality(0..(c - 1)) = IF 0 > c - 1 THEN 0 ELSE (c - 1) - 0 + 1
      BY <3>1, FS_Interval
    <3> QED
      BY <1>1, <3>2
  <2>3. f \in Surjection(places, 0..(c - 1))
    BY <2>1, <2>2, FS_Injection DEF c
  <2> QED
    BY <2>3 DEF Surjection
<1>9. ASSUME NEW k \in 1..c PROVE R[k] \in places /\ Rank(R[k]) = k - 1
  <2>1. \E i \in places : Rank(i) = k - 1
    BY <1>1, <1>8
  <2> QED
    BY <1>2, <2>1
<1>10. ASSUME NEW i \in places PROVE \E k \in 1..c : R[k] = i
  <2>1. Rank(i) + 1 \in 1..c /\ (Rank(i) + 1) - 1 = Rank(i)
    BY <1>1, <1>5
  <2> QED
    BY <1>7, <1>9, <2>1
<1>11. ASSUME NEW k \in 1..c, NEW l \in 1..c, k <= l PROVE score[R[k]] >= score[R[l]]
  <2>1. CASE k = l
    <3>1. R[k] \in places /\ score[R[k]] \in Int
      BY <1>9
    <3> QED
      BY <2>1, <3>1
  <2>2. CASE k # l
    <3>1. Rank(R[k]) < Rank(R[l]) /\ R[k] # R[l]
      BY <1>1, <1>9, <2>2, <1>11
    <3>2. ~(R[l] \in Ahead(R[k]))
      <4> SUFFICES ASSUME R[l] \in Ahead(R[k]) PROVE FALSE
        OBVIOUS
      <4>1. Rank(R[l]) < Rank(R[k])
        BY <1>6, <1>9
      <4> QED
        BY <1>5, <1>9, <3>1, <4>1
    <3> QED
      BY <1>3, <1>4, <1>9, <3>1, <3>2
  <2> QED
    BY <2>1, <2>2
<1>12. DOMAIN R = 1..c
  BY <1>2
<1> QED
  BY <1>1, <1>9, <1>10, <1>11, <1>12 DEF R, c

----------------------------------------------------------------------------
(* Better records have no lower scores. *)

\* One more failure in a row never lowers the penalty.
LEMMA PenaltyFalls ==
  \A n \in 0..MaxOperations : \A m \in 0..n : FailurePenalty[n] <= FailurePenalty[m]
<1>1. PICK P : P = FailurePenalty
  OBVIOUS
<1>2. MaxOperations \in Nat
  BY RelayScoresAssumption
<1>3. \A n \in 0..MaxOperations : P[n] \in 0..1000
  BY <1>1, PenaltyLowers
<1>4. \A n \in 0..MaxOperations : n # 0 => P[n] = (9 * P[n - 1]) \div 10
  BY <1>1, PenaltyIs, Zenon DEF Penalises
<1>5. ASSUME NEW n \in 1..MaxOperations PROVE P[n] <= P[n - 1]
  <2>1. n - 1 \in 0..MaxOperations /\ n \in 0..MaxOperations /\ n # 0
    BY <1>2
  <2>2. PICK x \in 0..1000 : x = P[n - 1]
    BY <1>3, <2>1
  <2>3. P[n] = (9 * x) \div 10
    BY <1>4, <2>1, <2>2
  <2> QED
    BY <2>2, <2>3
<1> DEFINE Good == {n \in 0..MaxOperations : \A m \in 0..n : P[n] <= P[m]}
<1>6. 0 \in Good
  <2>1. 0 \in 0..MaxOperations /\ \A m \in 0..0 : m = 0
    BY <1>2
  <2>2. PICK x \in 0..1000 : x = P[0]
    BY <1>3, <2>1
  <2> QED
    BY <1>2, <2>1, <2>2
<1>7. ASSUME NEW k \in 0..(MaxOperations - 1), k \in Good PROVE k + 1 \in Good
  <2>1. /\ k + 1 \in 1..MaxOperations /\ (k + 1) - 1 = k
        /\ k \in 0..MaxOperations /\ k + 1 \in 0..MaxOperations
    BY <1>2
  <2>2. PICK x \in 0..1000 : x = P[k + 1]
    BY <1>3, <2>1
  <2>3. PICK y \in 0..1000 : y = P[k]
    BY <1>3, <2>1
  <2>4. x <= y
    BY <1>5, <2>1, <2>2, <2>3
  <2>5. ASSUME NEW m \in 0..(k + 1) PROVE P[k + 1] <= P[m]
    <3>1. CASE m = k + 1
      BY <2>2, <3>1
    <3>2. CASE m # k + 1
      <4>1. m \in 0..k /\ m \in 0..MaxOperations
        BY <1>2, <3>2
      <4>2. PICK z \in 0..1000 : z = P[m]
        BY <1>3, <4>1
      <4>3. y <= z
        BY <1>7, <2>3, <4>1, <4>2
      <4> QED
        BY <2>2, <2>4, <4>2, <4>3
    <3> QED
      BY <3>1, <3>2
  <2> QED
    BY <1>2, <2>1, <2>5
<1> HIDE DEF Good
<1>8. 0..MaxOperations \subseteq Good
  BY <1>2, <1>6, <1>7, Induction, Zenon
<1> QED
  BY <1>1, <1>8 DEF Good

\* What a quotient is at least.
LEMMA Quotient ==
  ASSUME NEW a \in Nat, NEW d \in Nat \ {0}, NEW k \in Nat, k * d <= a
  PROVE  k <= a \div d
<1> DEFINE q == a \div d
<1>1. q \in Nat /\ a < (q + 1) * d
  BY SMTT(30)
<1> HIDE DEF q
<1>2. k < q + 1
  <2> SUFFICES ASSUME q + 1 <= k PROVE FALSE
    BY <1>1
  <2>1. (q + 1) * d <= k * d
    BY <1>1, SMTT(30)
  <2> QED
    BY <1>1, <2>1
<1> QED
  BY <1>1, <1>2 DEF q

LEMMA Products ==
  ASSUME NEW a \in Nat, NEW b \in Nat, NEW c \in Nat, NEW d \in Nat, a <= c, b <= d
  PROVE  a * b <= c * d
<1>1. a * b <= c * b
  BY SMTT(30)
<1>2. c * b <= c * d
  BY SMTT(30)
<1>3. a * b \in Nat /\ c * b \in Nat /\ c * d \in Nat
  OBVIOUS
<1> QED
  BY <1>1, <1>2, <1>3

\* More successes and fewer failures, a better rate.
LEMMA RateRises ==
  ASSUME NEW a \in Nat, NEW b \in Nat, NEW c \in Nat, NEW d \in Nat,
         a + b > 0, c + d > 0, a <= c, d <= b
  PROVE  (1000 * a) \div (a + b) <= (1000 * c) \div (c + d)
<1> DEFINE k == (1000 * a) \div (a + b)
<1>1. k \in Nat /\ k * (a + b) <= 1000 * a
  <2>1. PICK n \in Nat : n = 1000 * a
    OBVIOUS
  <2>2. PICK t \in Nat \ {0} : t = a + b
    OBVIOUS
  <2> QED
    BY <2>1, <2>2, Division
<1> HIDE DEF k
<1>2. k <= 1000
  <2> SUFFICES ASSUME k >= 1001 PROVE FALSE
    BY <1>1
  <2>1. 1001 * (a + b) <= k * (a + b)
    BY <1>1, Products
  <2> QED
    BY <1>1, <2>1
<1>3. PICK l \in 0..1000 : l = 1000 - k
  BY <1>1, <1>2
<1>4. k * b <= l * a
  <2>1. k * (a + b) = k * a + k * b
    BY <1>1, SMTT(30)
  <2>2. l * a + k * a = 1000 * a
    BY <1>1, <1>3, SMTT(30)
  <2>3. k * a \in Nat /\ k * b \in Nat /\ l * a \in Nat
    BY <1>1
  <2> QED
    BY <1>1, <2>1, <2>2, <2>3
<1>5. k * d <= k * b /\ l * a <= l * c
  BY <1>1, <1>3, Products
<1>6. k * (c + d) <= 1000 * c
  <2>1. k * (c + d) = k * c + k * d
    BY <1>1, SMTT(30)
  <2>2. l * c + k * c = 1000 * c
    BY <1>1, <1>3, SMTT(30)
  <2>3. /\ k * c \in Nat /\ k * d \in Nat /\ l * c \in Nat /\ k * b \in Nat /\ l * a \in Nat
    BY <1>1
  <2>4. k * d <= l * c
    BY <1>4, <1>5, <2>3
  <2> QED
    BY <2>1, <2>2, <2>3, <2>4
<1>7. 1000 * c \in Nat /\ c + d \in Nat \ {0}
  OBVIOUS
<1>8. k <= (1000 * c) \div (c + d)
  BY <1>1, <1>6, <1>7, Quotient
<1> QED
  BY <1>8 DEF k

\* A record of n operations, and what its score is made of.
LEMMA Parts ==
  ASSUME NEW s, RecordOK(s)
  PROVE  /\ s.success \in Nat /\ s.failure \in Nat /\ s.inRowFailed \in 0..MaxOperations
         /\ LatencyScore(s) \in 0..1000 /\ FailurePenalty[s.inRowFailed] \in 0..1000
         /\ Total(s) # 0 => /\ s.success + s.failure > 0
                            /\ SuccessRate(s) \in 0..1000 /\ Weighed(s) \in 0..1000
<1>1. /\ s.success \in Nat /\ s.failure \in Nat /\ s.latency \in Nat
      /\ s.inRowFailed \in 0..MaxOperations
  BY RelayScoresAssumption DEF RecordOK, Record
<1>2. LatencyScore(s) \in 0..1000
  <2>1. CASE s.success = 0
    BY <2>1 DEF LatencyScore
  <2>2. CASE s.success # 0
    <3>1. 5 * s.success \in Nat \ {0}
      BY <1>1, <2>2
    <3>2. s.latency \div (5 * s.success) \in Nat
      BY <1>1, <3>1, Division
    <3> QED
      BY <2>2, <3>2 DEF LatencyScore, Smaller
  <2> QED
    BY <2>1, <2>2
<1>3. FailurePenalty[s.inRowFailed] \in 0..1000
  BY <1>1, PenaltyLowers
<1>4. ASSUME Total(s) # 0
      PROVE  s.success + s.failure > 0 /\ SuccessRate(s) \in 0..1000 /\ Weighed(s) \in 0..1000
  <2>1. s.success + s.failure > 0
    BY <1>1, <1>4 DEF Total
  <2>2. SuccessRate(s) \in 0..1000
    <3>1. PICK n \in Nat : n = s.success
      BY <1>1
    <3>2. PICK t \in Nat \ {0} : t = s.success + s.failure
      BY <1>1, <2>1
    <3>3. n <= t /\ 1000 * n \in Nat
      BY <1>1, <3>1, <3>2
    <3>4. (1000 * n) \div t \in Nat /\ ((1000 * n) \div t) * t <= 1000 * n
      BY <3>3, Division
    <3>5. (1000 * n) \div t <= 1000
      <4> DEFINE q == (1000 * n) \div t
      <4> SUFFICES ASSUME q >= 1001 PROVE FALSE
        BY <3>4
      <4> HIDE DEF q
      <4>1. q \in Nat /\ q * t <= 1000 * n
        BY <3>4 DEF q
      <4>2. 1001 * t <= q * t
        BY <4>1, Products
      <4> QED
        BY <3>3, <4>1, <4>2
    <3> QED
      <4>1. SuccessRate(s) = (1000 * n) \div t
        BY <3>1, <3>2 DEF SuccessRate, Total
      <4>2. (1000 * n) \div t \in 0..1000
        BY <3>4, <3>5
      <4> QED
        BY <4>1, <4>2
  <2>3. PICK rate \in 0..1000 : rate = SuccessRate(s)
    BY <2>2
  <2>4. PICK late \in 0..1000 : late = LatencyScore(s)
    BY <1>2
  <2>5. PICK p \in 0..1000 : p = FailurePenalty[s.inRowFailed]
    BY <1>3
  <2>6. PICK score \in 0..1000 : score = (7 * rate + 3 * late) \div 10
    OBVIOUS
  <2>7. (score * p) \div 1000 \in 0..1000
    <3>1. score * p \in Nat /\ score * p <= 1000 * score
      BY ProductBound
    <3>2. PICK m \in Nat : m = score * p
      BY <3>1
    <3>3. m <= 1000 * score
      BY <3>1, <3>2
    <3>4. m \div 1000 \in 0..1000
      BY <3>3
    <3> QED
      BY <3>2, <3>4
  <2>8. (7 * SuccessRate(s) + 3 * LatencyScore(s)) \div 10 = score
    BY <2>3, <2>4, <2>6
  <2>9. Weighed(s) = IF Enhanced THEN (score * p) \div 1000 ELSE score
    BY <2>5, <2>8 DEF Weighed
  <2>10. Weighed(s) \in 0..1000
    BY <2>7, <2>9
  <2> QED
    BY <2>1, <2>2, <2>10
<1> QED
  BY <1>1, <1>2, <1>3, <1>4

\* Of two relays that have been used, the better one weighs no less.
LEMMA WeighsMore ==
  ASSUME NEW s, NEW q, RecordOK(s), RecordOK(q), Total(s) # 0, Total(q) # 0, AsGood(s, q)
  PROVE  Weighed(q) <= Weighed(s)
<1>1. s.success \in Nat /\ s.failure \in Nat /\ s.success + s.failure > 0
  BY Parts
<1>2. q.success \in Nat /\ q.failure \in Nat /\ q.success + q.failure > 0
  BY Parts
<1>3. s.inRowFailed \in 0..MaxOperations
  BY Parts
<1>4. q.inRowFailed \in 0..MaxOperations
  BY Parts
<1>5. SuccessRate(s) \in 0..1000
  BY Parts
<1>6. SuccessRate(q) \in 0..1000
  BY Parts
<1>7. LatencyScore(s) \in 0..1000
  BY Parts
<1>8. LatencyScore(q) \in 0..1000
  BY Parts
<1>9. FailurePenalty[s.inRowFailed] \in 0..1000
  BY Parts
<1>10. FailurePenalty[q.inRowFailed] \in 0..1000
  BY Parts
<1>11. /\ q.success <= s.success /\ s.failure <= q.failure
       /\ s.inRowFailed <= q.inRowFailed /\ LatencyScore(q) <= LatencyScore(s)
  BY <1>1, <1>2, <1>3, <1>4, <1>7, <1>8 DEF AsGood
<1>12. SuccessRate(q) <= SuccessRate(s)
  <2>1. PICK m \in Nat, n \in Nat : m = q.success /\ n = q.failure
    BY <1>2
  <2>2. PICK k \in Nat, l \in Nat : k = s.success /\ l = s.failure
    BY <1>1
  <2>3. m + n > 0 /\ k + l > 0 /\ m <= k /\ l <= n
    BY <1>1, <1>2, <1>11, <2>1, <2>2
  <2>4. (1000 * m) \div (m + n) <= (1000 * k) \div (k + l)
    BY <2>3, RateRises
  <2>5. SuccessRate(q) = (1000 * m) \div (m + n) /\ SuccessRate(s) = (1000 * k) \div (k + l)
    BY <2>1, <2>2 DEF SuccessRate, Total
  <2> QED
    BY <2>4, <2>5
<1>13. FailurePenalty[q.inRowFailed] <= FailurePenalty[s.inRowFailed]
  <2>1. s.inRowFailed \in 0..q.inRowFailed
    BY <1>3, <1>4, <1>11, RelayScoresAssumption
  <2> QED
    BY <1>4, <2>1, PenaltyFalls
<1> DEFINE a == SuccessRate(s)
           b == SuccessRate(q)
           c == LatencyScore(s)
           d == LatencyScore(q)
           p == FailurePenalty[s.inRowFailed]
           g == FailurePenalty[q.inRowFailed]
           x == (7 * a + 3 * c) \div 10
           y == (7 * b + 3 * d) \div 10
<1>14. Weighed(s) = IF Enhanced THEN (x * p) \div 1000 ELSE x
  BY DEF Weighed
<1>15. Weighed(q) = IF Enhanced THEN (y * g) \div 1000 ELSE y
  BY DEF Weighed
<1>16. a \in 0..1000 /\ b \in 0..1000 /\ b <= a
  BY <1>5, <1>6, <1>12
<1>17. c \in 0..1000 /\ d \in 0..1000 /\ d <= c
  BY <1>7, <1>8, <1>11
<1>18. p \in 0..1000 /\ g \in 0..1000 /\ g <= p
  BY <1>9, <1>10, <1>13
<1> HIDE DEF a, b, c, d, p, g
<1>19. x \in 0..1000
  BY <1>16, <1>17
<1>20. y \in 0..1000
  BY <1>16, <1>17
<1>21. y <= x
  BY <1>16, <1>17
<1> HIDE DEF x, y
<1>22. x \in Nat /\ y \in Nat /\ p \in Nat /\ g \in Nat
  BY <1>18, <1>19, <1>20
<1>23. y * g <= x * p
  BY <1>18, <1>21, <1>22, Products, Zenon
<1>24. y * g \in Nat /\ x * p \in Nat
  BY <1>22
<1>25. (y * g) \div 1000 <= (x * p) \div 1000
  BY <1>23, <1>24
<1> QED
  BY <1>14, <1>15, <1>21, <1>25

\* A better record never scores less, and one without any operation scores as one that
\* has neither shown that it is good nor that it is not.
LEMMA ScoresMore ==
  ASSUME NEW s, NEW q, RecordOK(s), RecordOK(q), s.healthy, q.healthy,
         ~s.blacklisted, ~q.blacklisted, AsGood(s, q)
  PROVE  Score(q) <= Score(s)
<1>1. /\ Score(s) = IF Total(s) = 0 THEN 500 ELSE Weighed(s)
      /\ Score(q) = IF Total(q) = 0 THEN 500 ELSE Weighed(q)
  BY DEF Score
<1>2. /\ s.success \in Nat /\ s.failure \in Nat /\ q.success \in Nat /\ q.failure \in Nat
      /\ s.success >= q.success /\ s.failure <= q.failure
  BY Parts DEF AsGood
<1>3. CASE Total(s) # 0 /\ Total(q) # 0
  BY <1>1, <1>3, WeighsMore
<1>4. CASE Total(s) = 0 /\ Total(q) # 0
  <2>1. q.success = 0 /\ q.failure > 0
    BY <1>2, <1>4 DEF Total
  <2>2. PICK t \in Nat \ {0} : t = Total(q)
    BY <1>2, <1>4 DEF Total
  <2>3. SuccessRate(q) = 0
    <3>1. 0 \div t = 0
      BY <2>2, SMTT(30)
    <3> QED
      BY <2>1, <2>2, <3>1 DEF SuccessRate
  <2>4. PICK late \in 0..1000 : late = LatencyScore(q)
    BY Parts
  <2>5. PICK p \in 0..1000 : p = FailurePenalty[q.inRowFailed]
    <3>1. FailurePenalty[q.inRowFailed] \in 0..1000
      BY Parts
    <3> QED
      BY <3>1
  <2>6. PICK score \in 0..300 : score = (7 * 0 + 3 * late) \div 10
    OBVIOUS
  <2>7. (score * p) \div 1000 \in 0..300
    <3>1. score * p \in Nat /\ score * p <= 1000 * score
      BY ProductBound
    <3>2. PICK m \in Nat : m = score * p
      BY <3>1
    <3>3. m <= 1000 * score
      BY <3>1, <3>2
    <3>4. m \div 1000 \in 0..300
      BY <3>3
    <3> QED
      BY <3>2, <3>4
  <2>8. Weighed(q) \in 0..300
    BY <2>3, <2>4, <2>5, <2>6, <2>7 DEF Weighed
  <2> QED
    BY <1>1, <1>4, <2>8
<1>5. CASE Total(s) # 0 /\ Total(q) = 0
  <2>1. s.failure = 0 /\ s.success > 0
    BY <1>2, <1>5 DEF Total
  <2>2. s.inRowFailed = 0
    BY <2>1, Parts DEF RecordOK
  <2>3. FailurePenalty[s.inRowFailed] = 1000
    BY <2>2, PenaltyIs, RelayScoresAssumption DEF Penalises
  <2>4. SuccessRate(s) = 1000
    <3>1. PICK n \in Nat \ {0} : n = s.success
      BY <1>2, <2>1
    <3>2. n + 0 = n /\ 1000 * n \in Nat
      OBVIOUS
    <3>3. (1000 * n) \div n \in Nat /\ ((1000 * n) \div n) * n <= 1000 * n
      BY <3>2, Division
    <3>4. 1000 <= (1000 * n) \div n
      BY <3>2, Quotient
    <3>5. Total(s) = n
      BY <1>2, <2>1, <3>1 DEF Total
    <3>6. SuccessRate(s) = (1000 * n) \div n
      BY <3>1, <3>5 DEF SuccessRate
    <3> QED
      BY <1>5, <3>4, <3>6, Parts
  <2>5. PICK late \in 0..1000 : late = LatencyScore(s)
    BY Parts
  <2>6. PICK score \in 700..1000 : score = (7 * 1000 + 3 * late) \div 10
    OBVIOUS
  <2>7. (score * 1000) \div 1000 = score
    OBVIOUS
  <2>8. Weighed(s) \in 700..1000
    BY <2>3, <2>4, <2>5, <2>6, <2>7 DEF Weighed
  <2> QED
    BY <1>1, <1>5, <2>8
<1>6. CASE Total(s) = 0 /\ Total(q) = 0
  BY <1>1, <1>6
<1> QED
  BY <1>3, <1>4, <1>5, <1>6

\* Every score is a number.
LEMMA ScoreRange ==
  ASSUME NEW s, RecordOK(s)
  PROVE  Score(s) \in 0..1000
<1>1. Total(s) # 0 => Weighed(s) \in 0..1000
  BY Parts
<1>2. Total(s) # 0 => (3 * Weighed(s)) \div 10 \in 0..1000
  BY <1>1
<1> QED
  BY <1>1, <1>2 DEF Score

----------------------------------------------------------------------------
(* What the managers offer. *)

LEMMA OrderOf ==
  /\ Len(RelayOrder) \in Nat /\ DOMAIN RelayOrder = 1..Len(RelayOrder)
  /\ \A i \in 1..Len(RelayOrder) : RelayOrder[i] \in ScoredRelays
  /\ \A r \in ScoredRelays : \E i \in 1..Len(RelayOrder) : RelayOrder[i] = r
<1>1. RelayOrder \in Seq(ScoredRelays)
  BY RelayScoresAssumption DEF ScoredRelays
<1>2. Len(RelayOrder) \in Nat /\ DOMAIN RelayOrder = 1..Len(RelayOrder)
  BY <1>1
<1> QED
  BY <1>2 DEF ScoredRelays

\* getHealthyRelays lists the relays that are offered, by falling score.
LEMMA HealthyList ==
  ASSUME ScoresInv
  PROVE  LET list == GetHealthyRelays IN
         \E c \in Nat :
           /\ list \in Seq(ScoredRelays) /\ Len(list) = c
           /\ \A k \in 1..c : Offered(counts[list[k]])
           /\ \A r \in ScoredRelays : Offered(counts[r]) => \E k \in 1..c : list[k] = r
           /\ \A k, l \in 1..c : k <= l => Score(counts[list[k]]) >= Score(counts[list[l]])
<1> DEFINE n == Len(RelayOrder)
           places == {i \in DOMAIN RelayOrder : Offered(counts[RelayOrder[i]])}
           score == [i \in places |-> Score(counts[RelayOrder[i]])]
           order == Ranked(places, score)
           c == Cardinality(places)
           list == GetHealthyRelays
<1>1. n \in Nat /\ places \subseteq 1..n /\ \A i \in places : RelayOrder[i] \in ScoredRelays
  BY OrderOf
<1>2. \A i \in places : score[i] = Score(counts[RelayOrder[i]])
  OBVIOUS
<1>3. list = [k \in DOMAIN order |-> RelayOrder[order[k]]]
  BY DEF GetHealthyRelays
<1>4. \A r \in ScoredRelays : Offered(counts[r]) => \E i \in places : RelayOrder[i] = r
  BY OrderOf
<1>5. \A i \in places : Offered(counts[RelayOrder[i]])
  OBVIOUS
<1> HIDE DEF n, places, score, order, c, list
<1>6. \A i \in places : score[i] \in Int
  <2> SUFFICES ASSUME NEW i \in places PROVE score[i] \in Int
    OBVIOUS
  <2>1. RecordOK(counts[RelayOrder[i]])
    BY <1>1 DEF ScoresInv
  <2>2. Score(counts[RelayOrder[i]]) \in 0..1000
    BY <2>1, ScoreRange
  <2> QED
    BY <1>2, <2>2
<1>7. /\ c \in Nat /\ DOMAIN order = 1..c
      /\ \A k \in 1..c : order[k] \in places
      /\ \A i \in places : \E k \in 1..c : order[k] = i
      /\ \A k, l \in 1..c : k <= l => score[order[k]] >= score[order[l]]
  <2>1. /\ Cardinality(places) \in Nat
        /\ DOMAIN Ranked(places, score) = 1..Cardinality(places)
        /\ \A k \in 1..Cardinality(places) : Ranked(places, score)[k] \in places
        /\ \A i \in places : \E k \in 1..Cardinality(places) : Ranked(places, score)[k] = i
        /\ \A k, l \in 1..Cardinality(places) :
              k <= l => score[Ranked(places, score)[k]] >= score[Ranked(places, score)[l]]
    BY <1>1, <1>6, Ranking, Zenon
  <2> QED
    BY <2>1, Zenon DEF order, c
<1>8. list = [k \in 1..c |-> RelayOrder[order[k]]]
  BY <1>3, <1>7
<1>9. list \in Seq(ScoredRelays) /\ Len(list) = c
  <2>1. \A k \in 1..c : RelayOrder[order[k]] \in ScoredRelays
    BY <1>1, <1>7
  <2>2. list \in [1..c -> ScoredRelays]
    BY <1>8, <2>1
  <2> QED
    BY <1>7, <2>2
<1>10. \A k \in 1..c : list[k] = RelayOrder[order[k]]
  BY <1>8
<1>11. \A k \in 1..c : Offered(counts[list[k]])
  BY <1>5, <1>7, <1>10
<1>12. \A r \in ScoredRelays : Offered(counts[r]) => \E k \in 1..c : list[k] = r
  BY <1>4, <1>7, <1>10
<1>13. \A k, l \in 1..c : k <= l => Score(counts[list[k]]) >= Score(counts[list[l]])
  BY <1>2, <1>7, <1>10
<1> QED
  BY <1>7, <1>9, <1>11, <1>12, <1>13 DEF list

\* getAllRelayStatus lists the relays by falling rounded score.
LEMMA StatusList ==
  ASSUME ScoresInv
  PROVE  LET status == GetAllRelayStatus IN
         \E n \in Nat :
           /\ DOMAIN status = 1..n
           /\ \A k \in 1..n : /\ status[k].relay \in ScoredRelays
                              /\ status[k].score = Percent(Score(counts[status[k].relay]))
           /\ \A k, l \in 1..n : k <= l => status[k].score >= status[l].score
<1> DEFINE n == Len(RelayOrder)
           all == [i \in DOMAIN RelayOrder |-> StatusOf(RelayOrder[i])]
           score == [i \in DOMAIN RelayOrder |-> all[i].score]
           order == Ranked(DOMAIN RelayOrder, score)
           status == GetAllRelayStatus
<1>1. n \in Nat /\ DOMAIN RelayOrder = 1..n /\ \A i \in 1..n : RelayOrder[i] \in ScoredRelays
  BY OrderOf
<1>2. \A r : StatusOf(r).relay = r /\ StatusOf(r).score = Percent(Score(counts[r]))
  BY DEF StatusOf
<1>3. status = [k \in DOMAIN order |-> all[order[k]]]
  BY DEF GetAllRelayStatus
<1>4. \A i \in 1..n : all[i] = StatusOf(RelayOrder[i])
  BY <1>1
<1>5. \A i \in 1..n : score[i] = all[i].score
  BY <1>1
<1> HIDE DEF n, all, score, order, status
<1>6. \A i \in 1..n : score[i] \in Int
  <2> SUFFICES ASSUME NEW i \in 1..n PROVE score[i] \in Int
    OBVIOUS
  <2>1. score[i] = Percent(Score(counts[RelayOrder[i]]))
    BY <1>2, <1>4, <1>5
  <2>2. Score(counts[RelayOrder[i]]) \in 0..1000
    BY <1>1, ScoreRange DEF ScoresInv
  <2> QED
    BY <2>1, <2>2 DEF Percent
<1>7. Cardinality(1..n) = n
  <2>1. Cardinality(1..n) = IF 1 > n THEN 0 ELSE n - 1 + 1
    BY <1>1, FS_Interval
  <2> QED
    BY <1>1, <2>1
<1>8. /\ DOMAIN order = 1..n
      /\ \A k \in 1..n : order[k] \in 1..n
      /\ \A k, l \in 1..n : k <= l => score[order[k]] >= score[order[l]]
  <2>1. order = Ranked(1..n, score)
    BY <1>1 DEF order
  <2> QED
    BY <1>1, <1>6, <1>7, <2>1, Ranking
<1>9. DOMAIN status = 1..n /\ \A k \in 1..n : status[k] = StatusOf(RelayOrder[order[k]])
  BY <1>3, <1>4, <1>8
<1>10. \A k \in 1..n : /\ status[k].relay \in ScoredRelays
                       /\ status[k].score = Percent(Score(counts[status[k].relay]))
                       /\ status[k].score = score[order[k]]
  BY <1>1, <1>2, <1>4, <1>5, <1>8, <1>9
<1>11. \A k, l \in 1..n : k <= l => status[k].score >= status[l].score
  BY <1>8, <1>10
<1> QED
  BY <1>1, <1>9, <1>10, <1>11 DEF status

\* The relays that are offered are the healthy ones that are not blacklisted, what a message
\* goes to has not taken the place of better ones, and the best is the first healthy one of
\* the status, for any relays, thresholds, latencies and numbers of operations.
THEOREM BestAreOffered == RsSpec => []BestOffered
<1>1. RsInit => ScoresInv
  BY ScoresAtStart
<1>2. ScoresInv => BestOffered
  <2> SUFFICES ASSUME ScoresInv PROVE BestOffered
    OBVIOUS
  <2> DEFINE list == GetHealthyRelays
             status == GetAllRelayStatus
             multiPath == GetMultiPathRelays(MultiPathCount)
             offered == {list[i] : i \in DOMAIN list}
             used == {multiPath[i] : i \in DOMAIN multiPath}
             best == GetBestRelay
  <2>1. PICK c \in Nat :
          /\ list \in Seq(ScoredRelays) /\ Len(list) = c
          /\ \A k \in 1..c : Offered(counts[list[k]])
          /\ \A r \in ScoredRelays : Offered(counts[r]) => \E k \in 1..c : list[k] = r
          /\ \A k, l \in 1..c : k <= l => Score(counts[list[k]]) >= Score(counts[list[l]])
    BY HealthyList
  <2>2. PICK n \in Nat :
          /\ DOMAIN status = 1..n
          /\ \A k \in 1..n : /\ status[k].relay \in ScoredRelays
                             /\ status[k].score = Percent(Score(counts[status[k].relay]))
          /\ \A k, l \in 1..n : k <= l => status[k].score >= status[l].score
    BY StatusList
  <2>3. MultiPathCount \in Nat
    BY RelayScoresAssumption
  <2>4. \A m \in Nat : GetMultiPathRelays(m) = SubSeq(list, 1, Smaller(m, c))
    BY <2>1 DEF GetMultiPathRelays
  <2> HIDE DEF list, status
  <2>5. ASSUME NEW m \in Nat
        PROVE  /\ Smaller(m, c) \in 0..c
               /\ DOMAIN SubSeq(list, 1, Smaller(m, c)) = 1..Smaller(m, c)
               /\ \A k \in 1..Smaller(m, c) : SubSeq(list, 1, Smaller(m, c))[k] = list[k]
    <3>1. Smaller(m, c) \in 0..c
      BY DEF Smaller
    <3> HIDE DEF Smaller
    <3> QED
      BY <2>1, <3>1
  <2>6. DOMAIN list = 1..c
    BY <2>1
  <2>7. \A r \in ScoredRelays :
          Offered(counts[r]) <=> counts[r].healthy /\ ~counts[r].blacklisted
    BY HealthyOffered
  <2>8. \A k \in 1..c : list[k] \in ScoredRelays
    BY <2>1
  <2>9. \A r \in ScoredRelays : r \in offered <=> counts[r].healthy /\ ~counts[r].blacklisted
    BY <2>1, <2>6, <2>7
  <2>10. Cardinality(offered) = GetHealthSummary.healthy
    <3> DEFINE banned == {r \in ScoredRelays : counts[r].blacklisted}
               well == {r \in ScoredRelays \ banned : counts[r].healthy}
    <3>1. offered \subseteq ScoredRelays
      BY <2>6, <2>8
    <3>2. offered = well
      BY <2>9, <3>1
    <3>3. GetHealthSummary.healthy = Cardinality(well)
      BY DEF GetHealthSummary
    <3> QED
      BY <3>2, <3>3
  <2>11. ASSUME NEW r \in used, NEW q \in offered \ used, AsGood(counts[q], counts[r])
         PROVE  Score(counts[q]) = Score(counts[r])
    <3> DEFINE m == Smaller(MultiPathCount, c)
    <3>1. /\ m \in 0..c /\ DOMAIN multiPath = 1..m
          /\ \A k \in 1..m : multiPath[k] = list[k]
      BY <2>3, <2>4, <2>5
    <3> HIDE DEF m, multiPath
    <3>2. PICK k \in 1..m : list[k] = r
      BY <3>1
    <3>3. PICK l \in 1..c : list[l] = q
      BY <2>6
    <3>4. ~(l \in 1..m)
      BY <3>1, <3>3
    <3>5. k \in 1..c /\ k <= l
      BY <3>1, <3>4
    <3>6. Score(counts[r]) >= Score(counts[q])
      BY <2>1, <3>2, <3>3, <3>5
    <3>7. r \in ScoredRelays /\ q \in ScoredRelays /\ Offered(counts[r]) /\ Offered(counts[q])
      BY <2>1, <2>8, <3>2, <3>3, <3>5
    <3>8. RecordOK(counts[r]) /\ RecordOK(counts[q])
      BY <3>7 DEF ScoresInv
    <3>9. Score(counts[r]) <= Score(counts[q])
      BY <2>7, <2>11, <3>7, <3>8, ScoresMore
    <3>10. Score(counts[r]) \in 0..1000 /\ Score(counts[q]) \in 0..1000
      BY <3>8, ScoreRange
    <3>11. PICK x \in 0..1000 : x = Score(counts[r])
      BY <3>10
    <3>12. PICK y \in 0..1000 : y = Score(counts[q])
      BY <3>10
    <3>13. x >= y /\ x <= y
      BY <3>6, <3>9, <3>11, <3>12
    <3> QED
      BY <3>11, <3>12, <3>13
  <2>12. ASSUME NEW i \in DOMAIN status, NEW j \in DOMAIN status,
                best = <<status[i].relay>>, j < i, status[j].relay \in offered
         PROVE  status[j].score = status[i].score
    <3> DEFINE m == Smaller(1, c)
    <3>1. /\ m \in 0..c /\ m <= 1 /\ DOMAIN best = 1..m
          /\ \A k \in 1..m : best[k] = list[k]
      <4>1. m <= 1
        BY DEF Smaller
      <4> QED
        BY <2>4, <2>5, <4>1 DEF GetBestRelay
    <3> HIDE DEF m, best
    <3>2. DOMAIN best = 1..1 /\ best[1] = status[i].relay
      BY <2>12
    <3>3. 1 \in 1..c /\ list[1] = status[i].relay
      <4>1. 1 \in 1..m
        BY <3>1, <3>2
      <4> QED
        BY <3>1, <3>2, <4>1
    <3>4. PICK l \in 1..c : list[l] = status[j].relay
      BY <2>6, <2>12
    <3>5. Score(counts[status[i].relay]) >= Score(counts[status[j].relay])
      BY <2>1, <3>3, <3>4
    <3>6. i \in 1..n /\ j \in 1..n
      BY <2>2
    <3>7. PICK x \in 0..1000 : x = Score(counts[status[i].relay])
      BY <2>2, <3>6, ScoreRange DEF ScoresInv
    <3>8. PICK y \in 0..1000 : y = Score(counts[status[j].relay])
      BY <2>2, <3>6, ScoreRange DEF ScoresInv
    <3>9. status[i].score = Percent(x) /\ status[j].score = Percent(y)
      BY <2>2, <3>6, <3>7, <3>8
    <3>10. Percent(y) <= Percent(x) /\ Percent(y) \in Int /\ Percent(x) \in Int
      <4>1. y <= x
        BY <3>5, <3>7, <3>8
      <4> QED
        BY <4>1 DEF Percent
    <3>11. status[j].score >= status[i].score
      BY <2>2, <2>12, <3>6
    <3> QED
      BY <3>9, <3>10, <3>11
  <2> QED
    BY <2>9, <2>10, <2>11, <2>12 DEF BestOffered, list, status
<1> QED
  BY <1>1, <1>2, ScoresKept, PTL DEF RsSpec
================================================================================

---------------------------- MODULE EnhancedRelays ----------------------------
(***************************************************************************)
(* Class EnhancedRelayManager of src/src/network/enhanced-relay-manager.js *)
(* and the commands blacklistRelay and recoverRelay of                     *)
(* src/src/service/server.js, which another process runs on the same two   *)
(* files, RELAY_STATS_FILE and relay_blacklist.json.  The manager works on *)
(* what it has in memory, runs each method in one piece and writes each    *)
(* file as a whole; a command reads a file, changes it and writes it back. *)
(* One action is one method of the manager, or one access to a file.       *)
(*                                                                         *)
(* Of a relay's record the streaks of successes and failures and the flag  *)
(* blacklisted are kept, which decide whether it is used; a streak is      *)
(* counted up to the length that matters.  Latencies, totals and scores    *)
(* are those of RelayScores; the health history decides nothing.  A file   *)
(* without relays and a missing one are not told apart.                    *)
(***************************************************************************)
EXTENDS Integers, Sequences, Functions

CONSTANTS
  Relays,
  Initial,       \* relays the manager is created with
  Threshold,     \* blacklistThreshold
  RecoverAfter   \* successes in a row that end a blacklisting

ASSUME RelaysAssumption ==
  /\ Initial \subseteq Relays
  /\ Threshold \in Nat \ {0, 1} /\ RecoverAfter \in Nat \ {0}

VARIABLES
  relays,     \* this.relays
  blacklist,  \* this.blacklist
  todo,       \* files that the method just run has still to write
  statsFile,  \* RELAY_STATS_FILE
  listFile,   \* relay_blacklist.json
  command,    \* the command of the other process
  lost,       \* history: a write failed, or undid one made since it was read for
  pardoned,   \* history: relays a recoverRelay has concerned since the last start
  earned,     \* history: successes since failures last blacklisted the relay
  convicted   \* history: relays that failures have blacklisted

files == <<statsFile, listFile>>
history == <<lost, pardoned, earned, convicted>>
vars == <<relays, blacklist, todo, files, command, history>>

Stats == [failures : 0..Threshold, successes : 0..RecoverAfter, blacklisted : BOOLEAN]
NewStats == [failures |-> 0, successes |-> 0, blacklisted |-> FALSE]
Table == UNION {[known -> Stats] : known \in SUBSET Relays}
NoTable == [r \in {} |-> NewStats]

Command ==
  [at : {"idle", "list", "listed", "stats"}, does : {"blacklist", "recover"}, relay : Relays,
   list : SUBSET Relays, stats : Table, stale : BOOLEAN]

TypeOK ==
  /\ relays \in Table /\ blacklist \subseteq Relays
  /\ todo \in Seq({"list", "stats"}) /\ Len(todo) <= 3
  /\ statsFile \in Table /\ listFile \subseteq Relays
  /\ command \in Command
  /\ lost \in BOOLEAN /\ pardoned \subseteq Relays /\ convicted \subseteq Relays
  /\ earned \in [Relays -> 0..RecoverAfter]

Known == DOMAIN relays
Blacklisted(r) == relays[r].blacklisted
UpTo(n, limit) == IF n < limit THEN n ELSE limit

With(table, r, stats) == [q \in DOMAIN table \cup {r} |-> IF q = r THEN stats ELSE table[q]]
WithoutRelay(table, r) == Restrict(table, DOMAIN table \ {r})

----------------------------------------------------------------------------
(* The manager: a method runs once the files of the last one are written.  *)

Method(writes) == todo = <<>> /\ todo' = writes /\ UNCHANGED <<files, command, lost, pardoned>>

Earned(r) == earned' = [earned EXCEPT ![r] = UpTo(@ + 1, RecoverAfter)]
Convict(r) ==
  /\ blacklist' = blacklist \cup {r}
  /\ convicted' = convicted \cup {r} /\ earned' = [earned EXCEPT ![r] = 0]

\* The streak of successes that _attemptRecovery asks for.
Recovers(s) == s.blacklisted /\ s.successes + 1 >= RecoverAfter

\* Mutant: a failure does not end the streak of successes.
RecordFailureKeepsStreak(r) ==
  LET s == relays[r] IN
  /\ r \in Known
  /\ relays' = [relays EXCEPT ![r].failures = UpTo(@ + 1, Threshold),
                              ![r].blacklisted = @ \/ s.failures + 1 >= Threshold]
  /\ IF ~s.blacklisted /\ s.failures + 1 >= Threshold
     THEN Convict(r) /\ Method(<<"list", "stats", "stats">>)
     ELSE Method(<<"stats">>) /\ UNCHANGED <<blacklist, convicted, earned>>

RecordSuccess(r) ==
  LET s == relays[r] IN
  /\ r \in Known /\ Earned(r)
  /\ relays' = [relays EXCEPT ![r] =
       [failures |-> 0, successes |-> UpTo(s.successes + 1, RecoverAfter),
        blacklisted |-> s.blacklisted /\ ~Recovers(s)]]
  /\ IF Recovers(s)
     THEN /\ blacklist' = blacklist \ {r} /\ convicted' = convicted \ {r}
          /\ Method(<<"list", "stats">>)
     ELSE Method(<<"stats">>) /\ UNCHANGED <<blacklist, convicted>>

RecordFailure(r) ==
  LET s == relays[r] IN
  /\ r \in Known
  /\ relays' = [relays EXCEPT ![r] =
       [failures |-> UpTo(s.failures + 1, Threshold), successes |-> 0,
        blacklisted |-> s.blacklisted \/ s.failures + 1 >= Threshold]]
  /\ IF ~s.blacklisted /\ s.failures + 1 >= Threshold
     THEN Convict(r) /\ Method(<<"list", "stats", "stats">>)
     ELSE Method(<<"stats">>) /\ UNCHANGED <<blacklist, convicted, earned>>

\* Mutant: nothing is saved.
BlacklistRelayUnsaved(r) ==
  /\ r \in Known
  /\ relays' = [relays EXCEPT ![r].blacklisted = TRUE]
  /\ blacklist' = blacklist \cup {r}
  /\ Method(<<>>) /\ UNCHANGED <<earned, convicted>>

\* By hand: the streaks stay as they are.
BlacklistRelay(r) ==
  /\ r \in Known
  /\ relays' = [relays EXCEPT ![r].blacklisted = TRUE]
  /\ blacklist' = blacklist \cup {r}
  /\ Method(<<"list", "stats">>) /\ UNCHANGED <<earned, convicted>>

Unlisted(r) ==
  /\ blacklist' = blacklist \ {r} /\ convicted' = convicted \ {r}
  /\ UNCHANGED earned

UnblacklistRelay(r) ==
  /\ r \in Known /\ Unlisted(r)
  /\ relays' = [relays EXCEPT ![r].blacklisted = FALSE, ![r].failures = 0]
  /\ Method(<<"list", "stats">>)

ResetRelay(r) ==
  /\ r \in Known /\ Unlisted(r)
  /\ relays' = [relays EXCEPT ![r] = NewStats]
  /\ Method(<<"stats", "list">>)

RemoveRelay(r) ==
  /\ r \in Known /\ Unlisted(r)
  /\ relays' = WithoutRelay(relays, r)
  /\ Method(<<"stats", "list">>)

\* The new record is not on the blacklist, whether or not the relay is.
AddRelay(r) ==
  /\ r \notin Known
  /\ relays' = With(relays, r, NewStats)
  /\ Method(<<"stats">>) /\ UNCHANGED <<blacklist, earned, convicted>>

\* A command that has read the file will write back an older one.
Overtakes(place) ==
  command' = [command EXCEPT !.stale = @ \/ command.at = place]

WriteFile ==
  /\ todo # <<>> /\ todo' = Tail(todo)
  /\ \/ Head(todo) = "list" /\ listFile' = blacklist /\ Overtakes("list") /\ UNCHANGED statsFile
     \/ Head(todo) = "stats" /\ statsFile' = relays /\ Overtakes("stats") /\ UNCHANGED listFile
  /\ UNCHANGED <<relays, blacklist, history>>

\* The error is only logged.
WriteFails ==
  /\ todo # <<>> /\ todo' = Tail(todo)
  /\ lost' = TRUE
  /\ UNCHANGED <<relays, blacklist, files, command, pardoned, earned, convicted>>

\* _loadStats, for the relays it is created with.
LoadedStats(r) == IF r \in DOMAIN statsFile THEN statsFile[r] ELSE NewStats

\* _loadBlacklist adds to it.
Loaded(r) == [LoadedStats(r) EXCEPT !.blacklisted = @ \/ r \in listFile]

\* The process ends, and a manager is created by another one.
Restart ==
  /\ relays' = [r \in Initial |-> Loaded(r)]
  /\ blacklist' = listFile
  /\ todo' = <<>>
  /\ pardoned' = IF command.at # "idle" /\ command.does = "recover" THEN {command.relay} ELSE {}
  /\ convicted' = {r \in convicted \cap Initial : Blacklisted(r)'}
  /\ UNCHANGED <<files, command, lost, earned>>

----------------------------------------------------------------------------
(* The commands. *)

Goto(place) == command' = [command EXCEPT !.at = place, !.stale = FALSE]

ReadList(does, r) ==
  /\ command.at = "idle"
  /\ command' = [command EXCEPT !.at = "list", !.does = does, !.relay = r, !.list = listFile,
                                !.stats = NoTable, !.stale = FALSE]
  /\ pardoned' = IF does = "recover" THEN pardoned \cup {r} ELSE pardoned
  /\ UNCHANGED <<relays, blacklist, todo, files, lost, earned, convicted>>

Edited(list) ==
  IF command.does = "blacklist" THEN list \cup {command.relay} ELSE list \ {command.relay}

WriteList ==
  /\ command.at = "list"
  /\ listFile' = Edited(command.list)
  /\ lost' = (lost \/ command.stale)
  /\ Goto("listed")
  /\ UNCHANGED <<relays, blacklist, todo, statsFile, pardoned, earned, convicted>>

ReadStats ==
  /\ command.at = "listed"
  /\ \/ command' = [command EXCEPT !.at = "stats", !.stats = statsFile]
     \/ DOMAIN statsFile = {} /\ Goto("idle")
  /\ UNCHANGED <<relays, blacklist, todo, files, history>>

\* Mutant: only the flag is taken back.
PardonedOnly(table, r) ==
  IF r \in DOMAIN table THEN [table EXCEPT ![r].blacklisted = FALSE] ELSE table

Pardoned(table, r) ==
  IF r \in DOMAIN table
  THEN [table EXCEPT ![r].blacklisted = FALSE, ![r].failures = 0]
  ELSE table

Condemned(table, r) ==
  With(table, r, [(IF r \in DOMAIN table THEN table[r] ELSE NewStats) EXCEPT !.blacklisted = TRUE])

WriteStats ==
  /\ command.at = "stats"
  /\ statsFile' = IF command.does = "blacklist" THEN Condemned(command.stats, command.relay)
                  ELSE Pardoned(command.stats, command.relay)
  /\ lost' = (lost \/ command.stale)
  /\ command' = [command EXCEPT !.at = "idle", !.list = {}, !.stats = NoTable, !.stale = FALSE]
  /\ UNCHANGED <<relays, blacklist, todo, listFile, pardoned, earned, convicted>>

\* The command ends early: an exception, or its process is killed.
CommandEnds ==
  /\ command.at # "idle"
  /\ command' = [command EXCEPT !.at = "idle", !.list = {}, !.stats = NoTable, !.stale = FALSE]
  /\ UNCHANGED <<relays, blacklist, todo, files, history>>

\* getRelayHealth, which reads both files at once: the health of a relay as it is shown;
\* healthy, unhealthy and without a health, for records not on the list, are one value.
GetRelayHealth(r) ==
  CASE r \in listFile -> "blacklisted"
    [] r \in DOMAIN statsFile \ listFile -> "recorded"
    [] OTHER -> "unknown"

Init ==
  /\ relays = [r \in Initial |-> NewStats] /\ blacklist = {} /\ todo = <<>>
  /\ statsFile = NoTable /\ listFile = {}
  /\ command \in {[at |-> "idle", does |-> "recover", relay |-> r, list |-> {},
                   stats |-> NoTable, stale |-> FALSE] : r \in Relays}
  /\ lost = FALSE /\ pardoned = {} /\ convicted = {}
  /\ earned = [r \in Relays |-> 0]

ManagerMethod(r) ==
  \/ RecordSuccess(r) \/ RecordFailure(r) \/ BlacklistRelay(r) \/ UnblacklistRelay(r)
  \/ ResetRelay(r) \/ RemoveRelay(r) \/ AddRelay(r)

Next ==
  \/ \E r \in Relays : ManagerMethod(r)
  \/ WriteFile \/ WriteFails \/ Restart
  \/ \E r \in Relays, does \in {"blacklist", "recover"} : ReadList(does, r)
  \/ WriteList \/ ReadStats \/ WriteStats \/ CommandEnds

Spec == Init /\ [][Next]_vars

----------------------------------------------------------------------------
(* Properties. *)

\* A relay with too many failures in a row is not used, in memory and in what a
\* restart will find, and nor is one that is on the list and was so when its
\* record was made: no mix of methods, commands and restarts takes away the flag
\* that getHealthyRelays obeys and leaves the reason for it.  And getRelayHealth, which
\* another process calls, shows a relay that the manager has on its list as such, unless a
\* command has taken it off or a write has been lost.
FailingExcluded ==
  /\ \A r \in Known :
       relays[r].failures >= Threshold \/ (r \in Initial /\ r \in blacklist) => Blacklisted(r)
  /\ \A r \in DOMAIN statsFile : statsFile[r].failures >= Threshold => statsFile[r].blacklisted
  /\ todo = <<>> /\ command.at = "idle" /\ ~lost =>
       \A r \in blacklist \ pardoned : GetRelayHealth(r) = "blacklisted"

\* A blacklisting that was written survives the process, although it is kept in
\* two files that are written one after the other and by commands as well; unless
\* a command takes it back, a write fails or a command writes back what it read
\* before a write of the manager.
BlacklistSurvives ==
  [][Restart /\ todo = <<>> /\ ~lost =>
       \A r \in (Known \cap Initial) \ pardoned : Blacklisted(r) => Blacklisted(r)']_vars

\* A relay that was blacklisted for its failures comes back by hand or by as many
\* successes, since then, as "several consecutive successes" are; the manager may
\* end and be created again in between, with one of its two files written.
RecoveryEarned ==
  [][\A r \in convicted \cap Known :
       RecordSuccess(r) /\ Blacklisted(r) /\ ~Blacklisted(r)' /\ ~lost =>
         earned'[r] >= RecoverAfter]_vars
=============================================================================

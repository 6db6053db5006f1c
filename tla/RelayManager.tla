----------------------------- MODULE RelayManager -----------------------------
(***************************************************************************)
(* The statistics of src/src/network/relay-manager.js: they are kept in    *)
(* memory and written to RELAY_STATS_FILE some time after a change, by a   *)
(* timer, after so many changes, by flush or by close.  A write takes a    *)
(* while, and changes, flushes and the timer come meanwhile.               *)
(***************************************************************************)
EXTENDS Integers, FiniteSets, Functions

CONSTANTS
  KnownRelays,
  FirstRelays,        \* the relays it is constructed with
  OperationThreshold, \* DEBOUNCE_CONFIG.OPERATION_THRESHOLD
  MaxCount,           \* bound: successes and failures of a relay
  NoStats,            \* no file, or no save under way
  Truncated           \* a file that is being written

ASSUME RelayManagerAssumption ==
  /\ FirstRelays \subseteq KnownRelays
  /\ OperationThreshold \in Nat \ {0} /\ MaxCount \in Nat

VARIABLES
  relays,             \* this.relays
  statsFile,          \* RELAY_STATS_FILE
  loading,            \* whether _loadStats is under way
  statsDirty,         \* this._dirty
  pendingOperations,  \* this._pendingOperations, counted up to the threshold
  saveTimer,          \* whether the timer runs
  saveImage,          \* what the save under way writes
  changed,            \* history: relays whose record has changed in this process
  overtaken           \* history: _saveStats found a save under way, or one failed

rmVars == <<relays, statsFile, loading, statsDirty, pendingOperations, saveTimer, saveImage,
            changed, overtaken>>

Stats == [success : 0..MaxCount, failure : 0..MaxCount, healthy : BOOLEAN]
Records == UNION {[S -> Stats] : S \in SUBSET KnownRelays}

ASSUME StatsFileAssumption ==
  NoStats \notin Records /\ Truncated \notin Records /\ NoStats # Truncated

RmTypeOK ==
  /\ relays \in Records /\ statsFile \in Records \cup {NoStats, Truncated}
  /\ loading \in BOOLEAN /\ statsDirty \in BOOLEAN /\ saveTimer \in BOOLEAN
  /\ pendingOperations \in 0..OperationThreshold
  /\ saveImage \in Records \cup {NoStats} /\ changed \subseteq KnownRelays /\ overtaken \in BOOLEAN

\* _createStats
CreateStats == [success |-> 0, failure |-> 0, healthy |-> TRUE]

RmInit ==
  /\ relays = [r \in FirstRelays |-> CreateStats] /\ statsFile = NoStats /\ loading = TRUE
  /\ statsDirty = FALSE /\ pendingOperations = 0 /\ saveTimer = FALSE
  /\ saveImage = NoStats /\ changed = {} /\ overtaken = FALSE

Saving == saveImage # NoStats

Loaded == IF statsFile \in {NoStats, Truncated} THEN {} ELSE DOMAIN statsFile

\* _loadStats: a record of the file replaces what has been recorded meanwhile, which
\* then does not count as a change.
LoadStats ==
  /\ loading /\ loading' = FALSE
  /\ relays' = [r \in DOMAIN relays |-> IF r \in Loaded THEN statsFile[r] ELSE relays[r]]
  /\ changed' = changed \ (Loaded \cap DOMAIN relays)
  /\ UNCHANGED <<statsFile, statsDirty, pendingOperations, saveTimer, saveImage, overtaken>>

\* _saveStats, for what is in memory and whether it is dirty: the timer is stopped,
\* also when nothing can be saved because a save is under way.
SaveStats(records, isDirty, operations) ==
  /\ saveTimer' = FALSE
  /\ IF isDirty /\ ~Saving
     THEN /\ statsDirty' = FALSE /\ pendingOperations' = 0
          /\ saveImage' = records /\ overtaken' = FALSE
     ELSE /\ statsDirty' = isDirty /\ pendingOperations' = operations
          /\ overtaken' = (overtaken \/ isDirty)
          /\ UNCHANGED saveImage

\* _scheduleSave
ScheduleSave(records) ==
  IF pendingOperations + 1 >= OperationThreshold
  THEN SaveStats(records, TRUE, OperationThreshold)
  ELSE /\ pendingOperations' = pendingOperations + 1 /\ statsDirty' = TRUE
       /\ saveTimer' = TRUE
       /\ UNCHANGED <<saveImage, overtaken>>

Change(r, records) ==
  /\ relays' = records /\ changed' = changed \cup {r}
  /\ ScheduleSave(records)
  /\ UNCHANGED <<statsFile, loading>>

Put(r, stats) == [s \in DOMAIN relays \cup {r} |-> IF s = r THEN stats ELSE relays[s]]

RecordRelaySuccess(r) ==
  /\ r \in DOMAIN relays /\ relays[r].success < MaxCount
  /\ Change(r, Put(r, [success |-> relays[r].success + 1, failure |-> relays[r].failure,
                       healthy |-> TRUE]))

\* _getRecentFailureRate counts all failures, not the recent ones.
RecordRelayFailure(r) ==
  /\ r \in DOMAIN relays /\ relays[r].failure < MaxCount
  /\ LET failures == relays[r].failure + 1 IN
     Change(r, Put(r, [success |-> relays[r].success, failure |-> failures,
                       healthy |-> relays[r].healthy /\ failures <= relays[r].success]))

AddRelay(r) == r \notin DOMAIN relays /\ Change(r, Put(r, CreateStats))
RemoveRelay(r) == r \in DOMAIN relays /\ Change(r, Restrict(relays, DOMAIN relays \ {r}))
ResetRelay(r) == r \in DOMAIN relays /\ Change(r, Put(r, CreateStats))

SaveTimerFires ==
  /\ saveTimer /\ SaveStats(relays, statsDirty, pendingOperations)
  /\ UNCHANGED <<relays, statsFile, loading, changed>>

\* flush calls _saveStats if dirty; that it then waits changes nothing.
FlushStats ==
  /\ statsDirty /\ SaveStats(relays, statsDirty, pendingOperations)
  /\ UNCHANGED <<relays, statsFile, loading, changed>>

\* close without a change to save.
CloseManager ==
  /\ ~statsDirty /\ saveTimer' = FALSE
  /\ UNCHANGED <<relays, statsFile, loading, statsDirty, pendingOperations, saveImage,
                 changed, overtaken>>

\* writeFile truncates the file before it writes it.
SaveTruncates ==
  /\ Saving /\ statsFile # Truncated /\ statsFile' = Truncated
  /\ UNCHANGED <<relays, loading, statsDirty, pendingOperations, saveTimer, saveImage,
                 changed, overtaken>>

\* Mutant: what is in memory counts as saved when the save ends.
SaveEndsClean ==
  /\ Saving /\ statsFile = Truncated
  /\ statsFile' = saveImage /\ saveImage' = NoStats /\ statsDirty' = FALSE
  /\ UNCHANGED <<relays, loading, pendingOperations, saveTimer, changed, overtaken>>

SaveEnds ==
  /\ Saving /\ statsFile = Truncated
  /\ statsFile' = saveImage /\ saveImage' = NoStats
  /\ UNCHANGED <<relays, loading, statsDirty, pendingOperations, saveTimer, changed, overtaken>>

\* The failure is logged.
StatsSaveFails ==
  /\ Saving /\ saveImage' = NoStats /\ overtaken' = TRUE
  /\ UNCHANGED <<relays, statsFile, loading, statsDirty, pendingOperations, saveTimer, changed>>

\* The process ends and another manager is constructed.
RestartManager ==
  /\ relays' = [r \in FirstRelays |-> CreateStats] /\ loading' = TRUE
  /\ statsDirty' = FALSE /\ pendingOperations' = 0 /\ saveTimer' = FALSE
  /\ saveImage' = NoStats /\ changed' = {} /\ overtaken' = FALSE
  /\ UNCHANGED statsFile

RmNext ==
  \/ LoadStats \/ SaveTimerFires \/ FlushStats \/ CloseManager
  \/ SaveTruncates \/ SaveEnds \/ StatsSaveFails \/ RestartManager
  \/ \E r \in KnownRelays : \/ RecordRelaySuccess(r) \/ RecordRelayFailure(r)
                            \/ AddRelay(r) \/ RemoveRelay(r) \/ ResetRelay(r)

RmSpec == RmInit /\ [][RmNext]_rmVars

----------------------------------------------------------------------------
(* Properties. *)

Same(records, r) ==
  /\ r \in DOMAIN records <=> r \in DOMAIN relays
  /\ r \in DOMAIN relays => records[r] = relays[r]

\* No change of the statistics is forgotten: it is in the file, or in what a save
\* under way writes, or a timer will save it; however changes, flushes, the timer,
\* the threshold and the load of the file overlap, and as long as no save failed and
\* none was asked for while another was under way.
StatsSaved ==
  ~overtaken =>
    \A r \in changed :
      \/ statsDirty /\ saveTimer
      \/ Saving /\ Same(saveImage, r)
      \/ statsFile \in Records /\ Same(statsFile, r)
=============================================================================

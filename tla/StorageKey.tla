------------------------------ MODULE StorageKey ------------------------------
(***************************************************************************)
(* The storage key of src/src/utils/storage-encryption.js and the lines it *)
(* encrypts (src/src/utils/json-file.js): each process of the agent caches *)
(* the key, which one of them generates.  Every function is synchronous,   *)
(* so that within a process only the two halves of an atomic write can be  *)
(* told apart by the others.                                               *)
(***************************************************************************)
EXTENDS FiniteSets

CONSTANTS
  Users,        \* processes that store lines
  Keys,
  NoKey

ASSUME StorageKeyAssumption == NoKey \notin Keys

VARIABLES
  storageKey,   \* the cached key of each process
  keyWrite,     \* the key it is about to rename to STORAGE_KEY_FILE
  storageFile,  \* STORAGE_KEY_FILE
  lineKeys,     \* the keys of the lines of a file
  lapsed        \* history: a rotation, two generations at once, or one that failed

skVars == <<storageKey, keyWrite, storageFile, lineKeys, lapsed>>

SkTypeOK ==
  /\ storageKey \in [Users -> Keys \cup {NoKey}] /\ keyWrite \in [Users -> Keys \cup {NoKey}]
  /\ storageFile \in Keys \cup {NoKey} /\ lineKeys \subseteq Keys /\ lapsed \in BOOLEAN

SkInit ==
  /\ storageKey = [u \in Users |-> NoKey] /\ keyWrite = [u \in Users |-> NoKey]
  /\ storageFile = NoKey /\ lineKeys = {} /\ lapsed = FALSE

Unused == Keys \ ({storageFile} \cup lineKeys \cup {storageKey[u] : u \in Users}
                  \cup {keyWrite[u] : u \in Users})

Running(u) == keyWrite[u] = NoKey
OthersWrite(u) == \E v \in Users \ {u} : keyWrite[v] # NoKey

\* Mutant: a key is generated whatever is in the file.
FoundNever == FALSE

\* existsSync(STORAGE_KEY_FILE)
Found == storageFile # NoKey

\* getStorageKey reads the key that exists.
FindKey(u) ==
  /\ Running(u) /\ storageKey[u] = NoKey /\ Found
  /\ storageKey' = [storageKey EXCEPT ![u] = storageFile]
  /\ UNCHANGED <<keyWrite, storageFile, lineKeys, lapsed>>

\* It caches a new one before the file is renamed.
NewKey(u) ==
  /\ Running(u) /\ storageKey[u] = NoKey /\ ~Found
  /\ \E k \in Unused : /\ storageKey' = [storageKey EXCEPT ![u] = k]
                       /\ keyWrite' = [keyWrite EXCEPT ![u] = k]
  /\ lapsed' = (lapsed \/ OthersWrite(u))
  /\ UNCHANGED <<storageFile, lineKeys>>

\* rotateStorageKey: the caller gets both keys; no line is encrypted again.
Rotate(u) ==
  /\ Running(u) /\ storageKey[u] # NoKey
  /\ \E k \in Unused : keyWrite' = [keyWrite EXCEPT ![u] = k]
  /\ lapsed' = TRUE
  /\ UNCHANGED <<storageKey, storageFile, lineKeys>>

RenameKey(u) ==
  /\ ~Running(u) /\ keyWrite' = [keyWrite EXCEPT ![u] = NoKey]
  /\ storageFile' = keyWrite[u] /\ storageKey' = [storageKey EXCEPT ![u] = keyWrite[u]]
  /\ UNCHANGED <<lineKeys, lapsed>>

\* The exception leaves the cached key as it is.
RenameKeyFails(u) ==
  /\ ~Running(u) /\ keyWrite' = [keyWrite EXCEPT ![u] = NoKey]
  /\ lapsed' = TRUE
  /\ UNCHANGED <<storageKey, storageFile, lineKeys>>

\* appendJsonLineAsync, encrypted.
AppendLine(u) ==
  /\ Running(u) /\ storageKey[u] # NoKey
  /\ lineKeys' = lineKeys \cup {storageKey[u]}
  /\ UNCHANGED <<storageKey, keyWrite, storageFile, lapsed>>

\* The process ends, also between the two halves of a write, and starts again.
RestartUser(u) ==
  /\ storageKey' = [storageKey EXCEPT ![u] = NoKey]
  /\ keyWrite' = [keyWrite EXCEPT ![u] = NoKey]
  /\ UNCHANGED <<storageFile, lineKeys, lapsed>>

SkStep(u) ==
  \/ FindKey(u) \/ NewKey(u) \/ Rotate(u) \/ RenameKey(u) \/ RenameKeyFails(u)
  \/ AppendLine(u) \/ RestartUser(u)

SkNext == \E u \in Users : SkStep(u)
SkSpec == SkInit /\ [][SkNext]_skVars

----------------------------------------------------------------------------
(* Properties. *)

\* Whether readJsonLinesAsync returns a line for u, once u has its key.
Readable(u, key) == storageKey[u] \in {NoKey, key}

\* However the processes of an agent start, die and start again, each can read
\* every line that any of them has stored, and so can one that starts later,
\* as long as no two generated a key at once, no such write failed and
\* rotateStorageKey was not called.
LinesReadable ==
  ~lapsed => \A key \in lineKeys : /\ storageFile = key
                                   /\ \A u \in Users : Readable(u, key)
=============================================================================

----------------------------- MODULE IdentityStore -----------------------------
(***************************************************************************)
(* loadOrCreateIdentity of src/src/core/identity.js over the encrypted     *)
(* file of src/src/core/storage.js: several processes, each with its       *)
(* password or with the key file of its working directory, load one        *)
(* identity file.  One action is one access to a file.                     *)
(*                                                                         *)
(* A password is its own key: it is derived with a fixed salt.  Decryption *)
(* under another key fails (GCM).  Neither file is ever deleted, so that a *)
(* test for existence and the read after it are one action.                *)
(***************************************************************************)
EXTENDS FiniteSets

CONSTANTS
  Procs,
  Dirs,         \* working directories
  Password,     \* AGENT_PULSE_KEY_PASSWORD, where it is set
  Identities,   \* secret keys that may be generated
  LocalKeys,    \* keys that may be generated
  Plain,        \* how an older version has stored an identity
  Missing,      \* no file, or nothing
  Torn          \* a key file that is truncated and not written yet

ASSUME IdentityAssumption ==
  /\ Plain \notin LocalKeys \cup {Password, Missing, Torn}
  /\ Missing \notin LocalKeys \cup {Password} /\ Torn \notin LocalKeys \cup {Password}

VARIABLES
  source,       \* where each process gets its key
  idFile,       \* the identity file
  keyFile,      \* .agent-pulse-key of each directory
  loader,       \* how far loadOrCreateIdentity is in each process
  identity      \* what it has returned

idVars == <<source, idFile, keyFile, loader, identity>>

Stored == [id : Identities, key : LocalKeys \cup {Password, Plain}]
NoFile == [id |-> Missing, key |-> Missing]

Loader ==
  [at : {"idle", "decrypt", "encrypt", "opening", "writing", "save"},
   back : {"decrypt", "encrypt"},           \* what needs the key that is made
   read : Stored \cup {NoFile},             \* the file as it was read
   id : Identities \cup {Missing},          \* to be saved
   key : LocalKeys \cup {Password, Missing}]

AtRest == [at |-> "idle", back |-> "decrypt", read |-> NoFile, id |-> Missing, key |-> Missing]

IdTypeOK ==
  /\ source \in [Procs -> Dirs \cup {Password}]
  /\ idFile \in Stored \cup {NoFile}
  /\ keyFile \in [Dirs -> LocalKeys \cup {Missing, Torn}]
  /\ loader \in [Procs -> Loader]
  /\ identity \in [Procs -> Identities \cup {Missing}]

\* A first start, or a file that an older version has left.
IdInit ==
  /\ source \in [Procs -> Dirs \cup {Password}]
  /\ idFile \in {NoFile} \cup [id : Identities, key : {Plain}]
  /\ keyFile = [d \in Dirs |-> Missing]
  /\ loader = [p \in Procs |-> AtRest]
  /\ identity = [p \in Procs |-> Missing]

KeysMade == {keyFile[d] : d \in Dirs} \cup {loader[p].key : p \in Procs}
            \cup {loader[p].read.key : p \in Procs} \cup {idFile.key}
IdsMade == {identity[p] : p \in Procs} \cup {loader[p].id : p \in Procs}
           \cup {loader[p].read.id : p \in Procs} \cup {idFile.id}

At(p, place) == loader[p].at = place
Loading(p, l) == loader' = [loader EXCEPT ![p] = l]

\* generateIdentity
Generates(p) ==
  \E id \in Identities \ IdsMade : Loading(p, [AtRest EXCEPT !.at = "encrypt", !.id = id])

\* readEncryptedJson, up to decrypt.
ReadIdentity(p) ==
  /\ At(p, "idle") /\ identity[p] = Missing
  /\ \/ idFile = NoFile /\ Generates(p)
     \/ idFile.key = Plain /\ Loading(p, [AtRest EXCEPT !.at = "encrypt", !.id = idFile.id])
     \/ /\ idFile # NoFile /\ idFile.key # Plain
        /\ Loading(p, [AtRest EXCEPT !.at = "decrypt", !.read = idFile])
  /\ UNCHANGED <<source, idFile, keyFile, identity>>

NeedsKey(p) == At(p, "decrypt") \/ At(p, "encrypt")

\* Decryption fails for a wrong key: the file counts as missing.
Uses(p, key) ==
  IF At(p, "encrypt")
  THEN Loading(p, [loader[p] EXCEPT !.at = "save", !.key = key]) /\ UNCHANGED identity
  ELSE IF loader[p].read.key = key
       THEN Loading(p, AtRest) /\ identity' = [identity EXCEPT ![p] = loader[p].read.id]
       ELSE Generates(p) /\ UNCHANGED identity

\* getEncryptionKey, with a password.
UsePassword(p) ==
  /\ NeedsKey(p) /\ source[p] = Password /\ Uses(p, Password)
  /\ UNCHANGED <<source, idFile, keyFile>>

\* Mutant: the length is compared with that of the bytes, not of their digits.
ValidKeyOfBytes(content) == FALSE

\* A key file of the right length.
ValidKey(content) == content \in LocalKeys

\* getOrGenerateLocalKey, which finds one.
UseLocalKey(p) ==
  /\ NeedsKey(p) /\ source[p] # Password
  /\ ValidKey(keyFile[source[p]]) /\ Uses(p, keyFile[source[p]])
  /\ UNCHANGED <<source, idFile, keyFile>>

GenerateKey(p) ==
  /\ NeedsKey(p) /\ source[p] # Password /\ ~ValidKey(keyFile[source[p]])
  /\ \E k \in LocalKeys \ KeysMade :
       Loading(p, [loader[p] EXCEPT !.at = "opening", !.back = loader[p].at, !.key = k])
  /\ UNCHANGED <<source, idFile, keyFile, identity>>

\* writeFileSync truncates the file and then writes it.
OpenKey(p) ==
  /\ At(p, "opening") /\ Loading(p, [loader[p] EXCEPT !.at = "writing"])
  /\ keyFile' = [keyFile EXCEPT ![source[p]] = Torn]
  /\ UNCHANGED <<source, idFile, identity>>

\* The key is used, whether or not it could be written.
Made(p) ==
  IF loader[p].back = "encrypt"
  THEN Loading(p, [loader[p] EXCEPT !.at = "save"])
  ELSE Generates(p)

WriteKey(p) ==
  /\ At(p, "writing") /\ Made(p)
  /\ keyFile' = [keyFile EXCEPT ![source[p]] = loader[p].key]
  /\ UNCHANGED <<source, idFile, identity>>

KeyFails(p) ==
  /\ At(p, "opening") \/ At(p, "writing")
  /\ Made(p)
  /\ UNCHANGED <<source, idFile, keyFile, identity>>

Return(p) == Loading(p, AtRest) /\ identity' = [identity EXCEPT ![p] = loader[p].id]

\* writeEncryptedJson: a temporary file is renamed.
SaveIdentity(p) ==
  /\ At(p, "save") /\ Return(p)
  /\ idFile' = [id |-> loader[p].id, key |-> loader[p].key]
  /\ UNCHANGED <<source, keyFile>>

\* The failure is logged.
SaveFails(p) ==
  /\ At(p, "save") /\ Return(p)
  /\ UNCHANGED <<source, idFile, keyFile>>

\* The process ends, anywhere, and may be started again.
Ends(p) ==
  /\ ~At(p, "idle") \/ identity[p] # Missing
  /\ Loading(p, AtRest) /\ identity' = [identity EXCEPT ![p] = Missing]
  /\ UNCHANGED <<source, idFile, keyFile>>

IdStep(p) ==
  \/ ReadIdentity(p) \/ UsePassword(p) \/ UseLocalKey(p) \/ GenerateKey(p) \/ OpenKey(p)
  \/ WriteKey(p) \/ KeyFails(p) \/ SaveIdentity(p) \/ SaveFails(p) \/ Ends(p)

IdNext == \E p \in Procs : IdStep(p)
IdSpec == IdInit /\ [][IdNext]_idVars

----------------------------------------------------------------------------
(* Properties. *)

KeyOf(p) == IF source[p] = Password THEN Password ELSE keyFile[source[p]]
Creating(p) == loader[p].at \in {"encrypt", "opening", "writing", "save"}

\* Every process can read the identity, and none is about to replace it or has
\* read the one before it.
Settled ==
  /\ idFile # NoFile
  /\ \A p \in Procs : /\ KeyOf(p) = idFile.key /\ ~Creating(p)
                      /\ At(p, "decrypt") => loader[p].read = idFile

\* Once an identity is stored under a key that all processes have and the first
\* starts are over, no later start replaces it or its key, whatever processes
\* overlap, die between two accesses or fail to write.
IdentityStays == [][Settled => Settled' /\ idFile'.id = idFile.id]_idVars
=============================================================================

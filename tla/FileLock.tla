------------------------------ MODULE FileLock ------------------------------
(***************************************************************************)
(* The lock that the processes sharing the data directory take around      *)
(* every access to its files: acquireLock, releaseLock and withLock of     *)
(* src/src/utils/file-lock.js.  A lock is a directory that holds a file    *)
(* with the pid of its holder.  Each process runs these functions          *)
(* synchronously, so what interleaves are the file system calls of         *)
(* different processes: one action is one call.                            *)
(*                                                                         *)
(* The sleep between two attempts changes nothing and is not a step.  A    *)
(* pid file that exists but is still empty reads like one that is missing  *)
(* (NaN is no pid), so creating and filling it is one call.  Pids are not  *)
(* reused: a process that died stays dead, the next one is another member  *)
(* of Procs.                                                               *)
(***************************************************************************)
CONSTANTS
  Procs,  \* processes, named by their pids
  NoPid,  \* the lock directory has no pid file
  NoDir   \* there is no lock directory

LockDir == [maker : Procs, pid : Procs \cup {NoPid}]

ASSUME LockAssumption == NoPid \notin Procs /\ NoDir \notin LockDir

VARIABLES
  dir,    \* the lock directory: who made it, and what its pid file holds
  at,     \* how far each process is in withLock
  broken  \* history: a holder's directory was removed by another process

vars == <<dir, at, broken>>

\* trying: in the loop, about to call mkdir; exists: mkdir threw EEXIST;
\* stale: _isLockStale returned true; emptied: rmSync has removed the pid file;
\* made: mkdir succeeded; held: inside fn; owner: releaseLock has read our pid;
\* clearing: its rmSync has removed the pid file.
Places == {"idle", "trying", "exists", "stale", "emptied", "made", "held",
           "owner", "clearing", "failed", "dead"}

TypeOK ==
  /\ dir \in LockDir \cup {NoDir}
  /\ at \in [Procs -> Places]
  /\ broken \in BOOLEAN

\* The lock is p's: it has made the directory and is not through with fn.
Holds(p) == at[p] \in {"made", "held"}

Go(p, place) == at' = [at EXCEPT ![p] = place]

----------------------------------------------------------------------------
(* acquireLock. *)

Call(p) ==
  /\ at[p] \in {"idle", "failed"}
  /\ Go(p, "trying")
  /\ UNCHANGED <<dir, broken>>

\* Mutant: mkdir with recursive: true does not fail on a directory that exists.
MkdirRecursive(p) ==
  /\ at[p] = "trying"
  /\ dir' = IF dir = NoDir THEN [maker |-> p, pid |-> NoPid] ELSE dir
  /\ Go(p, "made")
  /\ UNCHANGED broken

\* mkdirSync succeeds only if there is no directory ...
Mkdir(p) ==
  /\ at[p] = "trying" /\ dir = NoDir
  /\ dir' = [maker |-> p, pid |-> NoPid]
  /\ Go(p, "made")
  /\ UNCHANGED broken

\* ... and throws EEXIST otherwise.
MkdirExists(p) ==
  /\ at[p] = "trying" /\ dir # NoDir
  /\ Go(p, "exists")
  /\ UNCHANGED <<dir, broken>>

\* Writing our pid into the directory of that name, which need not be ours.
WritePid(p) ==
  /\ at[p] = "made" /\ dir # NoDir
  /\ dir' = [dir EXCEPT !.pid = p]
  /\ Go(p, "held")
  /\ UNCHANGED broken

\* It fails if there is none by now: that is not EEXIST, but the loop goes on.
WritePidNowhere(p) ==
  /\ at[p] = "made" /\ dir = NoDir
  /\ Go(p, "trying")
  /\ UNCHANGED <<dir, broken>>

\* The write fails for another reason (no space): the directory is left as it is.
WritePidFails(p) ==
  /\ at[p] = "made" /\ dir # NoDir
  /\ Go(p, "trying")
  /\ UNCHANGED <<dir, broken>>

\* Mutant: a lock without a pid file is not taken for stale.
StaleOnlyWithPid == dir # NoDir /\ dir.pid \in {q \in Procs : at[q] = "dead"}

\* _isLockStale: the file cannot be read, or holds the pid of no process.
Stale == dir = NoDir \/ dir.pid \in {NoPid} \cup {q \in Procs : at[q] = "dead"}

Examine(p) ==
  /\ at[p] = "exists"
  /\ Go(p, IF Stale THEN "stale" ELSE "trying")
  /\ UNCHANGED <<dir, broken>>

\* rmSync on the lock judged stale: it finds nothing (ENOENT) ...
RemoveNothing(p) ==
  /\ at[p] \in {"stale", "emptied"} /\ dir = NoDir
  /\ Go(p, "trying")
  /\ UNCHANGED <<dir, broken>>

\* ... or removes the file in it, ...
RemovePid(p) ==
  /\ at[p] = "stale" /\ dir # NoDir
  /\ dir' = [dir EXCEPT !.pid = NoPid]
  /\ Go(p, "emptied")
  /\ UNCHANGED broken

\* Removing a directory: only an empty one, whoever has made it.
Rmdir(p) ==
  /\ dir # NoDir
  /\ IF dir.pid = NoPid
     THEN /\ dir' = NoDir
          /\ broken' = (broken \/ (dir.maker # p /\ Holds(dir.maker)))
     ELSE UNCHANGED <<dir, broken>>

\* ... then the directory; whether or not that succeeds the loop goes on.
RemoveDir(p) ==
  /\ at[p] = "emptied"
  /\ Rmdir(p)
  /\ Go(p, "trying")

\* The timeout is only looked at between two attempts.
GiveUp(p) ==
  /\ at[p] = "trying"
  /\ Go(p, "failed")
  /\ UNCHANGED <<dir, broken>>

Acquire(p) ==
  \/ Mkdir(p) \/ MkdirExists(p) \/ WritePid(p) \/ WritePidNowhere(p)
  \/ Examine(p) \/ RemoveNothing(p) \/ RemovePid(p) \/ RemoveDir(p)

----------------------------------------------------------------------------
(* releaseLock, once fn has returned or thrown. *)

ReadPid(p) ==
  /\ at[p] = "held"
  /\ Go(p, IF dir # NoDir /\ dir.pid = p THEN "owner" ELSE "idle")
  /\ UNCHANGED <<dir, broken>>

ReleasePid(p) ==
  /\ at[p] = "owner"
  /\ IF dir = NoDir
     THEN Go(p, "idle") /\ UNCHANGED dir
     ELSE Go(p, "clearing") /\ dir' = [dir EXCEPT !.pid = NoPid]
  /\ UNCHANGED broken

ReleaseDir(p) ==
  /\ at[p] = "clearing"
  /\ IF dir = NoDir THEN UNCHANGED <<dir, broken>> ELSE Rmdir(p)
  /\ Go(p, "idle")

Release(p) == ReadPid(p) \/ ReleasePid(p) \/ ReleaseDir(p)

----------------------------------------------------------------------------
\* A process is killed.
Die(p) ==
  /\ at[p] # "dead"
  /\ Go(p, "dead")
  /\ UNCHANGED <<dir, broken>>

Init ==
  /\ dir = NoDir
  /\ at = [p \in Procs |-> "idle"]
  /\ broken = FALSE

Step(p) == Call(p) \/ Acquire(p) \/ WritePidFails(p) \/ GiveUp(p) \/ Release(p) \/ Die(p)

Next == \E p \in Procs : Step(p)

Spec == Init /\ [][Next]_vars

(* A live process that is in withLock goes on; nothing makes one call it,   *)
(* run into the timeout, fail to write or die.                              *)
FairSpec == Spec /\ \A p \in Procs : WF_vars(Acquire(p)) /\ WF_vars(Release(p))

----------------------------------------------------------------------------
(* Properties. *)

\* No two processes are inside withLock at once unless a process removed, as
\* stale, the directory of one that was alive and held it: neither the deaths
\* of processes nor their removals of locks left behind break the lock otherwise.
ExclusionUnlessBroken ==
  ~broken => \A p, q \in Procs : at[p] = "held" /\ at[q] = "held" => p = q

\* A pid file never names a process that is alive and through with the lock, not
\* even after a lock was broken and pids overwritten: nobody could take that for
\* stale, and every other process would time out until that process ends.
PidInUse ==
  dir # NoDir => \A p \in Procs : dir.pid = p => at[p] \in {"held", "owner", "dead"}

\* A lock left behind by a process that died at any point, even between making
\* the directory and writing its pid, is removed by those waiting for it.
LeftoverRemoved ==
  \A p \in Procs :
    at[p] = "trying" /\ dir # NoDir /\ at[dir.maker] = "dead"
      ~> \/ dir = NoDir \/ at[dir.maker] # "dead"
         \/ at[p] \in {"failed", "dead"}
=============================================================================

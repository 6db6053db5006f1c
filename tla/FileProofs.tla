------------------------------ MODULE FileProofs -------------------------------
(*****************************************************************************)
(* Theorems about what several processes keep in files: the lock, a file of  *)
(* JSON lines, the storage key and the contacts, for any processes, lines,   *)
(* keys and contacts.                                                        *)
(*****************************************************************************)
EXTENDS FileLock, JsonFiles, StorageKey, Contacts, TLAPS

----------------------------------------------------------------------------
(* The lock. *)

\* Moving one process keeps the places well typed.
LEMMA GoType ==
  ASSUME TypeOK, NEW p, NEW place \in Places, Go(p, place)
  PROVE  at' \in [Procs -> Places]
BY DEF TypeOK, Go

\* Pid files hold pids, processes are where withLock can be.
THEOREM LockTypeCorrect == Spec => []TypeOK
<1>1. Init => TypeOK
  BY DEF Init, TypeOK, Places
<1>2. TypeOK /\ [Next]_vars => TypeOK'
  <2> SUFFICES ASSUME TypeOK, NEW p \in Procs, Step(p) PROVE TypeOK'
    BY DEF Next, vars, TypeOK
  <2>1. PICK place \in Places : Go(p, place)
    BY DEF Step, Call, Acquire, Mkdir, MkdirExists, WritePid, WritePidNowhere, WritePidFails,
           Examine, RemoveNothing, RemovePid, RemoveDir, GiveUp, Release, ReadPid,
           ReleasePid, ReleaseDir, Die, Places
  <2>2. at' \in [Procs -> Places]
    BY <2>1, GoType
  <2>3. ASSUME dir # NoDir, NEW pid \in Procs \cup {NoPid}
        PROVE  [dir EXCEPT !.pid = pid] \in LockDir
    BY <2>3 DEF TypeOK, LockDir
  <2>4. [maker |-> p, pid |-> NoPid] \in LockDir
    BY DEF LockDir
  <2>5. CASE Call(p) \/ MkdirExists(p) \/ WritePidNowhere(p) \/ WritePidFails(p) \/ Examine(p)
             \/ RemoveNothing(p) \/ GiveUp(p) \/ ReadPid(p) \/ Die(p)
    BY <2>2, <2>5 DEF Call, MkdirExists, WritePidNowhere, WritePidFails, Examine, RemoveNothing,
                      GiveUp, ReadPid, Die, TypeOK
  <2>6. CASE Mkdir(p)
    BY <2>2, <2>4, <2>6 DEF Mkdir, TypeOK
  <2>7. CASE WritePid(p) \/ RemovePid(p) \/ ReleasePid(p)
    BY <2>2, <2>3, <2>7 DEF WritePid, RemovePid, ReleasePid, TypeOK
  <2>8. CASE RemoveDir(p) \/ ReleaseDir(p)
    BY <2>2, <2>8 DEF RemoveDir, ReleaseDir, Rmdir, TypeOK, Holds
  <2>9. QED
    BY <2>5, <2>6, <2>7, <2>8 DEF Step, Acquire, Release
<1>3. QED
  BY <1>1, <1>2, PTL DEF Spec

----------------------------------------------------------------------------
\* As long as no holder's directory was removed, the lock directory is the one
\* the holder has made.  That makes the holder unique, and it is inductive
\* because mkdir succeeds only where there is no directory, hence no holder.
HolderInv ==
  ~broken => \A p \in Procs : Holds(p) => dir # NoDir /\ dir.maker = p

\* Removing a directory keeps it: broken is set if that was a holder's.
LEMMA RmdirKeepsHolder ==
  ASSUME TypeOK, HolderInv, NEW p \in Procs, ~Holds(p), Rmdir(p),
         NEW place \in {"trying", "idle"}, Go(p, place)
  PROVE  HolderInv'
<1>1. \A q \in Procs : Holds(q)' => q # p /\ Holds(q)
  BY DEF Go, Holds, TypeOK
<1>2. CASE dir.pid = NoPid
  BY <1>1, <1>2 DEF Rmdir, HolderInv, Holds
<1>3. CASE dir.pid # NoPid
  BY <1>1, <1>3 DEF Rmdir, HolderInv, Holds
<1>4. QED
  BY <1>2, <1>3

\* Steps that neither take nor remove the lock keep it.
LEMMA OthersKeepHolder ==
  ASSUME TypeOK, HolderInv, NEW p \in Procs, NEW place \in Places, Go(p, place),
         place \in {"made", "held"} => Holds(p),
         broken' = broken,
         dir # NoDir => dir' # NoDir /\ dir'.maker = dir.maker
  PROVE  HolderInv'
<1>1. \A q \in Procs : Holds(q)' => Holds(q)
  BY DEF Go, Holds, TypeOK
<1>2. QED
  BY <1>1 DEF HolderInv

\* The lock excludes, whatever dies and whatever is removed as stale, until a
\* process removes the directory of one that holds the lock.
THEOREM LockExcludes == Spec => []ExclusionUnlessBroken
<1>1. Init => HolderInv
  BY DEF Init, HolderInv, Holds
<1>2. TypeOK /\ HolderInv /\ [Next]_vars => HolderInv'
  <2> SUFFICES ASSUME TypeOK, HolderInv, NEW p \in Procs, Step(p) PROVE HolderInv'
    BY DEF Next, vars, HolderInv, Holds
  <2>1. ASSUME dir # NoDir, NEW pid \in Procs \cup {NoPid}
        PROVE  [dir EXCEPT !.pid = pid] # NoDir /\ [dir EXCEPT !.pid = pid].maker = dir.maker
    <3>1. dir \in LockDir
      BY <2>1 DEF TypeOK
    <3>2. [dir EXCEPT !.pid = pid] \in LockDir
      BY <3>1 DEF LockDir
    <3>3. QED
      BY <3>1, <3>2, LockAssumption DEF LockDir
  <2>2. CASE Mkdir(p)
    <3>1. dir = NoDir /\ dir' = [maker |-> p, pid |-> NoPid] /\ broken' = broken
      BY <2>2 DEF Mkdir
    <3>2. dir' # NoDir /\ dir'.maker = p
      BY <3>1, LockAssumption DEF LockDir
    <3>3. ~broken => \A q \in Procs : Holds(q)' => q = p
      BY <2>2, <3>1 DEF Mkdir, Go, Holds, HolderInv, TypeOK
    <3>4. QED
      BY <3>1, <3>2, <3>3 DEF HolderInv
  <2>3. CASE RemoveDir(p) \/ ReleaseDir(p)
    <3>1. CASE RemoveDir(p)
      BY <3>1, RmdirKeepsHolder DEF RemoveDir, Holds
    <3>2. CASE ReleaseDir(p) /\ dir # NoDir
      BY <3>2, RmdirKeepsHolder DEF ReleaseDir, Holds
    <3>3. CASE ReleaseDir(p) /\ dir = NoDir
      BY <3>3, OthersKeepHolder DEF ReleaseDir, Places
    <3>4. QED
      BY <2>3, <3>1, <3>2, <3>3
  <2>4. CASE WritePid(p)
    BY <2>1, <2>4, OthersKeepHolder DEF WritePid, Places, Holds
  <2>5. CASE RemovePid(p)
    BY <2>1, <2>5, OthersKeepHolder DEF RemovePid, Places
  <2>6. CASE ReleasePid(p)
    BY <2>1, <2>6, OthersKeepHolder DEF ReleasePid, Places
  <2>7. CASE Examine(p)
    BY <2>7, OthersKeepHolder DEF Examine, Places
  <2>8. CASE ReadPid(p)
    BY <2>8, OthersKeepHolder DEF ReadPid, Places
  <2>9. CASE Call(p) \/ MkdirExists(p) \/ WritePidNowhere(p) \/ WritePidFails(p)
             \/ RemoveNothing(p) \/ GiveUp(p) \/ Die(p)
    BY <2>9, OthersKeepHolder DEF Call, MkdirExists, WritePidNowhere, WritePidFails,
                                  RemoveNothing, GiveUp, Die, Places
  <2>10. QED
    BY <2>2, <2>3, <2>4, <2>5, <2>6, <2>7, <2>8, <2>9 DEF Step, Acquire, Release
<1>3. HolderInv => ExclusionUnlessBroken
  BY DEF HolderInv, ExclusionUnlessBroken, Holds
<1>4. QED
  BY <1>1, <1>2, <1>3, LockTypeCorrect, PTL DEF Spec

----------------------------------------------------------------------------
\* A live process named in the pid file is inside withLock, so that the lock
\* waits for no one who is through with it.
THEOREM LockNotLeaked == Spec => []PidInUse
<1>1. Init => PidInUse
  BY DEF Init, PidInUse
<1>2. TypeOK /\ PidInUse /\ [Next]_vars => PidInUse'
  <2> SUFFICES ASSUME TypeOK, PidInUse, NEW p \in Procs, Step(p),
                      dir' # NoDir, NEW q \in Procs, dir'.pid = q
               PROVE  at'[q] \in {"held", "owner", "dead"}
    BY DEF Next, vars, PidInUse
  <2>1. \A place : Go(p, place) => at'[p] = place /\ (q # p => at'[q] = at[q])
    BY DEF Go, TypeOK
  <2>2. ASSUME dir' = dir PROVE at[q] \in {"held", "owner", "dead"}
    BY <2>2 DEF PidInUse
  <2>3. CASE Mkdir(p)
    BY <2>3, LockAssumption DEF Mkdir
  <2>4. CASE WritePid(p)
    <3>1. dir'.pid = p
      BY <2>4 DEF WritePid, TypeOK, LockDir
    <3>2. QED
      BY <2>1, <2>4, <3>1 DEF WritePid
  <2>5. CASE RemovePid(p) \/ (ReleasePid(p) /\ dir # NoDir)
    <3>1. dir'.pid = NoPid
      BY <2>5 DEF RemovePid, ReleasePid, TypeOK, LockDir
    <3>2. QED
      BY <3>1, LockAssumption
  <2>6. CASE ReadPid(p)
    BY <2>1, <2>2, <2>6 DEF ReadPid
  <2>7. CASE RemoveDir(p) \/ ReleaseDir(p)
    BY <2>1, <2>2, <2>7 DEF RemoveDir, ReleaseDir, Rmdir
  <2>8. CASE Call(p) \/ MkdirExists(p) \/ WritePidNowhere(p) \/ WritePidFails(p) \/ Examine(p)
             \/ RemoveNothing(p) \/ GiveUp(p) \/ Die(p)
    BY <2>1, <2>2, <2>8 DEF Call, MkdirExists, WritePidNowhere, WritePidFails, Examine,
                            RemoveNothing, GiveUp, Die
  <2>9. CASE ReleasePid(p) /\ dir = NoDir
    BY <2>9 DEF ReleasePid
  <2>10. QED
    BY <2>3, <2>4, <2>5, <2>6, <2>7, <2>8, <2>9 DEF Step, Acquire, Release
<1>3. QED
  BY <1>1, <1>2, LockTypeCorrect, PTL DEF Spec

----------------------------------------------------------------------------
(* A file of JSON lines. *)

\* While no rewrites of one process overlap, a temporary file is its own, and is whole
\* when it is renamed; the file that is replaced stays whole.
RewritesApart ==
  /\ overlapped => mingled
  /\ ~unguarded => \A c \in FileCalls : fcall[c].op # "place"
  /\ ~overlapped =>
       /\ \A c, d \in FileCalls :
            fcall[c].op = "rewrite" /\ fcall[d].op = "rewrite" /\ ProcOf[c] = ProcOf[d] => c = d
       /\ \A c \in FileCalls : fcall[c].op = "rewrite" =>
            /\ fcall[c].fd # "target" /\ fcall[c].at # "rest"
            /\ fcall[c].at = "write" => fcall[c].fd = "temp" /\ temp[ProcOf[c]] = Emptied
            /\ fcall[c].at = "rename" => temp[ProcOf[c]] = Whole(fcall[c].image)
       /\ ~unguarded => target.whole

\* While no call begins before the last one ends, one that appends has the file open, and
\* one that rewrites will leave out only what it has seen.
CallsApart ==
  ~mingled =>
    /\ \A c, d \in FileCalls : Busy(c) /\ Busy(d) => c = d
    /\ \A c \in FileCalls :
         /\ fcall[c].op = "append" => fcall[c].fd = "target"
         /\ fcall[c].op = "rewrite" => target.lines \subseteq fcall[c].image \cup dropped
    /\ ~unguarded => kept \subseteq target.lines \cup dropped

FileCall ==
  [op : {"none", "append", "rewrite", "place"}, at : {"rest", "open", "write", "rename", "unlink"},
   fd : {"none", "temp", "target"}, image : SUBSET Lines]

\* JfTypeOK, variable by variable.
FilesTypeOK ==
  /\ target \in Content /\ temp \in [FileProcs -> Content] /\ fcall \in [FileCalls -> FileCall]
  /\ brought \subseteq Lines /\ kept \subseteq Lines /\ dropped \subseteq Lines
  /\ overlapped \in BOOLEAN /\ mingled \in BOOLEAN /\ unguarded \in BOOLEAN

FilesInv == FilesTypeOK /\ RewritesApart /\ CallsApart

LEMMA Contents ==
  /\ NoContent \in Content /\ NoContent.whole /\ NoContent.lines = {} /\ ~NoContent.exists
  /\ Emptied \in Content
  /\ \A image \in SUBSET Lines :
       Whole(image) \in Content /\ Whole(image).whole /\ Whole(image).lines = image
BY DEF NoContent, Emptied, Whole, Content

LEMMA AppendBeginKeeps ==
  ASSUME FilesInv, NEW c \in FileCalls, NEW line \in Lines, AppendBegin(c, line)
  PROVE  FilesInv'
<1> DEFINE new == [op |-> "append", at |-> "write", fd |-> "target", image |-> {line}]
<1> USE DEF FilesInv, FilesTypeOK
<1>1. /\ fcall' = [fcall EXCEPT ![c] = new] /\ ~Busy(c) /\ new \in FileCall
      /\ fcall \in [FileCalls -> FileCall] /\ ProcOf \in [FileCalls -> FileProcs]
      /\ target' = [target EXCEPT !.exists = TRUE]
      /\ brought' = brought \cup {line} /\ UNCHANGED <<temp, kept, dropped, unguarded>>
      /\ mingled' = (mingled \/ \E d \in FileCalls : Busy(d)) /\ overlapped' = overlapped
  BY JsonFilesAssumption DEF AppendBegin, Begins, FileCall
<1>2. /\ fcall'[c] = new /\ \A d \in FileCalls \ {c} : fcall'[d] = fcall[d]
      /\ fcall' \in [FileCalls -> FileCall]
  BY <1>1
<1>3. target' \in Content /\ target'.whole = target.whole /\ target'.lines = target.lines
  BY <1>1 DEF Content
<1>4. FilesTypeOK'
  BY <1>1, <1>2, <1>3
<1>5. RewritesApart'
  BY <1>1, <1>2, <1>3 DEF RewritesApart
<1>6. CallsApart'
  BY <1>1, <1>2, <1>3 DEF CallsApart, Busy
<1> QED
  BY <1>4, <1>5, <1>6

LEMMA AppendEndKeeps ==
  ASSUME FilesInv, NEW c \in FileCalls, AppendEnd(c) PROVE FilesInv'
<1> USE DEF FilesInv, FilesTypeOK
<1>1. /\ fcall' = [fcall EXCEPT ![c] = NoFileCall] /\ NoFileCall \in FileCall
      /\ fcall[c] \in FileCall /\ fcall[c].op = "append" /\ fcall \in [FileCalls -> FileCall]
      /\ kept' = kept \cup fcall[c].image
      /\ target' = IF fcall[c].fd = "target"
                   THEN [target EXCEPT !.lines = target.lines \cup fcall[c].image] ELSE target
      /\ UNCHANGED <<temp, brought, dropped, overlapped, mingled, unguarded>>
  BY DEF AppendEnd, Leaves, Stands, NoFileCall, FileCall
<1>2. /\ fcall'[c] = NoFileCall /\ \A d \in FileCalls \ {c} : fcall'[d] = fcall[d]
      /\ fcall' \in [FileCalls -> FileCall] /\ fcall[c].image \subseteq Lines
  BY <1>1 DEF FileCall
<1>3. /\ target' \in Content /\ target'.whole = target.whole
      /\ target'.lines = IF fcall[c].fd = "target" THEN target.lines \cup fcall[c].image ELSE target.lines
  BY <1>1, <1>2 DEF Content
<1>4. FilesTypeOK'
  BY <1>1, <1>2, <1>3
<1>5. RewritesApart'
  BY <1>1, <1>2, <1>3 DEF RewritesApart, NoFileCall
<1>6. CallsApart'
  BY <1>1, <1>2, <1>3 DEF CallsApart, Busy, NoFileCall
<1> QED
  BY <1>4, <1>5, <1>6

LEMMA RewriteBeginKeeps ==
  ASSUME FilesInv, NEW c \in FileCalls, NEW image \in Images, RewriteBegin(c, image)
  PROVE  FilesInv'
<1> DEFINE new == [op |-> "rewrite", at |-> "open", fd |-> "none", image |-> image]
<1> USE DEF FilesInv, FilesTypeOK
<1>0. image \subseteq Lines
  <2>1. target.lines \subseteq Lines
    BY DEF Content
  <2> QED
    BY <2>1 DEF Images, ReadLines
<1>1. /\ fcall' = [fcall EXCEPT ![c] = new] /\ ~Busy(c) /\ new \in FileCall
      /\ fcall \in [FileCalls -> FileCall] /\ ProcOf \in [FileCalls -> FileProcs]
      /\ brought' = brought \cup image /\ dropped' = dropped \cup (target.lines \ image)
      /\ UNCHANGED <<target, temp, kept, unguarded>>
      /\ mingled' = (mingled \/ \E d \in FileCalls : Busy(d))
      /\ overlapped' = (overlapped \/ \E d \in FileCalls :
                                        ProcOf[d] = ProcOf[c] /\ fcall[d].op = "rewrite")
  BY <1>0, JsonFilesAssumption DEF RewriteBegin, Begins, FileCall, Takes
<1>2. /\ fcall'[c] = new /\ \A d \in FileCalls \ {c} : fcall'[d] = fcall[d]
      /\ fcall' \in [FileCalls -> FileCall] /\ target.lines \subseteq Lines
  BY <1>1 DEF Content
<1>4. FilesTypeOK'
  BY <1>0, <1>1, <1>2
<1>5. RewritesApart'
  BY <1>1, <1>2 DEF RewritesApart, Busy
<1>6. CallsApart'
  BY <1>1, <1>2 DEF CallsApart, Busy
<1> QED
  BY <1>4, <1>5, <1>6

LEMMA OpenTempKeeps ==
  ASSUME FilesInv, NEW c \in FileCalls, OpenTemp(c) PROVE FilesInv'
<1> USE DEF FilesInv, FilesTypeOK
<1> DEFINE new == [[fcall[c] EXCEPT !.at = "write"] EXCEPT !.fd = "temp"]
<1>1. /\ fcall[c] \in FileCall /\ fcall[c].op = "rewrite" /\ fcall[c].at = "open"
      /\ fcall \in [FileCalls -> FileCall] /\ ProcOf \in [FileCalls -> FileProcs]
      /\ fcall' = [fcall EXCEPT ![c] = new]
      /\ temp' = [temp EXCEPT ![ProcOf[c]] = Emptied]
      /\ UNCHANGED <<target, brought, kept, dropped, overlapped, mingled, unguarded>>
  BY JsonFilesAssumption DEF OpenTemp, Stands, TempOf, jfHistory
<1>2. /\ new \in FileCall /\ new.op = "rewrite" /\ new.at = "write" /\ new.fd = "temp"
      /\ new.image = fcall[c].image
  BY <1>1 DEF FileCall
<1>3. /\ fcall'[c] = new /\ \A d \in FileCalls \ {c} : fcall'[d] = fcall[d]
      /\ fcall' \in [FileCalls -> FileCall]
      /\ temp' \in [FileProcs -> Content] /\ temp'[ProcOf[c]] = Emptied
      /\ \A q \in FileProcs \ {ProcOf[c]} : temp'[q] = temp[q]
  BY <1>1, <1>2, Contents
<1>4. FilesTypeOK'
  BY <1>1, <1>3
<1>5. RewritesApart'
  BY <1>1, <1>2, <1>3 DEF RewritesApart
<1>6. CallsApart'
  BY <1>1, <1>2, <1>3 DEF CallsApart, Busy
<1> QED
  BY <1>4, <1>5, <1>6

LEMMA WrittenOver ==
  ASSUME NEW content \in Content, NEW image \in SUBSET Lines, NEW new \in Written(content, image)
  PROVE  new \in Content /\ (content = Emptied => new = Whole(image))
<1>1. [Whole({}) EXCEPT !.whole = FALSE] \in Content
  BY DEF Whole, Content
<1> QED
  BY <1>1, Contents DEF Written

LEMMA WriteTempKeeps ==
  ASSUME FilesInv, NEW c \in FileCalls, WriteTemp(c) PROVE FilesInv'
<1> USE DEF FilesInv, FilesTypeOK
<1> DEFINE p == ProcOf[c]
           new == [fcall[c] EXCEPT !.at = "rename"]
<1>1. /\ fcall[c] \in FileCall /\ fcall[c].op = "rewrite" /\ fcall[c].at = "write"
      /\ p \in FileProcs /\ ProcOf \in [FileCalls -> FileProcs]
      /\ fcall' = [fcall EXCEPT ![c] = new] /\ fcall[c].image \in SUBSET Lines
      /\ UNCHANGED <<brought, kept, dropped, overlapped, mingled, unguarded>>
  BY JsonFilesAssumption DEF WriteTemp, Steps, Stands, jfHistory, FileCall
<1>2. /\ new \in FileCall /\ new.op = "rewrite" /\ new.at = "rename"
      /\ new.fd = fcall[c].fd /\ new.image = fcall[c].image
  BY <1>1 DEF FileCall
<1>3. /\ fcall'[c] = new /\ \A d \in FileCalls \ {c} : fcall'[d] = fcall[d]
      /\ fcall' \in [FileCalls -> FileCall]
  BY <1>1, <1>2
<1>4. CASE fcall[c].fd = "temp"
  <2>1. PICK content \in Written(temp[p], fcall[c].image) : temp' = [temp EXCEPT ![p] = content]
    BY <1>4 DEF WriteTemp, TempOf
  <2>2. target' = target
    BY <1>4 DEF WriteTemp
  <2>3. content \in Content /\ (temp[p] = Emptied => content = Whole(fcall[c].image))
    BY <1>1, <2>1, WrittenOver
  <2>4. /\ temp' \in [FileProcs -> Content] /\ temp'[p] = content
        /\ \A q \in FileProcs \ {p} : temp'[q] = temp[q]
    BY <1>1, <2>1, <2>3
  <2>5. FilesTypeOK'
    BY <1>1, <1>3, <2>2, <2>4
  <2>6. RewritesApart'
    BY <1>1, <1>2, <1>3, <2>2, <2>3, <2>4 DEF RewritesApart
  <2>7. CallsApart'
    BY <1>1, <1>2, <1>3, <2>2 DEF CallsApart, Busy
  <2> QED
    BY <2>5, <2>6, <2>7
<1>5. CASE fcall[c].fd = "target"
  <2>1. overlapped /\ mingled
    BY <1>1, <1>5 DEF RewritesApart
  <2>2. temp' = temp /\ target' \in Content
    BY <1>1, <1>5, WrittenOver DEF WriteTemp
  <2>3. FilesTypeOK' /\ CallsApart'
    BY <1>1, <1>3, <2>1, <2>2 DEF CallsApart
  <2>4. RewritesApart'
    BY <1>1, <1>2, <1>3, <2>1 DEF RewritesApart
  <2> QED
    BY <2>3, <2>4
<1>6. CASE fcall[c].fd \notin {"temp", "target"}
  <2>1. overlapped /\ mingled
    BY <1>1, <1>6 DEF RewritesApart
  <2>2. temp' = temp /\ target' = target
    BY <1>6 DEF WriteTemp
  <2>3. FilesTypeOK' /\ CallsApart'
    BY <1>1, <1>3, <2>1, <2>2 DEF CallsApart
  <2>4. RewritesApart'
    BY <1>1, <1>2, <1>3, <2>1 DEF RewritesApart
  <2> QED
    BY <2>3, <2>4
<1> QED
  BY <1>4, <1>5, <1>6

\* What becomes of the open file of another call when a temporary file is renamed.
LEMMA RenamedCalls ==
  ASSUME FilesInv, NEW c \in FileCalls, NEW d \in FileCalls
  PROVE  LET new == [fcall[d] EXCEPT !.fd = Renamed(c, d)]
         IN /\ new \in FileCall /\ new.op = fcall[d].op /\ new.at = fcall[d].at
            /\ new.image = fcall[d].image
            /\ ProcOf[d] # ProcOf[c] /\ fcall[d].fd # "target" => new.fd = fcall[d].fd
<1>1. fcall[d] \in FileCall
  BY DEF FilesInv, FilesTypeOK
<1>2. Renamed(c, d) \in {"none", "temp", "target"}
  BY <1>1 DEF Renamed, FileCall
<1> QED
  BY <1>1, <1>2 DEF Renamed, FileCall, TempOf

LEMMA RenameTempKeeps ==
  ASSUME FilesInv, NEW c \in FileCalls, RenameTemp(c) PROVE FilesInv'
<1> USE DEF FilesInv, FilesTypeOK
<1> DEFINE p == ProcOf[c]
           New(d) == [fcall[d] EXCEPT !.fd = Renamed(c, d)]
<1>1. /\ fcall[c] \in FileCall /\ fcall[c].op = "rewrite" /\ fcall[c].at = "rename"
      /\ p \in FileProcs /\ ProcOf \in [FileCalls -> FileProcs] /\ NoFileCall \in FileCall
      /\ target' = temp[p] /\ temp' = [temp EXCEPT ![p] = NoContent]
      /\ fcall' = [d \in FileCalls |-> IF d = c THEN NoFileCall ELSE New(d)]
      /\ kept' = kept \cup fcall[c].image /\ fcall[c].image \subseteq Lines
      /\ UNCHANGED <<brought, dropped, overlapped, mingled, unguarded>>
  BY JsonFilesAssumption DEF RenameTemp, Stands, TempOf, FileCall, NoFileCall
<1>2. /\ fcall'[c] = NoFileCall /\ fcall' \in [FileCalls -> FileCall]
      /\ \A d \in FileCalls \ {c} :
           /\ fcall'[d].op = fcall[d].op /\ fcall'[d].at = fcall[d].at
           /\ fcall'[d].image = fcall[d].image
           /\ ProcOf[d] # p /\ fcall[d].fd # "target" => fcall'[d].fd = fcall[d].fd
  BY <1>1, RenamedCalls
<1>3. /\ temp' \in [FileProcs -> Content] /\ target' \in Content
      /\ \A q \in FileProcs \ {p} : temp'[q] = temp[q]
  BY <1>1, Contents
<1>4. ~overlapped => target' = Whole(fcall[c].image)
  BY <1>1 DEF RewritesApart
<1>5. FilesTypeOK'
  BY <1>1, <1>2, <1>3
<1>6. RewritesApart'
  <2>1. overlapped' => mingled'
    BY <1>1 DEF RewritesApart
  <2>2. ~unguarded' => \A d \in FileCalls : fcall'[d].op # "place"
    BY <1>1, <1>2 DEF RewritesApart, NoFileCall
  <2>3. ASSUME ~overlapped, NEW d \in FileCalls, fcall'[d].op = "rewrite"
        PROVE  /\ d # c /\ ProcOf[d] # p /\ fcall[d].op = "rewrite" /\ fcall[d].fd # "target"
               /\ fcall'[d].fd = fcall[d].fd /\ temp'[ProcOf[d]] = temp[ProcOf[d]]
    <3>1. d # c /\ fcall[d].op = "rewrite"
      BY <1>2, <2>3 DEF NoFileCall
    <3>2. ProcOf[d] # p /\ fcall[d].fd # "target"
      BY <1>1, <2>3, <3>1 DEF RewritesApart
    <3> QED
      BY <1>1, <1>2, <1>3, <3>1, <3>2
  <2>4. ~overlapped => /\ target'.whole
                       /\ \A d, e \in FileCalls :
                            fcall'[d].op = "rewrite" /\ fcall'[e].op = "rewrite"
                            /\ ProcOf[d] = ProcOf[e] => d = e
    BY <1>1, <1>4, <2>3, Contents DEF RewritesApart
  <2>5. ASSUME ~overlapped, NEW d \in FileCalls, fcall'[d].op = "rewrite"
        PROVE  /\ fcall'[d].fd # "target" /\ fcall'[d].at # "rest"
               /\ fcall'[d].at = "write" => fcall'[d].fd = "temp" /\ temp'[ProcOf[d]] = Emptied
               /\ fcall'[d].at = "rename" => temp'[ProcOf[d]] = Whole(fcall'[d].image)
    BY <1>2, <2>3, <2>5 DEF RewritesApart
  <2> QED
    BY <1>1, <2>1, <2>2, <2>4, <2>5 DEF RewritesApart
<1>7. CallsApart'
  <2> SUFFICES ASSUME ~mingled PROVE CallsApart'
    BY <1>1 DEF CallsApart
  <2>1. ~overlapped
    BY DEF RewritesApart
  <2>2. \A d \in FileCalls : fcall'[d].op = "none"
    BY <1>1, <1>2 DEF CallsApart, Busy, NoFileCall
  <2>3. \/ /\ kept \subseteq target.lines \cup dropped
           /\ target.lines \subseteq fcall[c].image \cup dropped
        \/ unguarded
    BY <1>1 DEF CallsApart
  <2> QED
    BY <1>1, <1>4, <2>1, <2>2, <2>3, Contents DEF CallsApart, Busy
<1> QED
  BY <1>5, <1>6, <1>7

\* Calls lose the file they had open, and nothing else.
LEMMA WithoutFiles ==
  ASSUME FilesInv, NEW fd, NEW calls, NEW d \in FileCalls
  PROVE  LET new == Without(fd, calls)[d]
         IN /\ new \in FileCall /\ new.op = fcall[d].op /\ new.at = fcall[d].at
            /\ new.image = fcall[d].image
            /\ d \notin calls \/ fcall[d].fd # fd => new = fcall[d]
            /\ new.fd \in {"none", fcall[d].fd}
<1>1. fcall[d] \in FileCall
  BY DEF FilesInv, FilesTypeOK
<1>2. Without(fd, calls)[d] = IF d \in calls /\ fcall[d].fd = fd
                              THEN [fcall[d] EXCEPT !.fd = "none"] ELSE fcall[d]
  BY DEF Without
<1> QED
  BY <1>1, <1>2 DEF FileCall

LEMMA RewriteFailsKeeps ==
  ASSUME FilesInv, NEW c \in FileCalls, RewriteFails(c) PROVE FilesInv'
<1> USE DEF FilesInv, FilesTypeOK
<1> DEFINE new == [fcall[c] EXCEPT !.at = "unlink"]
<1>1. /\ fcall[c] \in FileCall /\ fcall[c].op = "rewrite"
      /\ fcall' = [fcall EXCEPT ![c] = new]
      /\ UNCHANGED <<target, temp, brought, kept, dropped, overlapped, mingled, unguarded>>
  BY DEF RewriteFails, Steps, jfHistory
<1>2. /\ new \in FileCall /\ new.op = "rewrite" /\ new.at = "unlink"
      /\ new.fd = fcall[c].fd /\ new.image = fcall[c].image
  BY <1>1 DEF FileCall
<1>3. /\ fcall'[c] = new /\ \A d \in FileCalls \ {c} : fcall'[d] = fcall[d]
      /\ fcall' \in [FileCalls -> FileCall]
  BY <1>1, <1>2
<1>4. FilesTypeOK' /\ CallsApart'
  BY <1>1, <1>2, <1>3 DEF CallsApart, Busy
<1>5. RewritesApart'
  BY <1>1, <1>2, <1>3 DEF RewritesApart
<1> QED
  BY <1>4, <1>5

LEMMA UnlinkTempKeeps ==
  ASSUME FilesInv, NEW c \in FileCalls, UnlinkTemp(c) PROVE FilesInv'
<1> USE DEF FilesInv, FilesTypeOK
<1> DEFINE p == ProcOf[c]
           calls == {d \in FileCalls : TempOf(d) = TempOf(c)}
           left == Without("temp", calls)
<1>1. /\ fcall[c] \in FileCall /\ fcall[c].op = "rewrite" /\ fcall[c].at = "unlink"
      /\ p \in FileProcs /\ ProcOf \in [FileCalls -> FileProcs] /\ NoFileCall \in FileCall
      /\ temp' = [temp EXCEPT ![p] = NoContent]
      /\ fcall' = [left EXCEPT ![c] = NoFileCall]
      /\ UNCHANGED <<target, brought, kept, dropped, overlapped, mingled, unguarded>>
  BY JsonFilesAssumption DEF UnlinkTemp, Stands, TempOf, FileCall, NoFileCall, jfHistory
<1>2. left \in [FileCalls -> FileCall]
  <2>1. left = [d \in FileCalls |-> left[d]]
    BY DEF Without
  <2> QED
    BY <2>1, WithoutFiles
<1>3. /\ fcall'[c] = NoFileCall /\ fcall' \in [FileCalls -> FileCall]
      /\ \A d \in FileCalls \ {c} : fcall'[d] = left[d]
  BY <1>1, <1>2
<1>4. \A d \in FileCalls \ {c} :
        /\ fcall'[d].op = fcall[d].op /\ fcall'[d].at = fcall[d].at
        /\ fcall'[d].image = fcall[d].image
        /\ ProcOf[d] # p => fcall'[d] = fcall[d]
        /\ fcall'[d].fd \in {"none", fcall[d].fd} /\ (fcall[d].fd = "target" => fcall'[d] = fcall[d])
  <2> SUFFICES ASSUME NEW d \in FileCalls \ {c}
               PROVE  /\ left[d].op = fcall[d].op /\ left[d].at = fcall[d].at
                      /\ left[d].image = fcall[d].image
                      /\ ProcOf[d] # p => left[d] = fcall[d]
                      /\ left[d].fd \in {"none", fcall[d].fd}
                      /\ (fcall[d].fd = "target" => left[d] = fcall[d])
    BY <1>3
  <2>1. /\ left[d].op = fcall[d].op /\ left[d].at = fcall[d].at
        /\ left[d].image = fcall[d].image /\ left[d].fd \in {"none", fcall[d].fd}
        /\ d \notin calls \/ fcall[d].fd # "temp" => left[d] = fcall[d]
    BY WithoutFiles
  <2>2. ProcOf[d] # p => d \notin calls
    BY DEF TempOf
  <2> QED
    BY <2>1, <2>2
<1>5. /\ temp' \in [FileProcs -> Content]
      /\ \A q \in FileProcs \ {p} : temp'[q] = temp[q]
  BY <1>1, Contents
<1>6. FilesTypeOK'
  BY <1>1, <1>3, <1>5
<1>7. RewritesApart'
  <2>1. ASSUME ~overlapped, NEW d \in FileCalls, fcall'[d].op = "rewrite"
        PROVE  d # c /\ ProcOf[d] # p /\ fcall'[d] = fcall[d] /\ temp'[ProcOf[d]] = temp[ProcOf[d]]
    <3>1. d # c /\ fcall[d].op = "rewrite"
      BY <1>3, <1>4, <2>1 DEF NoFileCall
    <3>2. ProcOf[d] # p
      BY <1>1, <2>1, <3>1 DEF RewritesApart
    <3> QED
      BY <1>1, <1>4, <1>5, <3>1, <3>2
  <2>2. ~unguarded' => \A d \in FileCalls : fcall'[d].op # "place"
    BY <1>1, <1>3, <1>4 DEF RewritesApart, NoFileCall
  <2>3. overlapped => mingled
    BY DEF RewritesApart
  <2> QED
    BY <1>1, <2>1, <2>2, <2>3 DEF RewritesApart
<1>8. CallsApart'
  <2>1. \A d \in FileCalls : d # c /\ ~mingled => fcall'[d].op = "none"
    BY <1>1, <1>4 DEF CallsApart, Busy
  <2> QED
    BY <1>1, <1>3, <2>1 DEF CallsApart, Busy, NoFileCall
<1> QED
  BY <1>6, <1>7, <1>8

LEMMA RewriteSyncKeeps ==
  ASSUME FilesInv, NEW c \in FileCalls, NEW image \in Images, RewriteSync(c, image)
  PROVE  FilesInv'
<1> USE DEF FilesInv, FilesTypeOK
<1> DEFINE p == ProcOf[c]
           New(d) == [fcall[d] EXCEPT !.fd = Renamed(c, d)]
<1>1. image \subseteq Lines
  <2>1. target.lines \subseteq Lines
    BY DEF Content
  <2> QED
    BY <2>1 DEF Images, ReadLines
<1>2. /\ ~Busy(c) /\ p \in FileProcs /\ ProcOf \in [FileCalls -> FileProcs]
      /\ target' = Whole(image) /\ temp' = [temp EXCEPT ![p] = NoContent]
      /\ fcall' = [d \in FileCalls |-> New(d)]
      /\ brought' = brought \cup image /\ dropped' = dropped \cup (target.lines \ image)
      /\ kept' = kept \cup image /\ unguarded' = unguarded
      /\ mingled' = (mingled \/ \E d \in FileCalls : Busy(d))
      /\ overlapped' = (overlapped \/ \E d \in FileCalls : ProcOf[d] = p /\ fcall[d].op = "rewrite")
  BY JsonFilesAssumption DEF RewriteSync, Begins, Takes, TempOf
<1>3. /\ fcall' \in [FileCalls -> FileCall]
      /\ \A d \in FileCalls :
           /\ fcall'[d].op = fcall[d].op /\ fcall'[d].at = fcall[d].at
           /\ fcall'[d].image = fcall[d].image
           /\ ProcOf[d] # p /\ fcall[d].fd # "target" => fcall'[d].fd = fcall[d].fd
  BY <1>2, RenamedCalls
<1>4. /\ temp' \in [FileProcs -> Content] /\ target' \in Content /\ target'.whole
      /\ target'.lines = image /\ \A q \in FileProcs \ {p} : temp'[q] = temp[q]
  BY <1>1, <1>2, Contents
<1>5. FilesTypeOK'
  <2>1. target.lines \subseteq Lines
    BY DEF Content
  <2> QED
    BY <1>1, <1>2, <1>3, <1>4, <2>1
<1>6. RewritesApart'
  <2>1. overlapped' => mingled'
    BY <1>2 DEF RewritesApart, Busy
  <2>2. ASSUME ~overlapped', NEW d \in FileCalls, fcall'[d].op = "rewrite"
        PROVE  /\ fcall[d].op = "rewrite" /\ fcall[d].fd # "target"
               /\ fcall'[d].fd = fcall[d].fd /\ temp'[ProcOf[d]] = temp[ProcOf[d]]
    <3>1. fcall[d].op = "rewrite"
      BY <1>3, <2>2
    <3>2. ~overlapped /\ ProcOf[d] # p
      BY <1>2, <2>2, <3>1
    <3>3. fcall[d].fd # "target" /\ ProcOf[d] \in FileProcs
      BY <1>2, <3>1, <3>2 DEF RewritesApart
    <3> QED
      BY <1>3, <1>4, <3>1, <3>2, <3>3
  <2>3. ASSUME ~overlapped', NEW d \in FileCalls, fcall'[d].op = "rewrite"
        PROVE  /\ fcall'[d].fd # "target" /\ fcall'[d].at # "rest"
               /\ fcall'[d].at = "write" => fcall'[d].fd = "temp" /\ temp'[ProcOf[d]] = Emptied
               /\ fcall'[d].at = "rename" => temp'[ProcOf[d]] = Whole(fcall'[d].image)
    BY <1>2, <1>3, <2>2, <2>3 DEF RewritesApart
  <2>4. ~overlapped' => \A d, e \in FileCalls :
          fcall'[d].op = "rewrite" /\ fcall'[e].op = "rewrite" /\ ProcOf[d] = ProcOf[e] => d = e
    BY <1>2, <1>3 DEF RewritesApart
  <2>5. ~unguarded' => \A d \in FileCalls : fcall'[d].op # "place"
    BY <1>2, <1>3 DEF RewritesApart
  <2> QED
    BY <1>4, <2>1, <2>3, <2>4, <2>5 DEF RewritesApart
<1>7. CallsApart'
  <2>1. ~mingled' => /\ ~mingled /\ \A d \in FileCalls : fcall'[d].op = "none"
    BY <1>2, <1>3 DEF Busy
  <2>2. ~mingled /\ ~unguarded => kept \subseteq target.lines \cup dropped
    BY DEF CallsApart
  <2> QED
    BY <1>2, <1>4, <2>1, <2>2 DEF CallsApart, Busy
<1> QED
  BY <1>5, <1>6, <1>7

LEMMA PlaceBeginKeeps ==
  ASSUME FilesInv, NEW c \in FileCalls, NEW image \in Images, PlaceBegin(c, image)
  PROVE  FilesInv'
<1> USE DEF FilesInv, FilesTypeOK
<1> DEFINE new == [op |-> "place", at |-> "write", fd |-> "target", image |-> image]
<1>1. image \subseteq Lines /\ target.lines \subseteq Lines
  <2>1. target.lines \subseteq Lines
    BY DEF Content
  <2> QED
    BY <2>1 DEF Images, ReadLines
<1>2. /\ fcall' = [fcall EXCEPT ![c] = new] /\ ~Busy(c) /\ new \in FileCall
      /\ brought' = brought \cup image /\ dropped' = dropped \cup (target.lines \ image)
      /\ target' = Emptied /\ unguarded' /\ unguarded' = TRUE /\ UNCHANGED <<temp, kept, overlapped>>
      /\ mingled' = (mingled \/ \E d \in FileCalls : Busy(d))
  BY <1>1 DEF PlaceBegin, Begins, FileCall, Takes
<1>3. /\ fcall'[c] = new /\ \A d \in FileCalls \ {c} : fcall'[d] = fcall[d]
      /\ fcall' \in [FileCalls -> FileCall]
  BY <1>2
<1>4. FilesTypeOK'
  BY <1>1, <1>2, <1>3, Contents
<1>5. RewritesApart' /\ CallsApart'
  BY <1>2, <1>3 DEF RewritesApart, CallsApart, Busy
<1> QED
  BY <1>4, <1>5

LEMMA PlaceEndKeeps ==
  ASSUME FilesInv, NEW c \in FileCalls, PlaceEnd(c) PROVE FilesInv'
<1> USE DEF FilesInv, FilesTypeOK
<1>1. /\ fcall' = [fcall EXCEPT ![c] = NoFileCall] /\ NoFileCall \in FileCall
      /\ fcall[c] \in FileCall /\ fcall[c].op = "place"
      /\ kept' = kept \cup fcall[c].image /\ fcall[c].image \in SUBSET Lines
      /\ UNCHANGED <<temp, brought, dropped, overlapped, mingled, unguarded>>
  BY DEF PlaceEnd, Leaves, Stands, NoFileCall, FileCall
<1>2. /\ fcall'[c] = NoFileCall /\ \A d \in FileCalls \ {c} : fcall'[d] = fcall[d]
      /\ fcall' \in [FileCalls -> FileCall]
  BY <1>1
<1>3. unguarded /\ target' \in Content
  BY <1>1, WrittenOver DEF PlaceEnd, RewritesApart
<1>4. FilesTypeOK'
  BY <1>1, <1>2, <1>3
<1>5. RewritesApart' /\ CallsApart'
  BY <1>1, <1>2, <1>3 DEF RewritesApart, CallsApart, Busy, NoFileCall
<1> QED
  BY <1>4, <1>5

LEMMA RemoveFileKeeps ==
  ASSUME FilesInv, NEW p \in FileProcs, RemoveFile(p) PROVE FilesInv'
<1> USE DEF FilesInv, FilesTypeOK
<1>1. /\ target' = NoContent /\ dropped' = dropped \cup target.lines
      /\ fcall' = Without("target", FileCalls) /\ UNCHANGED <<temp, brought, kept, unguarded>>
      /\ mingled' = (mingled \/ \E d \in FileCalls : Busy(d)) /\ overlapped' = overlapped
      /\ target.lines \subseteq Lines
  BY DEF RemoveFile, Begins, Content
<1>2. \A d \in FileCalls :
        /\ fcall'[d] \in FileCall /\ fcall'[d].op = fcall[d].op
        /\ fcall[d].fd # "target" => fcall'[d] = fcall[d]
  BY <1>1, WithoutFiles
<1>3. fcall' \in [FileCalls -> FileCall]
  BY <1>1, <1>2 DEF Without
<1>4. FilesTypeOK'
  BY <1>1, <1>3, Contents
<1>5. RewritesApart'
  BY <1>1, <1>2, Contents DEF RewritesApart
<1>6. CallsApart'
  BY <1>1, <1>2 DEF CallsApart, Busy
<1> QED
  BY <1>4, <1>5, <1>6

LEMMA FileProcEndsKeeps ==
  ASSUME FilesInv, NEW p \in FileProcs, FileProcEnds(p) PROVE FilesInv'
<1> USE DEF FilesInv, FilesTypeOK
<1>1. /\ fcall' = [c \in FileCalls |-> IF ProcOf[c] = p THEN NoFileCall ELSE fcall[c]]
      /\ NoFileCall \in FileCall /\ ProcOf \in [FileCalls -> FileProcs]
      /\ temp' \in [FileProcs -> Content] /\ \A q \in FileProcs \ {p} : temp'[q] = temp[q]
      /\ UNCHANGED <<target, brought, kept, dropped, overlapped, mingled, unguarded>>
  BY JsonFilesAssumption, Contents DEF FileProcEnds, jfHistory, NoFileCall, FileCall
<1>2. /\ fcall' \in [FileCalls -> FileCall]
      /\ \A c \in FileCalls : fcall'[c].op # "none" => ProcOf[c] # p /\ fcall'[c] = fcall[c]
  BY <1>1 DEF NoFileCall
<1>3. FilesTypeOK'
  BY <1>1, <1>2
<1>4. RewritesApart'
  BY <1>1, <1>2 DEF RewritesApart
<1>5. CallsApart'
  BY <1>1, <1>2 DEF CallsApart, Busy
<1> QED
  BY <1>3, <1>4, <1>5

\* The invariant of the files holds at the start, and at every step.
LEMMA FilesInvInit == JfInit => FilesInv
<1> SUFFICES ASSUME JfInit PROVE FilesInv
  OBVIOUS
<1>1. /\ NoFileCall \in FileCall /\ NoFileCall.op = "none"
      /\ target = NoContent /\ temp = [p \in FileProcs |-> NoContent]
      /\ fcall = [c \in FileCalls |-> NoFileCall]
      /\ brought = {} /\ kept = {} /\ dropped = {}
      /\ overlapped = FALSE /\ mingled = FALSE /\ unguarded = FALSE
  BY DEF JfInit, NoFileCall, FileCall
<1>2. FilesTypeOK
  BY <1>1, Contents DEF FilesTypeOK
<1>3. RewritesApart /\ CallsApart
  BY <1>1, Contents DEF RewritesApart, CallsApart, Busy
<1> QED
  BY <1>2, <1>3 DEF FilesInv

LEMMA FilesInvKept == FilesInv /\ [JfNext]_jfVars => FilesInv'
<1> SUFFICES ASSUME FilesInv, [JfNext]_jfVars PROVE FilesInv'
  OBVIOUS
<1>1. CASE UNCHANGED jfVars
  <2>1. UNCHANGED <<target, temp, fcall, brought, kept, dropped, overlapped, mingled, unguarded>>
    BY <1>1 DEF jfVars, jfHistory
  <2> QED
    BY <2>1 DEF FilesInv, FilesTypeOK, RewritesApart, CallsApart, Busy
<1> QED
  BY <1>1, AppendBeginKeeps, AppendEndKeeps, RewriteBeginKeeps, OpenTempKeeps, WriteTempKeeps,
     RenameTempKeeps, RewriteFailsKeeps, UnlinkTempKeeps, RewriteSyncKeeps, PlaceBeginKeeps,
     PlaceEndKeeps, RemoveFileKeeps, FileProcEndsKeeps DEF JfNext

LEMMA FilesInvHolds == JfSpec => []FilesInv
  BY FilesInvInit, FilesInvKept, PTL DEF JfSpec

\* A file that is never written in its place is readable whenever it is there, and keeps the
\* lines whose calls succeeded, for any processes, calls and lines.
THEOREM FilesStayWhole == JfSpec => []FilesWhole
<1>1. FilesInv => FilesWhole
  BY DEF FilesInv, FilesTypeOK, RewritesApart, CallsApart, FilesWhole, ReadsNull, ReadLines
<1> QED
  BY <1>1, FilesInvHolds, PTL

----------------------------------------------------------------------------
(* The storage key. *)

\* Unless something lapsed, a key in memory is that of the file, or there is no file and
\* one process, which alone has a key, is about to write it.
KeyInv ==
  /\ SkTypeOK
  /\ ~lapsed =>
       /\ \A u \in Users : storageKey[u] # NoKey => storageKey[u] \in {storageFile, keyWrite[u]}
       /\ \A u \in Users : keyWrite[u] # NoKey =>
            /\ storageFile = NoKey
            /\ \A v \in Users \ {u} : storageKey[v] = NoKey /\ keyWrite[v] = NoKey
       /\ \A key \in lineKeys : storageFile = key

LEMMA KeyStep == KeyInv /\ [SkNext]_skVars => KeyInv'
  <1> SUFFICES ASSUME KeyInv, [SkNext]_skVars PROVE KeyInv'
    OBVIOUS
  <1> USE StorageKeyAssumption
  <1>1. ASSUME NEW u \in Users, FindKey(u) PROVE KeyInv'
    BY <1>1 DEF FindKey, Found, Running, KeyInv, SkTypeOK
  <1>2. ASSUME NEW u \in Users, NewKey(u) PROVE KeyInv'
    <2>1. PICK k \in Keys : /\ storageKey' = [storageKey EXCEPT ![u] = k]
                            /\ keyWrite' = [keyWrite EXCEPT ![u] = k]
      BY <1>2 DEF NewKey, Unused
    <2>2. /\ storageFile = NoKey /\ storageFile' = NoKey /\ lineKeys' = lineKeys
          /\ lapsed' = (lapsed \/ OthersWrite(u))
      BY <1>2 DEF NewKey, Found
    <2>3. SkTypeOK'
      BY <2>1, <2>2 DEF KeyInv, SkTypeOK
    <2>4. ASSUME ~lapsed' PROVE \A v \in Users \ {u} : storageKey[v] = NoKey /\ keyWrite[v] = NoKey
      BY <2>2, <2>4 DEF KeyInv, OthersWrite
    <2> QED BY <2>1, <2>2, <2>3, <2>4 DEF KeyInv, SkTypeOK
  <1>3. ASSUME NEW u \in Users, Rotate(u) PROVE KeyInv'
    BY <1>3 DEF Rotate, Running, Unused, KeyInv, SkTypeOK
  <1>4. ASSUME NEW u \in Users, RenameKey(u) PROVE KeyInv'
    <2>1. SkTypeOK'
      BY <1>4 DEF RenameKey, Running, KeyInv, SkTypeOK
    <2> QED BY <1>4, <2>1 DEF RenameKey, Running, KeyInv, SkTypeOK
  <1>5. ASSUME NEW u \in Users, RenameKeyFails(u) PROVE KeyInv'
    BY <1>5 DEF RenameKeyFails, KeyInv, SkTypeOK
  <1>6. ASSUME NEW u \in Users, AppendLine(u) PROVE KeyInv'
    BY <1>6 DEF AppendLine, Running, KeyInv, SkTypeOK
  <1>7. ASSUME NEW u \in Users, RestartUser(u) PROVE KeyInv'
    BY <1>7 DEF RestartUser, KeyInv, SkTypeOK
  <1>8. CASE UNCHANGED skVars
    BY <1>8 DEF skVars, KeyInv, SkTypeOK
  <1> QED BY <1>1, <1>2, <1>3, <1>4, <1>5, <1>6, <1>7, <1>8 DEF SkNext, SkStep

LEMMA KeyInvHolds == SkSpec => []KeyInv
  <1>1. SkInit => KeyInv
    BY DEF SkInit, KeyInv, SkTypeOK
  <1> QED BY <1>1, KeyStep, PTL DEF SkSpec

\* Every variable keeps its type: a process holds at most one key, and the file of lines
\* was written under keys that exist.
THEOREM KeyTypeCorrect == SkSpec => []SkTypeOK
  BY KeyInvHolds, PTL DEF KeyInv

\* However many processes share the data directory, lines stay readable for each.
THEOREM LinesStayReadable == SkSpec => []LinesReadable
  <1>1. KeyInv => LinesReadable
    BY StorageKeyAssumption DEF KeyInv, LinesReadable, Readable, SkTypeOK
  <1> QED BY <1>1, KeyInvHolds, PTL

----------------------------------------------------------------------------
(* Contacts. *)

\* Two books that differ only in some aliases.
SameBut(book, other, aliases) ==
  /\ DOMAIN book \ aliases = DOMAIN other \ aliases
  /\ \A a \in DOMAIN book \ aliases : book[a] = other[a]

LEMMA ExceptSame ==
  ASSUME NEW book, NEW other, NEW aliases
  PROVE  Except(book, aliases, NoContacts) = Except(other, aliases, NoContacts)
           <=> SameBut(book, other, aliases)
<1> DEFINE E(b) == Except(b, aliases, NoContacts)
<1>1. DOMAIN NoContacts = {}
  BY DEF NoContacts
<1>2. \A b : E(b) = [a \in DOMAIN b \ aliases |-> b[a]]
  BY <1>1 DEF Except
<1>3. E(book) = E(other) => SameBut(book, other, aliases)
  <2> SUFFICES ASSUME E(book) = E(other) PROVE SameBut(book, other, aliases)
    OBVIOUS
  <2>1. DOMAIN E(book) = DOMAIN book \ aliases /\ DOMAIN E(other) = DOMAIN other \ aliases
    BY <1>2
  <2>2. \A a \in DOMAIN book \ aliases : E(book)[a] = book[a]
    BY <1>1 DEF Except
  <2>3. \A a \in DOMAIN other \ aliases : E(other)[a] = other[a]
    BY <1>1 DEF Except
  <2> QED
    BY <2>1, <2>2, <2>3 DEF SameBut
<1>4. SameBut(book, other, aliases) => E(book) = E(other)
  BY <1>2 DEF SameBut
<1> QED
  BY <1>3, <1>4

LEMMA BookOf ==
  ASSUME NEW b
  PROVE  b \in Books <=> DOMAIN b \subseteq Aliases \ BadAliases /\ b \in [DOMAIN b -> Contact]
BY DEF Books

LEMMA NoContactsBook == NoContacts \in Books /\ DOMAIN NoContacts = {}
<1>1. DOMAIN NoContacts = {} /\ NoContacts \in [{} -> Contact]
  BY DEF NoContacts
<1> QED
  BY <1>1, BookOf

LEMMA ExceptBook ==
  ASSUME NEW book \in Books, NEW other \in Books, NEW aliases
  PROVE  /\ Except(book, aliases, other) \in Books
         /\ SameBut(Except(book, aliases, other), book, aliases)
<1> DEFINE e == Except(book, aliases, other)
<1>1. /\ DOMAIN e = (DOMAIN book \ aliases) \cup (DOMAIN other \cap aliases)
      /\ \A a \in DOMAIN e : e[a] = IF a \in aliases THEN other[a] ELSE book[a]
  BY DEF Except
<1>2. e = [a \in DOMAIN e |-> e[a]]
  BY DEF Except
<1>3. \A a \in DOMAIN e : e[a] \in Contact
  BY <1>1, BookOf
<1>4. DOMAIN e \subseteq Aliases \ BadAliases
  BY <1>1, BookOf
<1>5. e \in Books
  BY <1>2, <1>3, <1>4, BookOf
<1> QED
  BY <1>1, <1>5 DEF SameBut

ContactsInv ==
  /\ CoTypeOK
  /\ \A h \in holding \ stale : SameBut(contacts[h], contactsFile, unsaved[h])

LEMMA SaveKeeps ==
  ASSUME ContactsInv, NEW h \in holding, NEW book \in Books, NEW aliases \in SUBSET Aliases,
         SameBut(book, contacts[h], aliases), SaveContacts(h, book, aliases)
  PROVE  ContactsInv'
<1> USE DEF ContactsInv, CoTypeOK
<1>1. PICK done \in SUBSET aliases :
        /\ contacts' = [contacts EXCEPT ![h] = book]
        /\ IF done = {}
           THEN /\ unsaved' = [unsaved EXCEPT ![h] = @ \cup aliases]
                /\ UNCHANGED <<contactsFile, stale>>
           ELSE \E late \in SUBSET (aliases \ done) :
                  /\ contactsFile' = Except(book, late, contacts[h])
                  /\ unsaved' = [unsaved EXCEPT ![h] = late]
                  /\ stale' = holding \ {h}
        /\ UNCHANGED holding
  BY DEF SaveContacts
<1>2. /\ h \in Holders /\ contacts' \in [Holders -> Books] /\ contacts'[h] = book
      /\ \A g \in Holders \ {h} : contacts'[g] = contacts[g]
  BY <1>1
<1>3. CASE done = {}
  <2>1. /\ unsaved' = [unsaved EXCEPT ![h] = unsaved[h] \cup aliases]
        /\ UNCHANGED <<contactsFile, stale, holding>>
    BY <1>1, <1>3
  <2>2. /\ unsaved' \in [Holders -> SUBSET Aliases] /\ unsaved'[h] = unsaved[h] \cup aliases
        /\ \A g \in Holders \ {h} : unsaved'[g] = unsaved[g]
    BY <1>2, <2>1
  <2>3. CoTypeOK'
    BY <1>2, <2>1, <2>2
  <2>4. ASSUME NEW g \in holding' \ stale' PROVE SameBut(contacts'[g], contactsFile', unsaved'[g])
    <3>1. CASE g = h
      BY <1>2, <2>1, <2>2, <3>1 DEF SameBut
    <3>2. CASE g # h
      BY <1>2, <2>1, <2>2, <3>2
    <3> QED
      BY <3>1, <3>2
  <2> QED
    BY <2>3, <2>4
<1>4. CASE done # {}
  <2>1. PICK late \in SUBSET (aliases \ done) :
          /\ contactsFile' = Except(book, late, contacts[h])
          /\ unsaved' = [unsaved EXCEPT ![h] = late]
          /\ stale' = holding \ {h}
    BY <1>1, <1>4
  <2>2. contactsFile' \in Books /\ SameBut(contactsFile', book, late)
    BY <1>2, <2>1, ExceptBook
  <2>3. unsaved' \in [Holders -> SUBSET Aliases] /\ unsaved'[h] = late
    BY <1>2, <2>1
  <2>4. CoTypeOK'
    BY <1>1, <1>2, <2>1, <2>2, <2>3
  <2>5. SameBut(contacts'[h], contactsFile', unsaved'[h])
    BY <1>2, <2>2, <2>3 DEF SameBut
  <2>6. \A g \in holding' \ stale' : g = h
    BY <1>1, <2>1
  <2> QED
    BY <2>4, <2>5, <2>6
<1> QED
  BY <1>3, <1>4

LEMMA ImportKeeps ==
  ASSUME ContactsInv, NEW h \in Holders, NEW S \in SUBSET Aliases, NEW data \in [S -> Details],
         Import(h, data)
  PROVE  ContactsInv'
<1> DEFINE accepted == DOMAIN data \ BadAliases
           given == Restrict(data, accepted)
           book == Added(contacts[h], given)
           new == [a \in DOMAIN given |-> [details |-> given[a], used |-> FALSE]]
<1>1. h \in holding /\ SaveContacts(h, book, accepted)
  BY DEF Import
<1>2. /\ DOMAIN given = accepted /\ accepted \subseteq Aliases \ BadAliases
      /\ \A a \in accepted : given[a] \in Details
  BY DEF Restrict
<1>3. new \in Books
  <2>1. DOMAIN new = accepted /\ new \in [accepted -> Contact]
    BY <1>2 DEF Contact
  <2> QED
    BY <1>2, <2>1, BookOf
<1>4. contacts[h] \in Books
  BY DEF ContactsInv, CoTypeOK
<1>5. book = Except(contacts[h], accepted, new)
  BY <1>2 DEF Added
<1>6. book \in Books /\ SameBut(book, contacts[h], accepted)
  BY <1>3, <1>4, <1>5, ExceptBook
<1> QED
  BY <1>1, <1>2, <1>6, SaveKeeps

LEMMA ContactsInvKept == ContactsInv /\ [CoNext]_coVars => ContactsInv'
<1> SUFFICES ASSUME ContactsInv, [CoNext]_coVars PROVE ContactsInv'
  OBVIOUS
<1> USE DEF ContactsInv
<1>1. CASE UNCHANGED coVars
  BY <1>1 DEF coVars, CoTypeOK, SameBut
<1>2. ASSUME NEW h \in Holders, GetContacts(h) PROVE ContactsInv'
  <2>1. /\ h \notin holding /\ holding' = holding \cup {h}
        /\ contacts' = [contacts EXCEPT ![h] = contactsFile]
        /\ UNCHANGED <<contactsFile, unsaved, stale>>
    BY <1>2 DEF GetContacts, LoadContacts
  <2>2. contacts' \in [Holders -> Books] /\ contacts'[h] = contactsFile
        /\ \A g \in Holders \ {h} : contacts'[g] = contacts[g]
    BY <2>1 DEF CoTypeOK
  <2>3. CoTypeOK'
    BY <2>1, <2>2 DEF CoTypeOK
  <2>4. \A g \in holding' \ stale' : SameBut(contacts'[g], contactsFile', unsaved'[g])
    BY <2>1, <2>2 DEF CoTypeOK, SameBut
  <2> QED
    BY <2>3, <2>4
<1>3. ASSUME NEW h \in Holders, EndHolder(h) PROVE ContactsInv'
  <2>1. /\ holding' = holding \ {h} /\ stale' = stale \ {h}
        /\ contacts' = [contacts EXCEPT ![h] = NoContacts]
        /\ unsaved' = [unsaved EXCEPT ![h] = {}] /\ contactsFile' = contactsFile
    BY <1>3 DEF EndHolder
  <2>2. CoTypeOK'
    BY <2>1, NoContactsBook DEF CoTypeOK
  <2>3. \A g \in holding' \ stale' : contacts'[g] = contacts[g] /\ unsaved'[g] = unsaved[g]
    BY <2>1 DEF CoTypeOK
  <2> QED
    BY <2>1, <2>2, <2>3
<1>4. ASSUME NEW h \in Holders, NEW alias \in Aliases, NEW d \in Details, Add(h, alias, d)
      PROVE  ContactsInv'
  <2>1. [a \in {alias} |-> d] \in [{alias} -> Details] /\ {alias} \in SUBSET Aliases
    OBVIOUS
  <2> QED
    BY <1>4, <2>1, ImportKeeps DEF Add
<1>5. ASSUME NEW h \in Holders, NEW alias \in Aliases, Remove(h, alias) PROVE ContactsInv'
  <2>1. contacts[h] \in Books
    BY DEF CoTypeOK
  <2>2. /\ Except(contacts[h], {alias}, NoContacts) \in Books
        /\ SameBut(Except(contacts[h], {alias}, NoContacts), contacts[h], {alias})
    BY <2>1, NoContactsBook, ExceptBook
  <2> QED
    BY <1>5, <2>2, SaveKeeps DEF Remove
<1>6. ASSUME NEW h \in Holders, NEW alias \in Aliases, Touch(h, alias) PROVE ContactsInv'
  <2> DEFINE book == [contacts[h] EXCEPT ![alias].used = TRUE]
  <2>1. /\ h \in holding /\ alias \in DOMAIN contacts[h] /\ SaveContacts(h, book, {alias})
        /\ contacts[h] \in Books
    BY <1>6 DEF Touch, CoTypeOK
  <2>2. contacts[h] \in [DOMAIN contacts[h] -> Contact]
    BY <2>1, BookOf
  <2>3. book \in [DOMAIN contacts[h] -> Contact] /\ DOMAIN book = DOMAIN contacts[h]
    BY <2>1, <2>2 DEF Contact
  <2>4. book \in Books /\ SameBut(book, contacts[h], {alias})
    BY <2>1, <2>3, BookOf DEF SameBut
  <2> QED
    BY <2>1, <2>4, SaveKeeps
<1>7. ASSUME NEW h \in Holders, NEW S \in SUBSET Aliases, NEW data \in [S -> Details],
             Import(h, data)
      PROVE  ContactsInv'
  BY <1>7, ImportKeeps
<1> QED
  BY <1>1, <1>2, <1>3, <1>4, <1>5, <1>6, <1>7 DEF CoNext, CoStep

LEMMA ContactsInvInit == CoInit => ContactsInv
  BY NoContactsBook DEF CoInit, ContactsInv, CoTypeOK

LEMMA ContactsInvHolds == CoSpec => []ContactsInv
  BY ContactsInvInit, ContactsInvKept, PTL DEF CoSpec

\* A process that nobody has overtaken holds what the file holds.
THEOREM HeldContactsStored == CoSpec => []HeldIsStored
<1>1. ContactsInv => HeldIsStored
  BY ExceptSame DEF ContactsInv, HeldIsStored
<1> QED
  BY <1>1, ContactsInvHolds, PTL
================================================================================

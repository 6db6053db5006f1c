------------------------------- MODULE JsonFiles -------------------------------
(***************************************************************************)
(* One file that is written with the functions of                          *)
(* src/src/utils/json-file.js, or with writeJson and writeJsonAsync of     *)
(* src/src/core/storage.js, by several processes, each of which may have   *)
(* several asynchronous calls under way: MSG_FILE, say, that the worker    *)
(* appends to and rotates (checkAndRotateFile), or HEALTH_FILE, that it    *)
(* replaces every few seconds (updateHealth) and removes in the end.       *)
(* A rewrite goes to a temporary file, whose name holds the process id,    *)
(* and is renamed.  A call keeps the file it has opened, wherever that is  *)
(* renamed to.  A content is a set of lines, and whole unless a write of   *)
(* it has only begun or two writes have mixed.                             *)
(***************************************************************************)
EXTENDS Integers, FiniteSets

CONSTANTS
  FileProcs,   \* processes
  FileCalls,   \* calls that may be under way together
  ProcOf,      \* process of each call
  Lines,       \* lines, each of which one call brings
  MaxFileCalls \* bound: calls under way when one more begins

ASSUME JsonFilesAssumption == ProcOf \in [FileCalls -> FileProcs] /\ MaxFileCalls \in Nat

VARIABLES
  target,       \* the file
  temp,         \* the temporary file of each process
  fcall,        \* the calls
  brought,      \* history: lines that a call has begun to write
  kept,         \* history: lines of calls that have succeeded
  dropped,      \* history: lines that a rewrite was to leave out, or of a removed file
  overlapped,   \* history: rewrites of one process have overlapped
  mingled,      \* history: a call has begun while another one was rewriting or writing
  unguarded     \* history: the file was written in its place

jfHistory == <<brought, kept, dropped, overlapped, mingled, unguarded>>
jfVars == <<target, temp, fcall, jfHistory>>

Content == [exists : BOOLEAN, whole : BOOLEAN, lines : SUBSET Lines]
NoContent == [exists |-> FALSE, whole |-> TRUE, lines |-> {}]
Emptied == [exists |-> TRUE, whole |-> FALSE, lines |-> {}]
Whole(lines) == [exists |-> TRUE, whole |-> TRUE, lines |-> lines]

NoFileCall == [op |-> "none", at |-> "rest", fd |-> "none", image |-> {}]

JfTypeOK ==
  /\ target \in Content /\ temp \in [FileProcs -> Content]
  /\ fcall \in [FileCalls -> [op : {"none", "append", "rewrite", "place"},
                              at : {"rest", "open", "write", "rename", "unlink"},
                              fd : {"none", "temp", "target"}, image : SUBSET Lines]]
  /\ UNION {brought, kept, dropped} \subseteq Lines
  /\ {overlapped, mingled, unguarded} \subseteq BOOLEAN

JfInit ==
  /\ target = NoContent /\ temp = [p \in FileProcs |-> NoContent]
  /\ fcall = [c \in FileCalls |-> NoFileCall]
  /\ brought = {} /\ kept = {} /\ dropped = {}
  /\ overlapped = FALSE /\ mingled = FALSE /\ unguarded = FALSE

\* readJson and readJsonAsync: null if there is no file or it cannot be parsed.
ReadsNull(content) == ~content.exists \/ ~content.whole

\* readJsonLines and readJsonLinesAsync leave out what they cannot parse.
ReadLines(content) == content.lines

Stands(c, op, at) == fcall[c].op = op /\ fcall[c].at = at
Busy(c) == fcall[c].op # "none"
Leaves(c) == fcall' = [fcall EXCEPT ![c] = NoFileCall]
Steps(c, at) == fcall' = [fcall EXCEPT ![c].at = at]

\* Mutant: the name of the temporary file does not hold the process id.
TempShared(c) == CHOOSE p \in FileProcs : TRUE

\* tempPath
TempOf(c) == ProcOf[c]

\* A call c, or one that takes no time, of process p begins.
Begins(p, rewrites) ==
  /\ Cardinality({d \in FileCalls : Busy(d)}) <= MaxFileCalls
  /\ mingled' = (mingled \/ \E d \in FileCalls : Busy(d))
  /\ overlapped' = (overlapped \/ (rewrites /\ \E d \in FileCalls :
                                     ProcOf[d] = p /\ fcall[d].op = "rewrite"))

----------------------------------------------------------------------------
(* appendJsonLine and appendJsonLineAsync, under a lock or not. *)

AppendBegin(c, line) ==
  /\ ~Busy(c) /\ line \notin brought /\ Begins(ProcOf[c], FALSE)
  /\ fcall' = [fcall EXCEPT ![c] =
       [op |-> "append", at |-> "write", fd |-> "target", image |-> {line}]]
  /\ target' = [target EXCEPT !.exists = TRUE]
  /\ brought' = brought \cup {line}
  /\ UNCHANGED <<temp, kept, dropped, unguarded>>

\* The file that was opened may have been replaced or removed since.
AppendEnd(c) ==
  /\ Stands(c, "append", "write") /\ Leaves(c)
  /\ target' = IF fcall[c].fd = "target" THEN [target EXCEPT !.lines = @ \cup fcall[c].image] ELSE target
  /\ kept' = kept \cup fcall[c].image
  /\ UNCHANGED <<temp, brought, dropped, overlapped, mingled, unguarded>>

----------------------------------------------------------------------------
(* atomicWriteFile, and writeJsonAsync where it is secure. *)

\* What is written: some of the lines, as in checkAndRotateFile, or a new document.
Images == (SUBSET ReadLines(target)) \cup {{line} : line \in Lines \ brought}

Takes(image) ==
  /\ brought' = brought \cup image /\ dropped' = dropped \cup (target.lines \ image)

RewriteBegin(c, image) ==
  /\ ~Busy(c) /\ Begins(ProcOf[c], TRUE) /\ Takes(image)
  /\ fcall' = [fcall EXCEPT ![c] =
       [op |-> "rewrite", at |-> "open", fd |-> "none", image |-> image]]
  /\ UNCHANGED <<target, temp, kept, unguarded>>

\* writeFile truncates the temporary file, also one that another call has opened.
OpenTemp(c) ==
  /\ Stands(c, "rewrite", "open")
  /\ fcall' = [fcall EXCEPT ![c].at = "write", ![c].fd = "temp"]
  /\ temp' = [temp EXCEPT ![TempOf(c)] = Emptied]
  /\ UNCHANGED <<target, jfHistory>>

\* Over what another call has written there, the longer of the two shows.
Written(content, image) ==
  {Whole(image)} \cup (IF content = Emptied THEN {} ELSE {[Whole({}) EXCEPT !.whole = FALSE]})

WriteTemp(c) ==
  /\ Stands(c, "rewrite", "write") /\ Steps(c, "rename")
  /\ CASE fcall[c].fd = "temp" ->
            /\ \E new \in Written(temp[TempOf(c)], fcall[c].image) :
                 temp' = [temp EXCEPT ![TempOf(c)] = new]
            /\ UNCHANGED target
       [] fcall[c].fd = "target" ->
            target' \in Written(target, fcall[c].image) /\ UNCHANGED temp
       [] OTHER -> UNCHANGED <<target, temp>>
  /\ UNCHANGED jfHistory

\* Where the files of the calls d are once that of c has been renamed.
Renamed(c, d) ==
  CASE fcall[d].fd = "target" -> "none"
    [] fcall[d].fd = "temp" /\ TempOf(d) = TempOf(c) -> "target"
    [] OTHER -> fcall[d].fd

RenameTemp(c) ==
  /\ Stands(c, "rewrite", "rename") /\ temp[TempOf(c)].exists
  /\ target' = temp[TempOf(c)] /\ temp' = [temp EXCEPT ![TempOf(c)] = NoContent]
  /\ fcall' = [d \in FileCalls |-> IF d = c THEN NoFileCall
                                   ELSE [fcall[d] EXCEPT !.fd = Renamed(c, d)]]
  /\ kept' = kept \cup fcall[c].image
  /\ UNCHANGED <<brought, dropped, overlapped, mingled, unguarded>>

\* A step fails: renaming does when another call has taken the temporary file away.
RewriteFails(c) ==
  /\ fcall[c].op = "rewrite" /\ fcall[c].at # "unlink" /\ Steps(c, "unlink")
  /\ UNCHANGED <<target, temp, jfHistory>>

Without(fd, calls) == [d \in FileCalls |-> IF d \in calls /\ fcall[d].fd = fd
                                           THEN [fcall[d] EXCEPT !.fd = "none"] ELSE fcall[d]]

\* The temporary file is deleted, whosever it is.
UnlinkTemp(c) ==
  /\ Stands(c, "rewrite", "unlink")
  /\ temp' = [temp EXCEPT ![TempOf(c)] = NoContent]
  /\ fcall' = [Without("temp", {d \in FileCalls : TempOf(d) = TempOf(c)}) EXCEPT ![c] = NoFileCall]
  /\ UNCHANGED <<target, jfHistory>>

----------------------------------------------------------------------------
(* atomicWriteFileSync and writeJson: a process does nothing else meanwhile. *)

RewriteSync(c, image) ==
  /\ ~Busy(c) /\ Begins(ProcOf[c], TRUE) /\ Takes(image)
  /\ target' = Whole(image) /\ temp' = [temp EXCEPT ![TempOf(c)] = NoContent]
  /\ fcall' = [d \in FileCalls |-> [fcall[d] EXCEPT !.fd = Renamed(c, d)]]
  /\ kept' = kept \cup image /\ UNCHANGED unguarded

\* writeJson and writeJsonAsync of storage.js where they are not secure.
PlaceBegin(c, image) ==
  /\ ~Busy(c) /\ Begins(ProcOf[c], FALSE) /\ Takes(image)
  /\ fcall' = [fcall EXCEPT ![c] =
       [op |-> "place", at |-> "write", fd |-> "target", image |-> image]]
  /\ target' = Emptied /\ unguarded' = TRUE
  /\ UNCHANGED <<temp, kept>>

PlaceEnd(c) ==
  /\ Stands(c, "place", "write") /\ Leaves(c)
  /\ IF fcall[c].fd = "target" THEN target' \in Written(target, fcall[c].image) ELSE UNCHANGED target
  /\ kept' = kept \cup fcall[c].image
  /\ UNCHANGED <<temp, brought, dropped, overlapped, mingled, unguarded>>

\* safeUnlink and safeUnlinkAsync.
RemoveFile(p) ==
  /\ target.exists /\ target' = NoContent /\ Begins(p, FALSE)
  /\ dropped' = dropped \cup target.lines
  /\ fcall' = Without("target", FileCalls)
  /\ UNCHANGED <<temp, brought, kept, unguarded>>

\* A process ends anywhere, also within a synchronous write, and starts again with
\* its id.
FileProcEnds(p) ==
  /\ fcall' = [c \in FileCalls |-> IF ProcOf[c] = p THEN NoFileCall ELSE fcall[c]]
  /\ UNCHANGED <<target, jfHistory>>
  /\ temp' \in {temp, [temp EXCEPT ![p] = Emptied]}

JfNext ==
  \/ \E p \in FileProcs : RemoveFile(p) \/ FileProcEnds(p)
  \/ \E c \in FileCalls :
       \/ \E line \in Lines : AppendBegin(c, line)
       \/ \E image \in Images : RewriteBegin(c, image) \/ RewriteSync(c, image) \/ PlaceBegin(c, image)
       \/ AppendEnd(c) \/ OpenTemp(c) \/ WriteTemp(c) \/ RenameTemp(c) \/ RewriteFails(c)
       \/ UnlinkTemp(c) \/ PlaceEnd(c)

JfSpec == JfInit /\ [][JfNext]_jfVars

----------------------------------------------------------------------------
(* Properties. *)

\* Unless it is written in its place, a file can be read whenever it is there, also
\* after the crash of any process and while several processes write it: only two
\* rewrites of one process, which share a temporary file, can spoil it.  And a line
\* whose call has succeeded is in the file until a rewrite leaves it out or the file
\* is removed, provided that no call begins while another one is under way.
FilesWhole ==
  /\ target.exists /\ ~overlapped /\ ~unguarded => ~ReadsNull(target)
  /\ ~mingled /\ ~unguarded => kept \subseteq ReadLines(target) \cup dropped
=============================================================================

---------------------------- MODULE MessageJournal ----------------------------
(***************************************************************************)
(* The journal of src/src/service/message-journal.js: messages are         *)
(* appended to one file, an index in memory says where each begins, and    *)
(* flush writes the index to another file.  Every method awaits the file   *)
(* system, and calls may overlap; the process may end anywhere.            *)
(*                                                                         *)
(* A message has length 1: an offset is the number of messages before it.  *)
(* All that lies behind an offset is shorter than the buffer of 8192 bytes *)
(* that get reads, and is parsed as one message.                           *)
(***************************************************************************)
EXTENDS Integers, Sequences, FiniteSets, Functions

CONSTANTS
  Journalled,     \* messages, which have an id each
  JournalCalls,   \* calls of methods that may overlap
  MaxJournal,     \* bound: messages in the file
  Absent,         \* no file
  HalfWritten     \* an index that cannot be parsed

\* What an index may be, in memory and in its file.
Index == UNION {[S -> 0..MaxJournal] : S \in SUBSET Journalled}

ASSUME JournalAssumption ==
  /\ MaxJournal \in Nat \ {0}
  /\ Absent \notin Index /\ HalfWritten \notin Index
  /\ Absent \notin Seq(Journalled)

VARIABLES
  index,          \* this.index: where the messages it has begin
  loaded,         \* this.loaded
  dirty,          \* this.dirty
  journalData,    \* JOURNAL_DATA
  journalIndex,   \* JOURNAL_INDEX
  jcall,          \* the calls
  mixed           \* history: appends overlapped, or clear did with another call or
                  \* has left the index file behind

joVars == <<index, loaded, dirty, journalData, journalIndex, jcall, mixed>>

NoEntries == [m \in {} |-> 0]

JCall ==
  [op : {"none", "append", "delete", "clear", "flush", "close", "compact"},
   at : {"rest", "init", "begin", "collect", "sized", "unlinkData", "unlinkIndex",
         "rewrite", "truncate", "write"},
   msg : Journalled \cup {Absent},
   offset : 0..MaxJournal,
   seen : SUBSET Journalled,              \* compact: entries that have been read
   rest : SUBSET Journalled,              \* compact: messages to be appended again
   image : Index]                         \* flush: what it writes

Idle == [op |-> "none", at |-> "rest", msg |-> Absent, offset |-> 0, seen |-> {},
         rest |-> {}, image |-> NoEntries]

JoTypeOK ==
  /\ index \in Index /\ loaded \in BOOLEAN /\ dirty \in BOOLEAN /\ mixed \in BOOLEAN
  /\ journalData = Absent \/ journalData \in Seq(Journalled)
  /\ journalIndex \in Index \cup {Absent, HalfWritten}
  /\ jcall \in [JournalCalls -> JCall]

JoInit ==
  /\ index = NoEntries /\ loaded = FALSE /\ dirty = FALSE
  /\ journalData = Absent /\ journalIndex = Absent
  /\ jcall = [c \in JournalCalls |-> Idle] /\ mixed = FALSE

JAt(c, op, at) == jcall[c].op = op /\ jcall[c].at = at
JGoes(c, at) == jcall' = [jcall EXCEPT ![c].at = at]
JReturns(c) == jcall' = [jcall EXCEPT ![c] = Idle]
Others(c) == {jcall[d].op : d \in JournalCalls \ {c}} \ {"none"}
Size == IF journalData = Absent THEN 0 ELSE Len(journalData)

\* A call that overlaps with one that is under way.
Mixes(c, op) ==
  \/ op = "append" /\ "append" \in Others(c)
  \/ Others(c) # {} /\ ({op} \cup Others(c)) \cap {"clear", "compact"} # {}

----------------------------------------------------------------------------
(* Calls begin, and wait for init unless it has been done. *)

\* The methods that call init when the index is not loaded.
Inits == {"append", "delete", "compact"}

Call(c, op, msg) ==
  /\ jcall[c] = Idle
  /\ mixed' = (mixed \/ Mixes(c, op))
  /\ IF op \in Inits /\ ~loaded /\ journalIndex # Absent
     THEN /\ jcall' = [jcall EXCEPT ![c] = [Idle EXCEPT !.op = op, !.at = "init", !.msg = msg]]
          /\ UNCHANGED loaded
     ELSE /\ jcall' = [jcall EXCEPT ![c] = [Idle EXCEPT !.op = op, !.at = "begin", !.msg = msg]]
          /\ loaded' = (loaded \/ op \in Inits)
  /\ UNCHANGED <<index, dirty, journalData, journalIndex>>

Merged(old, new) == [m \in DOMAIN old \cup DOMAIN new |->
                       IF m \in DOMAIN new THEN new[m] ELSE old[m]]

\* init: the entries of the file are added; one that cannot be read clears the index.
InitJournal(c) ==
  /\ jcall[c].at = "init" /\ JGoes(c, "begin") /\ loaded' = TRUE
  /\ index' = IF journalIndex \in Index THEN Merged(index, journalIndex) ELSE NoEntries
  /\ UNCHANGED <<dirty, journalData, journalIndex, mixed>>

----------------------------------------------------------------------------
(* append and delete. *)

\* Mutant: the place after the message.
FileSizeAfter == Size + 1

\* _getFileSize
FileSize == Size

AppendSize(c) ==
  /\ JAt(c, "append", "begin")
  /\ jcall' = [jcall EXCEPT ![c].at = "sized", ![c].offset = FileSize]
  /\ UNCHANGED <<index, loaded, dirty, journalData, journalIndex, mixed>>

Appended(msg) == IF journalData = Absent THEN <<msg>> ELSE Append(journalData, msg)

AppendMessage(c) ==
  /\ JAt(c, "append", "sized") /\ Size < MaxJournal
  /\ journalData' = Appended(jcall[c].msg)
  /\ index' = Merged(index, [m \in {jcall[c].msg} |-> jcall[c].offset]) /\ dirty' = TRUE
  /\ JReturns(c) /\ UNCHANGED <<loaded, journalIndex, mixed>>

JournalAppendFails(c) ==
  /\ JAt(c, "append", "sized") /\ JReturns(c)
  /\ UNCHANGED <<index, loaded, dirty, journalData, journalIndex, mixed>>

DeleteMessage(c) ==
  /\ JAt(c, "delete", "begin") /\ JReturns(c)
  /\ index' = Restrict(index, DOMAIN index \ {jcall[c].msg}) /\ dirty' = TRUE
  /\ UNCHANGED <<loaded, journalData, journalIndex, mixed>>

----------------------------------------------------------------------------
(* compact and clear. *)

\* get: all that follows is parsed with the message, and fails unless that is nothing.
Get(msg) == Size = index[msg] + 1

\* getAll parses a buffer at a time, each as one message, and skips what it cannot parse;
\* it does not look at the index.
GetAll == IF Size = 1 THEN journalData ELSE <<>>

CompactBegin(c) ==
  /\ JAt(c, "compact", "begin") /\ JGoes(c, "collect")
  /\ UNCHANGED <<index, loaded, dirty, journalData, journalIndex, mixed>>

CompactGet(c) ==
  /\ JAt(c, "compact", "collect")
  /\ \E msg \in DOMAIN index \ jcall[c].seen :
       jcall' = [jcall EXCEPT ![c].seen = @ \cup {msg},
                   ![c].rest = IF Get(msg) THEN @ \cup {journalData[Size]} ELSE @]
  /\ UNCHANGED <<index, loaded, dirty, journalData, journalIndex, mixed>>

Clears(c) ==
  \/ JAt(c, "clear", "begin")
  \/ JAt(c, "compact", "collect") /\ DOMAIN index \subseteq jcall[c].seen

Clear(c) ==
  /\ Clears(c) /\ JGoes(c, "unlinkData")
  /\ index' = NoEntries /\ dirty' = TRUE
  /\ UNCHANGED <<loaded, journalData, journalIndex, mixed>>

\* clear has returned.
Cleared(c) == IF jcall[c].op = "compact" THEN JGoes(c, "rewrite") ELSE JReturns(c)

\* The index file is left behind if there is no data file to delete.
UnlinkData(c) ==
  /\ jcall[c].at = "unlinkData" /\ journalData' = Absent
  /\ IF journalData = Absent THEN Cleared(c) ELSE JGoes(c, "unlinkIndex")
  /\ mixed' = (mixed \/ (journalData = Absent /\ journalIndex # Absent))
  /\ UNCHANGED <<index, loaded, dirty, journalIndex>>

UnlinkIndex(c) ==
  /\ jcall[c].at = "unlinkIndex" /\ journalIndex' = Absent
  /\ Cleared(c)
  /\ UNCHANGED <<index, loaded, dirty, journalData, mixed>>

\* compact calls append for each message, and flush.
CompactAppend(c) ==
  /\ jcall[c].at = "rewrite" /\ Size < MaxJournal
  /\ \E msg \in jcall[c].rest :
       /\ jcall' = [jcall EXCEPT ![c].rest = @ \ {msg}]
       /\ index' = Merged(index, [m \in {msg} |-> FileSize])
       /\ journalData' = Appended(msg) /\ dirty' = TRUE
  /\ UNCHANGED <<loaded, journalIndex, mixed>>

----------------------------------------------------------------------------
(* flush and close. *)

Flushes(c) ==
  \/ jcall[c].op \in {"flush", "close"} /\ jcall[c].at = "begin"
  \/ jcall[c].at = "rewrite" /\ jcall[c].rest = {}

\* close: the index stays in memory.
Flushed(c) == loaded' = (loaded /\ jcall[c].op # "close") /\ JReturns(c)

FlushNothing(c) ==
  /\ Flushes(c) /\ ~dirty /\ Flushed(c)
  /\ UNCHANGED <<index, dirty, journalData, journalIndex, mixed>>

FlushBegin(c) ==
  /\ Flushes(c) /\ dirty
  /\ jcall' = [jcall EXCEPT ![c].at = "truncate", ![c].image = index]
  /\ UNCHANGED <<index, loaded, dirty, journalData, journalIndex, mixed>>

\* writeFile truncates the file first.
FlushTruncate(c) ==
  /\ jcall[c].at = "truncate" /\ JGoes(c, "write")
  /\ journalIndex' = HalfWritten
  /\ UNCHANGED <<index, loaded, dirty, journalData, mixed>>

FlushWrite(c) ==
  /\ jcall[c].at = "write" /\ Flushed(c)
  /\ journalIndex' = jcall[c].image /\ dirty' = FALSE
  /\ UNCHANGED <<index, journalData, mixed>>

FlushFails(c) ==
  /\ jcall[c].at \in {"truncate", "write"} /\ Flushed(c)
  /\ UNCHANGED <<index, dirty, journalData, journalIndex, mixed>>

\* The process ends and starts again; files stay as they are.
JournalRestart ==
  /\ index' = NoEntries /\ loaded' = FALSE /\ dirty' = FALSE
  /\ jcall' = [c \in JournalCalls |-> Idle]
  /\ mixed' = (mixed \/ \E c \in JournalCalls : jcall[c].at = "unlinkIndex")
  /\ UNCHANGED <<journalData, journalIndex>>

JoStep(c) ==
  \/ \E m \in Journalled : Call(c, "append", m) \/ Call(c, "delete", m)
  \/ \E op \in {"clear", "flush", "close", "compact"} : Call(c, op, Absent)
  \/ InitJournal(c) \/ AppendSize(c) \/ AppendMessage(c) \/ JournalAppendFails(c)
  \/ DeleteMessage(c) \/ CompactBegin(c) \/ CompactGet(c) \/ Clear(c) \/ UnlinkData(c)
  \/ UnlinkIndex(c) \/ CompactAppend(c)
  \/ FlushNothing(c) \/ FlushBegin(c) \/ FlushTruncate(c) \/ FlushWrite(c) \/ FlushFails(c)

JoNext == JournalRestart \/ \E c \in JournalCalls : JoStep(c)
JoSpec == JoInit /\ [][JoNext]_joVars

----------------------------------------------------------------------------
(* Properties. *)

PointsAt(msg, offset) == offset < Size /\ journalData[offset + 1] = msg
Right(entries) == \A msg \in DOMAIN entries : PointsAt(msg, entries[msg])

\* Neither the index nor the file it is loaded from after a crash points at another
\* message or beyond the end, whatever flushes, appends, deletes and loads overlap
\* and wherever the process dies; provided that appends do not overlap each other,
\* and that clear and compact run alone and delete both files.  So reading by the index
\* and reading the whole file agree: get finds each message that getAll yields, unless it
\* has been deleted.
OffsetsRight ==
  ~mixed /\ (\A c \in JournalCalls : jcall[c].at # "unlinkIndex") =>
    /\ Right(index) /\ (journalIndex \in Index => Right(journalIndex))
    /\ \A i \in DOMAIN GetAll : GetAll[i] \in DOMAIN index => Get(GetAll[i])
=============================================================================

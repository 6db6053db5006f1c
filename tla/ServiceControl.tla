---------------------------- MODULE ServiceControl ----------------------------
(***************************************************************************)
(* How the background worker is started, found and stopped: isRunning,     *)
(* ensureRunning, start, stop and getStatus of src/src/service/server.js,  *)
(* run by several command line processes, and main, shutdown and           *)
(* updateHealth of src/src/service/worker.js.  They share PID_FILE and     *)
(* HEALTH_FILE, without a lock; one action is one access to a file, one    *)
(* signal or one step of a process between two of them.                    *)
(*                                                                         *)
(* A call of isRunning is made by every function that asks whether the     *)
(* service runs, also by those that do not wait for the answer.  What a    *)
(* worker does while it runs is the subject of RetryWorker and Inbox.  A   *)
(* pid is never used again, and a parsed pid is the one written.           *)
(***************************************************************************)
EXTENDS Integers, FiniteSets

CONSTANTS
  Workers,  \* pids of the workers that may be spawned
  Callers,  \* processes of the command line
  None,     \* no file
  Half      \* a file opened and truncated, not written yet

ASSUME ServiceAssumption == None \notin Workers /\ Half \notin Workers /\ None # Half

VARIABLES
  pidFile,     \* PID_FILE
  writers,     \* workers that have the present PID_FILE open
  healthFile,  \* whether HEALTH_FILE exists
  worker,      \* place of each worker in main and shutdown
  caller,      \* the call each process of the command line is in
  disturbed    \* history: commands crossed, or one gave up waiting

files == <<pidFile, writers, healthFile>>
vars == <<files, worker, caller, disturbed>>

Starting == {"spawned", "opened", "connecting"}  \* signals kill at once
Stopping == {"flushing", "flushed", "leaving"}
Places == {"unborn", "running", "dead"} \cup Starting \cup Stopping

Call == [op : {"start", "ensure", "stop", "status"}, polls : BOOLEAN, pid : Workers \cup {None},
         at : {"idle", "exists", "read", "unlink", "running", "absent", "cleanup"}]

TypeOK ==
  /\ pidFile \in Workers \cup {None, Half} /\ writers \subseteq Workers
  /\ healthFile \in BOOLEAN
  /\ worker \in [Workers -> Places]
  /\ caller \in [Callers -> Call]
  /\ disturbed \in BOOLEAN

Alive(w) == worker[w] \notin {"unborn", "dead"}
\* The worker has something to lose: its queue is not saved, or will change.
Serving(w) == Alive(w) /\ worker[w] # "leaving"

NoCall == [op |-> "status", polls |-> FALSE, pid |-> None, at |-> "idle"]
Init ==
  /\ pidFile = None /\ writers = {} /\ healthFile = FALSE
  /\ worker = [w \in Workers |-> "unborn"]
  /\ caller = [c \in Callers |-> NoCall]
  /\ disturbed = FALSE

----------------------------------------------------------------------------
(* The worker. *)

Moves(w, from, to) == worker[w] = from /\ worker' = [worker EXCEPT ![w] = to]
UnlinkPidFile == pidFile' = None /\ writers' = {}

\* writeFile truncates the file, whoever's it is, before it writes.
OpenPid(w) ==
  /\ Moves(w, "spawned", "opened")
  /\ pidFile' = Half /\ writers' = writers \cup {w}
  /\ UNCHANGED <<healthFile, caller, disturbed>>

\* What is written to a file that has been unlinked is lost.
WritePid(w) ==
  /\ Moves(w, "opened", "connecting")
  /\ pidFile' = (IF w \in writers THEN w ELSE pidFile)
  /\ writers' = writers \ {w}
  /\ UNCHANGED <<healthFile, caller, disturbed>>

\* The identity, network.connect, loadExistingGroups, setInterval and the first
\* updateHealth come before the signal handlers.
Ready(w) ==
  /\ Moves(w, "connecting", "running")
  /\ healthFile' \in {TRUE, healthFile}
  /\ UNCHANGED <<pidFile, writers, caller, disturbed>>

\* The timer goes on until the process ends.
UpdateHealth(w) ==
  /\ worker[w] \in {"running"} \cup Stopping
  /\ healthFile' = TRUE
  /\ UNCHANGED <<pidFile, writers, worker, caller, disturbed>>

\* main fails: process.exit follows at once, and the file may outlive it.
MainFails(w) ==
  /\ worker[w] \in {"spawned", "opened", "connecting"}
  /\ worker' = [worker EXCEPT ![w] = "dead"]
  /\ UnlinkPidFile \/ UNCHANGED <<pidFile, writers>>
  /\ UNCHANGED <<healthFile, caller, disturbed>>

\* SIGTERM; shutdown returns if it runs already.
Signalled(w) ==
  worker' = [worker EXCEPT ![w] = IF @ \in Starting THEN "dead"
                                  ELSE IF @ = "running" THEN "flushing" ELSE @]

\* SIGINT or an uncaught exception.
Interrupted(w) ==
  /\ Alive(w) /\ Signalled(w)
  /\ UNCHANGED <<files, caller, disturbed>>

\* messageQueue.flush, the group subscriptions, network.close.
Flush(w) ==
  /\ Moves(w, "flushing", "flushed")
  /\ UNCHANGED <<files, caller, disturbed>>

\* Mutant: the file goes first.
UnlinkPidEarly(w) ==
  /\ worker[w] \in {"flushing", "flushed"}
  /\ worker' = [worker EXCEPT ![w] = IF @ = "flushed" THEN "leaving" ELSE @]
  /\ UnlinkPidFile
  /\ UNCHANGED <<healthFile, caller, disturbed>>

\* shutdown does not look whose pid the file holds.
UnlinkPid(w) ==
  /\ Moves(w, "flushed", "leaving")
  /\ UnlinkPidFile
  /\ UNCHANGED <<healthFile, caller, disturbed>>

\* Mutant: the process is left to end by itself, which its timers prevent.
EndsByItself(w) ==
  /\ worker[w] = "leaving"
  /\ healthFile' = FALSE
  /\ UNCHANGED <<pidFile, writers, worker, caller, disturbed>>

\* HEALTH_FILE is unlinked, and an updateHealth may still come before the exit.
Exit(w) ==
  /\ Moves(w, "leaving", "dead")
  /\ healthFile' \in BOOLEAN
  /\ UNCHANGED <<pidFile, writers, caller, disturbed>>

Crash(w) ==
  /\ Alive(w)
  /\ worker' = [worker EXCEPT ![w] = "dead"]
  /\ UNCHANGED <<files, caller, disturbed>>

----------------------------------------------------------------------------
(* The command line. *)

Active(c) == caller[c].at # "idle"
Starts(op) == op \in {"start", "ensure"}
Goes(c, place) == caller' = [caller EXCEPT ![c].at = place]
Enters(c, call) == caller' = [caller EXCEPT ![c] = call]
Returns(c) == Enters(c, NoCall)

\* A start and any other command under way at once count as crossed.
Begin(c, op) ==
  /\ ~Active(c)
  /\ Enters(c, [op |-> op, polls |-> FALSE, pid |-> None, at |-> "exists"])
  /\ disturbed' = (disturbed \/ \E d \in Callers : Active(d) /\ (Starts(op) \/ Starts(caller[d].op)))
  /\ UNCHANGED <<files, worker>>

\* isRunning, in three steps.
Exists(c) ==
  /\ caller[c].at = "exists"
  /\ Goes(c, IF pidFile = None THEN "absent" ELSE "read")
  /\ UNCHANGED <<files, worker, disturbed>>

\* Of the callers only stop uses the pid; a poll looks whether there is one.
KeepsPid(call) == call.op = "stop" /\ ~call.polls

\* No number, no such process and no file are all the same exception.
ReadPid(c) ==
  /\ caller[c].at = "read"
  /\ IF pidFile \in Workers /\ Alive(pidFile)
     THEN Enters(c, [op |-> caller[c].op, polls |-> caller[c].polls, at |-> "running",
                     pid |-> IF KeepsPid(caller[c]) THEN pidFile ELSE caller[c].pid])
     ELSE Goes(c, "unlink")
  /\ disturbed' = (disturbed \/ \E w \in writers : worker[w] = "opened")
  /\ UNCHANGED <<files, worker>>

\* Whatever the file is by now.
UnlinkStale(c) ==
  /\ caller[c].at = "unlink"
  /\ UnlinkPidFile /\ Goes(c, "absent")
  /\ UNCHANGED <<healthFile, worker, disturbed>>

Found(c, op) == caller[c].at = "running" /\ caller[c].op = op
NotFound(c, op) == caller[c].at = "absent" /\ caller[c].op = op

\* getStatus, and the calls of isRunning that nobody waits for.
Status(c) ==
  /\ Found(c, "status") \/ NotFound(c, "status")
  /\ Returns(c)
  /\ UNCHANGED <<files, worker, disturbed>>

EnsureRunning(c) ==
  /\ \/ Found(c, "ensure") /\ Returns(c)
     \/ NotFound(c, "ensure")
        /\ Enters(c, [op |-> "start", polls |-> FALSE, pid |-> None, at |-> "exists"])
  /\ UNCHANGED <<files, worker, disturbed>>

\* SERVICE_ALREADY_RUNNING, or the pid that a start has waited for.
StartFinds(c) ==
  /\ Found(c, "start") /\ Returns(c)
  /\ UNCHANGED <<files, worker, disturbed>>

\* Mutant: only the file is looked at, not the process.
SpawnUnchecked(c, w) ==
  /\ caller[c].at \in {"absent", "running"} /\ caller[c].op = "start"
  /\ ~caller[c].polls /\ Moves(w, "unborn", "spawned")
  /\ Enters(c, [op |-> "start", polls |-> TRUE, pid |-> w, at |-> "exists"])
  /\ UNCHANGED <<files, disturbed>>

Spawn(c, w) ==
  /\ NotFound(c, "start") /\ ~caller[c].polls /\ Moves(w, "unborn", "spawned")
  /\ Enters(c, [op |-> "start", polls |-> TRUE, pid |-> w, at |-> "exists"])
  /\ UNCHANGED <<files, disturbed>>

\* The error event of the child has no handler.
SpawnFails(c) ==
  /\ NotFound(c, "start") /\ ~caller[c].polls
  /\ Returns(c)
  /\ UNCHANGED <<files, worker, disturbed>>

StartPolls(c) ==
  /\ NotFound(c, "start") /\ caller[c].polls
  /\ Goes(c, "exists")
  /\ UNCHANGED <<files, worker, disturbed>>

\* START_TIMEOUT: SERVICE_START_FAILED, whatever the worker does.
StartGivesUp(c) ==
  /\ NotFound(c, "start") /\ caller[c].polls
  /\ Returns(c)
  /\ disturbed' = (disturbed \/ Alive(caller[c].pid))
  /\ UNCHANGED <<files, worker>>

StopFindsNone(c) ==
  /\ NotFound(c, "stop") /\ ~caller[c].polls
  /\ Returns(c)
  /\ UNCHANGED <<files, worker, disturbed>>

\* kill throws when the process has ended meanwhile: SERVICE_STOP_FAILED.
Kill(c) ==
  /\ Found(c, "stop") /\ ~caller[c].polls
  /\ IF Alive(caller[c].pid)
     THEN /\ Signalled(caller[c].pid)
          /\ Enters(c, [op |-> "stop", polls |-> TRUE, pid |-> caller[c].pid, at |-> "exists"])
     ELSE Returns(c) /\ UNCHANGED worker
  /\ UNCHANGED <<files, disturbed>>

StopPolls(c) ==
  /\ Found(c, "stop") /\ caller[c].polls
  /\ Goes(c, "exists")
  /\ UNCHANGED <<files, worker, disturbed>>

\* The file is gone, or two seconds are over.
StopWaited(c) ==
  /\ Found(c, "stop") \/ NotFound(c, "stop")
  /\ caller[c].polls
  /\ Goes(c, "cleanup")
  /\ disturbed' = (disturbed \/ caller[c].at = "running")
  /\ UNCHANGED <<files, worker>>

Cleanup(c) ==
  /\ caller[c].at = "cleanup"
  /\ UnlinkPidFile /\ Returns(c)
  /\ UNCHANGED <<healthFile, worker, disturbed>>

WorkerStep(w) ==
  \/ OpenPid(w) \/ WritePid(w) \/ Ready(w) \/ UpdateHealth(w) \/ MainFails(w)
  \/ Interrupted(w) \/ Flush(w) \/ UnlinkPid(w) \/ Exit(w) \/ Crash(w)

CallerStep(c) ==
  \/ Exists(c) \/ ReadPid(c) \/ UnlinkStale(c)
  \/ Status(c) \/ EnsureRunning(c)
  \/ StartFinds(c) \/ SpawnFails(c) \/ StartPolls(c) \/ StartGivesUp(c)
  \/ StopFindsNone(c) \/ Kill(c) \/ StopPolls(c) \/ StopWaited(c) \/ Cleanup(c)

Next ==
  \/ \E w \in Workers : WorkerStep(w)
  \/ \E c \in Callers, op \in {"start", "ensure", "stop", "status"} : Begin(c, op)
  \/ \E c \in Callers : CallerStep(c) \/ \E w \in Workers : Spawn(c, w)

\* shutdown waits for nothing but file operations and sockets that it closes.
Fairness ==
  \A w \in Workers : WF_vars(Flush(w)) /\ WF_vars(UnlinkPid(w)) /\ WF_vars(Exit(w))

Spec == Init /\ [][Next]_vars /\ Fairness

----------------------------------------------------------------------------
(* Properties. *)

\* However workers crash, fail to start or are interrupted, two of them serve the
\* same identity and files only after a start crossed another command, read a
\* PID_FILE that was being written, or gave up on a worker that was still coming.
OneWorker ==
  ~disturbed => \A v, w \in Workers : Serving(v) /\ Serving(w) => v = w

\* In the same circumstances a worker that has written PID_FILE can be found and
\* stopped until it has saved its queue: no leftover of another worker, and no
\* cleaning up after one, takes the file away from it.
Findable ==
  ~disturbed => \A w \in Workers :
    worker[w] \in {"connecting", "running", "flushing", "flushed"} => pidFile = w

\* stop reports success when the worker it signalled has saved its queue, or never
\* got as far as having one to save.
StopEnds ==
  [][\A c \in Callers : Cleanup(c) /\ ~disturbed => ~Serving(caller[c].pid)]_vars

\* A worker that stop has signalled ends, at whatever place the signal met it.
SignalledEnds ==
  \A w \in Workers :
    (\E c \in Callers : caller[c].op = "stop" /\ caller[c].polls /\ caller[c].pid = w)
      ~> worker[w] = "dead"
=============================================================================

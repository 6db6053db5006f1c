------------------------- MODULE ServiceControlProofs -------------------------
(***************************************************************************)
(* There is one worker, it can be found, and stop stops it, for any number *)
(* of workers and command lines, as long as no two commands cross.         *)
(***************************************************************************)
EXTENDS ServiceControl, TLAPS

ReadyPlaces == {"connecting", "running", "flushing", "flushed"}

\* A call of start waits for the worker that it has spawned and has not found anything
\* yet; it has seen a file only if the worker has opened it.
Awaits(c, w) ==
  /\ caller[c].op = "start" /\ caller[c].polls /\ caller[c].pid = w
  /\ caller[c].at \in {"exists", "absent", "read"}
  /\ caller[c].at = "read" => worker[w] # "spawned"

\* The caller knows that nothing serves: it has found no pid, and has spawned nothing.
SeesNone(c) ==
  \/ caller[c].at \in {"unlink", "cleanup"}
  \/ caller[c].at = "absent" /\ ~(caller[c].op = "start" /\ caller[c].polls)

NotCrossed ==
  \A c, d \in Callers : c # d /\ Active(c) /\ Active(d) => ~Starts(caller[c].op)

OneServes == \A v, w \in Workers : Serving(v) /\ Serving(w) => v = w

FileIsOf ==
  \A w \in Workers :
    /\ worker[w] = "spawned" => pidFile = None
    /\ worker[w] = "opened" => pidFile = Half /\ w \in writers
    /\ worker[w] \in ReadyPlaces => pidFile = w
    /\ pidFile = w => worker[w] \in ReadyPlaces \cup {"dead"}

StartsAwaited ==
  \A w \in Workers : worker[w] \in {"spawned", "opened"} => \E c \in Callers : Awaits(c, w)

NoneServes ==
  \A c \in Callers :
    /\ SeesNone(c) => \A w \in Workers : ~Serving(w)
    /\ caller[c].at = "absent" /\ caller[c].op = "start" /\ ~caller[c].polls => pidFile = None

PidsKnown ==
  \A c \in Callers :
    /\ caller[c].polls => caller[c].op \in {"start", "stop"} /\ caller[c].pid \in Workers
    /\ caller[c].op = "stop" /\ caller[c].at = "running" => caller[c].pid \in Workers
    /\ caller[c].at = "cleanup" => caller[c].polls

Undisturbed == NotCrossed /\ OneServes /\ FileIsOf /\ StartsAwaited /\ NoneServes

ServiceInv == TypeOK /\ PidsKnown /\ (~disturbed => Undisturbed)

\* The call that a process enters is all of its new state.
LEMMA EntersType ==
  ASSUME caller \in [Callers -> Call], NEW c \in Callers, NEW call \in Call, Enters(c, call)
  PROVE  caller' \in [Callers -> Call]
  BY DEF Enters

\* What EnsureRunning and Kill enter.
Polled(op, polls, pid) == [op |-> op, polls |-> polls, pid |-> pid, at |-> "exists"]

\* Every value keeps its type, and a call that polls or kills knows a worker.
LEMMA TypesKept == TypeOK /\ PidsKnown /\ [Next]_vars => TypeOK' /\ PidsKnown'
<1> SUFFICES ASSUME TypeOK, PidsKnown, [Next]_vars PROVE TypeOK' /\ PidsKnown'
  OBVIOUS
<1> USE ServiceAssumption
    DEF  TypeOK, Call, Places, PidsKnown, Alive, Starts, Active,
         Moves, UnlinkPidFile, Signalled, Goes, Enters, Returns, NoCall, KeepsPid, Found, NotFound,
         Starting, Stopping, files
<1>1. ASSUME NEW c \in Callers, NEW op \in {"start", "ensure", "stop", "status"}, Begin(c, op)
      PROVE TypeOK' /\ PidsKnown'
  BY <1>1 DEF Begin
<1>2. ASSUME NEW c \in Callers, NEW w \in Workers, Spawn(c, w) PROVE TypeOK' /\ PidsKnown'
  BY <1>2 DEF Spawn
<1>3. ASSUME NEW w \in Workers, OpenPid(w) PROVE TypeOK' /\ PidsKnown'
  BY <1>3 DEF OpenPid
<1>4. ASSUME NEW w \in Workers, WritePid(w) PROVE TypeOK' /\ PidsKnown'
  BY <1>4 DEF WritePid
<1>5. ASSUME NEW w \in Workers, Ready(w) PROVE TypeOK' /\ PidsKnown'
  BY <1>5 DEF Ready
<1>6. ASSUME NEW w \in Workers, UpdateHealth(w) PROVE TypeOK' /\ PidsKnown'
  BY <1>6 DEF UpdateHealth
<1>7. ASSUME NEW w \in Workers, MainFails(w) PROVE TypeOK' /\ PidsKnown'
  BY <1>7 DEF MainFails
<1>8. ASSUME NEW w \in Workers, Interrupted(w) PROVE TypeOK' /\ PidsKnown'
  BY <1>8 DEF Interrupted
<1>9. ASSUME NEW w \in Workers, Flush(w) PROVE TypeOK' /\ PidsKnown'
  BY <1>9 DEF Flush
<1>10. ASSUME NEW w \in Workers, UnlinkPid(w) PROVE TypeOK' /\ PidsKnown'
  BY <1>10 DEF UnlinkPid
<1>11. ASSUME NEW w \in Workers, Exit(w) PROVE TypeOK' /\ PidsKnown'
  BY <1>11 DEF Exit
<1>12. ASSUME NEW w \in Workers, Crash(w) PROVE TypeOK' /\ PidsKnown'
  BY <1>12 DEF Crash
<1>13. ASSUME NEW c \in Callers, Exists(c) PROVE TypeOK' /\ PidsKnown'
  BY <1>13 DEF Exists
<1>14. ASSUME NEW c \in Callers, ReadPid(c) PROVE TypeOK' /\ PidsKnown'
  BY <1>14 DEF ReadPid
<1>15. ASSUME NEW c \in Callers, UnlinkStale(c) PROVE TypeOK' /\ PidsKnown'
  BY <1>15 DEF UnlinkStale
<1>16. ASSUME NEW c \in Callers, Status(c) PROVE TypeOK' /\ PidsKnown'
  BY <1>16 DEF Status
<1>17. ASSUME NEW c \in Callers, EnsureRunning(c) PROVE TypeOK' /\ PidsKnown'
  <2>1. CASE Returns(c)
    BY <1>17, <2>1 DEF EnsureRunning
  <2>2. CASE Enters(c, Polled("start", FALSE, None))
    <3>1. caller' \in [Callers -> Call]
      BY <2>2, EntersType DEF Polled
    <3> QED
      BY <1>17, <2>2, <3>1 DEF EnsureRunning, Polled
  <2> QED
    BY <1>17, <2>1, <2>2 DEF EnsureRunning, Polled
<1>18. ASSUME NEW c \in Callers, StartFinds(c) PROVE TypeOK' /\ PidsKnown'
  BY <1>18 DEF StartFinds
<1>19. ASSUME NEW c \in Callers, SpawnFails(c) PROVE TypeOK' /\ PidsKnown'
  BY <1>19 DEF SpawnFails
<1>20. ASSUME NEW c \in Callers, StartPolls(c) PROVE TypeOK' /\ PidsKnown'
  BY <1>20 DEF StartPolls
<1>21. ASSUME NEW c \in Callers, StartGivesUp(c) PROVE TypeOK' /\ PidsKnown'
  BY <1>21 DEF StartGivesUp
<1>22. ASSUME NEW c \in Callers, StopFindsNone(c) PROVE TypeOK' /\ PidsKnown'
  BY <1>22 DEF StopFindsNone
<1>23. ASSUME NEW c \in Callers, Kill(c) PROVE TypeOK' /\ PidsKnown'
  <2>1. caller[c].pid \in Workers
    BY <1>23 DEF Kill
  <2>2. CASE Alive(caller[c].pid)
    <3>1. Enters(c, Polled("stop", TRUE, caller[c].pid)) /\ Signalled(caller[c].pid)
      BY <1>23, <2>2 DEF Kill, Polled
    <3>2. caller' \in [Callers -> Call]
      BY <2>1, <3>1, EntersType DEF Polled
    <3>3. worker' \in [Workers -> Places]
      BY <3>1
    <3> QED
      BY <1>23, <2>1, <3>1, <3>2, <3>3 DEF Kill, Polled
  <2>3. CASE ~Alive(caller[c].pid)
    <3>1. Returns(c) /\ UNCHANGED <<files, worker, disturbed>>
      BY <1>23, <2>3 DEF Kill
    <3> QED
      BY <3>1
  <2> QED
    BY <2>2, <2>3
<1>24. ASSUME NEW c \in Callers, StopPolls(c) PROVE TypeOK' /\ PidsKnown'
  BY <1>24 DEF StopPolls
<1>25. ASSUME NEW c \in Callers, StopWaited(c) PROVE TypeOK' /\ PidsKnown'
  BY <1>25 DEF StopWaited
<1>26. ASSUME NEW c \in Callers, Cleanup(c) PROVE TypeOK' /\ PidsKnown'
  BY <1>26 DEF Cleanup
<1>27. CASE UNCHANGED vars
  BY <1>27 DEF vars
<1> HIDE DEF TypeOK, PidsKnown, Call, Places
<1> QED
  BY <1>1, <1>2, <1>3, <1>4, <1>5, <1>6, <1>7, <1>8, <1>9, <1>10, <1>11, <1>12, <1>13, <1>14,
     <1>15, <1>16, <1>17, <1>18, <1>19, <1>20, <1>21, <1>22, <1>23, <1>24, <1>25, <1>26, <1>27
     DEF Next, WorkerStep, CallerStep

\* As long as nothing crosses, one worker serves, the file is its, and a call that
\* found nothing is right.
LEMMA UndisturbedKept == ServiceInv /\ [Next]_vars /\ ~disturbed' => Undisturbed'
<1> SUFFICES ASSUME ServiceInv, [Next]_vars, ~disturbed' PROVE Undisturbed'
  OBVIOUS
<1> USE ServiceAssumption
    DEF  ServiceInv, TypeOK, Call, Places, PidsKnown, Undisturbed, NotCrossed, OneServes, FileIsOf,
         StartsAwaited, Awaits, NoneServes, SeesNone, ReadyPlaces, Active, Starts, Serving, Alive,
         Moves, UnlinkPidFile, Signalled, Goes, Enters, Returns, NoCall, KeepsPid, Found, NotFound,
         Starting, Stopping, files
<1>1. ASSUME NEW c \in Callers, NEW op \in {"start", "ensure", "stop", "status"}, Begin(c, op)
      PROVE Undisturbed'
  <2>1. NotCrossed' /\ OneServes'
    BY <1>1 DEF Begin
  <2>2. FileIsOf'
    BY <1>1 DEF Begin
  <2>3. StartsAwaited'
    BY <1>1 DEF Begin
  <2>4. NoneServes'
    BY <1>1 DEF Begin
  <2> HIDE DEF NotCrossed, OneServes, FileIsOf, StartsAwaited, NoneServes
  <2> QED
    BY <2>1, <2>2, <2>3, <2>4
<1>2. ASSUME NEW c \in Callers, NEW w \in Workers, Spawn(c, w) PROVE Undisturbed'
  BY <1>2 DEF Spawn
<1>3. ASSUME NEW w \in Workers, OpenPid(w) PROVE Undisturbed'
  BY <1>3 DEF OpenPid
<1>4. ASSUME NEW w \in Workers, WritePid(w) PROVE Undisturbed'
  BY <1>4 DEF WritePid
<1>5. ASSUME NEW w \in Workers, Ready(w) PROVE Undisturbed'
  BY <1>5 DEF Ready
<1>6. ASSUME NEW w \in Workers, UpdateHealth(w) PROVE Undisturbed'
  BY <1>6 DEF UpdateHealth
<1>7. ASSUME NEW w \in Workers, MainFails(w) PROVE Undisturbed'
  BY <1>7 DEF MainFails
<1>8. ASSUME NEW w \in Workers, Interrupted(w) PROVE Undisturbed'
  BY <1>8 DEF Interrupted
<1>9. ASSUME NEW w \in Workers, Flush(w) PROVE Undisturbed'
  BY <1>9 DEF Flush
<1>10. ASSUME NEW w \in Workers, UnlinkPid(w) PROVE Undisturbed'
  BY <1>10 DEF UnlinkPid
<1>11. ASSUME NEW w \in Workers, Exit(w) PROVE Undisturbed'
  BY <1>11 DEF Exit
<1>12. ASSUME NEW w \in Workers, Crash(w) PROVE Undisturbed'
  BY <1>12 DEF Crash
<1>13. ASSUME NEW c \in Callers, Exists(c) PROVE Undisturbed'
  BY <1>13 DEF Exists
<1>14. ASSUME NEW c \in Callers, ReadPid(c) PROVE Undisturbed'
  BY <1>14 DEF ReadPid
<1>15. ASSUME NEW c \in Callers, UnlinkStale(c) PROVE Undisturbed'
  BY <1>15 DEF UnlinkStale
<1>16. ASSUME NEW c \in Callers, Status(c) PROVE Undisturbed'
  BY <1>16 DEF Status
<1>17. ASSUME NEW c \in Callers, EnsureRunning(c) PROVE Undisturbed'
  BY <1>17 DEF EnsureRunning
<1>18. ASSUME NEW c \in Callers, StartFinds(c) PROVE Undisturbed'
  BY <1>18 DEF StartFinds
<1>19. ASSUME NEW c \in Callers, SpawnFails(c) PROVE Undisturbed'
  BY <1>19 DEF SpawnFails
<1>20. ASSUME NEW c \in Callers, StartPolls(c) PROVE Undisturbed'
  BY <1>20 DEF StartPolls
<1>21. ASSUME NEW c \in Callers, StartGivesUp(c) PROVE Undisturbed'
  BY <1>21 DEF StartGivesUp
<1>22. ASSUME NEW c \in Callers, StopFindsNone(c) PROVE Undisturbed'
  BY <1>22 DEF StopFindsNone
<1>23. ASSUME NEW c \in Callers, Kill(c) PROVE Undisturbed'
  BY <1>23 DEF Kill
<1>24. ASSUME NEW c \in Callers, StopPolls(c) PROVE Undisturbed'
  BY <1>24 DEF StopPolls
<1>25. ASSUME NEW c \in Callers, StopWaited(c) PROVE Undisturbed'
  BY <1>25 DEF StopWaited
<1>26. ASSUME NEW c \in Callers, Cleanup(c) PROVE Undisturbed'
  BY <1>26 DEF Cleanup
<1>27. CASE UNCHANGED vars
  BY <1>27 DEF vars
<1> HIDE DEF Undisturbed, ServiceInv
<1> QED
  BY <1>1, <1>2, <1>3, <1>4, <1>5, <1>6, <1>7, <1>8, <1>9, <1>10, <1>11, <1>12, <1>13, <1>14,
     <1>15, <1>16, <1>17, <1>18, <1>19, <1>20, <1>21, <1>22, <1>23, <1>24, <1>25, <1>26, <1>27
     DEF Next, WorkerStep, CallerStep

THEOREM ServiceInvHolds == Spec => []ServiceInv
<1>1. Init => ServiceInv
  <2> SUFFICES ASSUME Init PROVE ServiceInv
    OBVIOUS
  <2>1. TypeOK
    <3>1. NoCall \in Call
      BY DEF NoCall, Call
    <3> QED
      BY <3>1 DEF Init, TypeOK, Places
  <2>2. \A c \in Callers : caller[c] = NoCall
    BY DEF Init
  <2>3. PidsKnown
    BY <2>2 DEF PidsKnown, NoCall
  <2>4. NotCrossed /\ NoneServes
    BY <2>2 DEF NotCrossed, Active, NoneServes, SeesNone, NoCall
  <2>5. OneServes /\ FileIsOf /\ StartsAwaited
    BY ServiceAssumption
    DEF Init, OneServes, Serving, Alive, FileIsOf, ReadyPlaces, StartsAwaited
  <2> QED
    BY <2>1, <2>3, <2>4, <2>5 DEF ServiceInv, Undisturbed
<1>2. ServiceInv /\ [Next]_vars => ServiceInv'
  BY TypesKept, UndisturbedKept DEF ServiceInv
<1> QED
  BY <1>1, <1>2, PTL DEF Spec

\* Every variable keeps its type: a place of main and shutdown that exists, a call
\* of the command line that one of its functions makes.
THEOREM ServiceTypeCorrect == Spec => []TypeOK
<1>1. ServiceInv => TypeOK
  BY DEF ServiceInv
<1> QED
  BY <1>1, ServiceInvHolds, PTL

\* isRunning, start and PID_FILE keep two workers from serving the same files, for
\* any number of processes, unless two commands cross (see disturbed).
THEOREM OneWorkerServes == Spec => []OneWorker
<1>1. ServiceInv => OneWorker
  BY DEF ServiceInv, Undisturbed, OneServes, OneWorker
<1> QED
  BY <1>1, ServiceInvHolds, PTL

\* PID_FILE holds the pid of the worker that has written it until it has saved.
THEOREM WorkerIsFindable == Spec => []Findable
<1>1. ServiceInv => Findable
  BY DEF ServiceInv, Undisturbed, FileIsOf, ReadyPlaces, Findable
<1> QED
  BY <1>1, ServiceInvHolds, PTL

\* When stop has waited and cleans up, the worker it signalled no longer serves.
THEOREM StopMeansEnded == Spec => StopEnds
<1>1. ServiceInv => (\A c \in Callers : Cleanup(c) /\ ~disturbed => ~Serving(caller[c].pid))
  <2> SUFFICES ASSUME ServiceInv, NEW c \in Callers, Cleanup(c), ~disturbed
               PROVE  ~Serving(caller[c].pid)
    OBVIOUS
  <2>1. caller[c].at = "cleanup"
    BY DEF Cleanup
  <2>2. caller[c].pid \in Workers
    BY <2>1 DEF ServiceInv, PidsKnown
  <2> QED
    BY <2>1, <2>2 DEF ServiceInv, Undisturbed, NoneServes, SeesNone
<1> QED
  BY <1>1, ServiceInvHolds, PTL DEF StopEnds
=============================================================================

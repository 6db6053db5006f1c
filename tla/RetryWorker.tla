----------------------------- MODULE RetryWorker -----------------------------
(***************************************************************************)
(* The worker's senders over its offline queue: handleCommand for a send   *)
(* command, processRetryQueue and the timer that calls cleanExpired, in    *)
(* src/src/service/worker.js.  Each is an async function; the actions here *)
(* are its pieces between two awaits that take time (encryption, a save of *)
(* the queue).  processRetryQueue is started by setInterval whether or not *)
(* the previous call has returned: Calls are the calls that can be active  *)
(* at once.  They run after import and connect, when init() has finished:  *)
(* where it has failed for want of a data directory, so has main.          *)
(***************************************************************************)
EXTENDS MessageQueue

CONSTANTS
  Calls,   \* calls of processRetryQueue that can overlap
  MaxSent  \* bound: transmissions of a message are counted up to here

ASSUME WorkerAssumption == MaxSent \in Nat \ {0}

VARIABLES
  connected,  \* network.isConnected
  command,    \* progress of handleCommand for the send command with each id
  retry,      \* progress of each call of processRetryQueue
  results,    \* RESULT_FILE: <<cmdId, code>>
  sent        \* history: times the message of a command was given to sendTask

wvars == <<vars, connected, command, retry, results, sent>>
qvars == vars

Codes == {"NETWORK_DISCONNECTED", "NETWORK_SEND_FAILED", "INTERNAL_ERROR", "OK"}
Command ==
  {m \in [at : {"new", "sending", "marking", "reporting", "done", "lost"},
          code : Codes \cup {"none"}, on : Nat] :
     m.at = "reporting" => m.code \in Codes}
Pending == [key : Keys \cup Ids, id : Keys \cup Ids]
RetryCall ==
  {r \in [at : {"idle", "looping", "sending", "reporting", "marking"},
          todo : SUBSET Pending, entry : Pending \cup {NoId}, on : Nat] :
     r.at \in {"sending", "reporting", "marking"} => r.entry \in Pending}
NoCall == [at |-> "idle", todo |-> {}, entry |-> NoId, on |-> 0]

WTypeOK ==
  /\ TypeOK
  /\ connected \in BOOLEAN
  /\ command \in [Ids -> Command]
  /\ retry \in [Calls -> RetryCall]
  /\ results \subseteq (Keys \cup Ids) \X Codes
  /\ sent \in [Ids -> 0..MaxSent]

Held(i) == \E k \in DOMAIN queue : queue[k].id = i

\* What "await this._saveQueue()" waits for, and whether it is over.
AwaitedSave == IF saves' = {} THEN 0 ELSE (CHOOSE s \in saves' : TRUE).version
SaveOver(v) == \A s \in saves : s.version # v

\* markSuccess and markFailure of an id that is no key of the Map wait for nothing.
AwaitedMark(i) == IF i \in DOMAIN queue THEN AwaitedSave ELSE 0

\* Queue operations called with an id that need not be a key of the Map.
MarkSuccessById(i) == MarkSuccess(i) \/ (i \notin DOMAIN queue /\ UNCHANGED qvars)
MarkFailureById(i) == MarkFailure(i) \/ (i \notin DOMAIN queue /\ UNCHANGED qvars)

CountSent(i) == sent' = [sent EXCEPT ![i] = IF @ < MaxSent THEN @ + 1 ELSE @]

----------------------------------------------------------------------------
(* handleCommand, case 'send'. *)

\* Disconnected: the message goes to the queue, under a key of its own.
SendOffline(i) ==
  /\ command[i].at = "new" /\ initialized /\ ~connected
  /\ Enqueue(i)
  /\ command' = [command EXCEPT
       ![i] = [at |-> "reporting", code |-> "NETWORK_DISCONNECTED", on |-> AwaitedSave]]
  /\ UNCHANGED <<connected, retry, results, sent>>

\* Connected: encryption starts.
SendOnline(i) ==
  /\ command[i].at = "new" /\ initialized /\ connected
  /\ command' = [command EXCEPT ![i].at = "sending"]
  /\ UNCHANGED <<qvars, connected, retry, results, sent>>

SendSucceeds(i) ==
  /\ command[i].at = "sending"
  /\ MarkSuccessById(i)
  /\ CountSent(i)
  /\ command' = [command EXCEPT
       ![i] = [at |-> "reporting", code |-> "OK", on |-> AwaitedMark(i)]]
  /\ UNCHANGED <<connected, retry, results>>

SendFails(i) ==
  /\ command[i].at = "sending"
  /\ Enqueue(i)
  /\ command' = [command EXCEPT ![i].at = "marking", ![i].on = AwaitedSave]
  /\ UNCHANGED <<connected, retry, results, sent>>

\* Mutant: the error path returns without saving a result.
MarkSendFailedSilently(i) ==
  /\ command[i].at = "marking" /\ SaveOver(command[i].on)
  /\ MarkFailureById(i)
  /\ command' = [command EXCEPT ![i].at = "done", ![i].on = 0]
  /\ UNCHANGED <<connected, retry, results, sent>>

MarkSendFailed(i) ==
  /\ command[i].at = "marking" /\ SaveOver(command[i].on)
  /\ MarkFailureById(i)
  /\ command' = [command EXCEPT
       ![i] = [at |-> "reporting", code |-> "NETWORK_SEND_FAILED", on |-> AwaitedMark(i)]]
  /\ UNCHANGED <<connected, retry, results, sent>>

ReportCommand(i) ==
  /\ command[i].at = "reporting" /\ SaveOver(command[i].on)
  /\ results' = results \cup {<<i, command[i].code>>}
  /\ command' = [command EXCEPT ![i].at = "done"]
  /\ UNCHANGED <<qvars, connected, retry, sent>>

\* The result cannot be written, with the lock or without it.  A message that was
\* sent is then handled as one that was not; any other result becomes an internal
\* error, reported by processCommands.  If that fails too, the process ends.
ReportFails(i) ==
  /\ command[i].at = "reporting" /\ SaveOver(command[i].on)
  /\ \/ /\ command[i].code = "OK"
        /\ Enqueue(i)
        /\ command' = [command EXCEPT ![i].at = "marking", ![i].on = AwaitedSave]
     \/ /\ command[i].code \in {"NETWORK_DISCONNECTED", "NETWORK_SEND_FAILED"}
        /\ command' = [command EXCEPT ![i].code = "INTERNAL_ERROR"]
        /\ UNCHANGED qvars
  /\ UNCHANGED <<connected, retry, results, sent>>

----------------------------------------------------------------------------
(* processRetryQueue. *)

\* getPendingMessages: a list that later changes of the queue do not touch.
RetryStart(c) ==
  LET due == {k \in DOMAIN queue : Due(queue[k])}
  IN /\ retry[c].at = "idle" /\ initialized /\ connected /\ due # {}
     /\ retry' = [retry EXCEPT ![c] = [NoCall EXCEPT
          !.at = "looping", !.todo = {[key |-> k, id |-> queue[k].id] : k \in due}]]
     /\ UNCHANGED <<qvars, connected, command, results, sent>>

\* Mutant: the message is removed when its turn comes, before it is sent.
RetryPickRemoves(c) ==
  /\ retry[c].at = "looping"
  /\ \E e \in retry[c].todo :
       /\ retry' = [retry EXCEPT ![c].at = "sending", ![c].entry = e, ![c].todo = @ \ {e}]
       /\ MarkSuccessById(e.id)
  /\ UNCHANGED <<connected, command, results, sent>>

\* entry.nextRetry and CONFIG.MESSAGE_RETRY_MAX do not exist, so the checks on
\* retry time and retry count let every entry through to the encryption.
RetryPick(c) ==
  /\ retry[c].at = "looping"
  /\ \E e \in retry[c].todo :
       retry' = [retry EXCEPT ![c].at = "sending", ![c].entry = e, ![c].todo = @ \ {e}]
  /\ UNCHANGED <<qvars, connected, command, results, sent>>

RetryReturn(c) ==
  /\ retry[c].at = "looping" /\ retry[c].todo = {}
  /\ retry' = [retry EXCEPT ![c] = NoCall]
  /\ UNCHANGED <<qvars, connected, command, results, sent>>

\* sendTask, then markSuccess with the id of the message.
RetrySucceeds(c) ==
  /\ retry[c].at = "sending"
  /\ MarkSuccessById(retry[c].entry.id)
  /\ CountSent(retry[c].entry.id)
  /\ retry' = [retry EXCEPT ![c].at = "reporting",
                            ![c].on = AwaitedMark(retry[c].entry.id)]
  /\ UNCHANGED <<connected, command, results>>

ReportRetry(c) ==
  /\ retry[c].at = "reporting" /\ SaveOver(retry[c].on)
  /\ results' = results \cup {<<retry[c].entry.id, "OK">>}
  /\ retry' = [retry EXCEPT ![c].at = "looping", ![c].on = 0, ![c].entry = NoId]
  /\ UNCHANGED <<qvars, connected, command, sent>>

\* The result cannot be written, and the attempt counts as failed.
ReportRetryFails(c) ==
  /\ retry[c].at = "reporting" /\ SaveOver(retry[c].on)
  /\ MarkFailureById(retry[c].entry.id)
  /\ retry' = [retry EXCEPT ![c].at = "marking",
                            ![c].on = AwaitedMark(retry[c].entry.id)]
  /\ UNCHANGED <<connected, command, results, sent>>

\* Mutant: a failed attempt goes on to the report of success.
RetryFailsReported(c) ==
  /\ retry[c].at = "sending"
  /\ MarkFailureById(retry[c].entry.id)
  /\ retry' = [retry EXCEPT ![c].at = "reporting",
                            ![c].on = AwaitedMark(retry[c].entry.id)]
  /\ UNCHANGED <<connected, command, results, sent>>

RetryFails(c) ==
  /\ retry[c].at = "sending"
  /\ MarkFailureById(retry[c].entry.id)
  /\ retry' = [retry EXCEPT ![c].at = "marking",
                            ![c].on = AwaitedMark(retry[c].entry.id)]
  /\ UNCHANGED <<connected, command, results, sent>>

RetryMarked(c) ==
  /\ retry[c].at = "marking" /\ SaveOver(retry[c].on)
  /\ retry' = [retry EXCEPT ![c].at = "looping", ![c].on = 0, ![c].entry = NoId]
  /\ UNCHANGED <<qvars, connected, command, results, sent>>

----------------------------------------------------------------------------
(* The rest of the process. *)

CleanTimer ==
  /\ CleanExpired
  /\ UNCHANGED <<connected, command, retry, results, sent>>

QueueIO ==
  /\ Background
  /\ UNCHANGED <<connected, command, retry, results, sent>>

TimePasses ==
  /\ Tick
  /\ UNCHANGED <<connected, command, retry, results, sent>>

\* The network comes and goes (modelled from its use here).
NetworkChange ==
  /\ connected' = ~connected
  /\ UNCHANGED <<qvars, command, retry, results, sent>>

\* The worker dies or is stopped, and started again.
WRestart ==
  /\ Restart
  /\ connected' = FALSE
  /\ command' = [i \in Ids |-> IF command[i].at \in {"new", "done"} THEN command[i]
                               ELSE [at |-> "lost", code |-> "none", on |-> 0]]
  /\ retry' = [c \in Calls |-> NoCall]
  /\ UNCHANGED <<results, sent>>

WInit ==
  /\ Init
  /\ connected = FALSE
  /\ command = [i \in Ids |-> [at |-> "new", code |-> "none", on |-> 0]]
  /\ retry = [c \in Calls |-> NoCall]
  /\ results = {}
  /\ sent = [i \in Ids |-> 0]

HandleCommand(i) ==
  \/ SendOffline(i) \/ SendOnline(i) \/ SendSucceeds(i) \/ SendFails(i)
  \/ MarkSendFailed(i) \/ ReportCommand(i) \/ ReportFails(i)

ProcessRetryQueue(c) ==
  \/ RetryStart(c) \/ RetryPick(c) \/ RetryReturn(c) \/ RetrySucceeds(c)
  \/ ReportRetry(c) \/ ReportRetryFails(c) \/ RetryFails(c) \/ RetryMarked(c)

WNext ==
  \/ \E i \in Ids : HandleCommand(i)
  \/ \E c \in Calls : ProcessRetryQueue(c)
  \/ CleanTimer
  \/ QueueIO
  \/ TimePasses
  \/ NetworkChange
  \/ WRestart

WSpec == WInit /\ [][WNext]_wvars

(* Fairness: timers keep firing, started file operations end, handlers that  *)
(* wait for them go on, and time passes.  Nothing makes a command arrive,    *)
(* the network come back or the process restart.                            *)
WFairness ==
  /\ WF_wvars(QueueIO)
  /\ WF_wvars(TimePasses)
  /\ WF_wvars(CleanTimer)
  /\ \A i \in Ids : /\ WF_wvars(SendSucceeds(i) \/ SendFails(i))
                    /\ WF_wvars(MarkSendFailed(i) \/ ReportCommand(i))
  /\ \A c \in Calls : WF_wvars(ProcessRetryQueue(c))

WFairSpec == WSpec /\ WFairness

----------------------------------------------------------------------------
(* Properties. *)

\* A message leaves the memory of the worker only once it was given to the
\* network, or has expired, failed for the last time, made room in a full
\* queue, or the process ended: no interleaving of commands, overlapping calls
\* of processRetryQueue and timers loses one otherwise.
NoSilentLoss ==
  [][\A i \in Ids : Held(i) /\ ~Held(i)' =>
       \/ sent'[i] > 0
       \/ ~initialized'
       \/ Cardinality(DOMAIN queue) >= MaxQueueSize /\ \E j \in Ids \ {i} : Held(j)'
       \/ \E k \in DOMAIN queue : /\ queue[k].id = i
                                  /\ Expired(queue[k]) \/ queue[k].retry + 1 = RetryCount]_wvars

\* A command is reported OK only if its message was given to the network,
\* although reports wait for saves that other senders may have started.
OkMeansSent == \A i \in Ids : <<i, "OK">> \in results => sent[i] > 0

\* A send command taken up by the worker gets a result unless the worker ends.
CommandAnswered ==
  \A i \in Ids : command[i].at \in {"sending", "marking", "reporting"}
                   ~> command[i].at = "lost" \/ \E code \in Codes : <<i, code>> \in results

\* No message stays in the queue for ever, whatever happens to its retries.
EventuallyLeaves == \A i \in Ids : Held(i) ~> ~Held(i)

\* "markSuccess ... Remove from queue" (worker.js, processRetryQueue): once a
\* message is reported as sent it is not in the queue, to be sent again.
SentMeansRemoved == \A i \in Ids : <<i, "OK">> \in results => ~Held(i)
=============================================================================

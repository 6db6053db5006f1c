----------------------------- MODULE NetworkProofs -----------------------------
(*****************************************************************************)
(* Theorems about the network (NostrNetwork), its sockets (Subscriptions) and*)
(* the statistics of its relay manager (RelayManager), for any messages,     *)
(* relays, callers and bounds.                                               *)
(*****************************************************************************)
EXTENDS Subscriptions, RelayManager, FiniteSetTheorems, TLAPS

----------------------------------------------------------------------------
(* The network. *)

LEMMA Sizes ==
  MaxSize \in Nat /\ MaxSize > 0 /\ MaxBytes \in Nat /\ MaxBytes > 0
  /\ \A m \in Msgs : Size[m] \in Nat /\ Size[m] > 0
BY BatcherAssumption

----------------------------------------------------------------------------
(* The batcher. *)

BatcherInv == BatcherTypeOK /\ TimerIffFull

LEMMA EmptiedKeeps == ASSUME Emptied PROVE BatcherInv'
<1>1. messages' = <<>> /\ currentBytes' = 0 /\ flushTimer' = FALSE
  BY DEF Emptied
<1>2. messages' \in Seq(Msgs) /\ Len(messages') = 0
  BY <1>1
<1>3. BatcherTypeOK'
  <2>1. Len(messages') <= MaxSize /\ currentBytes' \in 0..MaxBytes
    BY <1>1, <1>2, Sizes
  <2>2. flushTimer' \in BOOLEAN
    BY <1>1
  <2> QED
    BY <1>2, <2>1, <2>2 DEF BatcherTypeOK
<1>4. TimerIffFull'
  BY <1>1, <1>2, Sizes DEF TimerIffFull
<1> QED
  BY <1>3, <1>4 DEF BatcherInv

LEMMA AddKeeps == ASSUME BatcherInv, NEW m \in Msgs, Add(m) PROVE BatcherInv'
<1>1. /\ messages \in Seq(Msgs) /\ Len(messages) < MaxSize
      /\ currentBytes \in 0..MaxBytes /\ currentBytes + Size[m] <= MaxBytes
      /\ flushTimer \in BOOLEAN
      /\ messages' = Append(messages, m) /\ currentBytes' = currentBytes + Size[m]
  BY DEF BatcherInv, BatcherTypeOK, Add, Fits
<1>2. /\ messages' \in Seq(Msgs) /\ Len(messages') = Len(messages) + 1
      /\ Len(messages') <= MaxSize
  BY <1>1, Sizes
<1>3. currentBytes' \in 0..MaxBytes /\ currentBytes' > currentBytes
  BY <1>1, Sizes
<1>4. ~flushTimer
  BY <1>1, <1>3, Sizes DEF BatcherInv, TimerIffFull
<1>5. flushTimer' <=> Len(messages') >= MaxSize \/ currentBytes' >= MaxBytes
  BY <1>4 DEF Add, Full
<1>6. flushTimer' \in BOOLEAN
  BY DEF Add, Full
<1>7. flushTimer' <=> Len(messages') = MaxSize \/ currentBytes' = MaxBytes
  BY <1>2, <1>3, <1>5, Sizes
<1> QED
  BY <1>2, <1>3, <1>6, <1>7 DEF BatcherInv, BatcherTypeOK, TimerIffFull

LEMMA AddAfterFlushKeeps ==
  ASSUME NEW m \in Msgs, AddAfterFlush(m) PROVE BatcherInv'
<1>1. CASE Size[m] > MaxBytes /\ Emptied
  BY <1>1, EmptiedKeeps
<1>2. CASE /\ Size[m] <= MaxBytes
           /\ messages' = <<m>> /\ currentBytes' = Size[m]
           /\ flushTimer' = Full(<<m>>, Size[m])
  <2>1. messages' \in Seq(Msgs) /\ Len(messages') = 1 /\ currentBytes' \in 0..MaxBytes
    BY <1>2, Sizes
  <2>2. flushTimer' <=> 1 >= MaxSize \/ Size[m] >= MaxBytes
    BY <1>2 DEF Full
  <2>3. flushTimer' \in BOOLEAN
    BY <1>2 DEF Full
  <2> QED
    BY <1>2, <2>1, <2>2, <2>3, Sizes DEF BatcherInv, BatcherTypeOK, TimerIffFull
<1> QED
  BY <1>1, <1>2 DEF AddAfterFlush

LEMMA BatcherStep == BatcherInv /\ [Next]_vars => BatcherInv'
<1> SUFFICES ASSUME BatcherInv, [Next]_vars PROVE BatcherInv'
  OBVIOUS
<1>1. ASSUME NEW m \in Msgs, Send(m) PROVE BatcherInv'
  BY <1>1, AddKeeps, AddAfterFlushKeeps DEF Send
<1>2. CASE FlushTimer \/ Flush \/ Close
  <2>1. Emptied \/ UNCHANGED batcher
    BY <1>2 DEF FlushTimer, Flush, Close
  <2>2. CASE UNCHANGED batcher
    BY <2>2 DEF batcher, BatcherInv, BatcherTypeOK, TimerIffFull
  <2> QED
    BY <2>1, <2>2, EmptiedKeeps
<1>3. CASE UNCHANGED batcher
  BY <1>3 DEF batcher, BatcherInv, BatcherTypeOK, TimerIffFull
<1>4. (\E m \in Msgs : Send(m)) \/ FlushTimer \/ Flush \/ Close \/ UNCHANGED batcher
  BY DEF Next, vars, PublishBatch, Answered, Thrown, Connect, Closed, Connecting, Subscribed,
         Announced, AnnounceFails, SubscribeFails, ConnectFails, ReconnectFails, ReconnectTimer
<1> QED
  BY <1>1, <1>2, <1>3, <1>4

LEMMA BatcherAlways == Spec => []BatcherInv
<1>1. ASSUME Init PROVE BatcherInv
  <2>1. messages = <<>> /\ currentBytes = 0 /\ flushTimer = FALSE
    BY <1>1 DEF Init, BatcherInit
  <2>2. messages \in Seq(Msgs) /\ Len(messages) = 0
    BY <2>1
  <2>3. Len(messages) <= MaxSize /\ currentBytes \in 0..MaxBytes
    BY <2>1, <2>2, Sizes
  <2>4. flushTimer \in BOOLEAN
    BY <2>1
  <2>5. TimerIffFull
    BY <2>1, <2>2, Sizes DEF TimerIffFull
  <2> QED
    BY <2>2, <2>3, <2>4, <2>5 DEF BatcherInv, BatcherTypeOK
<1> QED
  BY <1>1, BatcherStep, PTL DEF Spec

\* A batch waits for the timer exactly when it is full.
THEOREM TimerRunsIffFull == Spec => []TimerIffFull
<1>1. BatcherInv => TimerIffFull
  BY DEF BatcherInv
<1> QED
  BY <1>1, BatcherAlways, PTL
----------------------------------------------------------------------------
(* The connection: whoever is active is the only one. *)

Callers == {"connect", "reconnect"}

ConnType ==
  /\ addresses \in {"valid", "invalid"}
  /\ isConnected \in BOOLEAN /\ reconnectTimer \in BOOLEAN
  /\ phase \in {"new", "open", "closing", "closed"}
  /\ running \in [Calls -> {0, 1}]

Exclusive ==
  /\ \A c, d \in Calls : running[c] = 1 /\ running[d] = 1 => c = d
  /\ reconnectTimer => \A c \in Calls : running[c] = 1 => c = <<"reconnect", "failed">>
  /\ phase = "new" => ~reconnectTimer /\ \A c \in Calls : running[c] = 0

Counted ==
  /\ timers \in {0, 1} /\ (reconnectTimer <=> timers = 1)
  /\ reconnectAttempt \in 0..MaxRetryCount
  /\ addresses = "valid" /\ reconnectAttempt > 0 =>
       reconnectAttempt = 1 /\ running[<<"reconnect", "subscribing">>] = 1

\* RetryPending, in the terms of this proof.
Pending ==
  phase \in {"open", "closing"} /\ ~isConnected /\ AutoReconnect =>
    reconnectTimer \/ \E caller \in Callers : running[<<caller, "subscribing">>] = 1

ConnInv == ConnType /\ Exclusive /\ Counted /\ Pending

\* A call of connect takes its next step, or returns.
LEMMA GotoOnly ==
  ASSUME ConnInv, NEW c \in Calls, NEW d \in Calls, c # d, running[c] = 1,
         running' = [running EXCEPT ![c] = @ - 1, ![d] = @ + 1]
  PROVE  /\ running' \in [Calls -> {0, 1}]
         /\ \A e \in Calls : running'[e] = 1 <=> e = d
BY DEF ConnInv, ConnType, Exclusive

LEMMA ReturnOnly ==
  ASSUME ConnInv, NEW c \in Calls, running[c] = 1,
         running' = [running EXCEPT ![c] = @ - 1]
  PROVE  /\ running' \in [Calls -> {0, 1}]
         /\ \A e \in Calls : running'[e] = 0
BY DEF ConnInv, ConnType, Exclusive

LEMMA StartOnly ==
  ASSUME ConnInv, NEW c \in Calls, \A e \in Calls : running[e] = 0,
         running' = [running EXCEPT ![c] = @ + 1]
  PROVE  /\ running' \in [Calls -> {0, 1}]
         /\ \A e \in Calls : running'[e] = 1 <=> e = c
BY DEF ConnInv, ConnType, Exclusive

LEMMA ConnStep == ConnInv /\ [Next]_vars => ConnInv'
<1> SUFFICES ASSUME ConnInv, [Next]_vars PROVE ConnInv'
  OBVIOUS
<1>0. /\ AutoReconnect \in BOOLEAN /\ MaxRetryCount \in Nat /\ MaxRetryCount >= 1
  BY NetworkAssumption
<1>1. CASE Connect
  <2>1. /\ running' \in [Calls -> {0, 1}]
        /\ \A e \in Calls : running'[e] = 1 <=> e = <<"connect", "subscribing">>
    BY <1>1, StartOnly DEF Connect, ConnInv, ConnType, Exclusive, Calls, Callers
  <2>2. ConnType'
    BY <1>1, <2>1 DEF Connect, ConnInv, ConnType
  <2>3. Exclusive'
    BY <1>1, <2>1 DEF Connect, ConnInv, ConnType, Exclusive, Calls, Callers
  <2>4. Counted'
    BY <1>1, <2>1 DEF Connect, ConnInv, ConnType, Counted, Calls, Callers
  <2>5. Pending'
    BY <1>1, <2>1 DEF Connect, ConnInv, ConnType, Exclusive, Pending, Calls, Callers
  <2> QED
    BY <2>2, <2>3, <2>4, <2>5 DEF ConnInv
<1>2. ASSUME NEW caller \in Callers, Subscribed(caller) PROVE ConnInv'
  <2>1. /\ running' \in [Calls -> {0, 1}]
        /\ \A e \in Calls : running'[e] = 1 <=> e = <<caller, "announcing">>
    <3>1. At(caller, "subscribing") /\ Goto(caller, "subscribing", "announcing")
      BY <1>2 DEF Subscribed
    <3>2. /\ <<caller, "subscribing">> \in Calls /\ <<caller, "announcing">> \in Calls
          /\ <<caller, "subscribing">> # <<caller, "announcing">>
      BY DEF Calls, Callers
    <3>3. running[<<caller, "subscribing">>] = 1
      BY <3>1, <3>2 DEF At, ConnInv, ConnType
    <3> QED
      BY <3>1, <3>2, <3>3, GotoOnly DEF Goto
  <2>2. ~reconnectTimer /\ phase # "new"
    BY <1>2 DEF Subscribed, At, ConnInv, ConnType, Exclusive, Calls, Callers
  <2>3. ConnType'
    BY <1>2, <2>1, <2>2 DEF Subscribed, ConnInv, ConnType
  <2>4. Exclusive'
    BY <1>2, <2>1, <2>2 DEF Subscribed, ConnInv, ConnType, Exclusive, Calls, Callers
  <2>5. Counted'
    BY <1>0, <1>2, <2>1, <2>2 DEF Subscribed, ConnInv, ConnType, Counted, Calls, Callers
  <2>6. Pending'
    BY <1>2, <2>1, <2>2 DEF Subscribed, ConnInv, ConnType, Exclusive, Pending, Calls, Callers
  <2> QED
    BY <2>3, <2>4, <2>5, <2>6 DEF ConnInv
<1>3. ASSUME NEW caller \in Callers, Announced(caller) PROVE ConnInv'
  <2>1. /\ running' \in [Calls -> {0, 1}]
        /\ \A e \in Calls : running'[e] = 0
    BY <1>3, ReturnOnly DEF Announced, At, Return, ConnInv, ConnType, Exclusive, Calls, Callers
  <2>2. /\ ~reconnectTimer /\ phase # "new" /\ (addresses = "valid" => reconnectAttempt = 0)
        /\ \A c \in Callers : running[<<c, "subscribing">>] = 0
    BY <1>3 DEF Announced, At, Counted, ConnInv, ConnType, Exclusive, Calls, Callers
  <2>3. ConnType'
    BY <1>3, <2>1, <2>2 DEF Announced, ConnInv, ConnType
  <2>4. Exclusive'
    BY <1>3, <2>1, <2>2 DEF Announced, ConnInv, ConnType, Exclusive, Calls, Callers
  <2>5. Counted'
    <3>1. /\ reconnectAttempt' \in {0, reconnectAttempt}
          /\ UNCHANGED <<addresses, timers, reconnectTimer>>
          /\ ConnInv
      BY <1>3 DEF Announced
    <3> QED
      BY <1>0, <2>2, <3>1 DEF ConnInv, Counted
  <2>6. Pending'
    BY <1>3, <2>1, <2>2 DEF Announced, ConnInv, ConnType, Exclusive, Pending, Calls, Callers
  <2> QED
    BY <2>3, <2>4, <2>5, <2>6 DEF ConnInv
<1>4. ASSUME NEW caller \in Callers, NEW stage \in {"subscribing", "announcing"},
             ConnectFails(caller, stage), stage = "subscribing" => addresses = "invalid"
      PROVE  ConnInv'
  <2>1. /\ running' \in [Calls -> {0, 1}]
        /\ \A e \in Calls : running'[e] = 1 => e = <<"reconnect", "failed">>
    <3>1. CASE caller = "reconnect"
      BY <1>4, <3>1, GotoOnly DEF ConnectFails, At, Goto, ConnInv, ConnType, Exclusive, Calls, Callers
    <3>2. CASE caller # "reconnect"
      BY <1>4, <3>2, ReturnOnly DEF ConnectFails, At, Return, ConnInv, ConnType, Exclusive, Calls, Callers
    <3> QED
      BY <3>1, <3>2
  <2>2. phase # "new" /\ (addresses = "valid" => reconnectAttempt = 0)
    BY <1>4, <1>0 DEF ConnectFails, At, Counted, ConnInv, ConnType, Exclusive, Calls, Callers
  <2>3. ConnType'
    BY <1>4, <1>0, <2>1, <2>2 DEF ConnectFails, HandleDisconnect, ConnInv, ConnType
  <2>4. Exclusive'
    BY <1>4, <1>0, <2>1, <2>2 DEF ConnectFails, HandleDisconnect, ConnInv, ConnType, Exclusive, Calls, Callers
  <2>5. Counted'
    BY <1>4, <1>0, <2>1, <2>2 DEF ConnectFails, HandleDisconnect, ConnInv, ConnType, Counted, Calls, Callers
  <2>6. Pending'
    BY <1>4, <1>0, <2>1, <2>2 DEF ConnectFails, HandleDisconnect, ConnInv, ConnType, Exclusive, Pending, Calls, Callers
  <2> QED
    BY <2>3, <2>4, <2>5, <2>6 DEF ConnInv
<1>5. CASE ReconnectFails
  <2>1. /\ running' \in [Calls -> {0, 1}]
        /\ \A e \in Calls : running'[e] = 0
    BY <1>5, ReturnOnly DEF ReconnectFails, At, Return, ConnInv, ConnType, Exclusive, Calls, Callers
  <2>2. phase # "new" /\ (addresses = "valid" => reconnectAttempt = 0)
    BY <1>5, <1>0 DEF ReconnectFails, At, Counted, ConnInv, ConnType, Exclusive, Calls, Callers
  <2>3. ConnType'
    BY <1>5, <1>0, <2>1, <2>2 DEF ReconnectFails, HandleDisconnect, ConnInv, ConnType
  <2>4. Exclusive'
    BY <1>5, <1>0, <2>1, <2>2 DEF ReconnectFails, HandleDisconnect, ConnInv, ConnType, Exclusive, Calls, Callers
  <2>5. Counted'
    BY <1>5, <1>0, <2>1, <2>2 DEF ReconnectFails, HandleDisconnect, ConnInv, ConnType, Counted, Calls, Callers
  <2>6. Pending'
    BY <1>5, <1>0, <2>1, <2>2 DEF ReconnectFails, HandleDisconnect, ConnInv, ConnType, Exclusive, Pending, Calls, Callers
  <2> QED
    BY <2>3, <2>4, <2>5, <2>6 DEF ConnInv
<1>6. CASE ReconnectTimer
  <2>1. /\ timers = 1 /\ reconnectTimer /\ phase # "new"
        /\ \A e \in Calls : running[e] = 0
    BY <1>6 DEF ReconnectTimer, At, Counted, ConnInv, ConnType, Exclusive, Calls, Callers
  <2>2. addresses = "valid" => reconnectAttempt = 0
    BY <2>1, <1>0 DEF Counted, ConnInv, ConnType, Exclusive, Calls, Callers
  <2>3. /\ running' \in [Calls -> {0, 1}]
        /\ \A e \in Calls : running'[e] = 1 <=> ~isConnected /\ e = <<"reconnect", "subscribing">>
    <3>1. CASE isConnected
      BY <1>6, <2>1, <3>1 DEF ReconnectTimer, ConnInv, ConnType, Exclusive, Calls, Callers
    <3>2. CASE ~isConnected
      BY <1>6, <2>1, <3>2, StartOnly DEF ReconnectTimer, ConnInv, ConnType, Exclusive, Calls, Callers
    <3> QED
      BY <3>1, <3>2
  <2>4. timers' = 0 /\ reconnectTimer' = FALSE /\ UNCHANGED <<addresses, isConnected, phase>>
        /\ reconnectAttempt' = IF isConnected THEN 0 ELSE CountedUp
    BY <1>6, <2>1, <2>2 DEF ReconnectTimer
  <2>5. ConnType'
    BY <2>1, <2>2, <2>3, <2>4 DEF ConnInv, ConnType
  <2>6. Exclusive'
    BY <2>1, <2>2, <2>3, <2>4 DEF ConnInv, ConnType, Exclusive, Calls, Callers
  <2>7. Counted'
    <3>1. reconnectAttempt' \in 0..MaxRetryCount /\ (addresses = "valid" => reconnectAttempt' \in {0, 1})
      BY <1>0, <2>2, <2>4 DEF CountedUp, ConnInv, Counted
    <3>2. addresses = "valid" /\ reconnectAttempt' > 0 => ~isConnected
      BY <2>4
    <3> QED
      BY <2>1, <2>3, <2>4, <3>1, <3>2 DEF ConnInv, ConnType, Counted, Calls, Callers
  <2>8. Pending'
    BY <2>1, <2>2, <2>3, <2>4 DEF ConnInv, ConnType, Exclusive, Pending, Calls, Callers
  <2> QED
    BY <2>5, <2>6, <2>7, <2>8 DEF ConnInv
<1>7. CASE Close
  BY <1>7 DEF Close, ConnInv, ConnType, Exclusive, Counted, Pending
<1>8. CASE Closed
  <2>1. ConnType'
    BY <1>8 DEF Closed, ConnInv, ConnType
  <2>2. Exclusive'
    BY <1>8 DEF Closed, ConnInv, ConnType, Exclusive, Calls, Callers
  <2>3. Counted'
    BY <1>8 DEF Closed, ConnInv, ConnType, Counted, Calls, Callers
  <2>4. Pending'
    BY <1>8 DEF Closed, ConnInv, ConnType, Exclusive, Pending, Calls, Callers
  <2> QED
    BY <2>1, <2>2, <2>3, <2>4 DEF ConnInv
<1>9. CASE UNCHANGED connection
  BY <1>9 DEF connection, ConnInv, ConnType, Exclusive, Counted, Pending
<1>10. \/ Connect \/ ReconnectFails \/ ReconnectTimer \/ Close \/ Closed \/ UNCHANGED connection
       \/ \E caller \in Callers :
            \/ Subscribed(caller) \/ Announced(caller)
            \/ \E stage \in {"subscribing", "announcing"} :
                 ConnectFails(caller, stage) /\ (stage = "subscribing" => addresses = "invalid")
  BY DEF SubscribeFails, AnnounceFails, Next, vars, Send, FlushTimer, Flush, PublishBatch, Answered, Thrown, Connecting, Callers
<1> QED
  BY <1>1, <1>2, <1>3, <1>4, <1>5, <1>6, <1>7, <1>8, <1>9, <1>10

LEMMA ConnInit == Init => ConnInv
<1> SUFFICES ASSUME Init PROVE ConnInv
  OBVIOUS
<1>1. ConnType
  BY DEF Init, ConnType
<1>2. /\ \A c \in Calls : running[c] = 0
      /\ reconnectTimer = FALSE /\ timers = 0 /\ reconnectAttempt = 0 /\ phase = "new"
  BY DEF Init
<1>3. Exclusive /\ Pending
  BY <1>2 DEF Exclusive, Pending
<1>4. Counted
  BY <1>2, NetworkAssumption DEF Counted
<1> QED
  BY <1>1, <1>3, <1>4 DEF ConnInv

LEMMA ConnAlways == Spec => []ConnInv
  BY ConnInit, ConnStep, PTL DEF Spec

\* There is never more than one attempt to connect, nor an attempt and a timer.
THEOREM AttemptsAreSingle == Spec => []SingleAttempt
<1>1. ASSUME ConnInv PROVE SingleAttempt
  <2>1. \A c \in Active : running[c] = 1
    BY <1>1 DEF ConnInv, ConnType, Exclusive, Counted, Active
  <2>2. \A c \in Calls : running[c] <= 1
    BY <1>1 DEF ConnInv, ConnType
  <2>3. \A c, d \in Active : c = d
    BY <1>1, <2>1 DEF ConnInv, ConnType, Exclusive, Counted, Active
  <2>4. timers <= 1 /\ (timers = 1 => \A c \in Active : c[2] = "failed")
    BY <1>1, <2>1 DEF ConnInv, ConnType, Exclusive, Counted, Active
  <2> QED
    BY <2>2, <2>3, <2>4 DEF SingleAttempt
<1> QED
  BY <1>1, ConnAlways, PTL

\* While the network is open and offline, a retry is under way or has its timer.
THEOREM RetryIsPending == Spec => []RetryPending
<1>1. ConnInv => RetryPending
  BY DEF ConnInv, ConnType, Counted, Pending, RetryPending, Active, Calls, Callers
<1> QED
  BY <1>1, ConnAlways, PTL
----------------------------------------------------------------------------
(* What becomes of the messages. *)

Fates == {"unsent", "accepted", "published", "refused", "dropped"}
SendType == fate \in [Msgs -> Fates] /\ publishing \subseteq Batch /\ messages \in Seq(Msgs)

Kept == \A m \in Msgs : fate[m] = "accepted" /\ Size[m] <= MaxBytes =>
          InBatch(m) \/ \E b \in publishing : In(b.rest, m)
Waiting == \A m \in Msgs : InBatch(m) =>
             fate[m] = "accepted" /\ \A b \in publishing : ~In(b.rest, m)
Live == \A b \in publishing : \A k \in DOMAIN b.rest : fate[b.rest[k]] = "accepted"
Apart == \A b, c \in publishing : \A k \in DOMAIN b.rest, l \in DOMAIN c.rest :
           b.rest[k] = c.rest[l] => b = c /\ k = l
Once == \A k, l \in DOMAIN messages : messages[k] = messages[l] => k = l

SendInv == SendType /\ Kept /\ Waiting /\ Live /\ Apart /\ Once

LEMMA BatchType ==
  ASSUME NEW b \in Batch
  PROVE  /\ b.rest \in Seq(Msgs) /\ Len(b.rest) >= 1 /\ DOMAIN b.rest = 1..Len(b.rest)
         /\ b.given \in BOOLEAN /\ Head(b.rest) = b.rest[1]
         /\ \A k \in DOMAIN b.rest : b.rest[k] \in Msgs
BY DEF Batch

\* A message is added to a batch that has room for it.
LEMMA AddKept ==
  ASSUME SendInv, NEW m \in Msgs, fate[m] = "unsent", messages' = Append(messages, m),
         fate' = [fate EXCEPT ![m] = "accepted"], publishing' = publishing
  PROVE  SendInv'
<1>0. /\ messages \in Seq(Msgs) /\ messages' \in Seq(Msgs)
      /\ DOMAIN messages' = DOMAIN messages \cup {Len(messages) + 1}
      /\ messages'[Len(messages) + 1] = m
      /\ \A k \in DOMAIN messages : messages'[k] = messages[k] /\ messages[k] \in Msgs
  BY DEF SendInv, SendType
<1>1. \A n \in Msgs : InBatch(n)' <=> InBatch(n) \/ n = m
  BY <1>0 DEF InBatch
<1>2. ~InBatch(m) /\ \A b \in publishing : ~In(b.rest, m)
  BY DEF SendInv, Waiting, Live, In
<1>3. SendType'
  BY <1>0 DEF SendInv, SendType, Fates
<1>4. /\ fate'[m] = "accepted" /\ \A n \in Msgs \ {m} : fate'[n] = fate[n]
  BY DEF SendInv, SendType
<1>5. Kept' /\ Waiting'
  BY <1>1, <1>2, <1>4 DEF SendInv, Kept, Waiting
<1>6. Live'
  <2> SUFFICES ASSUME NEW b \in publishing', NEW k \in DOMAIN b.rest
               PROVE  fate'[b.rest[k]] = "accepted"
    BY DEF Live
  <2>1. b.rest[k] \in Msgs /\ fate[b.rest[k]] = "accepted"
    BY BatchType DEF SendInv, SendType, Live
  <2> QED
    BY <1>4, <2>1
<1>7. Apart'
  BY DEF SendInv, Apart
<1>8. Once'
  BY <1>0, <1>2 DEF SendInv, Once, InBatch
<1> QED
  BY <1>3, <1>5, <1>6, <1>7, <1>8 DEF SendInv

\* The batch is handed over while a message, or none, is accepted into the next.
LEMMA HandOverKept ==
  ASSUME SendInv, NEW new \in SUBSET Msgs, \A m \in new : fate[m] = "unsent", HandOver(new),
         messages' \in Seq(Msgs), Once',
         \A m \in Msgs : InBatch(m)' => m \in new,
         \A m \in new : Size[m] <= MaxBytes => InBatch(m)'
  PROVE  SendInv'
<1>0. messages \in Seq(Msgs) /\ fate \in [Msgs -> Fates] /\ publishing \subseteq Batch
  BY DEF SendInv, SendType
<1>1. \A m \in new : ~InBatch(m) /\ \A b \in publishing : ~In(b.rest, m)
  BY DEF SendInv, Waiting, Live, In
<1>2. \A b \in publishing : \A k \in DOMAIN b.rest : b.rest[k] \in Msgs \ new /\ ~InBatch(b.rest[k])
  BY <1>0, <1>1, BatchType DEF SendInv, Waiting, In
<1>3. CASE ~isConnected \/ messages = <<>>
  <2>1. publishing' = publishing
    BY <1>3 DEF HandOver
  <2>2. /\ \A m \in Msgs : InBatch(m) => fate'[m] # "accepted"
        /\ \A m \in new : fate'[m] = "accepted"
        /\ \A m \in Msgs \ new : ~InBatch(m) => fate'[m] = fate[m]
        /\ fate' \in [Msgs -> Fates]
    <3>1. CASE messages = <<>>
      BY <1>0, <1>1, <3>1 DEF HandOver, InBatch, Fates
    <3>2. CASE messages # <<>>
      <4>1. \A m \in Msgs : InBatch(m) <=> In(messages, m)
        BY DEF InBatch, In
      <4>2. fate' = [m \in Msgs |-> IF In(messages, m) THEN "dropped"
                                    ELSE IF m \in new THEN "accepted" ELSE fate[m]]
        BY <1>3, <3>2 DEF HandOver
      <4>3. \A m \in Msgs : fate'[m] \in Fates
        BY <1>0, <4>2 DEF Fates
      <4>4. fate' \in [Msgs -> Fates]
        BY <4>2, <4>3
      <4> QED
        BY <1>1, <4>1, <4>2, <4>4
    <3> QED
      BY <3>1, <3>2
  <2>3. SendType'
    BY <1>0, <2>1, <2>2 DEF SendType
  <2>4. Kept'
    BY <2>1, <2>2 DEF SendInv, Kept
  <2>5. Waiting'
    BY <1>1, <2>1, <2>2 DEF Waiting
  <2>6. Live'
    BY <1>2, <2>1, <2>2 DEF SendInv, Live
  <2>7. Apart'
    BY <2>1 DEF SendInv, Apart
  <2> QED
    BY <2>3, <2>4, <2>5, <2>6, <2>7 DEF SendInv
<1>4. CASE isConnected /\ messages # <<>>
  <2> DEFINE batch == [rest |-> messages, given |-> TRUE]
  <2>1. publishing' = publishing \cup {batch} /\ batch.rest = messages
    BY <1>4 DEF HandOver
  <2>2. /\ \A m \in new : fate'[m] = "accepted"
        /\ \A m \in Msgs \ new : fate'[m] = fate[m]
        /\ fate' \in [Msgs -> Fates]
    BY <1>0, <1>4 DEF HandOver, Fates
  <2>3. batch \in Batch
    BY <1>0, <1>4 DEF Batch
  <2> HIDE DEF batch
  <2>4. SendType'
    BY <1>0, <2>1, <2>2, <2>3 DEF SendType
  <2>5. \A m \in Msgs : InBatch(m) <=> In(batch.rest, m)
    BY <2>1 DEF InBatch, In
  <2>6. Kept'
    BY <2>1, <2>2, <2>5 DEF SendInv, Kept
  <2>7. Waiting'
    BY <1>1, <2>1, <2>2, <2>5 DEF Waiting
  <2>8. \A k \in DOMAIN batch.rest :
          batch.rest[k] \in Msgs \ new /\ InBatch(batch.rest[k]) /\ fate[batch.rest[k]] = "accepted"
    BY <1>0, <1>1, <2>1 DEF InBatch, SendInv, Waiting
  <2>9. Live'
    BY <1>2, <2>1, <2>2, <2>8 DEF SendInv, Live
  <2>10. Apart'
    BY <1>2, <2>1, <2>8 DEF SendInv, Apart, Once
  <2> QED
    BY <2>4, <2>6, <2>7, <2>9, <2>10 DEF SendInv
<1> QED
  BY <1>3, <1>4

\* The set of batches once the batch b, of this length, has got on.
LEMMA Replaced ==
  ASSUME NEW length \in Nat, length >= 1, NEW old, NEW new, NEW b, NEW next,
         new = (old \ {b}) \cup (IF length = 1 THEN {} ELSE {next})
  PROVE  /\ \A c \in new : c \in old \ {b} \/ (length > 1 /\ c = next)
         /\ \A c \in old \ {b} : c \in new
         /\ length > 1 => next \in new
OBVIOUS

\* A batch gets on to its next message.
LEMMA ProceedKept ==
  ASSUME SendInv, isConnected \in BOOLEAN, NEW b \in publishing,
         NEW answer \in Fates \ {"accepted"},
         fate' = [fate EXCEPT ![Head(b.rest)] = answer],
         Proceed(b), messages' = messages
  PROVE  SendInv'
<1> DEFINE next == [rest |-> Tail(b.rest), given |-> isConnected]
<1>0. messages \in Seq(Msgs) /\ fate \in [Msgs -> Fates] /\ publishing \subseteq Batch
  BY DEF SendInv, SendType
<1>1. /\ b.rest \in Seq(Msgs) /\ Len(b.rest) >= 1 /\ DOMAIN b.rest = 1..Len(b.rest)
      /\ Head(b.rest) = b.rest[1] /\ b.rest[1] \in Msgs
  BY <1>0, BatchType
<1>2. /\ fate'[b.rest[1]] = answer /\ fate' \in [Msgs -> Fates]
      /\ \A m \in Msgs \ {b.rest[1]} : fate'[m] = fate[m]
  BY <1>0, <1>1
<1>3. ASSUME Len(b.rest) > 1
      PROVE  /\ next \in Batch /\ DOMAIN next.rest = 1..(Len(b.rest) - 1)
             /\ \A k \in DOMAIN next.rest : k + 1 \in DOMAIN b.rest /\ next.rest[k] = b.rest[k + 1]
  <2> DEFINE tail == Tail(b.rest)
  <2>1. /\ tail \in Seq(Msgs) /\ Len(tail) = Len(b.rest) - 1
        /\ \A k \in 1..Len(tail) : tail[k] = b.rest[k + 1]
    BY <1>1, <1>3
  <2>2. next.rest = tail /\ next.given = isConnected
    OBVIOUS
  <2> HIDE DEF tail
  <2>3. tail # <<>>
    BY <1>3, <2>1
  <2>4. next \in Batch
    BY <2>1, <2>3 DEF Batch, tail
  <2> HIDE DEF next
  <2>5. DOMAIN next.rest = 1..(Len(b.rest) - 1)
    BY <1>1, <2>1, <2>2
  <2>6. \A k \in 1..(Len(b.rest) - 1) : k + 1 \in 1..Len(b.rest) /\ next.rest[k] = b.rest[k + 1]
    BY <1>1, <2>1, <2>2
  <2> QED
    BY <1>1, <2>4, <2>5, <2>6
<1>4. publishing' = (publishing \ {b}) \cup (IF Len(b.rest) = 1 THEN {} ELSE {next})
  BY DEF Proceed
<1> HIDE DEF next
<1>5. /\ \A c \in publishing' : c \in publishing \ {b} \/ (Len(b.rest) > 1 /\ c = next)
      /\ \A c \in publishing \ {b} : c \in publishing'
      /\ Len(b.rest) > 1 => next \in publishing'
  <2> DEFINE length == Len(b.rest)
  <2>1. length \in Nat /\ length >= 1
    BY <1>1
  <2>2. publishing' = (publishing \ {b}) \cup (IF length = 1 THEN {} ELSE {next})
    BY <1>4
  <2> HIDE DEF length
  <2>3. /\ \A c \in publishing' : c \in publishing \ {b} \/ (length > 1 /\ c = next)
        /\ \A c \in publishing \ {b} : c \in publishing'
        /\ length > 1 => next \in publishing'
    BY <2>1, <2>2, Replaced
  <2> QED
    BY <2>3 DEF length
<1>6. SendType'
  BY <1>0, <1>2, <1>3, <1>5 DEF SendType
<1>7. \A c \in publishing' : \A k \in DOMAIN c.rest :
        \E d \in publishing : \E l \in DOMAIN d.rest :
          c.rest[k] = d.rest[l] /\ (d = b => l > 1)
  <2> SUFFICES ASSUME NEW c \in publishing', NEW k \in DOMAIN c.rest
               PROVE  \E d \in publishing : \E l \in DOMAIN d.rest :
                        c.rest[k] = d.rest[l] /\ (d = b => l > 1)
    OBVIOUS
  <2>1. CASE c \in publishing \ {b}
    BY <2>1
  <2>2. CASE Len(b.rest) > 1 /\ c = next
    <3>1. k \in 1..(Len(b.rest) - 1) /\ k + 1 \in DOMAIN b.rest /\ c.rest[k] = b.rest[k + 1]
      BY <1>3, <2>2
    <3>2. k + 1 > 1
      BY <3>1
    <3> QED
      BY <3>1, <3>2
  <2> QED
    BY <1>5, <2>1, <2>2
<1>8. Live'
  BY <1>0, <1>1, <1>2, <1>7, BatchType DEF SendInv, Live, Apart
<1>9. Kept'
  <2> SUFFICES ASSUME NEW m \in Msgs, fate'[m] = "accepted", Size[m] <= MaxBytes, ~InBatch(m)'
               PROVE  \E c \in publishing' : In(c.rest, m)
    BY DEF Kept
  <2>1. m # b.rest[1] /\ fate[m] = "accepted" /\ ~InBatch(m)
    BY <1>2 DEF InBatch
  <2>2. PICK d \in publishing : In(d.rest, m)
    BY <2>1 DEF SendInv, Kept
  <2>3. PICK l \in DOMAIN d.rest : d.rest[l] = m
    BY <2>2 DEF In
  <2>4. CASE d # b
    <3>1. d \in publishing'
      BY <1>5, <2>4
    <3> QED
      BY <2>2, <3>1
  <2>5. CASE d = b
    <3>1. l \in 2..Len(b.rest) /\ Len(b.rest) > 1
      BY <1>1, <2>1, <2>3, <2>5
    <3>2. l - 1 \in 1..(Len(b.rest) - 1) /\ (l - 1) + 1 = l
      BY <1>1, <3>1
    <3>3. l - 1 \in DOMAIN next.rest /\ next.rest[l - 1] = b.rest[l]
      BY <1>3, <3>1, <3>2
    <3>4. next \in publishing' /\ In(next.rest, m)
      BY <1>5, <2>3, <2>5, <3>1, <3>3 DEF In
    <3> QED
      BY <3>4
  <2> QED
    BY <2>4, <2>5
<1>10. Waiting'
  <2> SUFFICES ASSUME NEW m \in Msgs, InBatch(m)'
               PROVE  fate'[m] = "accepted" /\ \A c \in publishing' : ~In(c.rest, m)
    BY DEF Waiting
  <2>1. fate[m] = "accepted" /\ \A d \in publishing : ~In(d.rest, m)
    BY DEF InBatch, SendInv, Waiting
  <2>2. m # b.rest[1]
    BY <1>1, <2>1 DEF In
  <2>3. \A c \in publishing' : ~In(c.rest, m)
    BY <1>7, <2>1 DEF In
  <2> QED
    BY <1>2, <2>1, <2>2, <2>3
<1>11. Apart'
  <2> SUFFICES ASSUME NEW c \in publishing', NEW d \in publishing',
                      NEW k \in DOMAIN c.rest, NEW l \in DOMAIN d.rest, c.rest[k] = d.rest[l]
               PROVE  c = d /\ k = l
    BY DEF Apart
  <2>0. \A e, f \in publishing : \A i \in DOMAIN e.rest, j \in DOMAIN f.rest :
          e.rest[i] = f.rest[j] => e = f /\ i = j
    BY DEF SendInv, Apart
  <2>1. CASE c \in publishing \ {b} /\ d \in publishing \ {b}
    BY <2>0, <2>1
  <2>2. CASE c \in publishing \ {b} /\ d = next /\ Len(b.rest) > 1
    <3>1. l + 1 \in DOMAIN b.rest /\ d.rest[l] = b.rest[l + 1]
      BY <1>3, <2>2
    <3> QED
      BY <2>0, <2>2, <3>1
  <2>3. CASE c = next /\ d \in publishing \ {b} /\ Len(b.rest) > 1
    <3>1. k + 1 \in DOMAIN b.rest /\ c.rest[k] = b.rest[k + 1]
      BY <1>3, <2>3
    <3> QED
      BY <2>0, <2>3, <3>1
  <2>4. CASE c = next /\ d = next /\ Len(b.rest) > 1
    <3>1. /\ k \in 1..(Len(b.rest) - 1) /\ l \in 1..(Len(b.rest) - 1)
          /\ k + 1 \in DOMAIN b.rest /\ c.rest[k] = b.rest[k + 1]
          /\ l + 1 \in DOMAIN b.rest /\ d.rest[l] = b.rest[l + 1]
      BY <1>3, <2>4
    <3>2. \A i, j \in DOMAIN b.rest : b.rest[i] = b.rest[j] => i = j
      BY <2>0
    <3>3. k + 1 = l + 1
      BY <3>1, <3>2
    <3> QED
      BY <2>4, <3>1, <3>3
  <2> QED
    BY <1>5, <2>1, <2>2, <2>3, <2>4
<1>12. Once'
  BY DEF SendInv, Once
<1> QED
  BY <1>6, <1>8, <1>9, <1>10, <1>11, <1>12 DEF SendInv
LEMMA SendStep == BatcherInv /\ ConnType /\ SendInv /\ [Next]_vars => SendInv'
<1> SUFFICES ASSUME BatcherInv, BatcherInv', ConnType, SendInv, [Next]_vars PROVE SendInv'
  BY BatcherStep
<1>0. messages \in Seq(Msgs) /\ messages' \in Seq(Msgs) /\ isConnected \in BOOLEAN
  BY DEF BatcherInv, BatcherTypeOK, ConnType
<1>1. ASSUME NEW m \in Msgs, Send(m) PROVE SendInv'
  <2>1. CASE Add(m) /\ fate' = [fate EXCEPT ![m] = "accepted"] /\ UNCHANGED publishing
    BY <1>1, <2>1, AddKept DEF Send, Add
  <2>2. CASE AddAfterFlush(m) /\ HandOver({m})
    <3>1. fate[m] = "unsent"
      BY <1>1 DEF Send
    <3>2. \/ messages' = <<>> /\ Size[m] > MaxBytes
          \/ messages' = <<m>> /\ Size[m] <= MaxBytes
      BY <2>2 DEF AddAfterFlush, Emptied
    <3>3. /\ \A n \in Msgs : InBatch(n)' => n \in {m}
          /\ \A n \in {m} : Size[n] <= MaxBytes => InBatch(n)'
          /\ Once'
      BY <3>2, Sizes DEF InBatch, Once
    <3> QED
      BY <1>0, <2>2, <3>1, <3>3, HandOverKept
  <2> QED
    BY <1>1, <2>1, <2>2 DEF Send
<1>2. CASE FlushTimer \/ Flush \/ Close
  <2>1. HandOver({}) /\ messages' = <<>>
    BY <1>2 DEF FlushTimer, Flush, Close, Emptied, batcher
  <2>2. (\A m \in Msgs : ~InBatch(m)') /\ Once'
    BY <2>1 DEF InBatch, Once
  <2> QED
    BY <1>0, <2>1, <2>2, HandOverKept
<1>3. ASSUME NEW b \in publishing, Answered(b) \/ Thrown(b) PROVE SendInv'
  <2>1. PICK answer \in Fates \ {"accepted"} : fate' = [fate EXCEPT ![Head(b.rest)] = answer]
    BY <1>3 DEF Answered, Thrown, Fates
  <2>2. Proceed(b) /\ messages' = messages
    BY <1>3 DEF Answered, Thrown, batcher
  <2> QED
    BY <1>0, <2>1, <2>2, ProceedKept
<1>4. CASE UNCHANGED <<messages, publishing, fate>>
  BY <1>4 DEF SendInv, SendType, Kept, Waiting, Live, Apart, Once, InBatch
<1>5. \/ \E m \in Msgs : Send(m)
      \/ FlushTimer \/ Flush \/ Close
      \/ \E b \in publishing : Answered(b) \/ Thrown(b)
      \/ UNCHANGED <<messages, publishing, fate>>
  BY DEF Next, vars, batcher, PublishBatch, Connect, Closed, Connecting, Subscribed,
         Announced, AnnounceFails, SubscribeFails, ConnectFails, ReconnectFails, ReconnectTimer
<1> QED
  BY <1>1, <1>2, <1>3, <1>4, <1>5

LEMMA SendAlways == Spec => []SendInv
<1>1. ASSUME Init PROVE SendInv
  <2>1. /\ messages = <<>> /\ publishing = {} /\ fate = [m \in Msgs |-> "unsent"]
    BY <1>1 DEF Init, BatcherInit
  <2>2. SendType
    BY <2>1 DEF SendType, Fates
  <2>3. Kept /\ Waiting /\ Live /\ Apart /\ Once
    BY <2>1 DEF Kept, Waiting, Live, Apart, Once, InBatch
  <2> QED
    BY <2>2, <2>3 DEF SendInv
<1>2. ConnInv => ConnType
  BY DEF ConnInv
<1> QED
  BY <1>1, <1>2, SendStep, BatcherAlways, ConnAlways, PTL DEF Spec

\* No accepted message is forgotten or published twice.
THEOREM MessagesAreAccounted == Spec => []Accounted
<1>1. ASSUME SendInv PROVE Accounted
  BY <1>1 DEF SendInv, Kept, Waiting, Live, Apart, Once, Accounted
<1> QED
  BY <1>1, SendAlways, PTL

\* Every variable keeps its type.
THEOREM NetworkTypeCorrect == Spec => []TypeOK
<1>1. ASSUME BatcherInv, ConnInv, SendInv PROVE TypeOK
  <2>1. BatcherTypeOK
    BY <1>1 DEF BatcherInv
  <2>2. timers \in Nat /\ running \in [Calls -> Nat] /\ reconnectAttempt \in 0..MaxRetryCount
    BY <1>1 DEF ConnInv, ConnType, Counted
  <2>3. /\ addresses \in {"valid", "invalid"}
        /\ isConnected \in BOOLEAN /\ reconnectTimer \in BOOLEAN
        /\ phase \in {"new", "open", "closing", "closed"}
    BY <1>1 DEF ConnInv, ConnType
  <2>4. publishing \subseteq Batch
        /\ fate \in [Msgs -> {"unsent", "accepted", "published", "refused", "dropped"}]
    BY <1>1 DEF SendInv, SendType, Fates
  <2> QED
    BY <2>1, <2>2, <2>3, <2>4 DEF TypeOK
<1> QED
  BY <1>1, BatcherAlways, ConnAlways, SendAlways, PTL

----------------------------------------------------------------------------
(* The sockets (Subscriptions). *)

\* A socket connects as long as its timer runs, and one that is not needed yet is not there.
SocketsKnown ==
  /\ \A s \in Sockets : socket[s] = "connecting" <=> s \in pending
  /\ \A s \in Sockets : s[2] > attempt => socket[s] = "none"

\* The sockets of the last attempt connect only while a call of connect waits for them.
AwaitedSockets ==
  /\ \A s \in Sockets : Current(s) /\ s[1] \in resolved => socket[s] # "connecting"
  /\ (\A caller \in Callers : running[<<caller, "subscribing">>] = 0) =>
       \A s \in Sockets : Current(s) => socket[s] # "connecting"

\* Until the network is closed it knows the sockets of the last attempt, but for those
\* whose entry the end of an older one has removed.
EnteredSockets ==
  phase # "closed" => \A s \in Sockets :
    Current(s) /\ socket[s] \in {"connecting", "open"} => entry[s[1]] = s[2] \/ OlderOneClosed(s)

\* After a close that cut nothing short, nobody is connecting or will try again.
QuietAfterClose ==
  phase = "closed" /\ ~cutShort =>
    /\ ~reconnectTimer /\ \A c \in Calls : running[c] = 0
    /\ \A s \in Sockets : socket[s] = "open" => ~Current(s) \/ OlderOneClosed(s)

\* A socket fails once, and counts at most twice.
FailuresCounted ==
  \A r \in Relays :
    /\ \A n \in failing[r] : socket[<<r, n>>] \in {"closing", "closed"}
    /\ breaker[r].failures <= 2 * Cardinality(failing[r])
    /\ breaker[r].open # "no" => breaker[r].failures >= Threshold

SocketsInv ==
  /\ ConnInv /\ SubTypeOK /\ SocketsKnown /\ AwaitedSockets /\ EnteredSockets
  /\ QuietAfterClose /\ FailuresCounted

LEMMA SocketTypes ==
  /\ MaxAttempts \in Nat /\ Threshold \in Nat /\ Threshold > 0
  /\ \A s \in Sockets : s[1] \in Relays /\ s[2] \in 1..MaxAttempts /\ s = <<s[1], s[2]>>
  /\ \A r \in Relays, k \in 1..MaxAttempts : <<r, k>> \in Sockets
BY SubscriptionsAssumption DEF Sockets

\* The network does what NostrNetwork describes, or nothing.
LEMMA SubStepsAreSteps == [SubNext]_allVars => [Next]_vars
<1> SUFFICES ASSUME [SubNext]_allVars PROVE [Next]_vars
  OBVIOUS
<1>1. CASE SubConnect \/ SubReconnectTimer \/ SubClosed \/ SubAnnounced
  BY <1>1 DEF SubConnect, SubReconnectTimer, SubClosed, SubAnnounced, Next, Connecting
<1>2. ASSUME NEW caller \in Callers, SubSubscribed(caller) PROVE [Next]_vars
  BY <1>2 DEF SubSubscribed, Next, Connecting, Callers
<1>3. ASSUME NEW s \in Sockets, SocketStep(s) PROVE UNCHANGED vars
  BY <1>3 DEF SocketStep, SocketOpens, SocketFails, SubscriptionTimeout, SocketErrors, SocketCloses
<1>4. ASSUME NEW r \in Relays, BreakerTime(r) PROVE UNCHANGED vars
  BY <1>4 DEF BreakerTime
<1> QED
  BY <1>1, <1>2, <1>3, <1>4 DEF SubNext, allVars, Callers

\* A new attempt, made by a caller that then waits for it.
LEMMA OpenSocketsKeeps ==
  ASSUME SocketsInv, ConnInv', OpenSockets, ~(phase = "closed" /\ ~cutShort),
         phase' = phase \/ phase' # "closed",
         \E caller \in Callers : running'[<<caller, "subscribing">>] = 1
  PROVE  SocketsInv'
<1> USE DEF SocketsInv
<1>1. /\ attempt \in 0..MaxAttempts /\ attempt < MaxAttempts /\ attempt' = attempt + 1
      /\ socket' = [s \in Sockets |-> IF s[2] = attempt' THEN "connecting" ELSE socket[s]]
      /\ pending' = pending \cup {s \in Sockets : s[2] = attempt'}
      /\ resolved' = {} /\ opened' = 0 /\ entry' = [r \in Relays |-> attempt']
      /\ breaker' = breaker /\ failing' = failing /\ cutShort' = cutShort
  BY DEF OpenSockets, SetEntries, health, SubTypeOK
<1>2. /\ attempt' \in 0..MaxAttempts
      /\ \A s \in Sockets : s[2] = attempt' => socket'[s] = "connecting" /\ s \in pending'
      /\ \A s \in Sockets : s[2] # attempt' => socket'[s] = socket[s] /\ (s \in pending' <=> s \in pending)
  BY <1>1, SocketTypes
<1>3. SubTypeOK'
  BY <1>1, <1>2 DEF SubTypeOK
<1>4. SocketsKnown'
  <2>1. \A s \in Sockets : socket'[s] = "connecting" <=> s \in pending'
    BY <1>2 DEF SocketsKnown
  <2>2. \A s \in Sockets : s[2] > attempt' => socket'[s] = "none"
    BY <1>1, <1>2, SocketTypes DEF SocketsKnown
  <2> QED
    BY <2>1, <2>2 DEF SocketsKnown
<1>5. AwaitedSockets'
  BY <1>1 DEF AwaitedSockets
<1>6. EnteredSockets'
  BY <1>1, SocketTypes DEF EnteredSockets, Current
<1>7. QuietAfterClose'
  BY <1>1 DEF QuietAfterClose
<1>8. FailuresCounted'
  <2>1. \A r \in Relays : \A n \in failing[r] : n \in 1..MaxAttempts /\ n # attempt'
    <3> SUFFICES ASSUME NEW r \in Relays, NEW n \in failing[r] PROVE n \in 1..MaxAttempts /\ n # attempt'
      OBVIOUS
    <3>1. n \in 1..MaxAttempts /\ socket[<<r, n>>] \in {"closing", "closed"}
      BY DEF FailuresCounted, SubTypeOK
    <3>2. <<r, n>> \in Sockets /\ <<r, n>>[2] = n
      BY <3>1, SocketTypes
    <3> QED
      BY <1>1, <3>1, <3>2, SocketTypes DEF SocketsKnown
  <2>2. \A r \in Relays : \A n \in failing[r] : socket'[<<r, n>>] = socket[<<r, n>>]
    BY <1>2, <2>1, SocketTypes
  <2> QED
    BY <1>1, <2>2 DEF FailuresCounted
<1> QED
  BY <1>3, <1>4, <1>5, <1>6, <1>7, <1>8

LEMMA SubSubscribedKeeps ==
  ASSUME SocketsInv, ConnInv', NEW caller \in Callers, SubSubscribed(caller)
  PROVE  SocketsInv'
<1> USE DEF SocketsInv
<1>1. /\ UNCHANGED <<attempt, socket, pending, resolved, opened, entry, breaker, failing, cutShort>>
      /\ phase' = phase /\ running[<<caller, "subscribing">>] > 0
      /\ resolved = Relays \/ \A s \in pending : s[2] # attempt
  BY DEF SubSubscribed, Subscribed, subVars, sockets, health, At
<1>2. /\ <<caller, "subscribing">> \in Calls /\ running[<<caller, "subscribing">>] = 1
  BY <1>1 DEF ConnInv, ConnType, Calls, Callers
<1>3. ~(phase = "closed" /\ ~cutShort)
  BY <1>2 DEF QuietAfterClose
<1>4. \A s \in Sockets : Current(s) => socket[s] # "connecting"
  BY <1>1, SocketTypes DEF AwaitedSockets, SocketsKnown, Current
<1>5. AwaitedSockets'
  BY <1>1, <1>4 DEF AwaitedSockets, Current
<1> QED
  BY <1>1, <1>3, <1>5 DEF SubTypeOK, SocketsKnown, EnteredSockets, QuietAfterClose,
       FailuresCounted, Current, OlderOneClosed

LEMMA SubClosedKeeps == ASSUME SocketsInv, ConnInv', SubClosed PROVE SocketsInv'
<1> USE DEF SocketsInv
<1>1. /\ phase = "closing" /\ phase' = "closed" /\ running' = running /\ reconnectTimer' = FALSE
      /\ socket' = [s \in Sockets |->
           IF entry[s[1]] = s[2] /\ socket[s] = "open" THEN "closing" ELSE socket[s]]
      /\ entry' = [r \in Relays |-> 0] /\ cutShort' = (Active # {})
      /\ UNCHANGED <<attempt, pending, resolved, opened, breaker, failing>>
  BY DEF SubClosed, Closed, CloseSubscriptions, health
<1>2. \A s \in Sockets : socket'[s] = IF entry[s[1]] = s[2] /\ socket[s] = "open"
                                      THEN "closing" ELSE socket[s]
  BY <1>1
<1>3. SubTypeOK'
  <2>1. cutShort' \in BOOLEAN
    BY <1>1
  <2>2. socket' \in [Sockets -> {"none", "connecting", "open", "closing", "closed"}]
    BY <1>1 DEF SubTypeOK
  <2>3. entry' \in [Relays -> 0..MaxAttempts]
    BY <1>1, SocketTypes
  <2> QED
    BY <1>1, <2>1, <2>2, <2>3 DEF SubTypeOK
<1>4. SocketsKnown' /\ AwaitedSockets' /\ EnteredSockets'
  BY <1>1, <1>2 DEF SocketsKnown, AwaitedSockets, EnteredSockets, Current
<1>5. FailuresCounted'
  <2>1. \A r \in Relays : \A n \in failing[r] : <<r, n>> \in Sockets
    BY SocketTypes DEF SubTypeOK
  <2> QED
    BY <1>1, <1>2, <2>1 DEF FailuresCounted
<1>6. QuietAfterClose'
  <2> SUFFICES ASSUME Active = {} PROVE QuietAfterClose'
    BY <1>1 DEF QuietAfterClose
  <2>1. \A c \in Calls : running[c] = 0
    BY DEF Active, ConnInv, ConnType
  <2>2. \A s \in Sockets : Current(s) => socket[s] # "connecting"
    BY <2>1 DEF AwaitedSockets, Calls, Callers
  <2>3. ASSUME NEW s \in Sockets, socket'[s] = "open", Current(s) PROVE OlderOneClosed(s)
    BY <1>1, <1>2, <2>3 DEF EnteredSockets
  <2>4. \A s \in Sockets : OlderOneClosed(s) => OlderOneClosed(s)'
    <3> SUFFICES ASSUME NEW s \in Sockets, NEW k \in 1..(s[2] - 1), socket[<<s[1], k>>] = "closed"
                 PROVE  socket'[<<s[1], k>>] = "closed"
      BY DEF OlderOneClosed
    <3>1. <<s[1], k>> \in Sockets
      BY SocketTypes
    <3> QED
      BY <1>2, <3>1
  <2> QED
    BY <1>1, <2>1, <2>3, <2>4 DEF QuietAfterClose, Current
<1> QED
  BY <1>3, <1>4, <1>5, <1>6

\* What the end of a socket, or its opening, does to what is known of the sockets.
LEMMA SocketEventKeeps ==
  ASSUME SocketsInv, NEW s \in Sockets, NEW to, UNCHANGED <<vars, attempt, cutShort>>,
         Becomes(s, to),
         \/ socket[s] = "connecting" /\ to \in {"open", "closed"} /\ pending' = pending \ {s}
         \/ socket[s] = "open" /\ to \in {"closing", "closed"} /\ pending' = pending
         \/ socket[s] = "closing" /\ to = "closed" /\ pending' = pending,
         resolved' = resolved \/ Settle(s),
         opened' \in Nat,
         IF to = "closed" THEN DeleteEntry(s) ELSE entry' = entry,
         breaker' \in [Relays -> Breaker], failing' \in [Relays -> SUBSET (1..MaxAttempts)],
         FailuresCounted'
  PROVE  SocketsInv'
<1> USE DEF SocketsInv
<1>1. /\ phase' = phase /\ running' = running /\ reconnectTimer' = reconnectTimer
      /\ attempt' = attempt /\ cutShort' = cutShort
  BY DEF vars, connection
<1>2. ConnInv'
  BY ConnStep DEF ConnInv
<1>3. /\ socket'[s] = to /\ \A q \in Sockets \ {s} : socket'[q] = socket[q]
      /\ socket' \in [Sockets -> {"none", "connecting", "open", "closing", "closed"}]
  BY DEF Becomes, SubTypeOK
<1>4. /\ entry' \in [Relays -> 0..MaxAttempts]
      /\ \A q \in Sockets : entry'[q[1]] = entry[q[1]] \/ (to = "closed" /\ q[1] = s[1])
  BY SocketTypes DEF DeleteEntry, SubTypeOK
<1>5. \A q \in Sockets : Current(q)' <=> Current(q)
  BY <1>1 DEF Current
<1>6. SubTypeOK'
  BY <1>1, <1>3, <1>4, SocketTypes DEF SubTypeOK, Settle
<1>7. SocketsKnown'
  BY <1>1, <1>3 DEF SocketsKnown
<1>8. AwaitedSockets'
  <2>1. \A q \in Sockets : socket'[q] = "connecting" => q # s /\ socket[q] = "connecting"
    BY <1>3
  <2>2. \A q \in Sockets : Current(q) /\ q[1] \in resolved' =>
          q[1] \in resolved \/ q = s
    BY SocketTypes DEF Settle, Current
  <2> QED
    BY <1>1, <1>5, <2>1, <2>2 DEF AwaitedSockets
<1>9. \A q \in Sockets : OlderOneClosed(q) => OlderOneClosed(q)'
  <2> SUFFICES ASSUME NEW q \in Sockets, NEW k \in 1..(q[2] - 1), socket[<<q[1], k>>] = "closed"
               PROVE  socket'[<<q[1], k>>] = "closed"
    BY DEF OlderOneClosed
  <2>1. <<q[1], k>> \in Sockets /\ <<q[1], k>> # s
    BY SocketTypes
  <2> QED
    BY <1>3, <2>1
<1>10. EnteredSockets'
  <2> SUFFICES ASSUME phase # "closed", NEW q \in Sockets, Current(q),
                      socket'[q] \in {"connecting", "open"}
               PROVE  entry'[q[1]] = q[2] \/ OlderOneClosed(q)'
    BY <1>1, <1>5 DEF EnteredSockets
  <2>1. socket[q] \in {"connecting", "open"} /\ (q = s => to # "closed")
    BY <1>3
  <2>2. entry[q[1]] = q[2] \/ OlderOneClosed(q)'
    BY <1>9, <2>1 DEF EnteredSockets
  <2>3. CASE entry'[q[1]] = entry[q[1]]
    BY <2>2, <2>3
  <2>4. CASE entry'[q[1]] # entry[q[1]]
    <3>1. to = "closed" /\ q[1] = s[1] /\ q # s
      BY <1>4, <2>1, <2>4
    <3>2. s[2] # q[2] /\ s[2] <= attempt /\ s[2] \in 1..MaxAttempts /\ q[2] = attempt
      BY <3>1, SocketTypes DEF SocketsKnown, Current, SubTypeOK
    <3>3. s[2] \in 1..(q[2] - 1) /\ <<q[1], s[2]>> = s
      BY <3>1, <3>2, SocketTypes
    <3> QED
      BY <1>3, <3>1, <3>3 DEF OlderOneClosed
  <2> QED
    BY <2>3, <2>4
<1>11. QuietAfterClose'
  <2> SUFFICES ASSUME phase = "closed", ~cutShort PROVE QuietAfterClose'
    BY <1>1 DEF QuietAfterClose
  <2>1. \A c \in Calls : running[c] = 0
    BY DEF QuietAfterClose
  <2>2. \A q \in Sockets : Current(q) => socket[q] # "connecting"
    BY <2>1 DEF AwaitedSockets, Calls, Callers
  <2>3. \A q \in Sockets : Current(q) /\ socket'[q] = "open" => socket[q] = "open"
    BY <1>3, <2>2
  <2> QED
    BY <1>1, <1>5, <1>9, <2>1, <2>3 DEF QuietAfterClose
<1> QED
  BY <1>2, <1>6, <1>7, <1>8, <1>10, <1>11

\* A failure is one of a socket that has not failed before, and counts at most twice.
LEMMA FailureCounted ==
  ASSUME SocketsInv, NEW s \in Sockets, NEW n \in {1, 2}, NEW to \in {"closing", "closed"},
         socket[s] \in {"connecting", "open"}, Becomes(s, to), RecordFailure(s, n)
  PROVE  /\ FailuresCounted' /\ breaker' \in [Relays -> Breaker]
         /\ failing' \in [Relays -> SUBSET (1..MaxAttempts)]
<1> USE DEF SocketsInv
<1> DEFINE r == s[1]
           count == breaker[r].failures + n
           new == [failures |-> count, open |-> IF count >= Threshold THEN "yes" ELSE breaker[r].open]
<1>1. /\ r \in Relays /\ s[2] \in 1..MaxAttempts /\ s = <<r, s[2]>>
      /\ breaker' = [breaker EXCEPT ![r] = new]
      /\ failing' = [failing EXCEPT ![r] = failing[r] \cup {s[2]}]
  BY SocketTypes DEF RecordFailure
<1>2. /\ breaker[r].failures \in Nat /\ count \in Nat
      /\ breaker[r].open \in {"no", "yes", "over"}
      /\ failing[r] \in SUBSET (1..MaxAttempts)
  BY <1>1 DEF SubTypeOK, Breaker
<1>3. new \in Breaker
  BY <1>2 DEF Breaker
<1>4. /\ breaker' \in [Relays -> Breaker] /\ failing' \in [Relays -> SUBSET (1..MaxAttempts)]
      /\ breaker'[r] = new /\ failing'[r] = failing[r] \cup {s[2]}
      /\ \A q \in Relays \ {r} : breaker'[q] = breaker[q] /\ failing'[q] = failing[q]
  BY <1>1, <1>2, <1>3 DEF SubTypeOK
<1>5. s[2] \notin failing[r]
  BY <1>1 DEF FailuresCounted
<1>6. /\ IsFiniteSet(failing[r]) /\ Cardinality(failing[r]) \in Nat
      /\ Cardinality(failing[r] \cup {s[2]}) = Cardinality(failing[r]) + 1
  <2>1. IsFiniteSet(1..MaxAttempts)
    <3>1. 1 \in Int /\ MaxAttempts \in Int
      BY SocketTypes
    <3> QED
      BY <3>1, FS_Interval
  <2>2. IsFiniteSet(failing[r])
    BY <1>2, <2>1, FS_Subset
  <2> QED
    BY <1>5, <2>2, FS_AddElement, FS_CardinalityType
<1>7. /\ new.failures <= 2 * Cardinality(failing'[r])
      /\ new.open # "no" => new.failures >= Threshold
  <2>1. /\ breaker[r].failures <= 2 * Cardinality(failing[r])
        /\ breaker[r].open # "no" => breaker[r].failures >= Threshold
    BY <1>1 DEF FailuresCounted
  <2> QED
    BY <1>2, <1>4, <1>6, <2>1, SocketTypes
<1>8. /\ socket'[s] = to /\ \A q \in Sockets \ {s} : socket'[q] = socket[q]
  BY DEF Becomes, SubTypeOK
<1>9. ASSUME NEW q \in Relays, NEW k \in failing'[q] PROVE socket'[<<q, k>>] \in {"closing", "closed"}
  <2>1. <<q, k>> \in Sockets /\ (k \in failing[q] \/ <<q, k>> = s)
    BY <1>1, <1>4, SocketTypes
  <2> QED
    BY <1>8, <2>1 DEF FailuresCounted
<1>10. FailuresCounted'
  BY <1>4, <1>7, <1>9 DEF FailuresCounted
<1> QED
  BY <1>4, <1>10

LEMMA SocketStepKeeps ==
  ASSUME SocketsInv, NEW s \in Sockets, SocketStep(s) PROVE SocketsInv'
<1> USE DEF SocketsInv
<1>1. CASE SocketOpens(s)
  <2>1. /\ socket[s] = "connecting" /\ Becomes(s, "open") /\ pending' = pending \ {s}
        /\ opened' = IF Current(s) THEN opened + 1 ELSE opened
        /\ resolved' = resolved \/ Settle(s)
        /\ UNCHANGED <<vars, attempt, entry, cutShort>>
        /\ breaker' = [breaker EXCEPT ![s[1]] = [failures |-> 0, open |-> "no"]]
        /\ failing' = [failing EXCEPT ![s[1]] = {}]
    BY <1>1 DEF SocketOpens, ClearTimeout, RecordSuccess
  <2>2. [failures |-> 0, open |-> "no"] \in Breaker
    BY DEF Breaker
  <2>3. /\ breaker' \in [Relays -> Breaker] /\ failing' \in [Relays -> SUBSET (1..MaxAttempts)]
        /\ s[1] \in Relays /\ breaker'[s[1]] = [failures |-> 0, open |-> "no"] /\ failing'[s[1]] = {}
        /\ \A q \in Relays \ {s[1]} : breaker'[q] = breaker[q] /\ failing'[q] = failing[q]
    BY <2>1, <2>2, SocketTypes DEF SubTypeOK
  <2>4. opened' \in Nat
    BY <2>1 DEF SubTypeOK
  <2>5. FailuresCounted'
    <3>1. ASSUME NEW q \in Relays, NEW k \in failing'[q]
          PROVE  socket'[<<q, k>>] \in {"closing", "closed"}
      <4>1. q # s[1] /\ k \in failing[q] /\ <<q, k>> \in Sockets /\ <<q, k>> # s
        BY <2>3, <3>1, SocketTypes
      <4> QED
        BY <2>1, <4>1 DEF Becomes, SubTypeOK, FailuresCounted
    <3>2. \A q \in Relays : /\ breaker'[q].failures <= 2 * Cardinality(failing'[q])
                            /\ breaker'[q].open # "no" => breaker'[q].failures >= Threshold
      <4> SUFFICES ASSUME NEW q \in Relays
                   PROVE  /\ breaker'[q].failures <= 2 * Cardinality(failing'[q])
                          /\ breaker'[q].open # "no" => breaker'[q].failures >= Threshold
        OBVIOUS
      <4>1. CASE q = s[1]
        <5>1. Cardinality(failing'[q]) = 0
          BY <2>3, <4>1, FS_EmptySet
        <5> QED
          BY <2>3, <4>1, <5>1
      <4>2. CASE q # s[1]
        BY <2>3, <4>2 DEF FailuresCounted
      <4> QED
        BY <4>1, <4>2
    <3> QED
      BY <3>1, <3>2 DEF FailuresCounted
  <2> QED
    BY <2>1, <2>3, <2>4, <2>5, SocketEventKeeps
<1>2. CASE SocketFails(s)
  <2>1. /\ socket[s] = "connecting" /\ Becomes(s, "closed") /\ pending' = pending \ {s}
        /\ RecordFailure(s, 1) /\ Settle(s) /\ DeleteEntry(s)
        /\ UNCHANGED <<vars, attempt, opened, cutShort>>
    BY <1>2 DEF SocketFails, ClearTimeout
  <2>2. /\ FailuresCounted' /\ breaker' \in [Relays -> Breaker]
        /\ failing' \in [Relays -> SUBSET (1..MaxAttempts)]
    BY <2>1, FailureCounted
  <2> QED
    BY <2>1, <2>2, SocketEventKeeps DEF SubTypeOK
<1>3. CASE SubscriptionTimeout(s)
  <2>1. /\ socket[s] = "connecting" /\ Becomes(s, "closed") /\ pending' = pending \ {s}
        /\ RecordFailure(s, 2) /\ Settle(s) /\ DeleteEntry(s)
        /\ UNCHANGED <<vars, attempt, opened, cutShort>>
    BY <1>3 DEF SubscriptionTimeout, ClearTimeout, SocketsKnown
  <2>2. /\ FailuresCounted' /\ breaker' \in [Relays -> Breaker]
        /\ failing' \in [Relays -> SUBSET (1..MaxAttempts)]
    BY <2>1, FailureCounted
  <2> QED
    BY <2>1, <2>2, SocketEventKeeps DEF SubTypeOK
<1>4. CASE SocketErrors(s)
  <2>1. /\ socket[s] = "open" /\ Becomes(s, "closing") /\ RecordFailure(s, 1) /\ Settle(s)
        /\ UNCHANGED <<vars, attempt, pending, opened, entry, cutShort>>
    BY <1>4 DEF SocketErrors
  <2>2. /\ FailuresCounted' /\ breaker' \in [Relays -> Breaker]
        /\ failing' \in [Relays -> SUBSET (1..MaxAttempts)]
    BY <2>1, FailureCounted
  <2> QED
    BY <2>1, <2>2, SocketEventKeeps DEF SubTypeOK
<1>5. CASE SocketCloses(s)
  <2>1. /\ socket[s] \in {"open", "closing"} /\ Becomes(s, "closed") /\ DeleteEntry(s)
        /\ UNCHANGED <<vars, attempt, pending, resolved, opened, breaker, failing, cutShort>>
    BY <1>5 DEF SocketCloses, health
  <2>2. FailuresCounted'
    <3>1. ASSUME NEW q \in Relays, NEW k \in failing[q]
          PROVE  socket'[<<q, k>>] \in {"closing", "closed"}
      <4>1. <<q, k>> \in Sockets /\ socket[<<q, k>>] \in {"closing", "closed"}
        BY SocketTypes DEF SubTypeOK, FailuresCounted
      <4> QED
        BY <2>1, <4>1 DEF Becomes, SubTypeOK
    <3> QED
      BY <2>1, <3>1 DEF FailuresCounted
  <2> QED
    BY <2>1, <2>2, SocketEventKeeps DEF SubTypeOK
<1> QED
  BY <1>1, <1>2, <1>3, <1>4, <1>5 DEF SocketStep

LEMMA SocketsInvKept == SocketsInv /\ [SubNext]_allVars => SocketsInv'
<1> SUFFICES ASSUME SocketsInv, [SubNext]_allVars PROVE SocketsInv'
  OBVIOUS
<1> USE DEF SocketsInv
<1>1. ConnInv'
  BY SubStepsAreSteps, ConnStep
<1>2. CASE SubConnect
  <2>1. /\ OpenSockets /\ phase = "new" /\ phase' = "open"
        /\ running' = [running EXCEPT ![<<"connect", "subscribing">>] = @ + 1]
    BY <1>2 DEF SubConnect, Connect
  <2>2. running'[<<"connect", "subscribing">>] = 1
    BY <2>1 DEF ConnInv, ConnType, Exclusive, Calls
  <2> QED
    BY <1>1, <2>1, <2>2, OpenSocketsKeeps DEF Callers
<1>3. CASE SubReconnectTimer
  <2>1. timers = 1 /\ reconnectTimer /\ phase' = phase
    BY <1>3 DEF SubReconnectTimer, ReconnectTimer, ConnInv, Counted
  <2>2. ~(phase = "closed" /\ ~cutShort)
    BY <2>1 DEF QuietAfterClose
  <2>3. CASE isConnected
    <3>1. running' = running /\ reconnectTimer' = FALSE /\ UNCHANGED subVars
      BY <1>3, <2>3 DEF SubReconnectTimer, ReconnectTimer
    <3>2. UNCHANGED <<attempt, socket, pending, resolved, opened, entry, breaker, failing, cutShort>>
      BY <3>1 DEF subVars, sockets, health
    <3>3. SubTypeOK' /\ SocketsKnown' /\ FailuresCounted'
      BY <3>2 DEF SubTypeOK, SocketsKnown, FailuresCounted
    <3>4. AwaitedSockets' /\ EnteredSockets'
      BY <2>1, <3>1, <3>2 DEF AwaitedSockets, EnteredSockets, Current, OlderOneClosed
    <3>5. QuietAfterClose'
      BY <2>1, <2>2, <3>2 DEF QuietAfterClose
    <3> QED
      BY <1>1, <3>3, <3>4, <3>5 DEF SocketsInv
  <2>4. CASE ~isConnected
    <3>1. OpenSockets /\ running' = [running EXCEPT ![<<"reconnect", "subscribing">>] = @ + 1]
      BY <1>3, <2>4 DEF SubReconnectTimer, ReconnectTimer
    <3>2. running[<<"reconnect", "subscribing">>] = 0 /\ running \in [Calls -> {0, 1}]
      BY <2>1 DEF ConnInv, ConnType, Exclusive, Calls
    <3>3. running'[<<"reconnect", "subscribing">>] = 1
      BY <3>1, <3>2 DEF Calls
    <3> QED
      BY <1>1, <2>1, <2>2, <3>1, <3>3, OpenSocketsKeeps DEF Callers
  <2> QED
    BY <2>3, <2>4
<1>4. CASE SubAnnounced
  <2>1. UNCHANGED <<attempt, socket, pending, resolved, opened, entry, breaker, failing, cutShort>>
    BY <1>4 DEF SubAnnounced, subVars, sockets, health
  <2>2. \/ phase' # "closed" /\ phase # "closed"
        \/ phase' = phase
    BY <1>4 DEF SubAnnounced, Announced, AnnounceFails, SubscribeFails, ConnectFails, ReconnectFails, Close
  <2>3. \A caller \in Callers :
          running'[<<caller, "subscribing">>] = running[<<caller, "subscribing">>]
    BY <1>4 DEF SubAnnounced, Announced, AnnounceFails, SubscribeFails, ConnectFails, ReconnectFails, Close, Return, Goto,
         ConnInv, ConnType, Calls, Callers
  <2>4. CASE phase = "closed" /\ ~cutShort
    <3>1. \A c \in Calls : running[c] = 0
      BY <2>4 DEF QuietAfterClose
    <3> QED
      BY <1>4, <2>4, <3>1 DEF SubAnnounced, Announced, AnnounceFails, SubscribeFails, ConnectFails, ReconnectFails, Close, At, Calls
  <2>5. CASE ~(phase = "closed" /\ ~cutShort)
    BY <1>1, <2>1, <2>2, <2>3, <2>5 DEF SubTypeOK, SocketsKnown, AwaitedSockets, EnteredSockets,
       QuietAfterClose, FailuresCounted, Current, OlderOneClosed
  <2> QED
    BY <2>4, <2>5
<1>5. ASSUME NEW r \in Relays, BreakerTime(r) PROVE SocketsInv'
  <2>1. /\ UNCHANGED <<vars, attempt, socket, pending, resolved, opened, entry, failing, cutShort>>
        /\ breaker[r].open = "yes" /\ breaker' = [breaker EXCEPT ![r].open = "over"]
    BY <1>5 DEF BreakerTime, sockets
  <2>2. /\ breaker' \in [Relays -> Breaker] /\ breaker'[r].failures = breaker[r].failures
        /\ \A q \in Relays \ {r} : breaker'[q] = breaker[q]
    BY <2>1 DEF SubTypeOK, Breaker
  <2>3. FailuresCounted'
    BY <2>1, <2>2 DEF FailuresCounted
  <2> QED
    BY <1>1, <2>1, <2>2, <2>3 DEF vars, connection, SubTypeOK, SocketsKnown, AwaitedSockets,
       EnteredSockets, QuietAfterClose, Current, OlderOneClosed
<1>6. CASE UNCHANGED allVars
  BY <1>1, <1>6 DEF allVars, vars, connection, subVars, sockets, health, SubTypeOK, SocketsKnown,
     AwaitedSockets, EnteredSockets, QuietAfterClose, FailuresCounted, Current, OlderOneClosed
<1>7. ASSUME NEW caller \in Callers, SubSubscribed(caller) PROVE SocketsInv'
  BY <1>1, <1>7, SubSubscribedKeeps
<1>8. CASE SubClosed
  BY <1>1, <1>8, SubClosedKeeps
<1> QED
  BY <1>2, <1>3, <1>4, <1>5, <1>6, <1>7, <1>8, SocketStepKeeps DEF SubNext, Callers

\* The sockets are known as long as the network lives.
LEMMA SocketsInvHolds == SubSpec => []SocketsInv
<1>1. ASSUME SubInit PROVE SocketsInv
  <2>1. ConnInv
    BY <1>1, ConnInit DEF SubInit
  <2>2. /\ attempt = 0 /\ socket = [s \in Sockets |-> "none"] /\ pending = {} /\ resolved = {}
        /\ opened = 0 /\ entry = [r \in Relays |-> 0]
        /\ breaker = [r \in Relays |-> [failures |-> 0, open |-> "no"]]
        /\ failing = [r \in Relays |-> {}] /\ cutShort = FALSE /\ phase = "new"
    BY <1>1 DEF SubInit, Init
  <2>3. SubTypeOK
    <3>1. breaker \in [Relays -> Breaker] /\ entry \in [Relays -> 0..MaxAttempts]
      BY <2>2, SocketTypes DEF Breaker
    <3>4. 0 \in 0..MaxAttempts
      BY SocketTypes
    <3>3. attempt \in 0..MaxAttempts /\ opened \in Nat /\ cutShort \in BOOLEAN
      BY <2>2, <3>4, Zenon
    <3>2. /\ socket \in [Sockets -> {"none", "connecting", "open", "closing", "closed"}]
          /\ failing \in [Relays -> SUBSET (1..MaxAttempts)]
      BY <2>2
    <3> QED
      BY <2>2, <3>1, <3>2, <3>3 DEF SubTypeOK
  <2>4. FailuresCounted
    BY <2>2, FS_EmptySet DEF FailuresCounted
  <2>5. SocketsKnown /\ AwaitedSockets /\ EnteredSockets /\ QuietAfterClose
    BY <2>2 DEF SocketsKnown, AwaitedSockets, EnteredSockets, QuietAfterClose
  <2> QED
    BY <2>1, <2>3, <2>4, <2>5 DEF SocketsInv
<1> QED
  BY <1>1, SocketsInvKept, PTL DEF SubSpec

\* After a close that cut nothing short nothing is heard but over sockets the network no
\* longer knows.
THEOREM ClosedIsSilent == SubSpec => []SilentAfterClose
<1>1. ASSUME SocketsInv PROVE SilentAfterClose
  <2> SUFFICES ASSUME phase = "closed", ~cutShort, NEW s \in Sockets,
                      socket[s] \in {"connecting", "open"}, Current(s)
               PROVE  OlderOneClosed(s)
    BY DEF SilentAfterClose
  <2>1. socket[s] # "connecting"
    BY <1>1 DEF SocketsInv, QuietAfterClose, AwaitedSockets, Calls, Callers
  <2> QED
    BY <1>1, <2>1 DEF SocketsInv, QuietAfterClose
<1> QED
  BY <1>1, SocketsInvHolds, PTL

\* A circuit is open for failures of as many sockets as half the threshold.
THEOREM OpenCircuitsFail == SubSpec => []OpenMeansFailing
<1>1. ASSUME SocketsInv PROVE OpenMeansFailing
  <2> SUFFICES ASSUME NEW r \in Relays, breaker[r].open # "no"
               PROVE  2 * Cardinality(failing[r]) >= Threshold
    BY DEF OpenMeansFailing
  <2>1. breaker[r].failures \in Nat /\ IsFiniteSet(failing[r])
    <3>1. 1 \in Int /\ MaxAttempts \in Int
      BY SocketTypes
    <3>2. IsFiniteSet(1..MaxAttempts) /\ failing[r] \subseteq 1..MaxAttempts
      BY <1>1, <3>1, FS_Interval DEF SocketsInv, SubTypeOK
    <3>3. breaker[r].failures \in Nat
      BY <1>1 DEF SocketsInv, SubTypeOK, Breaker
    <3> QED
      BY <3>2, <3>3, FS_Subset
  <2>2. Cardinality(failing[r]) \in Nat
    BY <2>1, FS_CardinalityType
  <2>3. /\ breaker[r].failures <= 2 * Cardinality(failing[r])
        /\ breaker[r].failures >= Threshold
    BY <1>1 DEF SocketsInv, FailuresCounted
  <2> QED
    BY <2>1, <2>2, <2>3, SocketTypes
<1> QED
  BY <1>1, SocketsInvHolds, PTL

----------------------------------------------------------------------------
(* The statistics of the relay manager. *)

LEMMA RecordsAre ==
  ASSUME NEW S \in SUBSET KnownRelays, NEW f \in [S -> Stats]
  PROVE  f \in Records
  BY DEF Records

LEMMA RecordsHave ==
  ASSUME NEW f \in Records
  PROVE  DOMAIN f \subseteq KnownRelays /\ f \in [DOMAIN f -> Stats]
  BY DEF Records

LEMMA StatsOf ==
  ASSUME NEW s \in Stats
  PROVE  /\ s.success \in 0..MaxCount /\ s.failure \in 0..MaxCount /\ s.healthy \in BOOLEAN
         /\ s = [success |-> s.success, failure |-> s.failure, healthy |-> s.healthy]
  BY DEF Stats

LEMMA CreatedStats == CreateStats \in Stats
  BY RelayManagerAssumption DEF CreateStats, Stats

LEMMA PutRecords ==
  ASSUME relays \in Records, NEW r \in KnownRelays, NEW s \in Stats
  PROVE  Put(r, s) \in Records
  <1>1. DOMAIN relays \subseteq KnownRelays /\ relays \in [DOMAIN relays -> Stats]
    BY RecordsHave
  <1>2. Put(r, s) \in [DOMAIN relays \cup {r} -> Stats]
    BY <1>1 DEF Put
  <1> QED BY <1>1, <1>2, RecordsAre

\* While a save is under way the file is about to be overwritten, and what has changed
\* must be in what is written or wait for the timer.
Covered(r) ==
  \/ statsDirty /\ saveTimer
  \/ Saving /\ Same(saveImage, r)
  \/ ~Saving /\ statsFile \in Records /\ Same(statsFile, r)

StatsInv == RmTypeOK /\ (~overtaken => \A r \in changed : Covered(r))

\* What _saveStats does keeps the types, and covers every record if it starts a save.
LEMMA SaveKeepsType ==
  ASSUME RmTypeOK, NEW records \in Records, NEW isDirty \in BOOLEAN,
         NEW operations \in 0..OperationThreshold, SaveStats(records, isDirty, operations)
  PROVE  /\ saveTimer' \in BOOLEAN /\ statsDirty' \in BOOLEAN /\ overtaken' \in BOOLEAN
         /\ pendingOperations' \in 0..OperationThreshold
         /\ saveImage' \in Records \cup {NoStats}
  <1>a. 0 \in 0..OperationThreshold
    BY RelayManagerAssumption
  <1>1. CASE isDirty /\ ~Saving
    <2>1. /\ saveTimer' = FALSE /\ statsDirty' = FALSE /\ pendingOperations' = 0
          /\ saveImage' = records /\ overtaken' = FALSE
      BY <1>1 DEF SaveStats
    <2> QED BY <1>a, <2>1
  <1>2. CASE ~(isDirty /\ ~Saving)
    <2>1. /\ saveTimer' = FALSE /\ statsDirty' = isDirty /\ pendingOperations' = operations
          /\ saveImage' = saveImage /\ overtaken' = (overtaken \/ isDirty)
      BY <1>2 DEF SaveStats
    <2>2. (overtaken \/ isDirty) \in BOOLEAN
      OBVIOUS
    <2>3. saveImage \in Records \cup {NoStats}
      BY DEF RmTypeOK
    <2> QED BY <2>1, <2>2, <2>3
  <1> QED BY <1>1, <1>2

LEMMA SavesOrIsLate ==
  ASSUME RmTypeOK, NEW records \in Records, NEW operations,
         SaveStats(records, TRUE, operations)
  PROVE  overtaken' \/ saveImage' = records
  BY DEF SaveStats, Saving

LEMMA ChangeKept ==
  ASSUME StatsInv, NEW r \in KnownRelays, NEW records \in Records, Change(r, records)
  PROVE  StatsInv'
  <1>a. /\ OperationThreshold \in Nat \ {0} /\ pendingOperations \in 0..OperationThreshold
        /\ relays' = records /\ changed' = changed \cup {r} /\ statsFile' = statsFile
        /\ loading' = loading /\ NoStats \notin Records
    BY RelayManagerAssumption, StatsFileAssumption DEF StatsInv, RmTypeOK, Change
  <1>1. CASE pendingOperations + 1 >= OperationThreshold
    <2>1. SaveStats(records, TRUE, OperationThreshold)
      BY <1>1 DEF Change, ScheduleSave
    <2>2. OperationThreshold \in 0..OperationThreshold
      BY <1>a
    <2>3. RmTypeOK'
      BY <1>a, <2>1, <2>2, SaveKeepsType DEF StatsInv, RmTypeOK
    <2>4. overtaken' \/ saveImage' = records
      BY <2>1, SavesOrIsLate DEF StatsInv
    <2>5. overtaken' \/ \A s \in changed' : Covered(s)'
      BY <1>a, <2>4 DEF Covered, Saving, Same
    <2> QED BY <2>3, <2>5 DEF StatsInv
  <1>2. CASE ~(pendingOperations + 1 >= OperationThreshold)
    <2>1. /\ pendingOperations' = pendingOperations + 1 /\ statsDirty' = TRUE /\ saveTimer' = TRUE
          /\ saveImage' = saveImage /\ overtaken' = overtaken
      BY <1>2 DEF Change, ScheduleSave
    <2>2. pendingOperations' \in 0..OperationThreshold
      BY <1>a, <1>2, <2>1
    <2>3. RmTypeOK'
      BY <1>a, <2>1, <2>2 DEF StatsInv, RmTypeOK
    <2> QED BY <2>1, <2>3 DEF StatsInv, Covered
  <1> QED BY <1>1, <1>2

LEMMA RecordsKept ==
  ASSUME StatsInv, NEW r \in KnownRelays,
         \/ RecordRelaySuccess(r) \/ RecordRelayFailure(r)
         \/ AddRelay(r) \/ RemoveRelay(r) \/ ResetRelay(r)
  PROVE  StatsInv'
  <1>a. relays \in Records /\ MaxCount \in Nat
    BY RelayManagerAssumption DEF StatsInv, RmTypeOK
  <1>b. DOMAIN relays \subseteq KnownRelays /\ relays \in [DOMAIN relays -> Stats]
    BY <1>a, RecordsHave
  <1>1. CASE RecordRelaySuccess(r)
    <2> DEFINE s == [success |-> relays[r].success + 1, failure |-> relays[r].failure,
                     healthy |-> TRUE]
    <2>1. relays[r] \in Stats /\ relays[r].success < MaxCount /\ Change(r, Put(r, s))
      BY <1>1, <1>b DEF RecordRelaySuccess
    <2>2. s \in Stats
      <3>1. relays[r].success + 1 \in 0..MaxCount /\ relays[r].failure \in 0..MaxCount
        BY <1>a, <2>1, StatsOf
      <3> QED BY <3>1 DEF Stats
    <2> HIDE DEF s
    <2>3. Put(r, s) \in Records
      BY <1>a, <2>2, PutRecords
    <2> QED BY <2>1, <2>3, ChangeKept
  <1>2. CASE RecordRelayFailure(r)
    <2> DEFINE n == relays[r].failure + 1
               s == [success |-> relays[r].success, failure |-> n,
                     healthy |-> relays[r].healthy /\ n <= relays[r].success]
    <2>1. relays[r] \in Stats /\ relays[r].failure < MaxCount /\ Change(r, Put(r, s))
      BY <1>2, <1>b DEF RecordRelayFailure
    <2>2. n \in 0..MaxCount
      BY <1>a, <2>1, StatsOf
    <2>4. s \in Stats
      <3>1. (relays[r].healthy /\ n <= relays[r].success) \in BOOLEAN
        OBVIOUS
      <3>2. relays[r].success \in 0..MaxCount
        BY <2>1, StatsOf
      <3> HIDE DEF n
      <3> QED BY <2>2, <3>1, <3>2 DEF Stats
    <2> HIDE DEF s
    <2>5. Put(r, s) \in Records
      BY <1>a, <2>4, PutRecords
    <2> QED BY <2>1, <2>5, ChangeKept
  <1>3. CASE AddRelay(r) \/ ResetRelay(r)
    <2>1. Put(r, CreateStats) \in Records
      BY <1>a, CreatedStats, PutRecords
    <2> QED BY <1>3, <2>1, ChangeKept DEF AddRelay, ResetRelay
  <1>4. CASE RemoveRelay(r)
    <2> DEFINE rest == Restrict(relays, DOMAIN relays \ {r})
    <2>1. rest \in [DOMAIN relays \ {r} -> Stats]
      BY <1>b DEF Restrict
    <2>2. rest \in Records
      BY <1>b, <2>1, RecordsAre
    <2> HIDE DEF rest
    <2>3. Change(r, rest)
      BY <1>4 DEF RemoveRelay, rest
    <2> QED BY <2>2, <2>3, ChangeKept
  <1> QED BY <1>1, <1>2, <1>3, <1>4

LEMMA LoadKept ==
  ASSUME StatsInv, LoadStats
  PROVE  StatsInv'
  <1>a. /\ relays \in Records /\ statsFile \in Records \cup {NoStats, Truncated}
        /\ changed \subseteq KnownRelays
    BY DEF StatsInv, RmTypeOK
  <1>b. DOMAIN relays \subseteq KnownRelays /\ relays \in [DOMAIN relays -> Stats]
    BY <1>a, RecordsHave
  <1>c. \A r \in Loaded : statsFile[r] \in Stats
    <2>1. CASE statsFile \in {NoStats, Truncated}
      BY <2>1 DEF Loaded
    <2>2. CASE statsFile \in Records
      BY <2>2, RecordsHave DEF Loaded
    <2> QED BY <1>a, <2>1, <2>2
  <1>1. /\ relays' = [r \in DOMAIN relays |-> IF r \in Loaded THEN statsFile[r] ELSE relays[r]]
        /\ changed' = changed \ (Loaded \cap DOMAIN relays) /\ loading' = FALSE
        /\ statsFile' = statsFile /\ statsDirty' = statsDirty /\ saveTimer' = saveTimer
        /\ saveImage' = saveImage /\ overtaken' = overtaken
        /\ pendingOperations' = pendingOperations
    BY DEF LoadStats
  <1>2. relays' \in [DOMAIN relays -> Stats]
    BY <1>b, <1>c, <1>1
  <1>3. relays' \in Records
    BY <1>b, <1>2, RecordsAre
  <1>4. RmTypeOK'
    BY <1>1, <1>3, <1>a DEF StatsInv, RmTypeOK
  <1>5. DOMAIN relays' = DOMAIN relays
    BY <1>1
  <1>6. \A r \in changed' : r \in changed /\ (r \in DOMAIN relays => relays'[r] = relays[r])
    BY <1>1
  <1>7. ASSUME NEW r \in changed', Covered(r) PROVE Covered(r)'
    BY <1>1, <1>5, <1>6, <1>7 DEF Covered, Saving, Same
  <1> QED BY <1>1, <1>4, <1>6, <1>7 DEF StatsInv

LEMMA SavingKept ==
  ASSUME StatsInv, SaveTimerFires \/ FlushStats
  PROVE  StatsInv'
  <1>1. /\ SaveStats(relays, statsDirty, pendingOperations)
        /\ relays' = relays /\ statsFile' = statsFile /\ loading' = loading /\ changed' = changed
    BY DEF SaveTimerFires, FlushStats
  <1>2. RmTypeOK'
    BY <1>1, SaveKeepsType DEF StatsInv, RmTypeOK
  <1>3. ASSUME ~overtaken', NEW r \in changed PROVE Covered(r)'
    <2>1. CASE statsDirty
      <3>1. saveImage' = relays
        BY <1>1, <1>3, <2>1 DEF SaveStats
      <3>2. saveImage' # NoStats
        BY <3>1, StatsFileAssumption DEF StatsInv, RmTypeOK
      <3> QED BY <1>1, <3>1, <3>2 DEF Covered, Saving, Same
    <2>2. CASE ~statsDirty
      <3>1. saveImage' = saveImage /\ statsDirty' = statsDirty /\ overtaken' = (overtaken \/ statsDirty)
        BY <1>1, <2>2 DEF SaveStats
      <3>2. Covered(r)
        BY <1>3, <3>1 DEF StatsInv
      <3> QED BY <1>1, <2>2, <3>1, <3>2 DEF Covered, Saving, Same
    <2> QED BY <2>1, <2>2
  <1> QED BY <1>1, <1>2, <1>3 DEF StatsInv

LEMMA StatsStep == StatsInv /\ [RmNext]_rmVars => StatsInv'
  <1> SUFFICES ASSUME StatsInv, [RmNext]_rmVars PROVE StatsInv'
    OBVIOUS
  <1> USE StatsFileAssumption
  <1>1. CASE LoadStats
    BY <1>1, LoadKept
  <1>2. CASE SaveTimerFires \/ FlushStats
    BY <1>2, SavingKept
  <1>3. CASE CloseManager
    BY <1>3 DEF CloseManager, StatsInv, RmTypeOK, Covered, Saving, Same
  <1>4. CASE SaveTruncates
    BY <1>4 DEF SaveTruncates, StatsInv, RmTypeOK, Covered, Saving, Same
  <1>5. CASE SaveEnds
    BY <1>5 DEF SaveEnds, StatsInv, RmTypeOK, Covered, Saving, Same
  <1>6. CASE StatsSaveFails
    BY <1>6 DEF StatsSaveFails, StatsInv, RmTypeOK
  <1>7. CASE RestartManager
    <2>1. [r \in FirstRelays |-> CreateStats] \in Records
      <3>1. [r \in FirstRelays |-> CreateStats] \in [FirstRelays -> Stats]
        BY CreatedStats
      <3> QED BY <3>1, RelayManagerAssumption, RecordsAre
    <2>2. 0 \in 0..OperationThreshold
      BY RelayManagerAssumption
    <2> QED BY <1>7, <2>1, <2>2 DEF RestartManager, StatsInv, RmTypeOK
  <1>8. ASSUME NEW r \in KnownRelays,
               \/ RecordRelaySuccess(r) \/ RecordRelayFailure(r)
               \/ AddRelay(r) \/ RemoveRelay(r) \/ ResetRelay(r)
        PROVE  StatsInv'
    BY <1>8, RecordsKept
  <1>9. CASE UNCHANGED rmVars
    BY <1>9 DEF rmVars, StatsInv, RmTypeOK, Covered, Saving, Same
  <1> QED BY <1>1, <1>2, <1>3, <1>4, <1>5, <1>6, <1>7, <1>8, <1>9 DEF RmNext

LEMMA StatsInvHolds == RmSpec => []StatsInv
  <1>1. RmInit => StatsInv
    <2> SUFFICES ASSUME RmInit PROVE StatsInv
      OBVIOUS
    <2>1. [r \in FirstRelays |-> CreateStats] \in [FirstRelays -> Stats]
      BY CreatedStats
    <2>2. relays \in Records /\ 0 \in 0..OperationThreshold
      BY <2>1, RelayManagerAssumption, RecordsAre DEF RmInit
    <2> QED BY <2>2 DEF RmInit, StatsInv, RmTypeOK
  <1> QED BY <1>1, StatsStep, PTL DEF RmSpec

\* Every variable keeps its type: the statistics held, in a save and on disk are records
\* of known relays.
THEOREM StatsTypeCorrect == RmSpec => []RmTypeOK
  BY StatsInvHolds, PTL DEF StatsInv

\* The delayed and coalesced saves of the relay manager forget no change.
THEOREM StatsAreSaved == RmSpec => []StatsSaved
  <1>1. StatsInv => StatsSaved
    BY DEF StatsInv, StatsSaved, Covered
  <1> QED BY <1>1, StatsInvHolds, PTL
================================================================================

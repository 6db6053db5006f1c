---------------------------- MODULE MessageBatcher ----------------------------
(***************************************************************************)
(* MessageBatcher of src/src/utils/performance.js: the batch of messages   *)
(* that wait to be published, and the timer that flushes it.  Whoever      *)
(* composes this module decides what becomes of a batch that is flushed    *)
(* (flushCallback).                                                        *)
(***************************************************************************)
EXTENDS Integers, Sequences

CONSTANTS
  Msgs,
  Size,       \* _estimateSize of each message
  MaxSize,    \* maxSize
  MaxBytes    \* maxBytes

ASSUME BatcherAssumption ==
  /\ Size \in [Msgs -> Nat \ {0}]
  /\ MaxSize \in Nat \ {0} /\ MaxBytes \in Nat \ {0}

VARIABLES messages, currentBytes, flushTimer

batcher == <<messages, currentBytes, flushTimer>>

BatcherTypeOK ==
  /\ messages \in Seq(Msgs) /\ Len(messages) <= MaxSize
  /\ currentBytes \in 0..MaxBytes
  /\ flushTimer \in BOOLEAN

BatcherInit == messages = <<>> /\ currentBytes = 0 /\ flushTimer = FALSE

InBatch(m) == \E k \in DOMAIN messages : messages[k] = m

\* The limits that add checks first.
Fits(m) == Len(messages) < MaxSize /\ currentBytes + Size[m] <= MaxBytes

\* Mutant: the batch counts as full only beyond its size.
FullLate(batch, bytes) == Len(batch) > MaxSize \/ bytes >= MaxBytes
Full(batch, bytes) == Len(batch) >= MaxSize \/ bytes >= MaxBytes

\* add succeeds; a batch that is now full starts the timer, again if it runs.
Add(m) ==
  /\ Fits(m)
  /\ messages' = Append(messages, m)
  /\ currentBytes' = currentBytes + Size[m]
  /\ flushTimer' = (flushTimer \/ Full(messages', currentBytes'))

\* What flush leaves in the batcher.
Emptied == messages' = <<>> /\ currentBytes' = 0 /\ flushTimer' = FALSE

\* Mutant: the message that found the batch full is not added after the flush.
AddAfterFlushForgets(m) == ~Fits(m) /\ Emptied

\* add refuses, the caller flushes and adds again; a message larger than a whole
\* batch is refused again, and nobody looks at the answer.
AddAfterFlush(m) ==
  /\ ~Fits(m)
  /\ \/ Size[m] > MaxBytes /\ Emptied
     \/ /\ Size[m] <= MaxBytes
        /\ messages' = <<m>> /\ currentBytes' = Size[m]
        /\ flushTimer' = Full(<<m>>, Size[m])

\* A full batch, and no other, waits for the timer: it is not started again by
\* the messages that no longer fit, nor left running by a flush.
TimerIffFull ==
  flushTimer <=> Len(messages) = MaxSize \/ currentBytes = MaxBytes
=============================================================================

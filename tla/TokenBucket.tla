------------------------------ MODULE TokenBucket ------------------------------
(***************************************************************************)
(* The token bucket of src/src/utils/rate-limiter.js, which the commands   *)
(* share.  It is refilled by a timer and whenever it is used; the timer is *)
(* late as often as it likes.                                              *)
(***************************************************************************)
EXTENDS Integers

CONSTANTS
  Capacity,
  RefillRate,    \* tokens per second
  Second,        \* units of time in a second
  MaxTime        \* bound: how long the bucket is watched

ASSUME TokenBucketAssumption ==
  Capacity \in Nat \ {0} /\ RefillRate \in Nat \ {0} /\ Second \in Nat \ {0} /\ MaxTime \in Nat

VARIABLES
  tokens,        \* this.tokens
  lastRefill,    \* this.lastRefill
  clock,         \* Date.now()
  timerOn,       \* this._timer
  since,         \* history: the time of construction or of the last reset
  granted        \* history: tokens consumed since then

tbVars == <<tokens, lastRefill, clock, timerOn, since, granted>>

TbTypeOK ==
  /\ tokens \in 0..Capacity /\ clock \in 0..MaxTime
  /\ lastRefill \in 0..clock /\ since \in 0..clock
  /\ timerOn \in BOOLEAN /\ granted \in Nat

TbInit ==
  /\ tokens = Capacity /\ lastRefill = 0 /\ clock = 0
  /\ timerOn = TRUE /\ since = 0 /\ granted = 0

TbTick ==
  /\ clock < MaxTime /\ clock' = clock + 1
  /\ UNCHANGED <<tokens, lastRefill, timerOn, since, granted>>

TokensToAdd == ((clock - lastRefill) * RefillRate) \div Second
Least(a, b) == IF a < b THEN a ELSE b

\* Mutant: the time is not taken down.
RefilledAgain == [tokens |-> Least(Capacity, tokens + TokensToAdd), last |-> lastRefill]

\* _refill: the fraction of a token that has come together is dropped.
Refilled ==
  IF TokensToAdd > 0
  THEN [tokens |-> Least(Capacity, tokens + TokensToAdd), last |-> clock]
  ELSE [tokens |-> tokens, last |-> lastRefill]

\* tryConsume; with count 0 it is the timer's _refill, or available.
TryConsume(count) ==
  /\ lastRefill' = Refilled.last
  /\ tokens' = IF Refilled.tokens >= count THEN Refilled.tokens - count ELSE Refilled.tokens
  /\ granted' = granted + Refilled.tokens - tokens'
  /\ UNCHANGED <<clock, timerOn, since>>

\* reset
ResetBucket ==
  /\ tokens' = Capacity /\ lastRefill' = clock
  /\ since' = clock /\ granted' = 0
  /\ UNCHANGED <<clock, timerOn>>

StopTimer == timerOn /\ timerOn' = FALSE /\ UNCHANGED <<tokens, lastRefill, clock, since, granted>>

TbNext ==
  \/ TbTick \/ ResetBucket \/ StopTimer
  \/ \E count \in 0..(Capacity + 1) : TryConsume(count)

TbSpec == TbInit /\ [][TbNext]_tbVars

----------------------------------------------------------------------------
(* Properties. *)

\* What has been granted since the bucket was last full, with what could be granted
\* now, never exceeds the capacity and what the rate allows for that time, however
\* often the bucket is refilled and at whatever fractions of a token.
BucketBounds ==
  (granted + tokens - Capacity) * Second <= (clock - since) * RefillRate
=============================================================================

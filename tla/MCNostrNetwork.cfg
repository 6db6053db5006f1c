SPECIFICATION FairSpec
CONSTANTS
  m1 = m1
  m2 = m2
  big = big
  huge = huge
  Msgs = {m1, m2, big, huge}
  Size <- MCSize
  MaxSize = 2
  MaxBytes = 3
  AutoReconnect = TRUE
  MaxRetryCount = 2
CHECK_DEADLOCK FALSE
INVARIANTS Accounted SingleAttempt
PROPERTIES FullBatchLeaves Reconnects

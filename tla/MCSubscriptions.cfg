SPECIFICATION SubSpec
CONSTANTS
  Msgs = {}
  Size <- MCSize
  MaxSize = 1
  MaxBytes = 1
  AutoReconnect = TRUE
  MaxRetryCount = 2
  Relays = {r1, r2}
  Threshold = 5
  MaxAttempts = 3
CHECK_DEADLOCK FALSE
INVARIANTS SilentAfterClose OpenMeansFailing

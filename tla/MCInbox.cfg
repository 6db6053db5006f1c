CONSTANTS
  a = a
  b = b
  g1 = g1
  g2 = g2
  d1 = d1
  Senders = {a, b}
  GroupMsgs = {g1, g2}
  DirectMsgs = {d1}
  From <- MCFrom
  Stamp <- MCStamp
  EventTTL = 2
  Tolerance = 1
  Window = 2
  MaxPerKey = 1
  CleanupEvery = 1
  NonceSize = 1
  DedupSize = 1
  MaxLines = 1
  MaxKeep = 1
  MaxNow = 3
  MaxArrivals = 3
  MaxSaves = 2
  MaxRestarts = 1
SPECIFICATION Spec
INVARIANTS
  RateBound
  RepeatsNeedEviction
  RepeatsAreSoon
CHECK_DEADLOCK FALSE

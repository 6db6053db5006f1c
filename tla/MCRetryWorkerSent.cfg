CONSTANTS
  Keys = {k1, k2}
  Ids = {m1}
  NoId = NoId
  Loaders = {imp}
  Importer = imp
  MaxQueueSize = 1
  RetryCount = 2
  RetryDelay = 1
  Backoff = 2
  TTL = 2
  MaxChanges = 4
  Calls = {c1, c2}
  MaxSent = 1
SPECIFICATION WSpec
INVARIANT SentMeansRemoved
CHECK_DEADLOCK FALSE

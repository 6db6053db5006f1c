CONSTANTS
  Keys = {k1, k2}
  Ids = {m1, m2}
  NoId = NoId
  Loaders = {imp}
  Importer = imp
  MaxQueueSize = 1
  RetryCount = 2
  RetryDelay = 1
  Backoff = 2
  TTL = 2
  MaxChanges = 3
  Calls = {c1}
  MaxSent = 1
SPECIFICATION WSpec
SYMMETRY Symmetry
INVARIANT OkMeansSent
PROPERTIES
  NoSilentLoss

CONSTANTS
  Keys = {k1, k2, k3}
  Ids = {m1}
  NoId = NoId
  Loaders = {imp, cal}
  Importer = imp
  MaxQueueSize = 2
  RetryCount = 3
  RetryDelay = 1
  Backoff = 2
  TTL = 2
  MaxChanges = 4
SPECIFICATION Spec
SYMMETRY Symmetry
INVARIANTS
  SizeBound
  ChangesCovered
PROPERTY WriteBehindSpec

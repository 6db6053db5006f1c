\* Which relays are excluded, which are offered, and what becomes of a file.
CONSTANTS
  r1 = r1
  y1 = y1
  y2 = y2
  q1 = q1
  q2 = q2
  w1 = w1
  w2 = w2
  w3 = w3
  \* EnhancedRelays
  Relays = {r1}
  Initial = {r1}
  Threshold = 2
  RecoverAfter = 2
  \* RelayScores
  RelayOrder <- MCRelayOrder
  Latencies = {0, 6000}
  BlacklistAfter = 5
  RecoverySuccesses = 2
  MultiPathCount = 1
  MaxOperations = 6
  \* JsonFiles
  FileProcs = {q1, q2}
  FileCalls = {w1, w2, w3}
  ProcOf <- MCProcOf
  Lines = {n1, n2}
  MaxFileCalls = 1
SPECIFICATION MCSpec
INVARIANTS FailingExcluded BestOffered FilesWhole
PROPERTIES BlacklistSurvives RecoveryEarned
CHECK_DEADLOCK FALSE

CONSTANTS
  Workers = {w1, w2}
  Callers = {c1, c2}
  None = None
  Half = Half
SPECIFICATION Spec
INVARIANTS
  OneWorker
  Findable
PROPERTIES
  StopEnds
  SignalledEnds

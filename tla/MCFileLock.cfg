CONSTANTS
  Procs = {p1, p2, p3}
  NoPid = NoPid
  NoDir = NoDir
SPECIFICATION FairSpec
INVARIANT ExclusionUnlessBroken
PROPERTY LeftoverRemoved
CHECK_DEADLOCK FALSE

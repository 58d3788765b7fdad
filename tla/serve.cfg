SPECIFICATION FairSpec
CONSTANTS
  Run = {r1, r2}
  None = None
INVARIANTS CleanStop OwnContainer
PROPERTY StopEnds
CHECK_DEADLOCK FALSE

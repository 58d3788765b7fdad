CONSTANTS
  c1 = c1
  c2 = c2
  c3 = c3
  None = None
  Client = {c1, c2}
  Script <- LimitScript
  ReadRegion = 3
  WriteRegion = 3
  MaxPipeline = 2
  HasRegistry = FALSE
  SlotCount = 1
  RingEntries = 3
  GenMod = 1
  Fd = {1, 2, 3}
  AcceptFaults = TRUE
SPECIFICATION FairSpec
INVARIANTS ArmedOnce ResourcePartition
PROPERTIES Accepted Reclaimed

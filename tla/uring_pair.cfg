CONSTANTS
  c1 = c1
  c2 = c2
  c3 = c3
  None = None
  Client = {c1, c2}
  Script <- AsyncScript
  ReadRegion = 3
  WriteRegion = 2
  MaxPipeline = 2
  HasRegistry = TRUE
  SlotCount = 2
  RingEntries = 4
  GenMod = 1
  Fd = {1, 2, 3}
  AcceptFaults = FALSE
SPECIFICATION Spec
INVARIANTS OwnOperation CompletionOwner NoLostWakeup SqFits

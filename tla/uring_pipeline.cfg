CONSTANTS
  c1 = c1
  c2 = c2
  c3 = c3
  None = None
  Client = {c1, c2}
  Script <- PipelineScript
  ReadRegion = 3
  WriteRegion = 3
  MaxPipeline = 2
  HasRegistry = TRUE
  SlotCount = 1
  RingEntries = 3
  GenMod = 2
  Fd = {1, 2, 3}
  AcceptFaults = FALSE
SPECIFICATION FairSpec
INVARIANTS Ledger RegionsRespected
PROPERTIES ImplementsService Served

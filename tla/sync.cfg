SPECIFICATION FairSpec
CONSTANTS
  c1 = c1
  c2 = c2
  Worker = {w1, w2}
  Client = {c1, c2}
  Scripts <- MCScripts
  Modes = {"manifest", "benchmark"}
  MaxTime = 1
  Null = Null
INVARIANTS OneEach LabelTruthful DateOrder
PROPERTIES Served
\* Each client connects once.
CHECK_DEADLOCK FALSE

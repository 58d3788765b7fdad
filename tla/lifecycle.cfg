SPECIFICATION FairSpec
CONSTANTS
  MaxStarts = 2
  MaxCloses = 3
  Strangers = TRUE
INVARIANTS Owned Closed Truthful
PROPERTIES Answered CloseEnds
\* The caller calls listen and close so many times.
CHECK_DEADLOCK FALSE

SPECIFICATION FairSpec
CONSTANTS
  MaxHooks = 2
  MaxCalls = 2
  ErrorStatuses = {304, 400}
  ShapeStatuses = {205}
  Null = Null
INVARIANTS InOrder Outcome AppliedOnce ParsersTruthful
PROPERTIES Settles
\* One request.
CHECK_DEADLOCK FALSE

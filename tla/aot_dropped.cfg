SPECIFICATION Spec
CONSTANTS
  Sessions <- MCSessions
  Sanitized <- MCSanitized
  Compile <- Discover
  CargoAccepts <- CompilesInRust
  Columns <- MCColumns
  Hash <- MCHash
  Requests <- MCRequests
  Rows <- MCRows
  TemplateRequests <- MCTemplateRequests
  Alphabet <- MCAlphabet
INVARIANT ComplexConditionFails
CHECK_DEADLOCK FALSE

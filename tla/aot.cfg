SPECIFICATION Spec
CONSTANTS
  Sessions <- MCSessions
  Sanitized <- MCSanitized
  Compile <- Discover
  CargoAccepts <- CompilesInRust
  Columns <- MCColumns
  Hash <- MCHash
  Requests <- MCRequests
  Rows <- MCRows
  TemplateRequests <- MCTemplateRequests
  Alphabet <- MCAlphabet
INVARIANTS CompiledAnswers AsyncAnswers TemplatesAgree NamesResolve BinaryCurrent
CHECK_DEADLOCK FALSE

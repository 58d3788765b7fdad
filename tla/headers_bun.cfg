SPECIFICATION Spec
CONSTANTS
  Features <- MCFeatures
  Registrable <- MCRegistrable
  Runtimes = {"bun"}
  MaxUses = 2
  Null = Null
  NoRoute = NoRoute
INVARIANTS SecurityHeadersGlobal

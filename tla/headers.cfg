SPECIFICATION Spec
CONSTANTS
  Features <- MCFeatures
  Registrable <- MCRegistrable
  Runtimes = {"node", "bun", "rust"}
  MaxUses = 2
  Null = Null
  NoRoute = NoRoute
INVARIANTS NodeExact BunComplete PreflightConfigured

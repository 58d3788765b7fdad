SPECIFICATION Spec
CONSTANTS
  Registrable <- MCRegistrable
  Targets <- MCTargets
  Methods = {"GET", "HEAD"}
  Keys = {"x", "y"}
  Forms <- MCForms
  Colons <- MCColons
  MaxRoutes = 3
INVARIANTS RoutesByPrecedence ParamsBound TablesAgree
\* An app registers so many routes and listens once.
CHECK_DEADLOCK FALSE

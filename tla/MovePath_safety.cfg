SPECIFICATION Spec
CONSTANTS
  None = None
  Dir = Dir
  Requests = {i1, i2}
  Paths <- MCPaths
  Trees <- MCTrees
  Ask <- MCAsk
SYMMETRY Symmetry
INVARIANT AloneIsExact
PROPERTY LossAtDestination
CHECK_DEADLOCK FALSE

SPECIFICATION Spec
CONSTANTS
  None = None
  Dir = Dir
  Requests = {i1}
  Paths <- MCPaths
  Trees <- MCTrees
  Ask <- MCAsk
INVARIANT NoopIsNoop
CHECK_DEADLOCK FALSE

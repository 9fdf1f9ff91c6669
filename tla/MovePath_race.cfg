SPECIFICATION Spec
CONSTANTS
  None = None
  Dir = Dir
  Requests = {i1, i2}
  Paths <- MCPaths
  Trees <- MCTrees
  Ask <- MCAsk
PROPERTY RaceRefused
CHECK_DEADLOCK FALSE

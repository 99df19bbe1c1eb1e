CONSTANTS
  etc = etc
  tmp = tmp
  Ino = {0, 1, 2}
  Names <- MCNames
  Paths <- MCPaths
SPECIFICATION FairSpec
INVARIANTS
  TypeOK
  WalkResolves
PROPERTIES
  WalkReturns
CHECK_DEADLOCK FALSE

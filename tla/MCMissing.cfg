CONSTANTS
  etc = etc
  tmp = tmp
  Ino = {0, 1, 2}
  Names <- MCNames
  Paths <- MCPaths
SPECIFICATION Spec
INVARIANT MissingIsMissing
CHECK_DEADLOCK FALSE

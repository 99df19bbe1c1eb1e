CONSTANTS
  TotalBlocks = 8
  NInodes = 4
  DataBlocks = 4
  BlockUnits = 4
  MaxExtents = 2
  etc = etc
  tmp = tmp
  NoName = NoName
  Names <- MCNames
  Payload <- MCText
  Sizes = {1, 8}
  MaxFree = 4
SPECIFICATION Spec
PROPERTY ClearsOwnBlocks
CHECK_DEADLOCK FALSE

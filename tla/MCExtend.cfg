CONSTANTS
  TotalBlocks = 7
  NInodes = 3
  DataBlocks = 3
  BlockUnits = 4
  MaxExtents = 2
  etc = etc
  tmp = tmp
  NoName = NoName
  Names <- MCNames
  Payload <- MCNoPayload
  Sizes = {4, 8}
  MaxFree = 4
SPECIFICATION Spec
PROPERTY ExtendsWithZeros
CHECK_DEADLOCK FALSE

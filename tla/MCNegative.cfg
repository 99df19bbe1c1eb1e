CONSTANTS
  TotalBlocks = 7
  NInodes = 3
  DataBlocks = 3
  BlockUnits = 4
  MaxExtents = 2
  etc = etc
  tmp = tmp
  NoName = NoName
  Names <- MCNames
  Payload <- MCNoPayload
  Sizes = {2, 3}
  MaxFree = 4
SPECIFICATION Spec
INVARIANT StaysInImage
CHECK_DEADLOCK FALSE

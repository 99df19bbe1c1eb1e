CONSTANTS
  TotalBlocks = 7
  NInodes = 3
  DataBlocks = 3
  BlockUnits = 4
  MaxExtents = 2
  etc = etc
  tmp = tmp
  NoName = NoName
  Names <- MCNames
  Payload <- MCNoPayload
  Sizes = {0, 1, 2, 4, 5}
  MaxFree = 4
SPECIFICATION Spec
PROPERTY AddsFreeBlocks
CHECK_DEADLOCK FALSE

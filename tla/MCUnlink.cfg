CONSTANTS
  TotalBlocks = 8
  NInodes = 3
  DataBlocks = 4
  BlockUnits = 2
  MaxExtents = 2
  etc = etc
  tmp = tmp
  NoName = NoName
  Names <- MCNames
  Payload <- MCNoPayload
  Sizes = {0, 1, 3}
  MaxFree = 4
SPECIFICATION Spec
PROPERTY UnlinkIsWhole
CHECK_DEADLOCK FALSE

CONSTANTS
  TotalBlocks = 7
  NInodes = 4
  DataBlocks = 3
  BlockUnits = 2
  MaxExtents = 1
  etc = etc
  tmp = tmp
  NoName = NoName
  Names <- MCNames
  Payload <- MCNoPayload
  Sizes = {0, 2, 3}
  MaxFree = 4
SPECIFICATION SpecOrderly
INVARIANT FreeNeverOverstated
CHECK_DEADLOCK FALSE

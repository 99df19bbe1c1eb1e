CONSTANTS
  TotalBlocks = 7
  NInodes = 4
  DataBlocks = 3
  BlockUnits = 2
  MaxExtents = 1
  etc = etc
  tmp = tmp
  NoName = NoName
  Names <- MCNames
  Payload <- MCPayload
  Sizes = {0, 2, 3}
  MaxFree = 5
SPECIFICATION SpecOrderly
INVARIANT StaysInImage
CHECK_DEADLOCK FALSE

CONSTANTS
  TotalBlocks = 7
  NInodes = 4
  DataBlocks = 3
  BlockUnits = 1
  MaxExtents = 2
  etc = etc
  tmp = tmp
  NoName = NoName
  Names <- MCNames
  Payload <- MCNoPayload
  Sizes = {0, 2}
  MaxFree = 4
SPECIFICATION FairSpec
PROPERTY SpinReturns
CHECK_DEADLOCK FALSE

CONSTANTS
  TotalBlocks = 7
  NInodes = 3
  DataBlocks = 3
  BlockUnits = 4
  MaxExtents = 2
  etc = etc
  tmp = tmp
  NoName = NoName
  Names <- MCNames
  Payload <- MCText
  Sizes = {1, 2, 5}
  MaxFree = 4
SPECIFICATION Spec
SYMMETRY MCSymmetry
INVARIANTS
  TypeOK
  InodeAccounting
  InsideImage
PROPERTY GrowthKeepsContents
CHECK_DEADLOCK FALSE

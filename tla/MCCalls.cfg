CONSTANTS
  TotalBlocks = 7
  NInodes = 4
  DataBlocks = 3
  BlockUnits = 3
  MaxExtents = 1
  etc = etc
  tmp = tmp
  NoName = NoName
  Names <- MCNames
  Payload <- MCText
  Sizes = {0, 1, 2, 4}
  MaxFree = 2
SPECIFICATION CallsSpec
VIEW MCView
SYMMETRY MCSymmetry
INVARIANTS
  CallsTypeOK
  SmallOffsetsFound
PROPERTIES
  LostOnlyWhenFull
  WritesLand
  ImplementsNamespace
CHECK_DEADLOCK FALSE

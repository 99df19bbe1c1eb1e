CONSTANTS
  TotalBlocks = 7
  NInodes = 4
  DataBlocks = 3
  BlockUnits = 2
  MaxExtents = 1
  etc = etc
  tmp = tmp
  NoName = NoName
  Names <- MCNames
  Payload <- MCPayload
  Sizes = {0, 2, 3}
  MaxFree = 4
SPECIFICATION SpecOrderly
INVARIANTS
  ExclusiveBlocks
  NoDangling
  EntryCount
  Unshadowed
  SizeFits
  FreeNeverUnderstated
  GhostsFromFiles
PROPERTIES
  EntriesPersist
  OneWriter
  OnlyRmdirLeaks
CHECK_DEADLOCK FALSE

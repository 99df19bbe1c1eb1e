CONSTANTS
  TotalBlocks = 7
  NInodes = 3
  DataBlocks = 3
  BlockUnits = 2
  MaxExtents = 1
  MaxKills = 2
  MaxBefore = 1
  etc = etc
  tmp = tmp
  NoName = NoName
  Names <- MCNames
  Payload = {}
  Sizes = {0, 3}
  MaxFree = 3
SPECIFICATION CrashSpec
SYMMETRY MCSymmetry
INVARIANTS
  InodeDrift
  FreeDrift
  NamesSurvive
  BlocksSurvive
PROPERTY WholeCallsAgree
CHECK_DEADLOCK FALSE

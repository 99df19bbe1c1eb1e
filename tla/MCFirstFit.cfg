CONSTANT TotalBlocks = 6
SPECIFICATION FairSpec
INVARIANT TypeOK
INVARIANT ScanCorrect
PROPERTY ScanReturns
CHECK_DEADLOCK FALSE

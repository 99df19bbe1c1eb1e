CONSTANTS
  Total = 7
  BitsPerBlock = 2
  InodeSize = 4
  InodesPerBlock = 2
  Byte = 8
  Counts = {1, 4, 5}
  Noise <- MCNoise
  NoiseBits = {0, 2}
SPECIFICATION Spec
INVARIANT ForceOverwrites

CONSTANTS
  ByteBits = 2
  Slots = 2
  HeadW = 4
  Late = 1
  BurstMax = 2
  Overhead = 1
  ModeLen = 1
  RamCap = 4
  MaxBits = 7
  MaxStops = 1
SPECIFICATION FairSpec
INVARIANTS
  ClockedInv
  PauseSeparates
PROPERTIES
  LastBitsDelivered

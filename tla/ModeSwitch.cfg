CONSTANTS
  LineMax = 1
  TxCap = 4
  RamCap = 4
  MaxFlips = 3
  MaxData = 2
  MaxNoise = 1
SPECIFICATION FairSpec
INVARIANT ModeInv
PROPERTIES
  SeamSeparates
  ConfirmedMeansSwitched
  EventuallyAgree

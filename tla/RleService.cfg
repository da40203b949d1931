CONSTANTS
  RamCap = 2
  TxCap = 3
  Burst = 2
  PumpEvery = 2
  CapIdle = 2
  ModeLen = 2
  MaxRec = 3
  MaxDrop = 1
  MaxOverrun = 1
  MaxSkip = 1
  MaxSwitch = 1
SPECIFICATION FairSpec
INVARIANTS
  ServiceInv
PROPERTIES
  NothingMissingInFrame
  HeartbeatBetweenFrames
  DropEventuallyMarked
  LastFrameClosed

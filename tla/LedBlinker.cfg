SPECIFICATION LedSpec
CONSTANTS
  Period = 3
  MillisMod = 8
  MicrosMod = 8
  MaxCall = 2
  QueueSize = 1
  MinTimeOff = 1
  On = {0, 2, 4, 7}
  Off = {0, 3}
  MaxGap = 3
INVARIANT LedInv
PROPERTY BlinksAsAsked

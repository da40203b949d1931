CONSTANTS
  LineMax = 1
  TxCap = 4
  RamCap = 4
  MaxFlips = 2
  MaxData = 0
  MaxNoise = 2
SPECIFICATION Spec
PROPERTY NoiseNeverSwitches

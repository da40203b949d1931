CONSTANTS
  Slots = 3
  HeadW = 8
  Late = 2
  RamCap = 3
  MaxRec = 11
  MaxSwitch = 1
SPECIFICATION Spec
INVARIANTS
  DrainInv
  NothingVanishes
PROPERTIES
  CaptureOrder
CHECK_DEADLOCK FALSE

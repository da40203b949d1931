SPECIFICATION HostSpec
CONSTANTS
  Bytes = 8
  Bracket = 3
  Printable = {2, 3}
  Data = {2, 7}
  RingCap = 10
  Chunks = {1}
  MaxData = 2
  MaxEvents = 5
  MaxSeams = 1
INVARIANTS StreamInv BurstsStitched CobsExact
CHECK_DEADLOCK FALSE

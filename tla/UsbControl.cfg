SPECIFICATION ControlFairSpec
CONSTANTS
  Ep0Size = 3
  DeviceLen = 1
  ConfigLen = 4
  LineLen = 2
  Lengths = {0, 1, 3, 4, 5}
  Fields = {1, 2}
  Extra = {"setLineCoding", "getLineCoding", "getConfiguration", "getStatus", "getConfig", "sendBreak", "badDescriptor", "vendor"}
  MaxExtra = 2
  MaxLost = 2
  MaxAborts = 1
  MaxResets = 1
INVARIANTS ControlInv ReadsExact
PROPERTIES EnumerationCompletes

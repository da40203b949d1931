CONSTANTS
  Packet = 2
  TxCap = 3
  RxCap = 2
  Requests = {"dtrOn", "haltIn", "haltOut", "clearHaltIn", "clearHaltOut"}
  MaxOut = 3
  MaxIn = 4
  MaxRequests = 1
  MaxLost = 1
  MaxResets = 1
SPECIFICATION FairSpec
INVARIANTS
  UsbInv
PROPERTIES
  HostStreamExact
  EverythingSent

CONSTANTS
  LineMax = 2
  PrintRegs = 2
  PacketMax = 1
  MaxWords = 6
  MaxOpens = 1
SPECIFICATION BridgeFairSpec
INVARIANTS
  CommandsWhole
  BridgeInv
PROPERTIES
  PrintsEveryRegister
  EverythingAnswered

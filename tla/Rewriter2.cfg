CONSTANTS
  XMMs <- XMMRegs
  Scratch <- ScratchWords
  LiveOutOrders <- AllOrders
  BigPointers = {TRUE, FALSE}
  GetClients <- GetattrClients
  SetClients <- SetattrClients
SPECIFICATION Spec
INVARIANTS AbortsOnlyRestoring LocationsHoldValues RegistersKept

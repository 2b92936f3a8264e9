CONSTANTS
  m1 = m1
  m2 = m2
  u1 = u1
  u2 = u2
  NoThread = NoThread
  Mappers = {m1}
  Users = {u1, u2}
  Wanted <- MCWanted
  NodeStride = 3
  CURRENT_NODE = 0
  TableSize = 2
  MaxMmaps = 1
  RegSlots = 2
  LowSpan = 2
  AddressRegisters <- MCAddressRegisters
  AccelRegisters <- MCAccelRegisters
  Structs <- MCStructs
  Commands <- BothSetUp
SPECIFICATION Spec
INVARIANT SetUpDone

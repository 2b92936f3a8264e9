CONSTANTS
  p1 = p1
  p2 = p2
  Procs <- MCProcs
  Wanted <- MCWanted
  NodeStride = 3
  CURRENT_NODE = 1
  TableSize = 2
  MaxOpen = 1
  MaxAllocations = 3
  MaxMapped = 2
  Accels = {0}
  VecLen = 4
  Offsets <- MCOffsets
  LowSpan = 2
  RegisterLists <- MCRegisterLists
  SetupLists <- MCSetupLists
SYMMETRY ProcSymmetry
SPECIFICATION Spec

INVARIANT SetUpBeforeLists

CONSTANTS
  p1 = p1
  p2 = p2
  Procs <- MCProcs
  Wanted <- MCWanted
  NodeStride = 3
  CURRENT_NODE = 0
  TableSize = 3
  MaxOpen = 2
  MaxAllocations = 4
  MaxMapped = 1
  Accels = {0}
  VecLen = 2
  Offsets <- MCOffsets
  LowSpan = 1
  RegisterLists <- MCRegisterLists
  SetupLists = {}
SYMMETRY ProcSymmetry
SPECIFICATION Spec
INVARIANTS TableFilled TranslationUnique FlagMatchesTable QuiescentClean
PROPERTY AppendOnly

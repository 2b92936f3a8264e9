CONSTANTS
  Procs = {p1, p2}
  MaxPages = 3
  Builds = {"main2_06_10", "backup"}
  Wanted <- MCWanted
  CURRENT_NODE = 5
  SlotCount = 2
  Frames = {1, 2}
  NodeStride = 1
SPECIFICATION Spec
SYMMETRY Symmetry
INVARIANTS TypeOK MappedBufferAllocated LeadsToAsked

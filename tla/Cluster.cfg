CONSTANTS
  Nodes = {0, 3}
  Regions = {0, 1}
  Served = {0, 1}
  Values = {v0, v1}
  HostName <- MCHostName
  NodeStride = 3
  MaxMapped = 2
SPECIFICATION Spec
INVARIANTS TypeOK RemoteMatchesLocal
PROPERTY ImplementsGlobalMemory

CONSTANTS
  NodeStride = 3
  Addresses <- MCAddresses
  FieldSets <- MCFieldSets
  OnStack <- MCOnStack
SPECIFICATION Spec
INVARIANTS TypeOK LayoutKept DriverWordsGenerated FieldsApart
\* main returns after its last line.
CHECK_DEADLOCK FALSE

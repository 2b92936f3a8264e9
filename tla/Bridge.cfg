CONSTANTS
  t1 = t1
  t2 = t2
  t3 = t3
  Threads = {t1, t2, t3}
  AddressSpace <- OneProcess
  Slots = {0, 1}
  Width = 2
  Data <- MCData
  Calls <- MCCalls
  InitialTables <- MCTables
  NoCall = NoCall
  Nobody = Nobody
SPECIFICATION Spec
INVARIANT TypeOK ServedOnReturn
PROPERTY ImplementsTlb

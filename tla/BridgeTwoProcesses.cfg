CONSTANTS
  t1 = t1
  t2 = t2
  t3 = t3
  Threads = {t1, t2}
  AddressSpace <- TwoProcesses
  Slots = {0, 1}
  Width = 1
  Data <- FromData
  Calls <- FromCalls
  InitialTables <- FromTables
  NoCall = NoCall
  Nobody = Nobody
SPECIFICATION Spec
INVARIANT ServedOnReturn

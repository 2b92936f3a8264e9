------------------------- MODULE UnimemDriverProofs -------------------------
(***************************************************************************)
(* Theorems about UnimemDriver that hold for every number of processes,    *)
(* every set of requests and every size of the tables: its types, and the  *)
(* translation table (the two arrays, their length and the flag of the     *)
(* FPGA's DRAM), which every session of the device shares.                 *)
(***************************************************************************)
EXTENDS UnimemDriver, TLAPS

-----------------------------------------------------------------------------
(* Lemmas about the requests and the arithmetic of the registers. *)

\* What a request of an application looks like: its page is one of the GVA
\* pages, and never zero, which is how the table marks an empty entry.
LEMMA RequestFacts ==
  ASSUME NEW r \in Requests
  PROVE  /\ r.node \in Nat /\ r.region \in Nat
         /\ r.base_addr \in GvaPages /\ r.base_addr \in Nat /\ r.base_addr # 0
         /\ <<r.node, r.region>> \in Wanted
         /\ r.base_addr = GVA(r.node, r.region)
         /\ r # NoRequest
<1>1. PICK w \in Wanted : r = Request(w[1], w[2])
  BY DEF Requests
<1>2. w \in Nat \X Nat /\ NodeStride \in Nat
  BY <1>1, DriverAssumption, NodeStrideAssumption
<1>3. w = <<w[1], w[2]>> /\ w[1] \in Nat /\ w[2] \in Nat
  BY <1>2
<1>4. r.node = w[1] /\ r.region = w[2] /\ r.base_addr = GVA(w[1], w[2])
  BY <1>1 DEF Request
<1>5. NodeStride * w[1] \in Nat
  BY <1>2, <1>3
<1>6. GVA(w[1], w[2]) \in Nat /\ GVA(w[1], w[2]) # 0
  BY <1>3, <1>5 DEF GVA, GvasBase
<1>7. GVA(w[1], w[2]) \in GvaPages
  BY DEF GvaPages
<1>8. r # NoRequest
  BY <1>4, <1>6 DEF NoRequest
<1> QED
  BY <1>3, <1>4, <1>6, <1>7, <1>8

\* What a page leads to is determined by the request it was mapped for.
LEMMA TargetOfRequest ==
  ASSUME NEW r \in Requests
  PROVE  Target(CURRENT_NODE, r.node, r.region) \in Targets
<1>1. <<r.node, r.region>> \in Wanted
  BY RequestFacts
<1> QED
  BY <1>1 DEF Targets

\* What one register of an ACC_SETUP call writes is a number.
LEMMA WrittenTyped ==
  ASSUME TypeOK, NEW a \in Accels, NEW regs \in SetupLists,
         NEW w \in Words, NEW i \in 1..Len(regs), IsLastWriter(i, a, regs, w)
  PROVE  Written(a, regs[i], w) \in Nat
<1> DEFINE Register == [offset : Offsets, data : Nat]
<1>1. regs[i] \in Register
  <2>1. regs \in Seq(Register)
    BY DriverAssumption
  <2> HIDE DEF Register
  <2> QED
    BY <2>1
<1>2. regs[i].data \in Nat /\ LowSpan \in Nat \ {0}
  BY <1>1, DriverAssumption
<1>3. LowWord(regs[i].data) \in Nat
  BY <1>2 DEF LowWord
<1>4. regs[i].data % LowSpan \in Nat
  BY <1>2
<1>5. CASE IsAddressRegister(a, regs[i].offset)
  <2>1. Translatable(regs[i].data)
    BY <1>5 DEF IsLastWriter, Writes
  <2>2. Translation(regs[i].data) \in Nat
    BY <2>1 DEF Translatable, Translation, TypeOK
  <2>3. KeptPage(Translation(regs[i].data)) \div 4 \in Nat
    BY <2>2 DEF KeptPage
  <2> QED
    BY <1>4, <1>5, <2>3 DEF Written
<1>6. CASE ~IsAddressRegister(a, regs[i].offset)
  BY <1>3, <1>6 DEF Written
<1> QED
  BY <1>5, <1>6

\* After an ACC_SETUP call every word of an accelerator is a number still.
LEMMA AfterSetupTyped ==
  ASSUME TypeOK, NEW a \in Accels, NEW regs \in SetupLists
  PROVE  AfterSetup(a, regs) \in [Words -> Nat]
<1>1. ASSUME NEW w \in Words
      PROVE  AfterSetup(a, regs)[w] \in Nat
  <2> DEFINE last == CHOOSE i \in 1..Len(regs) : IsLastWriter(i, a, regs, w)
  <2>1. CASE \E i \in 1..Len(regs) : IsLastWriter(i, a, regs, w)
    <3>1. last \in 1..Len(regs) /\ IsLastWriter(last, a, regs, w)
      BY <2>1
    <3>2. Written(a, regs[last], w) \in Nat
      BY <3>1, WrittenTyped
    <3>3. AfterSetup(a, regs)[w] = Written(a, regs[last], w)
      BY <2>1 DEF AfterSetup
    <3> QED
      BY <3>2, <3>3
  <2>2. CASE ~ \E i \in 1..Len(regs) : IsLastWriter(i, a, regs, w)
    <3>1. AfterSetup(a, regs)[w] = acc_regs[a][w]
      BY <2>2 DEF AfterSetup
    <3> QED
      BY <3>1 DEF TypeOK
  <2> QED
    BY <2>1, <2>2
<1>2. AfterSetup(a, regs) = [w \in Words |-> AfterSetup(a, regs)[w]]
  BY DEF AfterSetup
<1> QED
  BY <1>1, <1>2

-----------------------------------------------------------------------------
(* The type invariant needs to know that 'data' holds a request whenever      *)
(* somebody has passed one: mmap computes from it without looking.            *)

DataPassed == (\E p \in Procs : req[p] # NoRequest) => data \in Requests

TypeInv == TypeOK /\ DataPassed

\* unimem_init leaves a state of the right type.
LEMMA InitTypeInv == Init => TypeInv
<1> SUFFICES ASSUME Init PROVE TypeInv
  OBVIOUS
<1>1. UnimemFromTable \in [0..2 -> Nat]
  BY DEF UnimemFromTable, HostPageSeenByFpga, Ddr4_0, Ddr4_2
<1>2. 0 \in Offsets
  BY DriverAssumption
<1>3. TypeOK
  BY <1>1, <1>2 DEF Init, TypeOK
<1>4. DataPassed
  BY DEF Init, DataPassed
<1> QED
  BY <1>3, <1>4 DEF TypeInv

\* mmap keeps the type.
LEMMA MmapTypeInv ==
  ASSUME TypeInv, NEW p \in Procs, Mmap(p)
  PROVE  TypeInv'
<1> USE DEF TypeInv
<1>1. Calls(p) /\ data \in Requests
  BY DEF Mmap, MmapHostDram, MmapFpgaDram, MmapAccelerator, MmapRemote, MmapNothing,
         MmapFails, Calls, DataPassed
<1>2. req[p] \in Requests /\ req[p].base_addr \in GvaPages
  BY <1>1, RequestFacts DEF Calls, TypeOK
<1>3. ASSUME NEW t \in Targets \cup {NoVma}, Map(p, t)
      PROVE  vma' \in [Procs -> [GvaPages -> Targets \cup {NoVma}]]
  BY <1>2, <1>3 DEF Map, TypeOK
<1>4. ASSUME NEW page \in Nat, Record(page)
      PROVE  /\ virt_address' \in [Entries -> GvaPages \cup {0}]
             /\ phys_address' \in [Entries -> Nat]
             /\ memory_allocations' \in Nat
             /\ accel_data' \in {"buffer", "overwritten"}
  <2>1. data.base_addr \in GvaPages /\ data.base_addr \in Nat
    BY <1>1, RequestFacts
  <2>2. memory_allocations' \in Nat
    BY <1>4 DEF Record, RecordAt, TypeOK
  <2>3. CASE StoreEntry(page, memory_allocations)
    BY <2>1, <2>2, <2>3 DEF StoreEntry, TypeOK
  <2>4. CASE StoreBeyond(memory_allocations)
    BY <2>1, <2>2, <2>4 DEF StoreBeyond, TypeOK
  <2> QED
    BY <1>4, <2>3, <2>4 DEF Record, RecordAt
<1>5. Target(CURRENT_NODE, data.node, data.region) \in Targets
  BY <1>1, TargetOfRequest
<1>6. data.node \in Nat /\ data.region \in Nat
  BY <1>1, RequestFacts
<1>7. DataPassed'
  <2>1. data' = data
    BY DEF Mmap, MmapHostDram, MmapFpgaDram, MmapAccelerator, MmapRemote, MmapNothing, MmapFails
  <2> QED
    BY <1>1, <2>1 DEF DataPassed
<1>8. CASE MmapHostDram(p)
  <2>1. HostRam \in Targets
    BY <1>5, <1>8 DEF MmapHostDram, Target
  <2>2. vma' \in [Procs -> [GvaPages -> Targets \cup {NoVma}]]
    BY <1>3, <1>8, <2>1 DEF MmapHostDram
  <2>3. from' \in [0..2 -> Nat]
    BY <1>8 DEF MmapHostDram, TypeOK, HostPageSeenByFpga
  <2> QED
    BY <1>7, <1>8, <2>2, <2>3 DEF MmapHostDram, TypeOK, table, lists, accel
<1>9. CASE MmapFpgaDram(p)
  <2>1. PICK page \in {Ddr4_0, Ddr4_2} : Map(p, Fpga(page)) /\ Record(page)
          /\ Fpga(page) = Target(CURRENT_NODE, data.node, data.region)
    BY <1>9 DEF MmapFpgaDram, Target
  <2>2. page \in Nat
    BY DEF Ddr4_0, Ddr4_2
  <2>3. vma' \in [Procs -> [GvaPages -> Targets \cup {NoVma}]]
    BY <1>3, <1>5, <2>1
  <2>4. from' \in [0..2 -> Nat]
    BY <1>9 DEF MmapFpgaDram, TypeOK, Ddr4_0, Region3FromPage
  <2> QED
    BY <1>4, <1>7, <1>9, <2>1, <2>2, <2>3, <2>4 DEF MmapFpgaDram, TypeOK, lists
<1>10. CASE MmapAccelerator(p)
  <2>1. Accel0 \in Targets
    BY <1>5, <1>10 DEF MmapAccelerator, Target
  <2> QED
    BY <1>3, <1>7, <1>10, <2>1 DEF MmapAccelerator, TypeOK, table, flags, lists, accel
<1>11. CASE MmapRemote(p)
  <2>1. WindowPage(data.node, data.region) \in Nat
    BY <1>6 DEF WindowPage, ToBase
  <2>2. Fpga(WindowPage(data.node, data.region)) \in Targets
    BY <1>5, <1>11 DEF MmapRemote, Target
  <2>3. vma' \in [Procs -> [GvaPages -> Targets \cup {NoVma}]]
    BY <1>3, <1>11, <2>2 DEF MmapRemote
  <2> QED
    BY <1>4, <1>7, <1>11, <2>1, <2>3 DEF MmapRemote, TypeOK, flags, lists
<1>12. CASE MmapNothing(p)
  <2>1. Hole \in Targets
    BY <1>5, <1>6, <1>12 DEF MmapNothing, Target
  <2> QED
    BY <1>3, <1>7, <1>12, <2>1 DEF MmapNothing, TypeOK, table, flags, lists, accel
<1>13. CASE MmapFails(p)
  BY <1>3, <1>7, <1>13 DEF MmapFails, TypeOK, table, flags, lists, accel
<1> QED
  BY <1>8, <1>9, <1>10, <1>11, <1>12, <1>13 DEF Mmap

\* What the kernel does when a last reference is dropped, or not, keeps the type
\* of the driver's state; 'data' is left alone.
LEMMA ReleaseTypeInv ==
  ASSUME TypeInv, NEW p \in Procs, NEW last \in BOOLEAN, ReleaseIfLast(p, last)
  PROVE  /\ virt_address' \in [Entries -> GvaPages \cup {0}]
         /\ phys_address' \in [Entries -> Nat]
         /\ memory_allocations' \in Nat
         /\ fpgadram_allocation_flag' \in {0, 1} /\ hostdram_allocation_flag' \in {0, 1}
         /\ acc_registers_vector' \in [Accels -> [Columns -> Offsets]]
         /\ acc_registers_vector_size' \in [Accels -> Nat]
         /\ req' \in [Procs -> Requests \cup {NoRequest}]
         /\ (\E q \in Procs : req'[q] # NoRequest) => data \in Requests
<1> USE DEF TypeInv
<1>1. CASE last
  <2>1. unimemfile_release /\ req' = [req EXCEPT ![p] = NoRequest]
    BY <1>1 DEF ReleaseIfLast
  <2>2. 0 \in Offsets
    BY DriverAssumption
  <2>3. (\E q \in Procs : req'[q] # NoRequest) => data \in Requests
    BY <2>1 DEF DataPassed, TypeOK
  <2> QED
    BY <2>1, <2>2, <2>3 DEF unimemfile_release, ReleaseTo, NoRegisters, TypeOK
<1>2. CASE ~last
  <2>1. UNCHANGED <<table, flags, lists, req>>
    BY <1>2 DEF ReleaseIfLast
  <2> QED
    BY <2>1 DEF TypeOK, DataPassed, table, flags, lists
<1> QED
  BY <1>1, <1>2

\* close, munmap and the end of a process keep the type.
LEMMA CloseTypeInv ==
  ASSUME TypeInv, NEW p \in Procs, Close(p) \/ Munmap(p) \/ Exit(p)
  PROVE  TypeInv'
<1> USE DEF TypeInv
<1>1. PICK last \in BOOLEAN : ReleaseIfLast(p, last)
  <2>1. CASE Close(p)
    BY <2>1 DEF Close
  <2>2. CASE Munmap(p)
    BY <2>2 DEF Munmap
  <2>3. CASE Exit(p)
    BY <2>3 DEF Exit
  <2> QED
    BY <2>1, <2>2, <2>3
<1>2. fd' \in [Procs -> BOOLEAN]
  BY DEF Close, Munmap, Exit, TypeOK
<1>3. vma' \in [Procs -> [GvaPages -> Targets \cup {NoVma}]]
  <2>1. CASE Close(p)
    BY <2>1 DEF Close, TypeOK
  <2>2. CASE Munmap(p)
    <3>1. PICK va \in GvaPages : vma' = [vma EXCEPT ![p][va] = NoVma]
      BY <2>2 DEF Munmap
    <3> QED
      BY <3>1 DEF TypeOK
  <2>3. CASE Exit(p)
    <3>1. vma' = [vma EXCEPT ![p] = [va \in GvaPages |-> NoVma]]
      BY <2>3 DEF Exit
    <3> QED
      BY <3>1 DEF TypeOK
  <2> QED
    BY <2>1, <2>2, <2>3
<1>4. UNCHANGED <<data, from, accel>>
  BY DEF Close, Munmap, Exit
<1>5. TypeOK'
  BY <1>1, <1>2, <1>3, <1>4, ReleaseTypeInv DEF TypeOK, accel
<1>6. DataPassed'
  BY <1>1, <1>4, ReleaseTypeInv DEF DataPassed
<1> QED
  BY <1>5, <1>6

\* ACC_REGISTER_HELPER keeps the type: the byte past the list is an offset like
\* any other, and a row has no entry beyond its last.
LEMMA AccRegisterHelperTypeInv ==
  ASSUME TypeInv, NEW p \in Procs, AccRegisterHelper(p)
  PROVE  TypeInv'
<1> USE DEF TypeInv
<1>1. PICK a \in Accels, l \in RegisterLists, byte \in Offsets :
        /\ acc_registers_vector_size' =
             [acc_registers_vector_size EXCEPT ![a] = Len(l) \div 2]
        /\ acc_registers_vector' =
             [b \in Accels |-> [j \in Columns |->
                CASE b = a /\ j < Len(l) -> l[j + 1]
                  [] <<b, j>> \in NextEntry(a, l) -> byte
                  [] OTHER -> acc_registers_vector[b][j]]]
  BY DEF AccRegisterHelper
<1>2. l \in Seq(Offsets)
  BY DriverAssumption
<1>3. acc_registers_vector_size' \in [Accels -> Nat]
  BY <1>1, <1>2 DEF TypeOK
<1>4. ASSUME NEW b \in Accels, NEW j \in Columns
      PROVE  (CASE b = a /\ j < Len(l) -> l[j + 1]
                [] <<b, j>> \in NextEntry(a, l) -> byte
                [] OTHER -> acc_registers_vector[b][j]) \in Offsets
  <2>1. j < Len(l) => l[j + 1] \in Offsets
    BY <1>2, DriverAssumption DEF Columns
  <2>2. acc_registers_vector[b][j] \in Offsets
    BY DEF TypeOK
  <2> QED
    BY <2>1, <2>2
<1>5. acc_registers_vector' \in [Accels -> [Columns -> Offsets]]
  BY <1>1, <1>4
<1>6. UNCHANGED <<data, table, flags, from, accel, apps>>
  BY DEF AccRegisterHelper
<1>7. TypeOK'
  BY <1>3, <1>5, <1>6 DEF TypeOK, table, flags, accel, apps
<1>8. DataPassed'
  BY <1>6 DEF DataPassed, apps
<1> QED
  BY <1>7, <1>8

\* The type invariant is preserved by every step.
LEMMA TypeInvStep == TypeInv /\ [Next]_vars => TypeInv'
<1> SUFFICES ASSUME TypeInv, [Next]_vars PROVE TypeInv'
  OBVIOUS
<1> USE DEF TypeInv
<1>1. CASE UNCHANGED vars
  BY <1>1 DEF vars, table, flags, lists, accel, apps, TypeOK, DataPassed
<1>2. ASSUME NEW p \in Procs, Open(p) PROVE TypeInv'
  BY <1>2 DEF Open, table, flags, lists, accel, TypeOK, DataPassed
<1>3. ASSUME NEW p \in Procs, PassStruct(p) PROVE TypeInv'
  <2>1. PICK r \in Requests : data' = r /\ req' = [req EXCEPT ![p] = r]
    BY <1>3 DEF PassStruct
  <2> QED
    BY <1>3, <2>1 DEF PassStruct, table, flags, lists, accel, TypeOK, DataPassed
<1>4. ASSUME NEW p \in Procs, AccSetup(p) PROVE TypeInv'
  <2>1. PICK a \in Accels, regs \in SetupLists : SetUp(a, regs)
    BY <1>4 DEF AccSetup
  <2>2. acc_regs' \in [Accels -> [Words -> Nat]]
    BY <2>1, AfterSetupTyped DEF SetUp, TypeOK
  <2> QED
    BY <2>1, <2>2 DEF SetUp, table, flags, lists, apps, TypeOK, DataPassed
<1> QED
  BY <1>1, <1>2, <1>3, <1>4, MmapTypeInv, CloseTypeInv, AccRegisterHelperTypeInv DEF Next

\* Whatever the processes do, the driver's globals, the tables, the registers and
\* the mappings hold values of their types: no call, in any order, puts anything
\* else there.
THEOREM TypeCorrect == Spec => []TypeOK
<1>1. TypeInv => TypeOK
  BY DEF TypeInv
<1> QED
  BY <1>1, InitTypeInv, TypeInvStep, PTL DEF Spec

-----------------------------------------------------------------------------
(* The regions whose mmap adds an entry to the table, and the page an          *)
(* accelerator of node cn must use to reach them.                             *)

Recorded(cn, n, r) == IF n = cn THEN r \in {1, 3} ELSE r \in {0, 1}

PhysPage(cn, n, r) ==
  IF n = cn THEN (IF r = 1 THEN Ddr4_0 ELSE Ddr4_2) ELSE WindowPage(n, r)

-----------------------------------------------------------------------------
(* The three things a step may do to the table. *)

Recording(p) ==
  \E page \in Nat : /\ Record(page) /\ data \in Requests
                    /\ Recorded(CURRENT_NODE, data.node, data.region)
                    /\ page = PhysPage(CURRENT_NODE, data.node, data.region)
                    /\ fpgadram_allocation_flag' =
                         IF page \in {Ddr4_0, Ddr4_2} THEN 1 ELSE fpgadram_allocation_flag
                    /\ UNCHANGED fd

Releasing == unimemfile_release

Keeping == UNCHANGED <<table, accel_data, fpgadram_allocation_flag>>

\* The pages recorded are never zero, which marks an empty entry, and those of
\* remote memory lie in the Unimem-TO window, above the local FPGA DRAM.
LEMMA PhysPageFacts ==
  ASSUME NEW n \in Nat, NEW r \in Nat, Recorded(CURRENT_NODE, n, r)
  PROVE  /\ PhysPage(CURRENT_NODE, n, r) \in Nat \ {0}
         /\ (PhysPage(CURRENT_NODE, n, r) \in {Ddr4_0, Ddr4_2}) <=> (n = CURRENT_NODE)
BY DEF PhysPage, WindowPage, ToBase, Ddr4_0, Ddr4_2

\* An mmap adds one entry for the region that 'data' names, or leaves the table.
LEMMA MmapOnTable ==
  ASSUME TypeInv, NEW p \in Procs, Mmap(p)
  PROVE  Recording(p) \/ Keeping
<1>1. data \in Requests
  BY DEF TypeInv, DataPassed, Mmap, MmapHostDram, MmapFpgaDram, MmapAccelerator, MmapRemote,
         MmapNothing, MmapFails, Calls
<1>2. data.node \in Nat /\ data.region \in Nat
  BY <1>1, RequestFacts
<1>3. CASE MmapFpgaDram(p)
  <2>1. PICK page \in {Ddr4_0, Ddr4_2} :
          /\ Record(page) /\ data.node = CURRENT_NODE
          /\ \/ data.region = 1 /\ page = Ddr4_0
             \/ data.region = 3 /\ page = Ddr4_2
    BY <1>3 DEF MmapFpgaDram
  <2>2. page \in Nat /\ page = PhysPage(CURRENT_NODE, data.node, data.region)
        /\ Recorded(CURRENT_NODE, data.node, data.region)
    BY <2>1 DEF PhysPage, Recorded, Ddr4_0, Ddr4_2
  <2>3. fpgadram_allocation_flag' = 1 /\ UNCHANGED fd
    BY <1>3 DEF MmapFpgaDram
  <2> QED
    BY <1>1, <2>1, <2>2, <2>3 DEF Recording
<1>4. CASE MmapRemote(p)
  <2> DEFINE page == WindowPage(data.node, data.region)
  <2>1. Record(page) /\ data.node # CURRENT_NODE /\ data.region \in {0, 1}
        /\ UNCHANGED <<fpgadram_allocation_flag, fd>>
    BY <1>4 DEF MmapRemote, flags
  <2>2. page \in Nat /\ page \notin {Ddr4_0, Ddr4_2}
    BY <1>2 DEF WindowPage, ToBase, Ddr4_0, Ddr4_2
  <2>3. page = PhysPage(CURRENT_NODE, data.node, data.region)
        /\ Recorded(CURRENT_NODE, data.node, data.region)
    BY <2>1 DEF PhysPage, Recorded
  <2> QED
    BY <1>1, <2>1, <2>2, <2>3 DEF Recording
<1>5. CASE MmapHostDram(p)
  BY <1>5 DEF MmapHostDram, Keeping, accel
<1>6. CASE MmapAccelerator(p) \/ MmapNothing(p) \/ MmapFails(p)
  BY <1>6 DEF MmapAccelerator, MmapNothing, MmapFails, Keeping, flags, accel
<1> QED
  BY <1>3, <1>4, <1>5, <1>6 DEF Mmap

\* Every step of the driver does one of the three.
LEMMA StepOnTable ==
  ASSUME TypeInv, [Next]_vars
  PROVE  (\E p \in Procs : Recording(p)) \/ Releasing \/ Keeping
<1>1. CASE UNCHANGED vars
  BY <1>1 DEF vars, flags, accel, Keeping
<1>2. ASSUME NEW p \in Procs, Open(p) \/ PassStruct(p)
      PROVE  Keeping
  BY <1>2 DEF Open, PassStruct, Keeping, flags, accel
<1>3. ASSUME NEW p \in Procs, AccRegisterHelper(p) \/ AccSetup(p)
      PROVE  Keeping
  BY <1>3 DEF AccRegisterHelper, AccSetup, SetUp, Keeping, flags, accel
<1>4. ASSUME NEW p \in Procs, Close(p) \/ Munmap(p) \/ Exit(p)
      PROVE  Releasing \/ Keeping
  <2>1. PICK last \in BOOLEAN : ReleaseIfLast(p, last)
    BY <1>4 DEF Close, Munmap, Exit
  <2>2. UNCHANGED accel
    BY <1>4 DEF Close, Munmap, Exit
  <2> QED
    BY <2>1, <2>2 DEF ReleaseIfLast, Releasing, Keeping, flags, accel
<1> QED
  BY <1>1, <1>2, <1>3, <1>4, MmapOnTable DEF Next

\* A record after which the table is not overrun has gone into the first free
\* entry.
LEMMA RecordInBounds ==
  ASSUME TypeInv, NEW page \in Nat, Record(page), InBounds'
  PROVE  /\ InBounds /\ memory_allocations \in Entries
         /\ virt_address' = [virt_address EXCEPT ![memory_allocations] = data.base_addr]
         /\ phys_address' = [phys_address EXCEPT ![memory_allocations] = page]
         /\ memory_allocations' = memory_allocations + 1
<1>1. memory_allocations \in Nat /\ TableSize \in Nat
  BY DriverAssumption DEF TypeInv, TypeOK
<1>2. memory_allocations' = memory_allocations + 1
  BY DEF Record, RecordAt
<1>3. memory_allocations < TableSize
  BY <1>1, <1>2 DEF InBounds
<1>4. StoreEntry(page, memory_allocations)
  BY <1>3 DEF Record, RecordAt
<1> QED
  BY <1>1, <1>2, <1>3, <1>4 DEF StoreEntry, InBounds, Entries

-----------------------------------------------------------------------------
(* The table is a prefix. *)

\* However the sessions of several processes overlap, the entries that the search
\* of translate_and_setup_reg looks at are exactly those that were filled, as long
\* as the table is not overrun, and again after the release that follows.
THEOREM TableIsPrefix == Spec => []TableFilled
<1>1. Init => TypeInv /\ TableFilled
  <2> SUFFICES ASSUME Init PROVE TableFilled
    BY InitTypeInv
  <2> QED
    BY DEF Init, TableFilled, Entries
<1>2. TypeInv /\ TableFilled /\ [Next]_vars => TypeInv' /\ TableFilled'
  <2> SUFFICES ASSUME TypeInv, TableFilled, [Next]_vars PROVE TableFilled'
    BY TypeInvStep
  <2>1. CASE \E p \in Procs : Recording(p)
    <3>1. PICK p \in Procs, page \in Nat :
            /\ Record(page) /\ data \in Requests
            /\ Recorded(CURRENT_NODE, data.node, data.region)
            /\ page = PhysPage(CURRENT_NODE, data.node, data.region)
      BY <2>1 DEF Recording
    <3>2. page # 0 /\ data.base_addr # 0
      BY <3>1, RequestFacts, PhysPageFacts
    <3> SUFFICES ASSUME InBounds' PROVE TableFilled'
      BY DEF TableFilled
    <3>3. /\ InBounds /\ memory_allocations \in Entries
          /\ virt_address' = [virt_address EXCEPT ![memory_allocations] = data.base_addr]
          /\ phys_address' = [phys_address EXCEPT ![memory_allocations] = page]
          /\ memory_allocations' = memory_allocations + 1
      BY <3>1, RecordInBounds
    <3> QED
      BY <3>2, <3>3, DriverAssumption DEF TableFilled, TypeInv, TypeOK, Entries
  <2>2. CASE Releasing
    BY <2>2, DriverAssumption DEF Releasing, unimemfile_release, ReleaseTo, TableFilled, Entries
  <2>3. CASE Keeping
    BY <2>3 DEF Keeping, table, TableFilled, InBounds
  <2> QED
    BY <2>1, <2>2, <2>3, StepOnTable
<1> QED
  BY <1>1, <1>2, PTL DEF Spec

\* No call rewrites or drops an entry of the table unless it clears the table as
\* a whole, which only unimemfile_release does, or overruns it.
THEOREM TableAppendOnly == Spec => AppendOnly
<1>1. TypeInv /\ [Next]_vars =>
        [memory_allocations' = 0 \/ ~InBounds' \/
          /\ memory_allocations' >= memory_allocations
          /\ \A i \in Entries : i < memory_allocations =>
               virt_address'[i] = virt_address[i] /\ phys_address'[i] = phys_address[i]]_vars
  <2> SUFFICES ASSUME TypeInv, [Next]_vars
               PROVE  \/ memory_allocations' = 0 \/ ~InBounds'
                      \/ /\ memory_allocations' >= memory_allocations
                         /\ \A i \in Entries : i < memory_allocations =>
                              /\ virt_address'[i] = virt_address[i]
                              /\ phys_address'[i] = phys_address[i]
    OBVIOUS
  <2>1. CASE \E p \in Procs : Recording(p)
    <3>1. PICK p \in Procs, page \in Nat : Record(page)
      BY <2>1 DEF Recording
    <3> SUFFICES ASSUME InBounds'
                 PROVE  /\ memory_allocations' >= memory_allocations
                        /\ \A i \in Entries : i < memory_allocations =>
                             /\ virt_address'[i] = virt_address[i]
                             /\ phys_address'[i] = phys_address[i]
      OBVIOUS
    <3>2. /\ virt_address' = [virt_address EXCEPT ![memory_allocations] = data.base_addr]
          /\ phys_address' = [phys_address EXCEPT ![memory_allocations] = page]
          /\ memory_allocations' = memory_allocations + 1
      BY <3>1, RecordInBounds
    <3> QED
      BY <3>2, DriverAssumption DEF TypeInv, TypeOK, Entries
  <2>2. CASE Releasing
    BY <2>2 DEF Releasing, unimemfile_release, ReleaseTo
  <2>3. CASE Keeping
    BY <2>3 DEF Keeping, table, TypeInv, TypeOK
  <2> QED
    BY <2>1, <2>2, <2>3, StepOnTable
<1> QED
  BY <1>1, InitTypeInv, TypeInvStep, PTL DEF Spec, AppendOnly

-----------------------------------------------------------------------------
(* The flag and the table. *)

\* fpgadram_allocation_flag is set exactly while the table has an entry of local
\* FPGA DRAM, whoever asked for it and whoever's release came in between, as long
\* as the table is not overrun.
THEOREM FlagFollowsTable == Spec => []FlagMatchesTable
<1>1. Init => TypeInv /\ FlagMatchesTable
  <2> SUFFICES ASSUME Init PROVE FlagMatchesTable
    BY InitTypeInv
  <2> QED
    BY DriverAssumption DEF Init, FlagMatchesTable, Entries
<1>2. TypeInv /\ FlagMatchesTable /\ [Next]_vars => TypeInv' /\ FlagMatchesTable'
  <2> SUFFICES ASSUME TypeInv, FlagMatchesTable, [Next]_vars PROVE FlagMatchesTable'
    BY TypeInvStep
  <2>1. CASE \E p \in Procs : Recording(p)
    <3>1. PICK p \in Procs, page \in Nat :
            /\ Record(page)
            /\ fpgadram_allocation_flag' =
                 IF page \in {Ddr4_0, Ddr4_2} THEN 1 ELSE fpgadram_allocation_flag
      BY <2>1 DEF Recording
    <3>3. memory_allocations \in Nat /\ phys_address \in [Entries -> Nat]
          /\ TableSize \in Nat
      BY DriverAssumption DEF TypeInv, TypeOK
    <3> SUFFICES ASSUME InBounds'
                 PROVE  fpgadram_allocation_flag' = 1 <=>
                          \E i \in Entries : /\ i < memory_allocations'
                                             /\ phys_address'[i] \in {Ddr4_0, Ddr4_2}
      BY DEF FlagMatchesTable
    <3>2. /\ phys_address' = [phys_address EXCEPT ![memory_allocations] = page]
          /\ memory_allocations' = memory_allocations + 1
          /\ InBounds /\ memory_allocations \in Entries
      BY <3>1, RecordInBounds
    <3>4. memory_allocations \in Entries
      BY <3>2
    <3>5. \A i \in Entries : i < memory_allocations => phys_address'[i] = phys_address[i]
      BY <3>2, <3>3 DEF Entries
    <3>6. phys_address'[memory_allocations] = page
      BY <3>2, <3>3, <3>4
    <3>7. \A i \in Entries : i < memory_allocations' <=>
                               (i < memory_allocations \/ i = memory_allocations)
      BY <3>2, <3>3 DEF Entries
    <3>8. fpgadram_allocation_flag = 1 <=>
            \E i \in Entries : i < memory_allocations /\ phys_address[i] \in {Ddr4_0, Ddr4_2}
      BY <3>2 DEF FlagMatchesTable
    <3> QED
      BY <3>1, <3>4, <3>5, <3>6, <3>7, <3>8
  <2>2. CASE Releasing
    BY <2>2, DriverAssumption
       DEF Releasing, unimemfile_release, ReleaseTo, FlagMatchesTable, Entries
  <2>3. CASE Keeping
    BY <2>3 DEF Keeping, table, FlagMatchesTable, InBounds
  <2> QED
    BY <2>1, <2>2, <2>3, StepOnTable
<1> QED
  BY <1>1, <1>2, PTL DEF Spec

-----------------------------------------------------------------------------
(* What an entry says. *)

\* Every entry of the table is the GVA of a request with the bus page that the
\* driver maps for it, so an entry left behind by a munmap, or by another process,
\* is never wrong.
TableSound ==
  InBounds => \A i \in Entries : i < memory_allocations =>
    \E w \in Wanted : /\ Recorded(CURRENT_NODE, w[1], w[2])
                      /\ virt_address[i] = GVA(w[1], w[2])
                      /\ phys_address[i] = PhysPage(CURRENT_NODE, w[1], w[2])

\* If no node has more regions than the layout leaves room for, a GVA page names
\* one region of one node.
LEMMA GVAInjective ==
  ASSUME NEW n \in Nat, NEW r \in Nat, NEW m \in Nat, NEW s \in Nat,
         r < NodeStride, s < NodeStride, GVA(n, r) = GVA(m, s)
  PROVE  n = m /\ r = s
<1>1. NodeStride \in Nat \ {0}
  BY NodeStrideAssumption
<1>2. ASSUME NEW a \in Nat, NEW b \in Nat, a < b
      PROVE  NodeStride * b >= NodeStride * a + NodeStride
  <2>1. PICK k \in Nat : b = a + 1 + k
    <3>1. b - a - 1 \in Nat /\ b = a + 1 + (b - a - 1)
      BY <1>2
    <3> QED
      BY <3>1
  <2>2. NodeStride * b = NodeStride * a + NodeStride + NodeStride * k
    BY <1>1, <2>1
  <2>3. NodeStride * k \in Nat /\ NodeStride * a \in Nat
    BY <1>1
  <2> QED
    BY <1>1, <2>2, <2>3
<1>3. NodeStride * n + r = NodeStride * m + s /\ NodeStride * n \in Nat /\ NodeStride * m \in Nat
  BY <1>1 DEF GVA, GvasBase
<1>4. ~(n < m)
  BY <1>1, <1>2, <1>3
<1>5. ~(m < n)
  BY <1>1, <1>2, <1>3
<1>6. n = m
  BY <1>4, <1>5
<1> QED
  BY <1>3, <1>6

\* Every entry of a table that is not overrun is sound.
LEMMA TableSoundAlways == Spec => []TableSound
<1>1. Init => TypeInv /\ TableSound
  <2> SUFFICES ASSUME Init PROVE TableSound
    BY InitTypeInv
  <2> QED
    BY DriverAssumption DEF Init, TableSound, Entries
<1>2. TypeInv /\ TableSound /\ [Next]_vars => TypeInv' /\ TableSound'
  <2> SUFFICES ASSUME TypeInv, TableSound, [Next]_vars PROVE TableSound'
    BY TypeInvStep
  <2>1. CASE \E p \in Procs : Recording(p)
    <3>1. PICK p \in Procs, page \in Nat :
            /\ Record(page) /\ data \in Requests
            /\ Recorded(CURRENT_NODE, data.node, data.region)
            /\ page = PhysPage(CURRENT_NODE, data.node, data.region)
      BY <2>1 DEF Recording
    <3> SUFFICES ASSUME InBounds', NEW i \in Entries, i < memory_allocations'
                 PROVE  \E w \in Wanted :
                          /\ Recorded(CURRENT_NODE, w[1], w[2])
                          /\ virt_address'[i] = GVA(w[1], w[2])
                          /\ phys_address'[i] = PhysPage(CURRENT_NODE, w[1], w[2])
      BY DEF TableSound
    <3>2. /\ virt_address' = [virt_address EXCEPT ![memory_allocations] = data.base_addr]
          /\ phys_address' = [phys_address EXCEPT ![memory_allocations] = page]
          /\ memory_allocations' = memory_allocations + 1
          /\ InBounds
      BY <3>1, RecordInBounds
    <3>3. memory_allocations \in Nat /\ phys_address \in [Entries -> Nat]
          /\ virt_address \in [Entries -> GvaPages \cup {0}]
      BY DEF TypeInv, TypeOK
    <3>4. <<data.node, data.region>> \in Wanted /\ data.base_addr = GVA(data.node, data.region)
      BY <3>1, RequestFacts
    <3>5. CASE i = memory_allocations
      <4>1. virt_address'[i] = data.base_addr /\ phys_address'[i] = page
        BY <3>2, <3>3, <3>5
      <4> DEFINE w == <<data.node, data.region>>
      <4>2. w \in Wanted /\ w[1] = data.node /\ w[2] = data.region
        BY <3>4
      <4> HIDE DEF w
      <4> QED
        BY <3>1, <3>4, <4>1, <4>2
    <3>6. CASE i # memory_allocations
      <4>1. i < memory_allocations
        BY <3>2, <3>3, <3>6, DriverAssumption DEF Entries
      <4>2. virt_address'[i] = virt_address[i] /\ phys_address'[i] = phys_address[i]
        BY <3>2, <3>3, <3>6
      <4> QED
        BY <3>2, <4>1, <4>2 DEF TableSound
    <3> QED
      BY <3>5, <3>6
  <2>2. CASE Releasing
    BY <2>2, DriverAssumption DEF Releasing, unimemfile_release, ReleaseTo, TableSound, Entries
  <2>3. CASE Keeping
    BY <2>3 DEF Keeping, table, TableSound, InBounds
  <2> QED
    BY <2>1, <2>2, <2>3, StepOnTable
<1> QED
  BY <1>1, <1>2, PTL DEF Spec

\* The GVA layout of the applications gives each of their requests its own page.
LayoutDistinct ==
  \A v, w \in Wanted : GVA(v[1], v[2]) = GVA(w[1], w[2]) => v[1] = w[1] /\ v[2] = w[2]

\* It does when every region asked for fits into its node's part of the layout.
LEMMA LayoutFits == (\A w \in Wanted : w[2] < NodeStride) => LayoutDistinct
<1> SUFFICES ASSUME \A w \in Wanted : w[2] < NodeStride,
                    NEW v \in Wanted, NEW w \in Wanted,
                    GVA(v[1], v[2]) = GVA(w[1], w[2])
             PROVE  v[1] = w[1] /\ v[2] = w[2]
  BY DEF LayoutDistinct
<1> DEFINE n == v[1]  r == v[2]  m == w[1]  s == w[2]
<1>1. n \in Nat /\ r \in Nat /\ m \in Nat /\ s \in Nat
  BY DriverAssumption
<1>2. r < NodeStride /\ s < NodeStride /\ GVA(n, r) = GVA(m, s)
  OBVIOUS
<1> HIDE DEF n, r, m, s
<1>3. n = m /\ r = s
  BY <1>1, <1>2, GVAInjective
<1> QED
  BY <1>3 DEF n, r, m, s

\* If the layout gives each request its own page, equal GVA pages have equal
\* translations, however many entries a page has and whoever recorded them.
THEOREM OneTranslation ==
  ASSUME LayoutDistinct
  PROVE  Spec => []TranslationUnique
<1>1. TableSound => TranslationUnique
  <2> SUFFICES ASSUME TableSound, InBounds, NEW i \in Entries, NEW j \in Entries,
                      i < memory_allocations, j < memory_allocations,
                      virt_address[i] = virt_address[j]
               PROVE  phys_address[i] = phys_address[j]
    BY DEF TranslationUnique
  <2>1. PICK v \in Wanted : /\ virt_address[i] = GVA(v[1], v[2])
                           /\ phys_address[i] = PhysPage(CURRENT_NODE, v[1], v[2])
    BY DEF TableSound
  <2>2. PICK w \in Wanted : /\ virt_address[j] = GVA(w[1], w[2])
                           /\ phys_address[j] = PhysPage(CURRENT_NODE, w[1], w[2])
    BY DEF TableSound
  <2>3. v[1] = w[1] /\ v[2] = w[2]
    BY <2>1, <2>2 DEF LayoutDistinct
  <2> QED
    BY <2>1, <2>2, <2>3
<1> QED
  BY <1>1, TableSoundAlways, PTL

=============================================================================

---------------------------- MODULE UnimemDriver ----------------------------
(***************************************************************************)
(* The character device /dev/unimem_file of one node: open, PASS_STRUCT,   *)
(* mmap, munmap, ACC_REGISTER_HELPER, ACC_SETUP and release, as several    *)
(* processes call them.  Each system call is one step; what a call does to *)
(* the driver's global variables, to the FPGA's registers and to the page  *)
(* tables of the caller is the whole of its step.  The driver has one set  *)
(* of globals for every open file, and takes no lock.                      *)
(***************************************************************************)
EXTENDS UnimemMap, FiniteSets, Sequences

CONSTANTS
  Procs,           \* processes that use the device
  Wanted,          \* pairs <<node, region>> they ask for
  CURRENT_NODE,    \* this node, as find_current_node gave it
  TableSize,       \* 24: entries of phys_address and virt_address
  MaxOpen,         \* bound: files open at the same time
  MaxAllocations,  \* bound: memory_allocations, at most one beyond the table
  MaxMapped,       \* bound: GVA pages one process has mapped at a time
  Accels,          \* accelerator numbers in use, 0 .. ACCELERATOR_COUNT - 1
  VecLen,          \* 24: entries of a row of acc_registers_vector
  Offsets,         \* register offsets, counted in words
  LowSpan,         \* bound: offsets into a page that are told apart, for 2^30
  RegisterLists,   \* lists an ACC_REGISTER_HELPER call may carry
  SetupLists       \* lists of registers an ACC_SETUP call may carry

ASSUME DriverAssumption ==
  /\ Wanted \subseteq Nat \X Nat
  /\ CURRENT_NODE \in Int
  /\ IsFiniteSet(Procs)
  /\ TableSize \in Nat \ {0} /\ MaxOpen \in Nat /\ MaxMapped \in Nat
  /\ MaxAllocations \in 0 .. TableSize + 1
  /\ VecLen \in Nat \ {0} /\ LowSpan \in Nat \ {0}
  /\ Accels \subseteq Nat
  /\ Offsets \subseteq Nat /\ 0 \in Offsets
  /\ RegisterLists \subseteq Seq(Offsets)
  /\ \A l \in RegisterLists : Len(l) <= VecLen /\ Len(l) % 2 = 0
  /\ SetupLists \subseteq Seq([offset : Offsets, data : Nat])

VARIABLES
  data,                       \* what the last PASS_STRUCT of anyone copied in
  virt_address, phys_address, \* the translation table: GVA page, bus page
  memory_allocations,         \* its length
  fpgadram_allocation_flag, hostdram_allocation_flag,
  from,                       \* the Unimem-FROM bridge of this node
  acc_registers_vector, acc_registers_vector_size,
  accel_data,                 \* the pointer to the buffer of an ACC_SETUP
  acc_regs,                   \* the accelerators' registers, word by word
  fd,                         \* whether the process holds a file descriptor
  vma,                        \* what each of its GVA pages leads to
  req                         \* the request it last passed

table == <<virt_address, phys_address, memory_allocations>>
flags == <<fpgadram_allocation_flag, hostdram_allocation_flag>>
lists == <<acc_registers_vector, acc_registers_vector_size>>
accel == <<accel_data, acc_regs>>
apps  == <<fd, vma, req>>
vars  == <<data, table, flags, from, lists, accel, apps>>

-----------------------------------------------------------------------------
Entries == 0 .. TableSize - 1
Columns == 0 .. VecLen - 1
Words   == Offsets \cup {o + 1 : o \in Offsets}
GvaPages == {GVA(w[1], w[2]) : w \in Wanted}
Targets  == {Target(CURRENT_NODE, w[1], w[2]) : w \in Wanted}

Request(n, r) == [node |-> n, region |-> r, base_addr |-> GVA(n, r)]
Requests == {Request(w[1], w[2]) : w \in Wanted}
NoRequest == [node |-> 0, region |-> 0, base_addr |-> 0]

\* A file lives as long as a descriptor or a mapping of it does.
Mapped(p, va) == vma[p][va] # NoVma
Held(p) == fd[p] \/ \E va \in GvaPages : Mapped(p, va)

TypeOK ==
  /\ data \in Requests \cup {NoRequest}
  /\ virt_address \in [Entries -> GvaPages \cup {0}]
  /\ phys_address \in [Entries -> Nat]
  /\ memory_allocations \in Nat
  /\ fpgadram_allocation_flag \in {0, 1}
  /\ hostdram_allocation_flag \in {0, 1}
  /\ from \in [0..2 -> Nat]
  /\ acc_registers_vector \in [Accels -> [Columns -> Offsets]]
  /\ acc_registers_vector_size \in [Accels -> Nat]
  /\ accel_data \in {"buffer", "overwritten"}
  /\ acc_regs \in [Accels -> [Words -> Nat]]
  /\ fd \in [Procs -> BOOLEAN]
  /\ vma \in [Procs -> [GvaPages -> Targets \cup {NoVma}]]
  /\ req \in [Procs -> Requests \cup {NoRequest}]

\* unimem_init has run and nobody has opened the device yet.
Init ==
  /\ data = NoRequest
  /\ virt_address = [i \in Entries |-> 0]
  /\ phys_address = [i \in Entries |-> 0]
  /\ memory_allocations = 0
  /\ fpgadram_allocation_flag = 0 /\ hostdram_allocation_flag = 0
  /\ from = UnimemFromTable
  /\ acc_registers_vector = [a \in Accels |-> [j \in Columns |-> 0]]
  /\ acc_registers_vector_size = [a \in Accels |-> 0]
  /\ accel_data = "buffer"
  /\ acc_regs = [a \in Accels |-> [w \in Words |-> 0]]
  /\ fd = [p \in Procs |-> FALSE]
  /\ vma = [p \in Procs |-> [va \in GvaPages |-> NoVma]]
  /\ req = [p \in Procs |-> NoRequest]

-----------------------------------------------------------------------------
(* open and the PASS_STRUCT ioctl *)

Open(p) ==
  /\ ~Held(p) /\ Cardinality({q \in Procs : Held(q)}) < MaxOpen
  /\ fd' = [fd EXCEPT ![p] = TRUE]
  /\ UNCHANGED <<data, table, flags, from, lists, accel, vma, req>>

\* Slip: sizeof(data) taken of a pointer; region and length arrive, no more.
PassStructShort(p) ==
  /\ fd[p]
  /\ \E r \in Requests : /\ data' = [data EXCEPT !.region = r.region]
                         /\ req' = [req EXCEPT ![p] = r]
  /\ UNCHANGED <<table, flags, from, lists, accel, fd, vma>>

PassStruct(p) ==
  /\ fd[p]
  /\ \E r \in Requests : data' = r /\ req' = [req EXCEPT ![p] = r]
  /\ UNCHANGED <<table, flags, from, lists, accel, fd, vma>>

-----------------------------------------------------------------------------
(* mmap.  The process asks for the address it put in its own request; the    *)
(* driver decides what to map from 'data'.  MAP_FIXED replaces what was      *)
(* mapped there, whether the driver then succeeds or not.                    *)

Calls(p) == fd[p] /\ req[p] # NoRequest

Map(p, target) ==
  /\ Cardinality({va \in GvaPages : Mapped(p, va)} \cup {req[p].base_addr}) <= MaxMapped
  /\ vma' = [vma EXCEPT ![p][req[p].base_addr] = target]

StoreEntry(page, index) ==
  /\ virt_address' = [virt_address EXCEPT ![index] = data.base_addr]
  /\ phys_address' = [phys_address EXCEPT ![index] = page]
  /\ UNCHANGED accel_data

\* phys_address lies behind virt_address, and the pointer accel_data behind
\* phys_address (unimem_main2.o): the first entry too many goes into those two.
StoreBeyond(index) ==
  /\ phys_address' = [phys_address EXCEPT ![index - TableSize] = data.base_addr]
  /\ accel_data' = "overwritten"
  /\ UNCHANGED virt_address

RecordAt(page, index) ==
  /\ memory_allocations < MaxAllocations
  /\ IF index < TableSize THEN StoreEntry(page, index) ELSE StoreBeyond(index)
  /\ memory_allocations' = memory_allocations + 1

\* Slip: memory_allocations incremented before the stores.
RecordAfter(page) == RecordAt(page, memory_allocations + 1)

\* virt_address[memory_allocations] = ..; phys_address[memory_allocations] = ..;
\* memory_allocations++, with no look at the size of the arrays.
Record(page) == RecordAt(page, memory_allocations)

MmapHostDram(p) ==
  /\ Calls(p) /\ data.node = CURRENT_NODE /\ data.region = 0
  /\ Map(p, HostRam)
  /\ from' = [from EXCEPT ![0] = HostPageSeenByFpga]
  /\ hostdram_allocation_flag' = 1
  /\ UNCHANGED <<data, table, fpgadram_allocation_flag, lists, accel, fd, req>>

MmapFpgaDram(p) ==
  /\ Calls(p) /\ data.node = CURRENT_NODE
  /\ \/ /\ data.region = 1 /\ Map(p, Fpga(Ddr4_0)) /\ Record(Ddr4_0)
        /\ from' = [from EXCEPT ![1] = Ddr4_0]
     \/ /\ data.region = 3 /\ Map(p, Fpga(Ddr4_2)) /\ Record(Ddr4_2)
        /\ from' = [from EXCEPT ![1] = Region3FromPage]
  /\ fpgadram_allocation_flag' = 1
  /\ UNCHANGED <<data, hostdram_allocation_flag, lists, acc_regs, fd, req>>

MmapAccelerator(p) ==
  /\ Calls(p) /\ data.node = CURRENT_NODE /\ data.region = 2
  /\ Map(p, Accel0)
  /\ UNCHANGED <<data, table, flags, from, lists, accel, fd, req>>

\* Slip: phys_address set to the window's base, as in the line commented out.
MmapRemoteBase(p) ==
  /\ Calls(p) /\ data.node # CURRENT_NODE /\ data.region \in {0, 1}
  /\ Map(p, Fpga(WindowPage(data.node, data.region)))
  /\ Record(ToBase)
  /\ UNCHANGED <<data, flags, from, lists, acc_regs, fd, req>>

MmapRemote(p) ==
  /\ Calls(p) /\ data.node # CURRENT_NODE /\ data.region \in {0, 1}
  /\ Map(p, Fpga(WindowPage(data.node, data.region)))
  /\ Record(WindowPage(data.node, data.region))
  /\ UNCHANGED <<data, flags, from, lists, acc_regs, fd, req>>

\* No branch applies: the call succeeds and nothing stands behind the vma.
MmapNothing(p) ==
  /\ Calls(p)
  /\ IF data.node = CURRENT_NODE THEN data.region > 3 ELSE data.region > 1
  /\ Map(p, Hole)
  /\ UNCHANGED <<data, table, flags, from, lists, accel, fd, req>>

\* remap_pfn_range refuses: -EAGAIN before anything else is done.
MmapFails(p) ==
  /\ Calls(p)
  /\ IF data.node = CURRENT_NODE THEN data.region <= 3 ELSE data.region <= 1
  /\ Map(p, NoVma)
  /\ UNCHANGED <<data, table, flags, from, lists, accel, fd, req>>

Mmap(p) == \/ MmapHostDram(p) \/ MmapFpgaDram(p) \/ MmapAccelerator(p)
           \/ MmapRemote(p) \/ MmapNothing(p) \/ MmapFails(p)

-----------------------------------------------------------------------------
(* release: the last reference to one file is gone, whoever else has one.    *)
(* acc_registers_vector_size, data, the bridge, the accelerators and a pointer *)
(* that an overrun has overwritten are left as they are.                       *)

ReleaseTo(count, entry, fpga, vectors) ==
  /\ fpgadram_allocation_flag' = fpga /\ hostdram_allocation_flag' = 0
  /\ memory_allocations' = count
  /\ phys_address' = [i \in Entries |-> entry]
  /\ virt_address' = [i \in Entries |-> entry]
  /\ acc_registers_vector' = vectors
  /\ UNCHANGED acc_registers_vector_size

NoRegisters == [a \in Accels |-> [j \in Columns |-> 0]]

\* Slips: entries reset to -1, as the user registers are; the count, a flag or
\* the vectors forgotten.
ReleaseToMinusOne == ReleaseTo(0, -1, 0, NoRegisters)
ReleaseKeepsCount == ReleaseTo(memory_allocations, 0, 0, NoRegisters)
ReleaseKeepsFpgaFlag == ReleaseTo(0, 0, fpgadram_allocation_flag, NoRegisters)
ReleaseKeepsVectors == ReleaseTo(0, 0, 0, acc_registers_vector)

unimemfile_release == ReleaseTo(0, 0, 0, NoRegisters)

\* What the kernel does once process p may have dropped its last reference.
ReleaseIfLast(p, last) ==
  IF last
  THEN /\ unimemfile_release
       /\ req' = [req EXCEPT ![p] = NoRequest]
  ELSE UNCHANGED <<table, flags, lists, req>>

\* Slip: the state is torn down by every close, as if it were .flush.
CloseTearsDown(p) ==
  /\ fd[p]
  /\ fd' = [fd EXCEPT ![p] = FALSE]
  /\ ReleaseIfLast(p, TRUE)
  /\ UNCHANGED <<data, from, accel, vma>>

Close(p) ==
  /\ fd[p]
  /\ fd' = [fd EXCEPT ![p] = FALSE]
  /\ ReleaseIfLast(p, \A va \in GvaPages : ~Mapped(p, va))
  /\ UNCHANGED <<data, from, accel, vma>>

Munmap(p) ==
  /\ \E va \in GvaPages :
       /\ Mapped(p, va)
       /\ vma' = [vma EXCEPT ![p][va] = NoVma]
       /\ ReleaseIfLast(p, ~fd[p] /\ \A o \in GvaPages \ {va} : ~Mapped(p, o))
  /\ UNCHANGED <<data, from, accel, fd>>

\* The process ends, or is killed, with the file open or mapped.
Exit(p) ==
  /\ Held(p)
  /\ fd' = [fd EXCEPT ![p] = FALSE]
  /\ vma' = [vma EXCEPT ![p] = [va \in GvaPages |-> NoVma]]
  /\ ReleaseIfLast(p, TRUE)
  /\ UNCHANGED <<data, from, accel>>

-----------------------------------------------------------------------------
(* ACC_REGISTER_HELPER: the registers of accelerator a that hold addresses.  *)
(* The copy is one byte longer than the list (size*8 + 1): its last byte     *)
(* goes into the entry after the list, in the next row when the row is full. *)

NextEntry(a, l) ==
  IF Len(l) < VecLen THEN {<<a, Len(l)>>} ELSE {<<a + 1, 0>>}

AccRegisterHelper(p) ==
  /\ fd[p]
  /\ \E a \in Accels, l \in RegisterLists, byte \in Offsets :
       /\ acc_registers_vector_size' =
            [acc_registers_vector_size EXCEPT ![a] = Len(l) \div 2]
       /\ acc_registers_vector' =
            [b \in Accels |-> [j \in Columns |->
               CASE b = a /\ j < Len(l) -> l[j + 1]
                 [] <<b, j>> \in NextEntry(a, l) -> byte
                 [] OTHER -> acc_registers_vector[b][j]]]
  /\ UNCHANGED <<data, table, flags, from, accel, apps>>

-----------------------------------------------------------------------------
(* ACC_SETUP: setup_accelerator, translate_and_setup_reg and setup_reg.  A   *)
(* register is 32 bits wide: the word at its offset holds the low half, the  *)
(* next word the high half of an address.                                    *)

LowWord(address) == address % (4 * LowSpan)
PageOf(address)  == address \div LowSpan

\* acc_registers_vector[a][j] for some j < acc_registers_vector_size[a]*2
IsAddressRegister(a, offset) ==
  \E j \in Columns : /\ j < 2 * acc_registers_vector_size[a]
                     /\ acc_registers_vector[a][j] = offset

Matches(address) ==
  {i \in Entries : i < memory_allocations /\ virt_address[i] = PageOf(address)}

\* The entry the search stops at: the first whose GVA page is the address's.
IsFirstMatch(i, address) ==
  i \in Matches(address) /\ \A k \in Matches(address) : i <= k

Translatable(address) == \E i \in Entries : IsFirstMatch(i, address)
Translation(address)  == phys_address[CHOOSE i \in Entries : IsFirstMatch(i, address)]

\* The words one register of the call writes, and with what.
Writes(a, reg) ==
  IF ~IsAddressRegister(a, reg.offset) THEN {reg.offset}
  ELSE IF Translatable(reg.data) THEN {reg.offset, reg.offset + 1} ELSE {}

\* Slip: the high half shifted one bit too little.
WrittenShifted(a, reg, w) ==
  IF ~IsAddressRegister(a, reg.offset) THEN LowWord(reg.data)
  ELSE IF w = reg.offset THEN reg.data % LowSpan
  ELSE KeptPage(Translation(reg.data)) \div 2

Written(a, reg, w) ==
  IF ~IsAddressRegister(a, reg.offset) THEN LowWord(reg.data)
  ELSE IF w = reg.offset THEN reg.data % LowSpan
  ELSE KeptPage(Translation(reg.data)) \div 4

\* The loop runs over the list in order: of two writes the later one stays.
IsLastWriter(i, a, regs, w) ==
  w \in Writes(a, regs[i]) /\ \A k \in i+1..Len(regs) : w \notin Writes(a, regs[k])

AfterSetup(a, regs) ==
  [w \in Words |->
     IF \E i \in 1..Len(regs) : IsLastWriter(i, a, regs, w)
     THEN Written(a, regs[CHOOSE i \in 1..Len(regs) : IsLastWriter(i, a, regs, w)], w)
     ELSE acc_regs[a][w]]

\* reg_number > 24 is refused by setup_accelerator; the ioctl returns 0.
SetUp(a, regs) ==
  /\ Len(regs) <= 24
  /\ acc_regs' = [acc_regs EXCEPT ![a] = AfterSetup(a, regs)]
  /\ UNCHANGED <<data, table, flags, from, lists, accel_data, apps>>

\* Through an overwritten pointer the call writes to a bus page taken for an
\* address: it is outside the model.
CanSetUp(p) == fd[p] /\ accel_data = "buffer"

AccSetup(p) == CanSetUp(p) /\ \E a \in Accels, regs \in SetupLists : SetUp(a, regs)

-----------------------------------------------------------------------------
Next == \E p \in Procs :
  \/ Open(p) \/ PassStruct(p) \/ Mmap(p) \/ Close(p) \/ Munmap(p) \/ Exit(p)
  \/ AccRegisterHelper(p) \/ AccSetup(p)

Spec == Init /\ [][Next]_vars

-----------------------------------------------------------------------------
(* Properties of the device, whatever the processes do.  Nothing bounds        *)
(* memory_allocations: one entry too many and the table is not what it was,    *)
(* until a release clears it.  The properties of the table are about the time  *)
(* before.                                                                     *)

InBounds == memory_allocations <= TableSize

\* The translation table is a prefix: exactly the entries below
\* memory_allocations are filled, each with a GVA and a bus page.  The search in
\* translate_and_setup_reg stops at memory_allocations and relies on it; a release
\* by one process in the middle of another's session keeps it, and restores it
\* after an overrun.
TableFilled ==
  InBounds =>
    \A i \in Entries : /\ (i < memory_allocations) <=> (virt_address[i] # 0)
                       /\ (virt_address[i] = 0) <=> (phys_address[i] = 0)

\* One GVA page has one translation: entries with equal virt_address have equal
\* phys_address, so that it does not matter that translate_and_setup_reg takes
\* the first match, nor that munmap leaves entries behind.
TranslationUnique ==
  InBounds => \A i, j \in Entries :
    (i < memory_allocations /\ j < memory_allocations
       /\ virt_address[i] = virt_address[j]) => phys_address[i] = phys_address[j]

\* fpgadram_allocation_flag is set exactly while the table has an entry for a
\* page of local FPGA DRAM: mmap sets both, release clears both, however the
\* calls of several processes are interleaved.  Both may be gone while a process
\* has such a page mapped: see FlagCoversMapping.
FlagMatchesTable ==
  InBounds =>
    (fpgadram_allocation_flag = 1 <=>
       \E i \in Entries : i < memory_allocations /\ phys_address[i] \in {Ddr4_0, Ddr4_2})

\* Once no file is open or mapped, in whatever order the processes closed,
\* unmapped or died, the table, both flags and the entries of the lists of
\* address registers are empty, also after an overrun.  Not so the rest: the
\* lengths of those lists, 'data', the Unimem-FROM slot, the accelerators'
\* registers and the pointer accel_data stay as the session left them.
QuiescentClean ==
  (\A p \in Procs : ~Held(p)) =>
    /\ memory_allocations = 0 /\ flags = <<0, 0>>
    /\ \A i \in Entries : virt_address[i] = 0 /\ phys_address[i] = 0
    /\ \A a \in Accels, j \in Columns : acc_registers_vector[a][j] = 0

\* An entry, once recorded, stays as it is until the whole table is cleared or
\* overrun: no call rewrites or drops a single entry, so an address an accelerator
\* was given stays the address the next ACC_SETUP gives it.
AppendOnly ==
  [][memory_allocations' = 0 \/ ~InBounds' \/
       /\ memory_allocations' >= memory_allocations
       /\ \A i \in Entries : i < memory_allocations =>
            virt_address'[i] = virt_address[i] /\ phys_address'[i] = phys_address[i]]_vars

-----------------------------------------------------------------------------
(* Properties of a process that has the device to itself (MaxOpen = 1). *)

\* A page of the process leads to the node and region that its GVA names: mmap
\* works from 'data', which keeps what earlier sessions passed, and which
\* another process's PASS_STRUCT could overwrite if it had the device as well.
MappingMatchesRequest ==
  \A p \in Procs, w \in Wanted :
    vma[p][GVA(w[1], w[2])] \in {NoVma, Target(CURRENT_NODE, w[1], w[2])}

\* FPGA memory or a Unimem-TO window that a process maps has an entry in the
\* table, and the first match of its GVA page is the page the CPU reaches there.
\* What ACC_SETUP makes of that page is another matter: see EveryTranslation.
MappedIsTranslatable ==
  InBounds => \A p \in Procs, va \in GvaPages :
    vma[p][va].bar = "UNIMEM_BAR" =>
      /\ Translatable(va * LowSpan)
      /\ vma[p][va] = Fpga(Translation(va * LowSpan))

\* The flag says "whether the fpga memory region has been allocated"
\* (unimem_main2.c:36): it is set while the process has local FPGA DRAM mapped.
\* Two processes cannot rely on it: the release of one clears the flag
\* (unimem_main2.c:500) while the other has that memory mapped.
FlagCoversMapping ==
  (\E p \in Procs, va \in GvaPages : vma[p][va] \in {Fpga(Ddr4_0), Fpga(Ddr4_2)})
    => fpgadram_allocation_flag = 1

\* The address that a register and the word behind it hold.
AddressIn(regs, offset) == regs[offset + 1] * 4 * LowSpan + regs[offset]

\* Whatever ACC_SETUP a process may issue now, an address register whose value
\* lies in a page that process has mapped from the UNIMEM BAR will designate that
\* page, at the same offset, if the page number is a multiple of 'step' and no
\* later register of the call overwrites the pair.
Translates(step) ==
  \A p \in {q \in Procs : CanSetUp(q)}, regs \in SetupLists : \A i \in 1..Len(regs) :
    LET reg == regs[i]
        va  == PageOf(reg.data)
        pair == {reg.offset, reg.offset + 1}
    IN (va \in GvaPages /\ vma[p][va].bar = "UNIMEM_BAR" /\ vma[p][va].page % step = 0)
       => \A a \in {b \in Accels : IsAddressRegister(b, reg.offset)} :
            (\A k \in i+1..Len(regs) : Writes(a, regs[k]) \cap pair = {})
            => AddressIn(AfterSetup(a, regs), reg.offset)
                 = vma[p][va].page * LowSpan + (reg.data % LowSpan)

\* The translation reaches the mapped memory for every page whose low four bits
\* are zero: local FPGA DRAM and the first page of the Unimem-TO window.
AlignedTranslation == Translates(16)

\* "translate the address and set up the register" (unimem_ops.c:250): the
\* accelerator is given the page that the process maps, whichever it is.
EveryTranslation == Translates(1)

\* "else just setup" (unimem_ops.c:325): a process that has not listed address
\* registers yet gets every register of an ACC_SETUP written as it is.
SetUpBeforeLists ==
  \A a \in Accels, regs \in {l \in SetupLists : Len(l) = 1} :
    ((\E p \in Procs : CanSetUp(p)) /\ \A j \in Columns : acc_registers_vector[a][j] = 0)
    => AfterSetup(a, regs)[regs[1].offset] = LowWord(regs[1].data)
=============================================================================

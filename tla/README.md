# Unimem F-GUMS: specifications and proofs

Unimem joins the DRAM of several FPGA-equipped hosts into one global address
space. A kernel driver (`unimem_for_all/unimem_main2.c`, `unimem_ops.c`) maps pages
of 1 GB of that space into applications, programs two address-translating bridges
on the FPGA card, and rewrites the addresses an application gives to accelerators.
This directory models that driver, the bridges as the driver uses them, and a cluster
of nodes; TLC checks the models on small instances and TLAPS proves the central
properties for all.

All source paths below are under `src/unimem_for_all/`.

## The system

| Part | State | Operations | Talks to |
|---|---|---|---|
| Character device (`unimem_main2.c` 197-532) | `data`, `virt_address`, `phys_address`, `memory_allocations`, two flags, lists of address registers | open, ioctl PASS_STRUCT, ACC_SETUP, ACC_POLL, ACC_REGISTER_HELPER; mmap; release | applications (system calls), bridges and accelerators (registers) |
| Translation and accelerator set-up (`unimem_ops.c` 249-339) | accelerator registers | setup_accelerator, translate_and_setup_reg, setup_reg, poll_accel | the device's table and lists |
| Bridges (`unimem_ops.c` 96-239) | Unimem-TO table, Unimem-FROM table, index and data registers | find candidate, replace entry, replace | PCIe accesses of the host, the other nodes |
| Loading (`unimem_main2.c` 535-798) | `CURRENT_NODE`, enable registers, both tables | unimem_init, unimem_exit | host name, PCI, device files |
| Address map (`unimem_defs.h`, tables in `unimem_ops.c`) | none | GVA of a region, window page, host name to coordinates | all others |
| Applications (`tests/`, `remote.c`, ...) | mappings | open, PASS_STRUCT, mmap, load, store, close | the device |
| Earlier drivers (`unimem_working.c`, `unimem_main2_06_10.c`, `unimem_backup_13-10.c`) | `data`, `kbuff`, a 16-slot Unimem-TO table | open, ioctl, mmap that replaces an entry or allocates a DMA buffer, release that frees it | applications, bridges, the kernel's DMA allocator |
| Mask generator (`masks/masks.c`) | none | gen_mask, gen_data | stand-alone |

What is hard here, and what correctness means:

* **One set of globals, many callers, no lock.** PASS_STRUCT leaves the request in a
  global that the following mmap reads; release clears everything, whoever else has
  the device open. The table must remain a prefix of filled entries, consistent and
  append-only, and be empty after the last session; the page a process maps should be
  the one it asked for. Threads that set up an accelerator search the table while others
  add to it. Nothing compares `memory_allocations` with the 24 entries there are.
* **First match wins.** munmap removes nothing from the table and mmap adds a
  duplicate each time. It must not matter which duplicate is found.
* **Widths.** The translation masks the bus address; the masks must not lose the bits
  that tell pages apart.
* **Register sequences.** A bridge entry is written in seven register writes that must
  amount to one replacement of one entry.
* **Replacing under a live mapping** (earlier drivers). A remote mmap replaces the entry
  of whichever slot the bridge offers, even if its own remap then fails; a release frees
  the one `kbuff`. A page should keep its buffer while it is mapped, and its target until
  the next remote mmap.
* **A table here, an access there.** What node *n* reads through its window depends
  on *n*'s TO table and *m*'s FROM table, loaded at different times by different
  drivers and rewritten by local mmaps.

## The modules

| Module | What it is |
|---|---|
| `UnimemMap` | addresses in pages of 1 GB: GVA layout, window, DRAM pages, host names, the tables unimem_init loads, the masks of the translation |
| `UnimemDriver` | the device of one node: one action per system call, several processes, the translation table, the accelerators' registers |
| `MCDriverShared`, `MCDriverExclusive` | instances of it |
| `UnimemDriverProofs`, `UnimemSessionProofs` | theorems about it: types and the table; sessions and a lone process |
| `TranslationLog` | abstract: a log of pairs to which whole pairs are added one at a time |
| `UnimemThreads` | PASS_STRUCT, mmap, ACC_SETUP and ACC_POLL load by load and store by store, by threads of one process; implements `TranslationLog` |
| `MCThreads` | two mapping threads and the users of accelerators |
| `UnimemThreadsProofs` | theorems about its mapping threads: entries are recorded whole, the table is a log |
| `UnimemUsersProofs` | theorems about its users of accelerators: types, what a set-up has done, that calls advance |
| `GlobalMemory` | abstract: one cell per region of a node |
| `UnimemCluster` | nodes with drivers, bridges and applications; implements `GlobalMemory` |
| `MCCluster` | two nodes of it |
| `ClusterProofs` | theorems about it: types, windows, the refinement |
| `TlbSpec` | abstract: a call replaces one entry and returns its slot |
| `ApbBridge` | the same, register by register, by several threads; implements `TlbSpec` |
| `MCBridge` | threads of one process, and of two |
| `BridgeProofs` | theorems about it: types, the refinement |
| `EvictingDriver` | the earlier drivers, in three versions: one action per system call, several processes |
| `MCEvicting` | two processes on two versions |
| `EvictingProofs` | theorems about it: types, and a process alone at the device |
| `UnimemMasks` | the mask generator: packing of a table line, data words of an address |
| `MCMasks` | a few fields and addresses of it, the driver's own pages among them |
| `UnimemMasksProofs` | theorems about it: the data words, the constants of the driver, the line |

`UnimemDriver` and `UnimemCluster` both build on `UnimemMap`. The cluster repeats
only the part of mmap that other nodes can notice (the target of the page and the
slot of Unimem-FROM); the driver's table and accelerators are local and stay in
`UnimemDriver`. `ApbBridge` justifies the one-step bridge updates of the other two, as
long as its calls come from one process. `UnimemThreads` takes the calls of `UnimemDriver`
apart for one process and one open file; `UnimemMasks` checks that the page numbers
`UnimemMap` reads out of the driver's table constants are the ones they encode.

### Code and actions

* `Open`, `PassStruct`, `Mmap...`, `AccRegisterHelper`, `AccSetup` are the handlers of
  `unimem_fops`; mmap is one action per group of branches, each with the remap, the
  bridge, the flag and the table entry in it. `MmapFails` is the `-EAGAIN` of any
  branch, `MmapNothing` the fall-through `return 0`.
* `Record` has no guard, as the code has none. In `unimem_main2.o` the arrays lie one
  behind the other: `virt_address` at 0x420, `phys_address` at 0x4e0, the pointer
  `accel_data` at 0x5a0 and `data` at 0x5b0. The first entry too many (`StoreBeyond`) so
  writes its GVA into `phys_address[0]` and its bus page into the pointer, which is then
  `"overwritten"` for good: release clears the arrays and not the pointer. A further
  entry would go on behind that; `MaxAllocations` stops the exploration before it.
  ACC_SETUP through the overwritten pointer writes wherever the bus page, taken for
  an address, leads, and is outside the model (`CanSetUp`).
* `Close`, `Munmap` and `Exit` are what a process does; the kernel calls
  `unimemfile_release` when the last of descriptor and mappings of one open file is
  gone (`ReleaseIfLast`). There is no `.flush`.
* `AfterSetup` is the loop of `setup_accelerator` as a function: of the writes to a word
  the last one stays. A register is a word; an address register is a word and the
  one behind it, with an offset of `LowSpan` units standing for the 2^30 of a page.
* A GVA page without `vma` is `NoVma`; a vma without memory behind it is `Hole`.
* In `UnimemCluster` unimem_init is four steps (`EnableBridges`, `LoadToTable`,
  `LoadFromTable`, `CreateDevice`), since other nodes can access this one between them.
  A node may have a name that the driver does not know: its `CURRENT_NODE` is -1, no
  region is local to it, and it reaches its own memory through its window.
* `EvictingDriver` is `unimem_working.c`, `unimem_main2_06_10.c` and
  `unimem_backup_13-10.c`; they differ, for this model, in the letters of their ioctls
  and in local region 2, a DMA buffer in the first two and an accelerator in the third.
  The slot that a remote mmap replaces is what the hardware returns
  (`unimem_ops.c:96-109`), which is told nothing of the slots in use: any slot. A process
  makes its ioctls, mmaps and munmaps in any order and has several pages at a time. The
  buffer stands for the page `virt_to_phys(kbuff)`. `alone`, `asked` and `got` are
  history: who has had the device to itself since it opened it, what its last call that
  copies into `data` passed (PASS_STRUCT, and ACC_SETUP of the backup version), and what
  had been asked for each of its pages. `Reload` is unimem_exit and unimem_init: the
  bridges and the kernel's allocator remember, the globals do not.
* In `UnimemThreads` each action is one load or store of a shared variable, in the order
  of the machine code in `unimem_main2.o` and `unimem_ops.o`: `data.node` and
  `data.region` are read when mmap branches, `data.base_addr` only after the remap; a
  local mmap stores the GVA first, a remote one the bus address; `memory_allocations`
  is passed to `setup_accelerator` by value, `accel_no` is read once, and
  `reg_number`, `accel_number`, offsets and data are read from the buffer each time round
  the outer loop. The inner loop (`unimem_ops.c:313-323`) names `accel_number` and
  `reg_offset[i]` in each round; the build loads each once, before it (`ReadRow` and
  `Match`, `unimem_ops.o` 0x669 and 0x66c), and compares with a row that no call of the
  model writes to.
  `copy_from_user` fills a structure in three pieces. `Enter` waits for the mmap lock
  that the kernel holds around every mmap of a process.
* In `UnimemMasks` a word is the set of its one-bits. `gen_mask` ors into an
  uninitialised local: what it finds there is chosen from `OnStack` at every call. All
  three parts of a line are 64 bits wide, as in the code, `bit_159_128` too; `WholeLine`
  is the 160 bits that they are to make up, and `Place` where the declared widths, and
  nothing else, put each field in it.

Definitions whose comment begins "Slip" are not part of the specification: each is a
mutated form of the definition after it, kept so that one can see that the
properties notice it.

## What is checked

| Run | Instance | Shows |
|---|---|---|
| `driver_shared` | 2 processes at once, node 0, 3 requests, table of 3 and an entry too many, a list of address registers | `TableFilled`, `TranslationUnique`, `FlagMatchesTable`, `AppendOnly` until the table is overrun, `QuiescentClean` in any case, however their calls are ordered |
| `driver_exclusive` | 2 processes one after the other, node 1, 6 requests, table of 2 and an entry too many, an accelerator | `MappingMatchesRequest`, `FlagCoversMapping`; until the table is overrun `MappedIsTranslatable`, `AlignedTranslation` |
| `cluster` | nodes 0 and 3, the second under its name or an unknown one, regions 0 and 1, two values | `ImplementsGlobalMemory`, `RemoteMatchesLocal` |
| `bridge` | 3 threads of one process, 2 slots, 2 words | `ImplementsTlb`, `ServedOnReturn` |
| `threads` | 2 mapping threads (a local and a remote region), a user that sets up an accelerator and one that polls another, table of 2; of the second mapper and the second user one at a time | `EntryRecorded`, `ImplementsLog`: entries are whole when counted; `SetUpInTurn`, `NoStrayInTurn`: a set-up beside mmaps is that of the moment of its call, as long as set-ups and polls take turns; `CallsAdvance`, `CallsReturn`: though they do not, no statement takes a call back, and every call returns |
| `evicting` | 2 processes at once, versions `main2_06_10` and `backup`, 2 slots, 2 buffers, up to 3 pages a process; own regions 1 and 2, remote regions 0 and 1 | `MappedBufferAllocated` and `LeadsToAsked` for a process that nobody else's session overlaps |
| `masks` | fields full, empty, one at a time and as `masks.c` sets them; addresses of the driver's pages, of `masks.c`, of single bits and of all; four contents of the stack | `LayoutKept`, `DriverWordsGenerated`, `FieldsApart` |

The bounds: two processes suffice for every pair of calls to interleave, and the
properties are about pairs of entries or of pages. Tables of 2 and 3 are filled, overrun
and cleared in both driver runs, by one process and by two. The requests cover every
branch of mmap. Slots 0 and 3 of the cluster keep the rows of the TO table apart from its
columns. Two slots for three pages of each of two processes let every slot be taken under
a mapping; version `working` differs from `main2_06_10` in a letter only, and the proofs
cover it. Three threads let one be in each phase of a register sequence. In `threads`
two mappers fill a table of two; a list of two registers, an address and the start
command, takes both ways through `setup_accelerator`, and the poll beside it passes a
list of one, so that the bound of the loop changes under it. Every bound on the
behaviour is a constant (`MaxOpen`, `MaxAllocations`, `MaxMapped`, `MaxPages`, `MaxMmaps`,
`RegSlots`, `LowSpan`, `Width`) and stands in a guard, but for one: the constraint
`OneOfTheSeconds` of `threads` keeps the second mapper and the second user from both
beginning a call. It cuts only beginnings, which are not fair steps, and no step of a call
that has begun; so every behaviour that is left is as fair as before, and a call that did
not return in it would be found.

Fairness is assumed in `UnimemThreads` only: weak fairness of each thread's steps inside
a call. A thread in a system call is in the kernel and runs on until it returns; nothing
obliges it to start another. Inside the calls nothing waits (a thread that waits for the
mmap lock has not entered mmap), so that `CallsReturn` is about the loops: their bounds,
`reg_number` in the shared buffer and the count of entries, are written by others while
they run: by the poll of the second user, and by the mmaps. `CallsAdvance` is the safety
half of that: each statement takes its call further in those loops or out of the driver,
and no statement of another thread takes it back. All other properties are safety
properties. Deadlock is checked in every run but `masks`, whose program returns from
main.

### Disagreements between the code and its texts

Five runs end in a counterexample, each of one property that a text of the repository
states:

* `translation_bits`: "translate the address and set up the register"
  (`unimem_ops.c:250`), but the masks lose bits 30-33.
* `stale_list_size`: "this is the length for each of the registers_vector above"
  (`unimem_main2.c:42`), but release clears the vectors and not the lengths.
* `threads_two_users`: `accel_data` is "where the data passed on by the user are stored"
  (`unimem_main2.c:33`), but of every user at once: an ACC_SETUP beside another one
  programs what the other passed.
* `cluster_region3`: region 3 sets up "the 0x150 for ddr4_0" (`unimem_main2.c:305`),
  but rewrites slot 1 with another page, under the remote mappings of region 1.
* `bridge_two_processes`: "Replaces a specific entry. Returns 0 on success"
  (`unimem_ops.h:48`), but nothing keeps the register writes of two processes apart.

Four more have no run of their own. The models show each of them; the property of a
passing run that comes near says in its comment where it stops:

* `fpgadram_allocation_flag` is "whether the fpga memory region has been allocated"
  (`unimem_main2.c:36`), but the release of one file clears it (500) while another
  process has such memory mapped. `FlagCoversMapping` is about processes that have the
  device one at a time; with `MaxOpen = 2` it fails.
* "16 remote allocations per app" (`unimem_main2.c:34`), but all applications share 24
  entries (34-35), and nothing keeps a 25th from being stored behind them.
* The notes of `masks.c:68-70` give the page size, zeros and the valid bit to word 3, but
  of the program's own address (line 74) the uninitialised mask may let bits of
  Addr[58:48] through to them. `LayoutKept` allows for exactly those.
* `masks.c:207` shifts `tag` by 32, its own width and that of the 4 bits beside it, so
  that it comes to bits 160-187 of a line of 160 bits (`masks.c:7`); in the order of the
  declarations its place is 132-159. `FieldsApart` is about all other fields.

## What is proved

For every number of processes, set of requests, node and table size, from
`DriverAssumption` and `NodeStrideAssumption` alone unless stated:

| Theorem | Statement | Argument |
|---|---|---|
| `TypeCorrect` | `Spec => []TypeOK` | `TypeOK` is not inductive: mmap computes from `data` without looking. `TypeInv` adds that `data` is a request once any process has passed one, and release forgets who did |
| `TableIsPrefix` | `Spec => []TableFilled` | each step records one entry at the end, clears the table, leaves it, or overruns it, after which only a clearing brings the count back (`StepOnTable`); recorded values are never zero (`RequestFacts`, `PhysPageFacts`) |
| `TableAppendOnly` | `Spec => AppendOnly` | the same cases |
| `FlagFollowsTable` | `Spec => []FlagMatchesTable` | the same; window pages lie above local DRAM |
| `OneTranslation` | `Spec => []TranslationUnique` if `LayoutDistinct` | `TableSound`: each entry is the GVA of some request with that request's page; `LayoutFits` shows that `LayoutDistinct` holds when each node has as many pages as regions |
| `LastReleaseCleans` | `Spec => []QuiescentClean` | `CloseAndHeld`: a step that ends a reference either releases, or leaves the file held; a release clears an overrun table as it does any other |
| `AloneGetsWhatItAskedFor` | `Spec /\ []OneHolder => []MappingMatchesRequest` if `LayoutDistinct` | `DataIsOwn`: `data` is what the holder passed, in whichever session; a mmap maps what the request in `data` names (`MmapMatches`), and no other call touches a mapping that stays |
| `AloneIsTranslated` | `Spec /\ []OneHolder => []MappedIsTranslatable` if `LayoutDistinct` | `MappedRecorded`: behind each page mapped from the BAR there is an entry with that page; by `TranslationUnique` the first match names the same page (`EntryTranslates`). What ACC_SETUP makes of that page is not part of it |
| `AloneFlagCovers` | `Spec /\ []OneHolder => []FlagCoversMapping` | the mmap of such a page sets the flag, and no release comes while its only holder has it mapped; neither the layout nor the table matters |
| `AloneAlignedReached` | `Spec /\ []OneHolder => []AlignedTranslation` if `LayoutDistinct` | the last writer of a word decides what it holds (`LastWriterDecides`); the masks keep a multiple of 16 (`AlignedPageKept`); as long as the pointer is that of the buffer the table has not been overrun (`BufferKept`) |

`OneHolder`: no two processes have the device at once. It is a hypothesis about the
behaviour, not about the constants: it does not limit how many processes there are or in
which order they come, and it holds in every behaviour with `MaxOpen = 1`, the instance
of run `driver_exclusive`. Without it a PASS_STRUCT of another process may come between
a request and its mmap, and a release clears what others use.
`TableFilled`, `TranslationUnique`, `FlagMatchesTable`, `AppendOnly` and
`MappedIsTranslatable` speak of the time before an overrun (`InBounds`) and after the
release that ends it; `AlignedTranslation` ends with the first overrun, since the pointer
does not come back. `LayoutDistinct`: each region has a GVA page of its own.

For every number of threads, from `ThreadsAssumption` and `NodeStrideAssumption`:

| Theorem | Statement | Argument |
|---|---|---|
| `EntriesRecorded` | `Spec => []EntryRecorded` | the mmap lock keeps mmaps apart (`Locked`, `OnlyHolderStores`), so the count a mmap has read is still the count when it stores and publishes (`RecordingBy`: what a mmap has done at each of its statements); no step of an ioctl on accelerators touches the table (`UsersKeepDriver`) |
| `TableIsLog` | `Spec => ImplementsLog` | `memory_allocations++` is the only step that changes the log (`OthersKeepLog`), and both words of the entry are stored and not 0 by then: pages behind the BAR are above 0 (`FpgaPages`), and a mmap runs only after a PASS_STRUCT (`Passed`) |
| `ThreadsTypeCorrect` | `Spec => []TypeOK` if `ListsFit` | `UserTypes` and `Placed`: what the registers of a call hold at each statement that indexes with them, while other users refill the buffer |
| `SetUpAlone` | `Spec => SetUpInTurn` if `ListsFit` and `RegistersExist` | `SetUpInv`: the buffer is the caller's list as far as it is copied (`Copied`); each register is read and looked up as the list has it (`Position`, `Reading`, `Searching`); the entries below the count the call was given stay (`EntriesStay`), so a register once done stays done until a later one shares a word with it (`DoneSoFar`) |
| `NoStrayAlone` | `Spec => NoStrayInTurn` if moreover `UppersReserved` | `StrayInv`: `SetUpInv`, and each address register is clean, or half-written by the thread that is between its two stores |
| `EveryCallAdvances` | `Spec => CallsAdvance` if `ListsFit` | for any number of users and mappers. `AdvanceInv`: the counters of the two loops stay within `RegSlots` and `TableSize`, whatever another user puts into the buffer (`AheadAt`). So a call executes a bounded number of statements |

`SetUpInTurn` is `[]OneAtATime => []SetUpDone`, `NoStrayInTurn` the same of
`NoStrayAddress`. The hypotheses, each of which the instance of run `threads` satisfies:
`ListsFit`: nobody passes more registers than the structure has (with more, a call that
has compared `reg_number` with 24 may find another one in the buffer,
`unimem_ops.c:306-311`). `RegistersExist`: the lists name words that the accelerators have.
`UppersReserved`: the upper half of an address register is not listed as a register of
its own. `OneAtATime`: no two set-ups or polls overlap, of however many threads, beside
any number that map; run `threads_two_users`, in which they do, shows that it is needed.

For every number of threads, slots, words and calls, from `BridgeAssumption`:

| Theorem | Statement | Argument |
|---|---|---|
| `BridgeTypeCorrect` | `Spec => []TypeOK` | `TypeOK` with the calls being made |
| `ServedInTurn` | `Spec /\ []OneCall => []ServedOnReturn` | `Progress`: what the registers hold when the call comes to each statement, the index the bridge has offered included |
| `ImplementsTlbInTurn` | `Spec /\ []OneCall => ImplementsTlb` | the write of the operation register is the replacement; all other steps leave the table |
| `BridgeServedOnReturn`, `BridgeImplementsTlb` | the two without `OneCall`, if `OneAddressSpace` | `Locked`: a thread is in its call exactly while it holds the lock of its address space |

`OneCall`: no two calls overlap, of however many processes. The kernel's mmap lock sees
to that for threads of one process (`OneAddressSpace`) and for no others; run
`bridge_two_processes` shows that it is needed.

For every set of nodes, names, regions, values and layouts, from `ClusterAssumption` and
`NodeStrideAssumption`:

| Theorem | Statement | Argument |
|---|---|---|
| `ClusterTypeCorrect` | `Spec => []TypeOK` | `TInv`: tables hold what the driver writes, so accesses arrive in DRAM (`ReachesDram`) |
| `ClusterRemoteMatches` | `Spec => []RemoteMatchesUnlessTaken` | `LInv`: what both tables of a node hold at each stage of its loading, slot 1 of Unimem-FROM being that of region 1 or of region 3. Slot and coordinates name one node (`CoordinatesDistinct`), so that what leaves for a region arrives at the page of that region or nowhere (`ArrivesAtCell`) |
| `ClusterRemoteMatchesLocal` | `Spec => []RemoteMatchesLocal` if `NoRegion3` | slot 1 is then never taken (`NeverTaken`) |
| `ClusterImplementsGlobalMemory` | `Spec => ImplementsGlobalMemory` if `RegionsFit` | `IInv` adds that each mapping is the one its GVA page names (`MappedAs`, by `GVAInjective`); a load or store then acts on one cell of the abstract memory, and all other steps stutter |

A mmap of local region 3 rewrites slot 1 of Unimem-FROM (run `cluster_region3`).
`RemoteMatchesUnlessTaken` is `RemoteMatchesLocal` with the exception of region 1 of
such a node (`Taken`): nothing else is lost. The accesses of others to that region then
arrive in no page that the model knows, and fail; `GlobalMemory` leaves open whether an
access succeeds, so that it is implemented all the same. `NoRegion3`: nobody maps it.
`RegionsFit`: the applications' layout has a page for each region of a node. Programs
that count one page per node, as `remote.c:146`, satisfy it for region 0 only, those of
`simple_test.c:103` for regions 0 to 2.

For every AxUSER value, address, set of field values and content of the stack, from
`MasksAssumption`:

| Theorem | Statement | Argument |
|---|---|---|
| `MasksTypeCorrect` | `Spec => []TypeOK` | inductive as it stands |
| `LayoutOfWords` | `Spec => []LayoutKept` | `WordLayout`, bit by bit: what `gen_mask` may let through is cut off at the end of the word in words 0 to 2, and in word 3 is `LetThrough` |
| `DriverConstantsGenerated` | `Spec => []DriverWordsGenerated` | from `LayoutOfWords`: the digits of each constant of the driver are computed (`Digit`, `ConstantBits`), those of the page stand where the layout has them (`DriverWordLayout`), and the pages are too low for a bit to be let through |
| `FieldsFound` | `Spec => []FieldsApart` if `FieldsFit` | a field of its width passes its mask as it is (`FieldKept`); part and shift bring each field to its place, but tag behind the line (`StandingOf`); the places follow from the widths (`PlacesOfWidths`) and do not overlap (`StandingApart`), so that a bit of the line at the place of a field is a bit of that field (`LineBits`) |

`FieldsFit`: each field is assigned a value of its width. A wider one loses bits or, if
`gen_mask` finds them set, spills into its neighbour.

For every number of processes, slots, buffers and choice of versions, from
`EvictingAssumption`:

| Theorem | Statement | Argument |
|---|---|---|
| `EvictingTypeCorrect` | `Spec => []TypeOK` | inductive as it stands |
| `BufferKept` | `Spec => []MappedBufferAllocated` | `AloneInv`: a process alone is the only one with the device, so only its own last reference brings a release; its buffers are allocated, and no two mmaps get the same one |
| `AloneReachesRequest` | `Spec => []LeadsToAsked` | the same; it finds in `data` what it asked last, and each of its pages leads where it had asked for it (`Leads`), a window page through its slot |

The two are not inductive because they speak of mapped pages only: a release by another
process, or a request overwritten before the mmap, would break them later.

`EntryRecorded` alone is not inductive: it speaks of the last statement of mmap, and
needs what holds at each of the earlier ones.

`LayoutDistinct` is a real condition: `remote.c:146` counts one page per node, so that
region 1 of a node and region 0 of the next share a GVA page; `simple_test.c:103` counts
three, which suffices for regions 0 to 2.

Only model-checked: `CallsReturn`, since TLAPS 1.4.5 proves no liveness under fairness.
What keeps a call from returning would be a loop whose bound moves away, and
`CallsAdvance` excludes it by proof.
The runs that expect a violation show the reverse of a theorem's hypothesis
(`threads_two_users`, `bridge_two_processes`, `cluster_region3`) or of a property that
holds more weakly (`translation_bits`: `AlignedTranslation` instead).

## What is left out

* **Sizes from user space.** ACC_REGISTER_HELPER checks neither the accelerator's number
  nor the length of its list (`unimem_main2.c:462-468`), and ACC_SETUP not the number.
  `DriverAssumption` takes lists no longer than a row and numbers in range, as the
  applications pass; the byte that every list spills over its end is in the model.
* **Statements of two processes.** In `UnimemDriver` a system call is one step. The
  threads of `UnimemThreads` share one process, hence its mmap lock; two processes in
  mmap at once would not, and can lose an entry (`memory_allocations++`). Neither module
  runs release beside the statements of another call: of the same file it cannot, of
  another file it can.
* Two PASS_STRUCTs at once may leave a request whose parts come from both, and a
  mmap records the GVA that is in `data` when it stores, not when it branches. The
  model does both; no property says they are harmless, because they are not.
* In `UnimemThreads`: the two flags, which nothing reads; overruns of the table, which
  `UnimemDriver` has; changes an accelerator makes to its own registers.
* PCI and DMA set-up. What the bridges do while disabled is taken to be nothing.
* A copy from user space that is cut short: the code takes it for a whole one.
* Accelerators that run on after their process has gone: they are hardware, and nothing
  here says when they stop.
* In `EvictingDriver`: the vector of ACC_REGISTER_HELPER, which is printed and read by
  nothing; what a process with the device beside others may rely on, which is nothing;
  that `kbuff` forgets a buffer when a second one is allocated is in the model, and no
  property denies it. The node number of a remote request is not in the bridge entry
  (`data1` is 0): these versions join two nodes. The pages are told apart by where they
  lead, not by the address they are mapped at.
* What lies behind an overrun of the table by more than one entry, and an ACC_SETUP
  after one.
* In `UnimemCluster`: what an empty bridge entry, and the page that region 3 puts into
  Unimem-FROM, lead to. The model takes them to lead nowhere; the repository does not
  describe that hardware.
* Page sizes other than 1 GB in `masks.c`, which are not compiled. Its branches for them
  use Addr[49:30] where its notes (65-66) say Addr[47:28].
* The release of `kbuff` in `unimem_main2.c`, which never allocates it; cache attributes
  of mappings.
* How `masks.c` prints a line: it joins the three parts as decimal numbers (220-229).
* Measurements, binaries, generated code; `clock_test*.c` and `evilapp.c`, which do not
  use the driver.

## Plan

1. *Done:* `UnimemMap`, `UnimemDriver` and its theorems; `ApbBridge` with `TlbSpec`;
   `UnimemCluster` with `GlobalMemory`, bridges being enabled and unknown names included;
   `UnimemThreads` with `TranslationLog` and its theorems; `UnimemMasks`;
   `EvictingDriver` and its theorems.
2. *Done:* theorems for every property of the runs that pass, but for `CallsReturn`.
3. `UnimemThreads` as an implementation of `UnimemDriver` for calls that do not overlap
   except in the way `SetUpInTurn` allows; statements of two processes, and a release
   beside them; regions 2 and 3 across nodes.

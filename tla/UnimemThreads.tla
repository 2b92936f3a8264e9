---------------------------- MODULE UnimemThreads ----------------------------
(***************************************************************************)
(* PASS_STRUCT, mmap, ACC_SETUP and ACC_POLL one load or store of a shared *)
(* variable at a time, as the threads of a process that has opened the     *)
(* device execute them.  The kernel holds mmap_lock around mmap; ioctls    *)
(* are unlocked.  release needs the last reference to the file, which no   *)
(* thread inside a call has given up, so none runs here.                   *)
(*                                                                         *)
(* Loads and stores are those of the build beside the source               *)
(* (unimem_main2.o, unimem_ops.o), in its order.  The bridge is ApbBridge's *)
(* subject; the two flags, which nothing reads, are left out.              *)
(***************************************************************************)
EXTENDS UnimemMap, Sequences

CONSTANTS
  Mappers, Users,    \* threads that call mmap; threads that use accelerators
  NoThread,          \* nobody holds the lock
  Wanted,            \* pairs <<node, region>> that each mapper asks for
  CURRENT_NODE,
  TableSize,         \* 24; mmaps beyond it are UnimemDriver's subject
  MaxMmaps,          \* bound: mmaps of one thread
  RegSlots,          \* 24: reg_offset and reg_data of an acc_data
  LowSpan,           \* bound: offsets into a page that are told apart
  AddressRegisters,  \* pairs <<accelerator, offset>> that were listed before
  AccelRegisters,    \* pairs <<accelerator, word>>
  Structs,           \* the acc_data that each user passes
  Commands           \* the ioctls that each user makes, of "setup" and "poll"

Threads == Mappers \cup Users

Slots    == 0..RegSlots - 1
Acc_data == [accel_number : Nat, reg_number : Int, poll_value : Nat,
             reg_offset : [Slots -> Nat], reg_data : [Slots -> Nat]]

ASSUME ThreadsAssumption ==
  /\ Mappers \cap Users = {} /\ NoThread \notin Threads
  /\ \A t \in Mappers : Wanted[t] \subseteq Nat \X Nat
  /\ CURRENT_NODE \in Int
  /\ TableSize \in Nat /\ MaxMmaps \in Nat /\ RegSlots \in Nat /\ LowSpan \in Nat \ {0}
  /\ AddressRegisters \subseteq AccelRegisters /\ AccelRegisters \subseteq Nat \X Nat
  /\ \A u \in Users : Structs[u] \subseteq Acc_data /\ Commands[u] \subseteq {"setup", "poll"}
  /\ \A u \in Users : \A s \in Structs[u] : <<s.accel_number, 0>> \in AccelRegisters

VARIABLES
  data, virt_address, phys_address, memory_allocations,
  mmap_lock,
  pc,                      \* where each thread is
  request,                 \* the unimem_data each mapper passes
  mmaps,                   \* how often it has called mmap
  node, page, slot, base,  \* registers of the mappers' calls
  accel_data, acc_regs,
  call,                    \* the acc_data each user passes
  frame                    \* registers of the users' calls

table    == <<virt_address, phys_address, memory_allocations>>
mapper   == <<request, mmaps, node, page, slot, base>>
user     == <<accel_data, acc_regs, call, frame>>
vars     == <<data, table, mmap_lock, pc, mapper, user>>

-----------------------------------------------------------------------------
Entries == 0..TableSize - 1
Request(w) == [node |-> w[1], region |-> w[2], base_addr |-> GVA(w[1], w[2])]
Requests(t) == {Request(w) : w \in Wanted[t]}
NoRequest  == [node |-> 0, region |-> 0, base_addr |-> 0]
NoSlot     == -1
NoStruct   == [accel_number |-> 0, reg_number |-> 0, poll_value |-> 0,
               reg_offset |-> [j \in Slots |-> 0], reg_data |-> [j \in Slots |-> 0]]
NoFrame    == [cmd |-> "none", accel |-> 0, count |-> 0, i |-> 0, row |-> 0, offset |-> 0,
               value |-> 0, translate |-> FALSE, k |-> 0, page |-> 0]

Init ==
  /\ data = NoRequest
  /\ virt_address = [e \in Entries |-> 0] /\ phys_address = [e \in Entries |-> 0]
  /\ memory_allocations = 0
  /\ mmap_lock = NoThread
  /\ pc = [t \in Threads |-> "idle"]
  /\ request = [t \in Mappers |-> NoRequest]
  /\ mmaps = [t \in Mappers |-> 0]
  /\ node = [t \in Mappers |-> 0] /\ page = [t \in Mappers |-> 0]
  /\ slot = [t \in Mappers |-> NoSlot] /\ base = [t \in Mappers |-> 0]
  /\ accel_data = NoStruct /\ acc_regs = [w \in AccelRegisters |-> 0]
  /\ call = [u \in Users |-> NoStruct] /\ frame = [u \in Users |-> NoFrame]

Goto(t, from, to) == pc[t] = from /\ pc' = [pc EXCEPT ![t] = to]

-----------------------------------------------------------------------------
(* PASS_STRUCT: copy_from_user fills 'data' from its first word to its last. *)

PassStruct(t) ==
  /\ Goto(t, "idle", "copy node") /\ mmaps[t] < MaxMmaps
  /\ \E r \in Requests(t) : /\ request' = [request EXCEPT ![t] = r]
                            /\ data' = [data EXCEPT !.region = r.region]
  /\ UNCHANGED <<table, mmap_lock, mmaps, node, page, slot, base, user>>

CopyNode(t) ==
  /\ Goto(t, "copy node", "copy base_addr")
  /\ data' = [data EXCEPT !.node = request[t].node]
  /\ UNCHANGED <<table, mmap_lock, mapper, user>>

CopyBase(t) ==
  /\ Goto(t, "copy base_addr", "idle")
  /\ data' = [data EXCEPT !.base_addr = request[t].base_addr]
  /\ UNCHANGED <<table, mmap_lock, mapper, user>>

-----------------------------------------------------------------------------
(* mmap, for a thread that has passed a request. *)

\* Slip: mmap_lock taken for reading, which lets other calls in.
EnterShared(t) ==
  /\ Goto(t, "idle", "branch") /\ request[t] # NoRequest
  /\ memory_allocations < TableSize /\ mmaps[t] < MaxMmaps
  /\ mmaps' = [mmaps EXCEPT ![t] = @ + 1]
  /\ mmap_lock' = NoThread
  /\ node' = [node EXCEPT ![t] = data.node]
  /\ UNCHANGED <<data, table, request, page, slot, base, user>>

Enter(t) ==
  /\ Goto(t, "idle", "branch") /\ request[t] # NoRequest
  /\ memory_allocations < TableSize /\ mmaps[t] < MaxMmaps
  /\ mmaps' = [mmaps EXCEPT ![t] = @ + 1]
  /\ mmap_lock = NoThread /\ mmap_lock' = t
  /\ node' = [node EXCEPT ![t] = data.node]
  /\ UNCHANGED <<data, table, request, page, slot, base, user>>

\* The branch whose page lies behind the UNIMEM BAR goes on to record it.
Branch(t) ==
  /\ Goto(t, "branch", "slot")
  /\ Target(CURRENT_NODE, node[t], data.region).bar = "UNIMEM_BAR"
  /\ page' = [page EXCEPT ![t] = Target(CURRENT_NODE, node[t], data.region).page]
  /\ UNCHANGED <<data, table, mmap_lock, request, mmaps, node, slot, base, user>>

\* Slip: -EAGAIN, the result of a refused remap, taken for the page.
BranchAwayError(t) ==
  /\ Goto(t, "branch", "slot")
  /\ page' = [page EXCEPT ![t] = -11]
  /\ UNCHANGED <<data, table, mmap_lock, request, mmaps, node, slot, base, user>>

\* Host DRAM, an accelerator, no branch, or a remap that is refused.
BranchAway(t) ==
  /\ Goto(t, "branch", "leave")
  /\ UNCHANGED <<data, table, mmap_lock, mapper, user>>

ReadSlot(t) ==
  /\ Goto(t, "slot", "base")
  /\ slot' = [slot EXCEPT ![t] = memory_allocations]
  /\ UNCHANGED <<data, table, mmap_lock, request, mmaps, node, page, base, user>>

ReadBase(t) ==
  /\ Goto(t, "base", "first")
  /\ base' = [base EXCEPT ![t] = data.base_addr]
  /\ UNCHANGED <<data, table, mmap_lock, request, mmaps, node, page, slot, user>>

StoreVirt(t) ==
  /\ virt_address' = [virt_address EXCEPT ![slot[t]] = base[t]]
  /\ UNCHANGED phys_address

StorePhys(t) ==
  /\ phys_address' = [phys_address EXCEPT ![slot[t]] = page[t]]
  /\ UNCHANGED virt_address

\* The local branches store the GVA first, the remote ones the bus address.
StoreFirst(t) ==
  /\ Goto(t, "first", "second")
  /\ IF node[t] = CURRENT_NODE THEN StoreVirt(t) ELSE StorePhys(t)
  /\ UNCHANGED <<data, memory_allocations, mmap_lock, mapper, user>>

\* Slip: memory_allocations++ moved before the second store.
StoreSecondLate(t) ==
  /\ Goto(t, "second", "publish")
  /\ memory_allocations' = slot[t] + 1
  /\ UNCHANGED <<data, virt_address, phys_address, mmap_lock, mapper, user>>

StoreSecond(t) ==
  /\ Goto(t, "second", "publish")
  /\ IF node[t] = CURRENT_NODE THEN StorePhys(t) ELSE StoreVirt(t)
  /\ UNCHANGED <<data, memory_allocations, mmap_lock, mapper, user>>

Publish(t) ==
  /\ Goto(t, "publish", "leave")
  /\ memory_allocations' = slot[t] + 1
  /\ UNCHANGED <<data, virt_address, phys_address, mmap_lock, mapper, user>>

Leave(t) ==
  /\ Goto(t, "leave", "idle")
  /\ mmap_lock' = NoThread
  /\ node' = [node EXCEPT ![t] = 0] /\ page' = [page EXCEPT ![t] = 0]
  /\ slot' = [slot EXCEPT ![t] = NoSlot] /\ base' = [base EXCEPT ![t] = 0]
  /\ UNCHANGED <<data, table, request, mmaps, user>>

InMmap(t) == \/ Branch(t) \/ BranchAway(t) \/ ReadSlot(t) \/ ReadBase(t)
             \/ StoreFirst(t) \/ StoreSecond(t) \/ Publish(t) \/ Leave(t)

-----------------------------------------------------------------------------
(* ACC_SETUP and ACC_POLL begin with a copy of the whole acc_data, of which  *)
(* its head, its offsets and its data are told apart.                        *)

driver == <<data, table, mmap_lock, mapper>>

StartIoctl(u) ==
  /\ Goto(u, "idle", "copy offsets")
  /\ \E s \in Structs[u], c \in Commands[u] :
       /\ call' = [call EXCEPT ![u] = s]
       /\ frame' = [frame EXCEPT ![u] = [NoFrame EXCEPT !.cmd = c]]
       /\ accel_data' = [accel_data EXCEPT !.accel_number = s.accel_number,
                                           !.reg_number = s.reg_number]
  /\ UNCHANGED <<driver, acc_regs>>

CopyOffsets(u) ==
  /\ Goto(u, "copy offsets", "copy data")
  /\ accel_data' = [accel_data EXCEPT !.reg_offset = call[u].reg_offset]
  /\ UNCHANGED <<driver, acc_regs, call, frame>>

CopyData(u) ==
  /\ Goto(u, "copy data", frame[u].cmd)
  /\ accel_data' = [accel_data EXCEPT !.reg_data = call[u].reg_data,
                                      !.poll_value = call[u].poll_value]
  /\ UNCHANGED <<driver, acc_regs, call, frame>>

-----------------------------------------------------------------------------
(* setup_accelerator, with memory_allocations passed by value. *)

\* The registers of the loop's body are dead when it comes round again.
NextRegister(f) == [NoFrame EXCEPT !.cmd = f.cmd, !.accel = f.accel, !.count = f.count,
                                   !.i = f.i + 1]

Keep(u, f) == frame' = [frame EXCEPT ![u] = f] /\ UNCHANGED <<driver, accel_data, call>>

CallSetup(u) ==
  /\ Goto(u, "setup", "latch")
  /\ Keep(u, [frame[u] EXCEPT !.count = memory_allocations])
  /\ UNCHANGED acc_regs

Latch(u) ==
  /\ Goto(u, "latch", IF accel_data.reg_number > RegSlots THEN "return" ELSE "loop")
  /\ Keep(u, [frame[u] EXCEPT !.accel = accel_data.accel_number])
  /\ UNCHANGED acc_regs

Loop(u) ==
  /\ Goto(u, "loop", IF frame[u].i < accel_data.reg_number THEN "row" ELSE "return")
  /\ UNCHANGED <<driver, user>>

\* The row of acc_registers_vector is that of the accelerator number now in the
\* buffer.
ReadRow(u) ==
  /\ Goto(u, "row", "match")
  /\ Keep(u, [frame[u] EXCEPT !.row = accel_data.accel_number])
  /\ UNCHANGED acc_regs

\* The build loads reg_offset once and compares it with the whole row, which no
\* call here writes to.
Match(u) ==
  /\ Goto(u, "match", "value")
  /\ LET o == accel_data.reg_offset[frame[u].i]
     IN Keep(u, [frame[u] EXCEPT
          !.offset = o, !.translate = <<frame[u].row, o>> \in AddressRegisters])
  /\ UNCHANGED acc_regs

ReadValue(u) ==
  /\ Goto(u, "value", IF frame[u].translate THEN "offset" ELSE "write")
  /\ Keep(u, [frame[u] EXCEPT !.value = accel_data.reg_data[frame[u].i]])
  /\ UNCHANGED acc_regs

\* The offset is read again for the call of translate_and_setup_reg.
ReadOffset(u) ==
  /\ Goto(u, "offset", "search")
  /\ Keep(u, [frame[u] EXCEPT !.offset = accel_data.reg_offset[frame[u].i], !.k = 0])
  /\ UNCHANGED acc_regs

PageOf(address)  == address \div LowSpan
LowWord(address) == address % (4 * LowSpan)

\* Slip: the last entry below the count is not looked at.
SearchShort(u) ==
  LET f == frame[u] IN
  /\ pc[u] = "search"
  /\ IF f.k + 1 >= f.count
     THEN Goto(u, "search", "loop") /\ Keep(u, NextRegister(f))
     ELSE IF virt_address[f.k] = PageOf(f.value)
     THEN Goto(u, "search", "translate") /\ Keep(u, f)
     ELSE UNCHANGED pc /\ Keep(u, [f EXCEPT !.k = @ + 1])
  /\ UNCHANGED acc_regs

\* Slip: the search runs over every entry, not up to the count it was passed.
SearchBeyond(u) ==
  LET f == frame[u] IN
  /\ pc[u] = "search"
  /\ IF f.k = TableSize
     THEN Goto(u, "search", "loop") /\ Keep(u, NextRegister(f))
     ELSE IF virt_address[f.k] = PageOf(f.value)
     THEN Goto(u, "search", "translate") /\ Keep(u, f)
     ELSE UNCHANGED pc /\ Keep(u, [f EXCEPT !.k = @ + 1])
  /\ UNCHANGED acc_regs

\* Slip: an address without an entry is tried again, not passed over.
SearchAgain(u) ==
  LET f == frame[u] IN
  /\ pc[u] = "search"
  /\ IF f.k = f.count
     THEN Goto(u, "search", "loop") /\ Keep(u, f)
     ELSE IF virt_address[f.k] = PageOf(f.value)
     THEN Goto(u, "search", "translate") /\ Keep(u, f)
     ELSE UNCHANGED pc /\ Keep(u, [f EXCEPT !.k = @ + 1])
  /\ UNCHANGED acc_regs

\* One entry of the search; without a match the register is passed over.
Search(u) ==
  LET f == frame[u] IN
  /\ pc[u] = "search"
  /\ IF f.k = f.count
     THEN Goto(u, "search", "loop") /\ Keep(u, NextRegister(f))
     ELSE IF virt_address[f.k] = PageOf(f.value)
     THEN Goto(u, "search", "translate") /\ Keep(u, f)
     ELSE UNCHANGED pc /\ Keep(u, [f EXCEPT !.k = @ + 1])
  /\ UNCHANGED acc_regs

ReadPhys(u) ==
  /\ Goto(u, "translate", "low")
  /\ Keep(u, [frame[u] EXCEPT !.page = phys_address[frame[u].k]])
  /\ UNCHANGED acc_regs

WriteLow(u) ==
  /\ Goto(u, "low", "high")
  /\ acc_regs' = [acc_regs EXCEPT ![<<frame[u].accel, frame[u].offset>>] =
                                    frame[u].value % LowSpan]
  /\ UNCHANGED <<driver, accel_data, call, frame>>

WriteHigh(u) ==
  /\ Goto(u, "high", "loop")
  /\ acc_regs' = [acc_regs EXCEPT ![<<frame[u].accel, frame[u].offset + 1>>] =
                                    KeptPage(frame[u].page) \div 4]
  /\ Keep(u, NextRegister(frame[u]))

setup_reg(u) ==
  /\ Goto(u, "write", "loop")
  /\ acc_regs' = [acc_regs EXCEPT ![<<frame[u].accel, frame[u].offset>>] =
                                    LowWord(frame[u].value)]
  /\ Keep(u, NextRegister(frame[u]))

Return(u) ==
  /\ Goto(u, "return", "idle")
  /\ Keep(u, NoFrame)
  /\ UNCHANGED acc_regs

-----------------------------------------------------------------------------
(* ACC_POLL: the register goes into the buffer, and the whole buffer to the  *)
(* caller.                                                                   *)

ReadNumber(u) ==
  /\ Goto(u, "poll", "register")
  /\ Keep(u, [frame[u] EXCEPT !.accel = accel_data.accel_number])
  /\ UNCHANGED acc_regs

poll_accel(u) ==
  /\ Goto(u, "register", "poll_value")
  /\ Keep(u, [frame[u] EXCEPT !.value = acc_regs[<<frame[u].accel, 0>>]])
  /\ UNCHANGED acc_regs

StorePoll(u) ==
  /\ Goto(u, "poll_value", "copy back")
  /\ accel_data' = [accel_data EXCEPT !.poll_value = frame[u].value]
  /\ UNCHANGED <<driver, acc_regs, call, frame>>

CopyBack(u) ==
  /\ Goto(u, "copy back", "idle")
  /\ call' = [call EXCEPT ![u] = accel_data]
  /\ frame' = [frame EXCEPT ![u] = NoFrame]
  /\ UNCHANGED <<driver, accel_data, acc_regs>>

InIoctl(u) ==
  \/ CopyOffsets(u) \/ CopyData(u) \/ CallSetup(u) \/ Latch(u) \/ Loop(u) \/ ReadRow(u)
  \/ Match(u) \/ ReadValue(u) \/ ReadOffset(u) \/ Search(u) \/ ReadPhys(u) \/ WriteLow(u)
  \/ WriteHigh(u) \/ setup_reg(u) \/ Return(u)
  \/ ReadNumber(u) \/ poll_accel(u) \/ StorePoll(u) \/ CopyBack(u)

-----------------------------------------------------------------------------
InCall(t) == (t \in Mappers /\ (CopyNode(t) \/ CopyBase(t) \/ InMmap(t)))
               \/ (t \in Users /\ InIoctl(t))

Next == \/ \E t \in Mappers : PassStruct(t) \/ Enter(t)
        \/ \E u \in Users : StartIoctl(u)
        \/ \E t \in Threads : InCall(t)

\* A thread inside a system call goes on; none has to start one.
Spec == Init /\ [][Next]_vars /\ \A t \in Threads : WF_vars(InCall(t))
-----------------------------------------------------------------------------
(* Properties. *)

Pcs == {"idle", "copy node", "copy base_addr", "branch", "slot", "base", "first", "second",
        "publish", "leave", "copy offsets", "copy data", "setup", "latch", "loop", "row", "match",
        "value", "offset", "search", "translate", "low", "high", "write", "return", "poll",
        "register", "poll_value", "copy back"}

TypeOK ==
  /\ data \in [node : Nat, region : Nat, base_addr : Nat]
  /\ virt_address \in [Entries -> Nat] /\ phys_address \in [Entries -> Nat]
  /\ memory_allocations \in 0..TableSize
  /\ mmap_lock \in Mappers \cup {NoThread}
  /\ pc \in [Threads -> Pcs]
  /\ \A t \in Mappers : request[t] \in Requests(t) \cup {NoRequest}
  /\ mmaps \in [Mappers -> 0..MaxMmaps]
  /\ node \in [Mappers -> Nat] /\ page \in [Mappers -> Nat] /\ base \in [Mappers -> Nat]
  /\ slot \in [Mappers -> Entries \cup {NoSlot}]
  /\ acc_regs \in [AccelRegisters -> Nat]

\* A mmap that returns has recorded what it was to record: the slot it took is
\* below memory_allocations and holds its GVA and its bus page, and no other
\* mmap has stored into that slot.
EntryRecorded ==
  \A t \in Mappers :
    (pc[t] = "leave" /\ slot[t] # NoSlot) =>
      /\ slot[t] < memory_allocations
      /\ virt_address[slot[t]] = base[t] /\ phys_address[slot[t]] = page[t]

LogOfTable ==
  [i \in 1..memory_allocations |-> <<virt_address[i - 1], phys_address[i - 1]>>]

Log == INSTANCE TranslationLog WITH log <- LogOfTable

\* The entries below memory_allocations are a log to which whole entries are
\* added one at a time: whatever the stores of mmap and PASS_STRUCT are mixed
\* with, a reader that goes by the count never sees half an entry.
ImplementsLog == Log!Spec

\* The words a register of a call is written to.
WordsOf(s, j) ==
  {<<s.accel_number, s.reg_offset[j]>>} \cup
  (IF <<s.accel_number, s.reg_offset[j]>> \in AddressRegisters
   THEN {<<s.accel_number, s.reg_offset[j] + 1>>} ELSE {})

\* The first of the entries below n whose GVA page is that of the address.
FirstBelow(n, address, e) ==
  /\ e < n /\ virt_address[e] = PageOf(address)
  /\ \A d \in 0..e - 1 : virt_address[d] # PageOf(address)

HoldsAddress(w, address, e) ==
  /\ acc_regs[w] = address % LowSpan
  /\ acc_regs[<<w[1], w[2] + 1>>] = KeptPage(phys_address[e]) \div 4

\* No two ioctls overlap.
OneAtATime == \A u, v \in Users : pc[u] # "idle" /\ pc[v] # "idle" => u = v

\* An ACC_SETUP that returns has done what the acc_data passed to it says ("this
\* is where the data passed on by the user are stored", unimem_main2.c:33), as
\* if it had run at the moment of its call: each register that no later one of
\* the list overwrites holds its data, or the translation of its address by the
\* entries that there were, whatever was mapped meanwhile.
SetUpDone ==
  \A u \in Users : pc[u] = "return" =>
    LET s == call[u] IN
    \A j \in 0..s.reg_number - 1 :
      (\A l \in j + 1..s.reg_number - 1 : WordsOf(s, l) \cap WordsOf(s, j) = {}) =>
        LET w == <<s.accel_number, s.reg_offset[j]>> IN
        IF w \notin AddressRegisters THEN acc_regs[w] = LowWord(s.reg_data[j])
        ELSE \A e \in Entries : FirstBelow(frame[u].count, s.reg_data[j], e) =>
               HoldsAddress(w, s.reg_data[j], e)

\* While ACC_SETUP and ACC_POLL have been called one at a time, by however many
\* threads and whatever they map meanwhile, every set-up is done as it was passed.
SetUpInTurn == []OneAtATime => []SetUpDone

\* No accelerator is ever given an address that is not the translation, by a
\* recorded entry, of one some user passed: an address register that is not
\* being written holds such an address or nothing.
NoStrayAddress ==
  \A w \in AddressRegisters :
    (\A u \in Users : pc[u] # "high") =>
      \/ acc_regs[w] = 0 /\ acc_regs[<<w[1], w[2] + 1>>] = 0
      \/ \E u \in Users : \E s \in Structs[u], e \in 0..memory_allocations - 1 :
           \E j \in 0..s.reg_number - 1 :
             PageOf(s.reg_data[j]) = virt_address[e] /\ HoldsAddress(w, s.reg_data[j], e)

\* Nor does a set-up in its turn ever leave such an address behind.
NoStrayInTurn == []OneAtATime => []NoStrayAddress

\* How far a call has come, of a mmap, a set-up or a poll; a round of the set-up's
\* loop runs from "loop" to the stage before the last.
Stage(p) ==
  CASE p \in {"copy node", "branch", "copy offsets"} -> 1
    [] p \in {"copy base_addr", "slot", "copy data"} -> 2
    [] p \in {"base", "setup", "poll"}               -> 3
    [] p \in {"first", "latch", "register"}          -> 4
    [] p \in {"second", "loop", "poll_value"}        -> 5
    [] p \in {"publish", "row", "copy back"}         -> 6
    [] p \in {"leave", "match"}                      -> 7
    [] p = "value"               -> 8
    [] p \in {"offset", "write"} -> 9
    [] p = "search"              -> 10
    [] p = "translate"           -> 11
    [] p = "low"                 -> 12
    [] p = "high"                -> 13
    [] p = "return"              -> 14

\* To a later stage; or to a later register, or a later entry, of which there are
\* only so many.
Further(t) ==
  \/ t \in Mappers /\ Stage(pc[t]) < Stage(pc'[t])
  \/ /\ t \in Users /\ frame'[t].i <= RegSlots /\ frame'[t].k <= TableSize
     /\ \/ frame[t].i < frame'[t].i
        \/ frame[t].i = frame'[t].i /\ Stage(pc[t]) < Stage(pc'[t])
        \/ frame[t].i = frame'[t].i /\ pc[t] = pc'[t] /\ frame[t].k < frame'[t].k

\* Each statement takes a call further or out of the driver, and no other thread
\* ever takes it back: the buffer that is rewritten under a set-up, and the table
\* that grows under its search, cannot keep it going beyond RegSlots registers of
\* TableSize entries each.
CallsAdvance ==
  [][\A t \in Threads : pc[t] # "idle" =>
       IF InCall(t) THEN pc'[t] = "idle" \/ Further(t)
       ELSE pc'[t] = pc[t] /\ (t \in Users => frame'[t] = frame[t])]_vars

\* Every call returns: the search and the loops end, though the buffer that
\* bounds them, and the table they run over, change under way.
CallsReturn == \A t \in Threads : pc[t] # "idle" ~> pc[t] = "idle"
=============================================================================

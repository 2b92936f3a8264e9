------------------------ MODULE UnimemThreadsProofs ------------------------
(***************************************************************************)
(* The translation table statement by statement, for any number of         *)
(* threads: a mmap records a whole entry of its own, and the entries below *)
(* memory_allocations are a log.                                           *)
(*                                                                         *)
(* The argument: mmap_lock keeps mmaps apart, so the count a mmap has read *)
(* is still the count when it stores and publishes (Recording).  That both *)
(* words of the entry are nonzero needs in addition that a mmap only runs  *)
(* once some PASS_STRUCT has filled base_addr (Passed).  No step of an     *)
(* ioctl on accelerators touches any of this (UsersKeepDriver).            *)
(***************************************************************************)
EXTENDS UnimemThreads, SequenceTheorems, TLAPS

MmapPcs == {"branch", "slot", "base", "first", "second", "publish", "leave"}

RequestRecord == [node : Nat, region : Nat, base_addr : Nat]

Types ==
  /\ data \in RequestRecord
  /\ virt_address \in [Entries -> Nat] /\ phys_address \in [Entries -> Nat]
  /\ memory_allocations \in 0..TableSize
  /\ DOMAIN pc = Threads
  /\ DOMAIN request = Mappers
  /\ node \in [Mappers -> Nat] /\ page \in [Mappers -> Nat] /\ base \in [Mappers -> Nat]
  /\ slot \in [Mappers -> Entries \cup {NoSlot}]

Locked == \A t \in Mappers : pc[t] \in MmapPcs => mmap_lock = t

Passed ==
  \A t \in Mappers :
    /\ pc[t] \in {"copy node", "copy base_addr"} => request[t] \in Requests(t)
    /\ (pc[t] \in MmapPcs \/ (pc[t] = "idle" /\ request[t] # NoRequest)) => data.base_addr # 0

\* What a mmap has done when it is at each of its statements.
RecordingBy(t) ==
  /\ pc[t] \in MmapPcs \ {"leave"} => memory_allocations < TableSize
  /\ pc[t] \in {"slot", "base", "first", "second", "publish"} => page[t] # 0
  /\ pc[t] \in {"base", "first", "second", "publish"} => slot[t] = memory_allocations
  /\ pc[t] \in {"first", "second", "publish"} => base[t] # 0
  /\ (pc[t] = "publish" \/ (pc[t] = "second" /\ node[t] = CURRENT_NODE))
       => virt_address[slot[t]] = base[t]
  /\ (pc[t] = "publish" \/ (pc[t] = "second" /\ node[t] # CURRENT_NODE))
       => phys_address[slot[t]] = page[t]
  /\ pc[t] \notin {"base", "first", "second", "publish", "leave"} => slot[t] = NoSlot

Recording == \A t \in Mappers : RecordingBy(t)

Inv == Types /\ Locked /\ Passed /\ Recording /\ EntryRecorded

-----------------------------------------------------------------------------
\* What an application passes is a record of numbers with an address that is
\* not 0.
LEMMA RequestsAreRecords ==
  ASSUME NEW t \in Mappers, NEW r \in Requests(t)
  PROVE  r \in RequestRecord /\ r.base_addr # 0
<1>1. PICK w \in Wanted[t] : r = Request(w)
  BY DEF Requests
<1>2. w[1] \in Nat /\ w[2] \in Nat
  BY ThreadsAssumption
<1>3. NodeStride * w[1] \in Nat
  BY <1>2, NodeStrideAssumption
<1>4. GVA(w[1], w[2]) \in Nat /\ GVA(w[1], w[2]) # 0
  BY <1>2, <1>3 DEF GVA, GvasBase
<1> QED
  BY <1>1, <1>2, <1>4 DEF Request, RequestRecord

\* Every page behind the UNIMEM BAR has a number above 0.
LEMMA FpgaPages ==
  ASSUME NEW n \in Nat, NEW r \in Nat, Target(CURRENT_NODE, n, r).bar = "UNIMEM_BAR"
  PROVE  Target(CURRENT_NODE, n, r).page \in Nat \ {0}
<1>1. WindowPage(n, r) \in Nat \ {0}
  BY DEF WindowPage, ToBase
<1> QED
  BY <1>1 DEF Target, Fpga, Hole, HostRam, Accel0, Behind, Ddr4_0, Ddr4_2

\* A step of ACC_SETUP or ACC_POLL changes nothing a mmap uses.
LEMMA UsersKeepDriver ==
  ASSUME NEW u \in Users, StartIoctl(u) \/ InIoctl(u), DOMAIN pc = Threads
  PROVE  /\ UNCHANGED driver
         /\ DOMAIN pc' = Threads
         /\ \A t \in Mappers : pc'[t] = pc[t]
<1>1. UNCHANGED driver
  BY DEF StartIoctl, InIoctl, CopyOffsets, CopyData, CallSetup, Latch, Loop, ReadRow, Match,
         ReadValue, ReadOffset, Search, ReadPhys, WriteLow, WriteHigh, setup_reg, Return,
         ReadNumber, poll_accel, StorePoll, CopyBack, Keep
<1>2. pc' = pc \/ \E x : pc' = [pc EXCEPT ![u] = x]
  BY DEF StartIoctl, InIoctl, CopyOffsets, CopyData, CallSetup, Latch, Loop, ReadRow, Match,
         ReadValue, ReadOffset, Search, ReadPhys, WriteLow, WriteHigh, setup_reg, Return,
         ReadNumber, poll_accel, StorePoll, CopyBack, Goto
<1>3. \A t \in Mappers : t # u /\ t \in Threads
  BY ThreadsAssumption DEF Threads
<1> QED
  BY <1>1, <1>2, <1>3

-----------------------------------------------------------------------------
\* Nobody is in a call and nothing is recorded at first.
LEMMA InitInv == Init => Inv
<1> SUFFICES ASSUME Init PROVE Inv
  OBVIOUS
<1>1. Types
  BY ThreadsAssumption DEF Init, Types, NoRequest, RequestRecord, Entries, NoSlot, Threads
<1>2. \A t \in Mappers : pc[t] = "idle" /\ request[t] = NoRequest /\ slot[t] = NoSlot
  BY DEF Init, Threads
<1>3. Locked /\ Passed /\ Recording /\ EntryRecorded
  BY <1>2 DEF Locked, Passed, Recording, RecordingBy, EntryRecorded, MmapPcs
<1> QED
  BY <1>1, <1>3 DEF Inv

-----------------------------------------------------------------------------
MapperStep(t) == PassStruct(t) \/ Enter(t) \/ CopyNode(t) \/ CopyBase(t) \/ InMmap(t)

\* What a mapper's step leaves to the others, and where it may be.
LEMMA OthersKept ==
  ASSUME Inv, NEW t \in Mappers, MapperStep(t), NEW s \in Mappers, s # t
  PROVE  /\ pc'[s] = pc[s] /\ request'[s] = request[s] /\ node'[s] = node[s]
         /\ page'[s] = page[s] /\ slot'[s] = slot[s] /\ base'[s] = base[s]
<1> s \in Threads /\ t \in Threads
  BY DEF Threads
<1> QED
  BY DEF Inv, Types, MapperStep, PassStruct, Enter, CopyNode, CopyBase, InMmap, Branch,
         BranchAway, ReadSlot, ReadBase, StoreFirst, StoreSecond, Publish, Leave,
         Goto, mapper

\* A mapper's statement leaves the variables of mmap in their types.
LEMMA TypesKept ==
  ASSUME Inv, NEW t \in Mappers, MapperStep(t)
  PROVE  Types'
<1> USE DEF Inv, Types, Goto, table, mapper, user
<1>0. t \in Threads
  BY DEF Threads
<1>1. CASE PassStruct(t)
  BY <1>1, RequestsAreRecords DEF PassStruct, RequestRecord
<1>2. CASE Enter(t)
  BY <1>2 DEF Enter, RequestRecord
<1>3. CASE CopyNode(t)
  <2>1. request[t] \in Requests(t)
    BY <1>3 DEF CopyNode, Passed
  <2> QED
    BY <1>3, <2>1, RequestsAreRecords DEF CopyNode, RequestRecord
<1>4. CASE CopyBase(t)
  <2>1. request[t] \in Requests(t)
    BY <1>4 DEF CopyBase, Passed
  <2> QED
    BY <1>4, <2>1, RequestsAreRecords DEF CopyBase, RequestRecord
<1>5. CASE Branch(t)
  <2>1. page'[t] \in Nat
    BY <1>5, FpgaPages DEF Branch, RequestRecord
  <2> QED
    BY <1>5, <2>1 DEF Branch
<1>6. CASE BranchAway(t)
  BY <1>6 DEF BranchAway
<1>7. CASE ReadSlot(t)
  <2>1. memory_allocations \in Entries
    BY <1>7, ThreadsAssumption DEF ReadSlot, Recording, RecordingBy, MmapPcs, Entries
  <2> QED
    BY <1>7, <2>1 DEF ReadSlot
<1>8. CASE ReadBase(t)
  BY <1>8 DEF ReadBase, RequestRecord
<1>9. CASE StoreFirst(t)
  BY <1>9 DEF StoreFirst, StoreVirt, StorePhys
<1>10. CASE StoreSecond(t)
  BY <1>10 DEF StoreSecond, StoreVirt, StorePhys
<1>11. CASE Publish(t)
  <2>1. slot[t] = memory_allocations /\ memory_allocations < TableSize
    BY <1>11 DEF Publish, Recording, RecordingBy, MmapPcs
  <2>2. memory_allocations + 1 \in 0..TableSize
    BY <2>1, ThreadsAssumption
  <2> QED
    BY <1>11, <2>1, <2>2 DEF Publish
<1>12. CASE Leave(t)
  BY <1>12 DEF Leave
<1> QED
  BY <1>1, <1>2, <1>3, <1>4, <1>5, <1>6, <1>7, <1>8, <1>9, <1>10, <1>11, <1>12
     DEF MapperStep, InMmap

\* Whoever is in mmap holds mmap_lock.
LEMMA LockedKept ==
  ASSUME Inv, NEW t \in Mappers, MapperStep(t)
  PROVE  Locked'
<1> SUFFICES ASSUME NEW s \in Mappers, pc'[s] \in MmapPcs
             PROVE  mmap_lock' = s
  BY DEF Locked
<1>0. t \in Threads /\ t # NoThread /\ s # NoThread
  BY ThreadsAssumption DEF Threads
<1>1. CASE PassStruct(t) \/ CopyNode(t) \/ CopyBase(t)
  <2>1. mmap_lock' = mmap_lock /\ pc'[t] \notin MmapPcs
    BY <1>0, <1>1 DEF PassStruct, CopyNode, CopyBase, Goto, Inv, Types, MmapPcs
  <2> QED
    BY <2>1, OthersKept DEF Inv, Locked
<1>2. CASE Enter(t)
  BY <1>0, <1>2, OthersKept DEF Enter, Goto, Inv, Types, Locked, MmapPcs
<1>3. CASE InMmap(t) /\ ~Leave(t)
  <2>1. mmap_lock' = mmap_lock /\ pc[t] \in MmapPcs
    BY <1>3 DEF InMmap, Branch, BranchAway, ReadSlot, ReadBase, StoreFirst, StoreSecond,
       Publish, Goto, MmapPcs
  <2> QED
    BY <2>1, OthersKept DEF Inv, Locked
<1>4. CASE Leave(t)
  BY <1>0, <1>4, OthersKept DEF Leave, Goto, Inv, Types, Locked, MmapPcs
<1> QED
  BY <1>1, <1>2, <1>3, <1>4 DEF MapperStep

\* Once a PASS_STRUCT has returned, data.base_addr is not 0 again.
LEMMA PassedKept ==
  ASSUME Inv, NEW t \in Mappers, MapperStep(t)
  PROVE  Passed'
<1> SUFFICES ASSUME NEW s \in Mappers
             PROVE  /\ pc'[s] \in {"copy node", "copy base_addr"} => request'[s] \in Requests(s)
                    /\ (pc'[s] \in MmapPcs \/ (pc'[s] = "idle" /\ request'[s] # NoRequest))
                         => data'.base_addr # 0
  BY DEF Passed, MmapPcs, NoRequest, Requests, Request
<1>1. s # t => pc'[s] = pc[s] /\ request'[s] = request[s]
  BY OthersKept
<1>2. /\ pc[s] \in {"copy node", "copy base_addr"} => request[s] \in Requests(s)
      /\ (pc[s] \in MmapPcs \/ (pc[s] = "idle" /\ request[s] # NoRequest))
           => data.base_addr # 0
  BY DEF Inv, Passed
<1>3. /\ t \in Threads /\ DOMAIN pc = Threads /\ DOMAIN request = Mappers
      /\ data \in RequestRecord
  BY DEF Threads, Inv, Types
<1>4. CASE PassStruct(t)
  <2>1. request'[t] \in Requests(t) /\ pc'[t] = "copy node"
    BY <1>3, <1>4 DEF PassStruct, Goto
  <2>2. data'.base_addr = data.base_addr
    BY <1>3, <1>4, RequestsAreRecords DEF PassStruct, RequestRecord
  <2> QED
    BY <1>1, <1>2, <2>1, <2>2 DEF MmapPcs
<1>5. CASE Enter(t)
  <2>1. /\ data' = data /\ request' = request /\ request[t] # NoRequest
        /\ pc[t] = "idle" /\ pc'[t] = "branch"
    BY <1>3, <1>5 DEF Enter, Goto
  <2> QED
    BY <1>1, <1>2, <2>1
<1>6. CASE CopyNode(t)
  <2>1. /\ request' = request /\ request[t] \in Requests(t)
        /\ pc[t] = "copy node" /\ pc'[t] = "copy base_addr"
    BY <1>3, <1>6 DEF CopyNode, Goto, mapper, Inv, Passed
  <2>2. data'.base_addr = data.base_addr
    BY <1>3, <1>6, <2>1, RequestsAreRecords DEF CopyNode, RequestRecord
  <2> QED
    BY <1>1, <1>2, <2>1, <2>2 DEF MmapPcs
<1>7. CASE CopyBase(t)
  <2>1. request' = request /\ request[t] \in Requests(t) /\ pc'[t] = "idle"
    BY <1>3, <1>7 DEF CopyBase, Goto, mapper, Inv, Passed
  <2>2. data'.base_addr # 0
    BY <1>3, <1>7, <2>1, RequestsAreRecords DEF CopyBase, RequestRecord
  <2> QED
    BY <1>1, <1>2, <2>1, <2>2
<1>8. CASE InMmap(t)
  <2>1. data' = data /\ request' = request
    BY <1>8 DEF InMmap, Branch, BranchAway, ReadSlot, ReadBase, StoreFirst, StoreSecond,
       Publish, Leave, mapper
  <2>2. pc[t] \in MmapPcs /\ pc'[t] \notin {"copy node", "copy base_addr"}
    BY <1>3, <1>8 DEF InMmap, Branch, BranchAway, ReadSlot, ReadBase, StoreFirst, StoreSecond,
       Publish, Leave, Goto, MmapPcs
  <2> QED
    BY <1>1, <1>2, <2>1, <2>2
<1> QED
  BY <1>4, <1>5, <1>6, <1>7, <1>8 DEF MapperStep

-----------------------------------------------------------------------------
\* While a thread is in mmap no other one changes the table.
LEMMA OnlyHolderStores ==
  ASSUME Inv, NEW t \in Mappers, MapperStep(t),
         NEW s \in Mappers, s # t, pc[s] \in MmapPcs
  PROVE  UNCHANGED table
<1>1. mmap_lock = s /\ s # NoThread
  BY ThreadsAssumption DEF Inv, Locked, Threads
<1>2. pc[t] \notin MmapPcs
  BY <1>1 DEF Inv, Locked
<1>3. ~Enter(t) /\ ~InMmap(t)
  BY <1>1, <1>2 DEF Enter, InMmap, Branch, BranchAway, ReadSlot, ReadBase, StoreFirst,
     StoreSecond, Publish, Leave, Goto, MmapPcs
<1> QED
  BY <1>3 DEF MapperStep, PassStruct, CopyNode, CopyBase

\* What a mmap has done stays done while others step.
LEMMA OthersRecording ==
  ASSUME Inv, NEW t \in Mappers, MapperStep(t), NEW s \in Mappers, s # t
  PROVE  /\ RecordingBy(s)'
         /\ (pc'[s] = "leave" /\ slot'[s] # NoSlot) =>
              /\ slot'[s] < memory_allocations'
              /\ virt_address'[slot'[s]] = base'[s] /\ phys_address'[slot'[s]] = page'[s]
<1>1. RecordingBy(s)
  BY DEF Inv, Recording
<1>2. /\ pc'[s] = pc[s] /\ node'[s] = node[s] /\ page'[s] = page[s]
      /\ slot'[s] = slot[s] /\ base'[s] = base[s]
  BY OthersKept
<1>3. CASE pc[s] \notin MmapPcs
  BY <1>1, <1>2, <1>3 DEF RecordingBy, MmapPcs, NoSlot
<1>4. CASE pc[s] \in MmapPcs
  <2>1. UNCHANGED <<virt_address, phys_address, memory_allocations>>
    BY <1>4, OnlyHolderStores DEF table
  <2> QED
    BY <1>1, <1>2, <2>1 DEF RecordingBy, MmapPcs, NoSlot, Inv, EntryRecorded
<1> QED
  BY <1>3, <1>4

\* Each statement of mmap brings its own thread to where the next one expects it.
LEMMA OwnRecording ==
  ASSUME Inv, NEW t \in Mappers, MapperStep(t)
  PROVE  /\ RecordingBy(t)'
         /\ (pc'[t] = "leave" /\ slot'[t] # NoSlot) =>
              /\ slot'[t] < memory_allocations'
              /\ virt_address'[slot'[t]] = base'[t] /\ phys_address'[slot'[t]] = page'[t]
<1> USE DEF Inv, Types, RecordingBy, MmapPcs, NoSlot, Goto
<1>0. t \in Threads /\ RecordingBy(t)
  BY DEF Threads, Recording
<1>1. CASE PassStruct(t) \/ CopyNode(t) \/ CopyBase(t)
  <2>1. /\ slot' = slot /\ pc[t] \in {"idle", "copy node", "copy base_addr"}
        /\ pc'[t] \in {"idle", "copy node", "copy base_addr"}
    BY <1>0, <1>1 DEF PassStruct, CopyNode, CopyBase, mapper
  <2> QED
    BY <1>0, <2>1
<1>2. CASE Enter(t)
  BY <1>0, <1>2 DEF Enter, table
<1>3. CASE Branch(t)
  <2>1. page'[t] # 0
    BY <1>3, FpgaPages DEF Branch, RequestRecord
  <2> QED
    BY <1>0, <1>3, <2>1 DEF Branch, table
<1>4. CASE BranchAway(t)
  BY <1>0, <1>4 DEF BranchAway, mapper, table
<1>5. CASE ReadSlot(t)
  BY <1>0, <1>5 DEF ReadSlot, table
<1>6. CASE ReadBase(t)
  <2>1. data.base_addr # 0
    BY <1>6 DEF ReadBase, Passed
  <2> QED
    BY <1>0, <1>6, <2>1 DEF ReadBase, table
<1>7. CASE StoreFirst(t)
  <2>1. slot[t] \in Entries
    BY <1>0, <1>7, ThreadsAssumption DEF StoreFirst, Entries
  <2> QED
    BY <1>0, <1>7, <2>1 DEF StoreFirst, StoreVirt, StorePhys, mapper
<1>8. CASE StoreSecond(t)
  <2>1. slot[t] \in Entries
    BY <1>0, <1>8, ThreadsAssumption DEF StoreSecond, Entries
  <2> QED
    BY <1>0, <1>8, <2>1 DEF StoreSecond, StoreVirt, StorePhys, mapper
<1>9. CASE Publish(t)
  <2>1. slot[t] = memory_allocations /\ memory_allocations \in Nat
    BY <1>0, <1>9 DEF Publish
  <2> QED
    BY <1>0, <1>9, <2>1 DEF Publish, mapper
<1>10. CASE Leave(t)
  BY <1>0, <1>10 DEF Leave, table
<1> QED
  BY <1>1, <1>2, <1>3, <1>4, <1>5, <1>6, <1>7, <1>8, <1>9, <1>10 DEF MapperStep, InMmap

-----------------------------------------------------------------------------
\* A step is one of a mapper, or leaves all that the invariant is about as it is.
LEMMA StepOf ==
  ASSUME [Next]_vars, DOMAIN pc = Threads
  PROVE  \/ \E t \in Mappers : MapperStep(t)
         \/ /\ UNCHANGED driver /\ DOMAIN pc' = Threads
            /\ \A t \in Mappers : pc'[t] = pc[t]
<1>1. CASE UNCHANGED vars
  BY <1>1 DEF vars, driver
<1>2. CASE \E u \in Users : StartIoctl(u) \/ InIoctl(u)
  BY <1>2, UsersKeepDriver
<1>3. CASE \E t \in Mappers : MapperStep(t)
  BY <1>3
<1> QED
  BY <1>1, <1>2, <1>3 DEF Next, InCall, MapperStep

\* The invariant is inductive.
LEMMA StepInv == Inv /\ [Next]_vars => Inv'
<1> SUFFICES ASSUME Inv, [Next]_vars PROVE Inv'
  OBVIOUS
<1>1. CASE \E t \in Mappers : MapperStep(t)
  <2>1. PICK t \in Mappers : MapperStep(t)
    BY <1>1
  <2>2. Types' /\ Locked' /\ Passed'
    BY <2>1, TypesKept, LockedKept, PassedKept
  <2>3. Recording'
    BY <2>1, OwnRecording, OthersRecording DEF Recording
  <2>4. EntryRecorded'
    BY <2>1, OwnRecording, OthersRecording DEF EntryRecorded, NoSlot
  <2> QED
    BY <2>2, <2>3, <2>4 DEF Inv
<1>2. CASE /\ UNCHANGED driver /\ DOMAIN pc' = Threads
           /\ \A t \in Mappers : pc'[t] = pc[t]
  <2> USE <1>2 DEF Inv, driver, table, mapper
  <2>1. Types'
    BY DEF Types
  <2>2. Locked'
    BY DEF Locked
  <2>3. Passed'
    BY DEF Passed, Requests, Request, NoRequest
  <2>4. Recording' /\ EntryRecorded'
    BY DEF Recording, RecordingBy, EntryRecorded, NoSlot
  <2> QED
    BY <2>1, <2>2, <2>3, <2>4
<1> QED
  BY <1>1, <1>2, StepOf DEF Inv, Types

\* A mmap that returns has recorded its own entry whole, for any number of
\* threads, table size and order of steps.
THEOREM EntriesRecorded == Spec => []EntryRecorded
<1>1. Inv => EntryRecorded
  BY DEF Inv
<1> QED
  BY <1>1, InitInv, StepInv, PTL DEF Spec

-----------------------------------------------------------------------------
(* The log of the table. *)

Pairs == Nat \X Nat

\* A function on 1..n is a sequence of length n.
LEMMA LengthOfFunction ==
  ASSUME NEW n \in Nat, NEW f \in [1..n -> Pairs]
  PROVE  Len(f) = n
<1>1. f \in Seq(Pairs)
  BY SeqDef
<1>2. DOMAIN f = 1..Len(f) /\ Len(f) \in Nat
  BY <1>1, LenProperties
<1> QED
  BY <1>2

\* The log is as long as the count.
LEMMA LengthOfLog ==
  ASSUME NEW n \in 0..TableSize, NEW v \in [Entries -> Nat], NEW p \in [Entries -> Nat]
  PROVE  Len([i \in 1..n |-> <<v[i - 1], p[i - 1]>>]) = n
<1>1. n \in Nat
  BY ThreadsAssumption
<1>2. ASSUME NEW i \in 1..n
      PROVE  <<v[i - 1], p[i - 1]>> \in Pairs
  <2>1. i - 1 \in Entries
    BY <1>1, ThreadsAssumption DEF Entries
  <2> QED
    BY <2>1 DEF Pairs
<1> QED
  BY <1>1, <1>2, LengthOfFunction

\* memory_allocations++ adds the entry of the thread that executes it.
LEMMA PublishRecords ==
  ASSUME Inv, NEW t \in Mappers, Publish(t)
  PROVE  Log!Record
<1> DEFINE n == memory_allocations
<1>1. /\ slot[t] = n /\ n \in Nat /\ n \in Entries /\ page[t] \in Nat \ {0}
      /\ base[t] \in Nat \ {0} /\ virt_address[n] = base[t] /\ phys_address[n] = page[t]
  <2>1. pc[t] = "publish" /\ RecordingBy(t)
    BY DEF Inv, Recording, Publish, Goto
  <2>2. /\ slot[t] = n /\ n < TableSize /\ page[t] # 0 /\ base[t] # 0
        /\ virt_address[n] = base[t] /\ phys_address[n] = page[t]
    BY <2>1 DEF RecordingBy, MmapPcs
  <2>3. page[t] \in Nat /\ base[t] \in Nat /\ n \in Nat
    BY ThreadsAssumption DEF Inv, Types
  <2> QED
    BY <2>2, <2>3, ThreadsAssumption DEF Entries
<1>2. n' = n + 1 /\ virt_address' = virt_address /\ phys_address' = phys_address
  BY <1>1 DEF Publish
<1>3. LogOfTable = [i \in 1..n |-> <<virt_address[i - 1], phys_address[i - 1]>>]
  BY DEF LogOfTable
<1>4. LogOfTable' = [i \in 1..n + 1 |-> <<virt_address[i - 1], phys_address[i - 1]>>]
  BY <1>2 DEF LogOfTable
<1>5. Len(LogOfTable) = n /\ Len(LogOfTable') = n + 1
  <2>1. n \in 0..TableSize /\ n + 1 \in 0..TableSize
    BY <1>1, ThreadsAssumption DEF Entries
  <2> QED
    BY <1>3, <1>4, <2>1, LengthOfLog DEF Inv, Types
<1>6. \A i \in 1..n : LogOfTable'[i] = LogOfTable[i]
  BY <1>1, <1>3, <1>4
<1>7. LogOfTable'[n + 1] = <<base[t], page[t]>>
  BY <1>1, <1>4
<1>8. Len(LogOfTable') = Len(LogOfTable) + 1
  BY <1>5
<1>9. \A i \in 1..Len(LogOfTable) : LogOfTable'[i] = LogOfTable[i]
  BY <1>5, <1>6
<1>10. LogOfTable'[Len(LogOfTable')] \in Log!Entry
  <2>1. <<base[t], page[t]>> \in Log!Entry
    BY <1>1 DEF Log!Entry
  <2> QED
    BY <1>5, <1>7, <2>1
<1> QED
  BY <1>8, <1>9, <1>10 DEF Log!Record

\* Every other step leaves the entries below the count as they are.
LEMMA OthersKeepLog ==
  ASSUME Inv, NEW t \in Mappers, MapperStep(t), ~Publish(t)
  PROVE  LogOfTable' = LogOfTable
<1>1. memory_allocations' = memory_allocations /\ memory_allocations \in Nat
  <2>1. memory_allocations' = memory_allocations
    BY DEF MapperStep, PassStruct, Enter, CopyNode, CopyBase, InMmap, Branch, BranchAway,
       ReadSlot, ReadBase, StoreFirst, StoreSecond, Leave, table
  <2> QED
    BY <2>1, ThreadsAssumption DEF Inv, Types
<1>2. \A i \in 1..memory_allocations :
        virt_address'[i - 1] = virt_address[i - 1] /\ phys_address'[i - 1] = phys_address[i - 1]
  <2>1. CASE StoreFirst(t) \/ StoreSecond(t)
    <3>1. slot[t] = memory_allocations
      BY <2>1 DEF Inv, Recording, RecordingBy, StoreFirst, StoreSecond, Goto
    <3>2. \A e \in Entries : e # slot[t] =>
            virt_address'[e] = virt_address[e] /\ phys_address'[e] = phys_address[e]
      BY <2>1 DEF Inv, Types, StoreFirst, StoreSecond, StoreVirt, StorePhys
    <3>3. \A i \in 1..memory_allocations : i - 1 \in Entries /\ i - 1 # slot[t]
      BY <1>1, <3>1, ThreadsAssumption DEF Inv, Types, Entries
    <3> QED
      BY <3>2, <3>3
  <2>2. CASE ~(StoreFirst(t) \/ StoreSecond(t))
    BY <2>2
       DEF MapperStep, PassStruct, Enter, CopyNode, CopyBase, InMmap, Branch, BranchAway,
           ReadSlot, ReadBase, Leave, table
  <2> QED
    BY <2>1, <2>2
<1> QED
  BY <1>1, <1>2 DEF LogOfTable

\* The table below memory_allocations is a log of whole entries, whatever the
\* order in which any number of threads store and read.
THEOREM TableIsLog == Spec => ImplementsLog
<1>1. Init => Log!Init
  <2> SUFFICES ASSUME Init PROVE LogOfTable = <<>>
    BY DEF Log!Init
  <2>1. memory_allocations = 0
    BY DEF Init
  <2> QED
    BY <2>1 DEF LogOfTable
<1>2. Inv /\ [Next]_vars => [Log!Record]_LogOfTable
  <2> SUFFICES ASSUME Inv, [Next]_vars PROVE [Log!Record]_LogOfTable
    OBVIOUS
  <2>1. CASE \E t \in Mappers : MapperStep(t)
    BY <2>1, PublishRecords, OthersKeepLog DEF Inv
  <2>2. CASE UNCHANGED driver
    BY <2>2 DEF driver, table, LogOfTable
  <2> QED
    BY <2>1, <2>2, StepOf DEF Inv, Types
<1> QED
  BY <1>1, <1>2, InitInv, StepInv, PTL DEF Spec, ImplementsLog, Log!Spec
=============================================================================

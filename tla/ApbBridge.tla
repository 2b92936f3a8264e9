----------------------------- MODULE ApbBridge -----------------------------
(***************************************************************************)
(* One Unimem bridge (TO or FROM: the code is the same) behind its APB     *)
(* registers, and the threads that reprogram it.  The driver writes an     *)
(* index, the data words and then the operation, one register at a time,   *)
(* and the bridge acts on the operation.  The driver takes no lock; what   *)
(* keeps two calls apart is that the kernel calls mmap with the address    *)
(* space of the caller locked.                                             *)
(***************************************************************************)
EXTENDS Integers

CONSTANTS
  Threads,       \* threads in mmap
  AddressSpace,  \* the address space of each thread
  Slots,         \* slots of the table
  Width,         \* data words of an entry that are told apart, of 5
  Data,          \* the entries a call may pass
  Calls,         \* the calls made: [slots |-> which slots will do, entry |-> data]
  InitialTables, \* what the table may hold before
  NoCall, Nobody

ASSUME BridgeAssumption ==
  /\ Slots # {} /\ Data # {}
  /\ Width \in Nat \ {0} /\ \A d \in Data : d \in [1..Width -> Nat]
  /\ \A k \in Calls : k.slots \in {{s} : s \in Slots} \cup {Slots} /\ k.entry \in Data
  /\ InitialTables \subseteq [Slots -> Data]
  /\ DOMAIN AddressSpace = Threads
  /\ NoCall \notin Calls /\ Nobody \notin Threads

Spaces == {AddressSpace[t] : t \in Threads}

VARIABLES
  index_register, data_registers,  \* [3] and [4..8] of the APB window
  tlb,         \* the table inside the bridge
  pc,          \* the statement each thread executes next
  word,        \* the data word it writes next
  args,        \* the arguments of its call
  index,       \* its 'index', or the 'candidate' it was offered
  returned,    \* the slot its last call replaced
  mmap_lock    \* the holder of each address space's lock

registers == <<index_register, data_registers, tlb>>
thread    == <<pc, word, args, index, returned>>
vars      == <<registers, thread, mmap_lock>>

Bridge == INSTANCE TlbSpec WITH
  Callers <- Threads, Entries <- Data,
  call <- [t \in Threads |-> IF pc[t] \in {"idle", "done"} THEN NoCall ELSE args[t]]

TypeOK ==
  /\ index_register \in Slots
  /\ data_registers \in [1..Width -> Nat]
  /\ tlb \in [Slots -> [1..Width -> Nat]]
  /\ pc \in [Threads -> {"idle", "find", "candidate", "index", "data", "operation", "done"}]
  /\ word \in [Threads -> 1..Width]
  /\ args \in [Threads -> Calls \cup {NoCall}]
  /\ index \in [Threads -> Slots] /\ returned \in [Threads -> Slots]
  /\ mmap_lock \in [Spaces -> Threads \cup {Nobody}]

Init ==
  /\ index_register \in Slots
  /\ data_registers = [k \in 1..Width |-> 0]
  /\ tlb \in InitialTables
  /\ pc = [t \in Threads |-> "idle"]
  /\ word = [t \in Threads |-> 1]
  /\ args = [t \in Threads |-> NoCall]
  /\ index = [t \in Threads |-> index_register]
  /\ returned = [t \in Threads |-> index_register]
  /\ mmap_lock = [s \in Spaces |-> Nobody]

-----------------------------------------------------------------------------
Goto(t, step) == pc' = [pc EXCEPT ![t] = step]

\* The kernel has locked the caller's address space.  unimemFrom_replace_entry
\* is given the slot; unimemFrom_replace asks the bridge for one first.
Enter(t) ==
  /\ pc[t] = "idle" /\ mmap_lock[AddressSpace[t]] = Nobody
  /\ mmap_lock' = [mmap_lock EXCEPT ![AddressSpace[t]] = t]
  /\ \E k \in Calls :
       /\ args' = [args EXCEPT ![t] = k]
       /\ \/ k.slots = Slots /\ Goto(t, "find") /\ UNCHANGED index
          \/ \E s \in Slots : /\ k.slots = {s} /\ Goto(t, "index")
                              /\ index' = [index EXCEPT ![t] = s]
  /\ UNCHANGED <<registers, word, returned>>

\* reg[2] = 2: the bridge puts a slot of its choice into the index register.
FindCandidate(t) ==
  /\ pc[t] = "find" /\ Goto(t, "candidate")
  /\ index_register' \in Slots
  /\ UNCHANGED <<data_registers, tlb, word, args, index, returned, mmap_lock>>

\* Slip: "0xFFF on error" (unimem_ops.h:16) handed on as if it were a slot.
ReadCandidateError(t) ==
  /\ pc[t] = "candidate" /\ Goto(t, "index")
  /\ index' = [index EXCEPT ![t] = 4095]
  /\ UNCHANGED <<registers, word, args, returned, mmap_lock>>

ReadCandidate(t) ==
  /\ pc[t] = "candidate" /\ Goto(t, "index")
  /\ index' = [index EXCEPT ![t] = index_register]
  /\ UNCHANGED <<registers, word, args, returned, mmap_lock>>

\* Slip: the index register is trusted to hold the candidate still.
WriteIndexNever(t) ==
  /\ pc[t] = "index" /\ Goto(t, "data")
  /\ word' = [word EXCEPT ![t] = 1]
  /\ UNCHANGED <<registers, args, index, returned, mmap_lock>>

WriteIndex(t) ==
  /\ pc[t] = "index" /\ Goto(t, "data")
  /\ word' = [word EXCEPT ![t] = 1]
  /\ index_register' = index[t]
  /\ UNCHANGED <<data_registers, tlb, args, index, returned, mmap_lock>>

\* Slip: the loop over the data words stops one short.
WriteDataShort(t) ==
  /\ pc[t] = "data"
  /\ data_registers' = [data_registers EXCEPT ![word[t]] = args[t].entry[word[t]]]
  /\ IF word[t] >= Width - 1
     THEN Goto(t, "operation") /\ UNCHANGED word
     ELSE word' = [word EXCEPT ![t] = @ + 1] /\ UNCHANGED pc
  /\ UNCHANGED <<index_register, tlb, args, index, returned, mmap_lock>>

WriteData(t) ==
  /\ pc[t] = "data"
  /\ data_registers' = [data_registers EXCEPT ![word[t]] = args[t].entry[word[t]]]
  /\ IF word[t] = Width
     THEN Goto(t, "operation") /\ UNCHANGED word
     ELSE word' = [word EXCEPT ![t] = @ + 1] /\ UNCHANGED pc
  /\ UNCHANGED <<index_register, tlb, args, index, returned, mmap_lock>>

\* reg[2] = 0: the bridge copies the data registers into the slot.
WriteOperation(t) ==
  /\ pc[t] = "operation" /\ Goto(t, "done")
  /\ tlb' = [tlb EXCEPT ![index_register] = data_registers]
  /\ returned' = [returned EXCEPT ![t] = index[t]]
  /\ UNCHANGED <<index_register, data_registers, word, args, index, mmap_lock>>

\* mmap returns to the kernel, which unlocks the address space.
Return(t) ==
  /\ pc[t] = "done" /\ Goto(t, "idle")
  /\ args' = [args EXCEPT ![t] = NoCall]
  /\ mmap_lock' = [mmap_lock EXCEPT ![AddressSpace[t]] = Nobody]
  /\ UNCHANGED <<registers, word, index, returned>>

Next == \E t \in Threads :
  \/ Enter(t) \/ FindCandidate(t) \/ ReadCandidate(t) \/ WriteIndex(t)
  \/ WriteData(t) \/ WriteOperation(t) \/ Return(t)

Spec == Init /\ [][Next]_vars

-----------------------------------------------------------------------------
(* Properties. *)

\* The sequence of register writes is one replacement of one entry, for every
\* caller: "Replaces a specific entry", "Replaces and invalidates the next
\* available candidate. Returns the replaced index" (unimem_ops.h:20,24).
ImplementsTlb == Bridge!Spec

\* When a call returns, the slot it replaced, which is one it may replace, holds
\* the entry it passed and no other call's.
ServedOnReturn ==
  \A t \in Threads : pc[t] = "done" =>
    returned[t] \in args[t].slots /\ tlb[returned[t]] = args[t].entry
=============================================================================

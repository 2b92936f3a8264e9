---------------------------- MODULE BridgeProofs ----------------------------
(***************************************************************************)
(* Theorems about the register writes of ApbBridge, for every number of    *)
(* threads, slots and data words.  Types hold whoever calls, and so does   *)
(* the lock the kernel takes for the caller; that a call is one            *)
(* replacement of one entry holds while no two calls overlap, which the    *)
(* lock sees to for the threads of one address space.                      *)
(***************************************************************************)
EXTENDS ApbBridge, TLAPS

OneAddressSpace == \A t, u \in Threads : AddressSpace[t] = AddressSpace[u]

\* No two calls overlap, be they of one process or of several.
OneCall == \A t, u \in Threads : pc[t] # "idle" /\ pc[u] # "idle" => t = u

\* Two calls that overlap are calls of two processes.
OneCallPerSpace ==
  \A t, u \in Threads :
    pc[t] # "idle" /\ pc[u] # "idle" /\ AddressSpace[t] = AddressSpace[u] => t = u

\* A thread is in its call exactly while it holds the lock of its address space.
Locked ==
  \A t \in Threads : pc[t] # "idle" <=> mmap_lock[AddressSpace[t]] = t

\* What the call of t has done to the bridge when it comes to each of its
\* statements: the slot, the index register, the data words before the next.
Progress(t) ==
  /\ pc[t] = "idle" => args[t] = NoCall
  /\ pc[t] # "idle" => args[t] \in Calls
  /\ pc[t] \in {"find", "candidate"} => args[t].slots = Slots
  /\ pc[t] \in {"index", "data", "operation", "done"} => index[t] \in args[t].slots
  /\ pc[t] \in {"data", "operation"} => index_register = index[t]
  /\ pc[t] = "data" =>
       \A k \in 1..(word[t] - 1) : data_registers[k] = args[t].entry[k]
  /\ pc[t] = "operation" => data_registers = args[t].entry
  /\ pc[t] = "done" => returned[t] = index[t] /\ tlb[returned[t]] = args[t].entry

IInv == TypeOK /\ \A t \in Threads : Progress(t)

-----------------------------------------------------------------------------
(* Types. *)

\* What a call carries.
LEMMA CallsTyped ==
  ASSUME NEW k \in Calls
  PROVE  /\ k.slots \subseteq Slots /\ k.slots # {}
         /\ k.entry \in Data /\ k.entry \in [1..Width -> Nat]
<1>1. k.slots \in {{s} : s \in Slots} \cup {Slots} /\ k.entry \in Data
  BY BridgeAssumption
<1>2. k.slots = Slots \/ \E s \in Slots : k.slots = {s}
  BY <1>1
<1>3. Slots # {} /\ \A d \in Data : d \in [1..Width -> Nat]
  BY BridgeAssumption
<1> QED
  BY <1>1, <1>2, <1>3

\* The types do not hold of a step by themselves: a thread that writes a data
\* word has an entry to take it from.
Typed == TypeOK /\ \A t \in Threads : pc[t] # "idle" => args[t] \in Calls

LEMMA InitTyped == Init => Typed
<1> SUFFICES ASSUME Init PROVE Typed
  OBVIOUS
<1> USE BridgeAssumption
<1>1. tlb \in [Slots -> [1..Width -> Nat]]
  <2>1. tlb \in [Slots -> Data]
    BY DEF Init
  <2>2. \A d \in Data : d \in [1..Width -> Nat]
    OBVIOUS
  <2> QED
    BY <2>1, <2>2
<1>2. TypeOK
  BY <1>1 DEF Init, TypeOK
<1> QED
  BY <1>2 DEF Init, Typed

LEMMA TypedStep == Typed /\ [Next]_vars => Typed'
<1> SUFFICES ASSUME Typed, [Next]_vars PROVE Typed'
  OBVIOUS
<1> DEFINE Steps == {"idle", "find", "candidate", "index", "data", "operation", "done"}
           Registers == /\ index_register \in Slots
                        /\ data_registers \in [1..Width -> Nat]
                        /\ tlb \in [Slots -> [1..Width -> Nat]]
           Locals == /\ word \in [Threads -> 1..Width]
                     /\ index \in [Threads -> Slots] /\ returned \in [Threads -> Slots]
           Locks == mmap_lock \in [Spaces -> Threads \cup {Nobody}]
           Control == /\ pc \in [Threads -> Steps]
                      /\ args \in [Threads -> Calls \cup {NoCall}]
                      /\ \A t \in Threads : pc[t] # "idle" => args[t] \in Calls
<1>0. Registers /\ Locals /\ Locks /\ Control
  BY DEF Typed, TypeOK
<1>1. SUFFICES Registers' /\ Locals' /\ Locks' /\ Control'
  BY DEF Typed, TypeOK
<1>2. CASE UNCHANGED vars
  BY <1>0, <1>2 DEF vars, registers, thread
<1>3. ASSUME NEW t \in Threads, Enter(t) PROVE Registers' /\ Locals' /\ Locks' /\ Control'
  <2>1. Registers'
    BY <1>0, <1>3 DEF Enter, registers
  <2>2. Locals'
    <3>1. index' = index \/ \E s \in Slots : index' = [index EXCEPT ![t] = s]
      BY <1>3 DEF Enter
    <3>2. word' = word /\ returned' = returned
      BY <1>3 DEF Enter
    <3> QED
      BY <1>0, <3>1, <3>2
  <2>3. Locks'
    BY <1>0, <1>3 DEF Enter
  <2>4. Control'
    <3>1. PICK k \in Calls : args' = [args EXCEPT ![t] = k]
      BY <1>3 DEF Enter
    <3>2. pc' = [pc EXCEPT ![t] = "find"] \/ pc' = [pc EXCEPT ![t] = "index"]
      BY <1>3 DEF Enter, Goto
    <3> QED
      BY <1>0, <3>1, <3>2
  <2> QED
    BY <2>1, <2>2, <2>3, <2>4
<1>4. ASSUME NEW t \in Threads, FindCandidate(t)
      PROVE  Registers' /\ Locals' /\ Locks' /\ Control'
  BY <1>0, <1>4 DEF FindCandidate, Goto
<1>5. ASSUME NEW t \in Threads, ReadCandidate(t)
      PROVE  Registers' /\ Locals' /\ Locks' /\ Control'
  BY <1>0, <1>5 DEF ReadCandidate, registers, Goto
<1>6. ASSUME NEW t \in Threads, WriteIndex(t)
      PROVE  Registers' /\ Locals' /\ Locks' /\ Control'
  <2>1. Registers'
    BY <1>0, <1>6 DEF WriteIndex
  <2>2. Locals'
    <3>1. 1 \in 1..Width
      BY BridgeAssumption
    <3> QED
      BY <1>0, <1>6, <3>1 DEF WriteIndex
  <2>3. Locks' /\ Control'
    BY <1>0, <1>6 DEF WriteIndex, Goto
  <2> QED
    BY <2>1, <2>2, <2>3
<1>7. ASSUME NEW t \in Threads, WriteData(t)
      PROVE  Registers' /\ Locals' /\ Locks' /\ Control'
  <2>1. Registers'
    <3>1. args[t] \in Calls
      BY <1>0, <1>7 DEF WriteData
    <3>2. args[t].entry[word[t]] \in Nat
      BY <1>0, <3>1, CallsTyped
    <3> QED
      BY <1>0, <1>7, <3>2 DEF WriteData
  <2>2. Locals'
    <3>1. \/ word' = word
          \/ word[t] # Width /\ word' = [word EXCEPT ![t] = word[t] + 1]
      BY <1>7 DEF WriteData
    <3>2. word[t] \in 1..Width /\ Width \in Nat
      BY <1>0, BridgeAssumption
    <3>3. word[t] # Width => word[t] + 1 \in 1..Width
      BY <3>2
    <3>4. word' \in [Threads -> 1..Width]
      BY <1>0, <3>1, <3>3
    <3> QED
      BY <1>0, <1>7, <3>4 DEF WriteData
  <2>3. Locks'
    BY <1>0, <1>7 DEF WriteData
  <2>4. Control'
    <3>1. pc' = [pc EXCEPT ![t] = "operation"] \/ pc' = pc
      BY <1>7 DEF WriteData, Goto
    <3>2. args' = args /\ pc[t] = "data"
      BY <1>7 DEF WriteData
    <3> QED
      BY <1>0, <3>1, <3>2
  <2> QED
    BY <2>1, <2>2, <2>3, <2>4
<1>8. ASSUME NEW t \in Threads, WriteOperation(t)
      PROVE  Registers' /\ Locals' /\ Locks' /\ Control'
  BY <1>0, <1>8 DEF WriteOperation, Goto
<1>9. ASSUME NEW t \in Threads, Return(t)
      PROVE  Registers' /\ Locals' /\ Locks' /\ Control'
  BY <1>0, <1>9 DEF Return, registers, Goto
<1> QED
  BY <1>2, <1>3, <1>4, <1>5, <1>6, <1>7, <1>8, <1>9 DEF Next

\* Whoever calls, from however many processes, the registers, the table and the
\* locals of every thread hold values of their types; the index register always
\* names a slot of the table, so that the operation never misses it.
THEOREM BridgeTypeCorrect == Spec => []TypeOK
<1>1. Typed => TypeOK
  BY DEF Typed
<1> QED
  BY <1>1, InitTyped, TypedStep, PTL DEF Spec

-----------------------------------------------------------------------------
(* The lock of an address space. *)

LEMMA InitLocked == Init => Locked
<1> SUFFICES ASSUME Init, NEW t \in Threads
             PROVE  pc[t] = "idle" /\ mmap_lock[AddressSpace[t]] # t
  BY DEF Locked
<1>1. AddressSpace[t] \in Spaces /\ t # Nobody
  BY BridgeAssumption DEF Spaces
<1>2. pc[t] = "idle" /\ mmap_lock[AddressSpace[t]] = Nobody
  BY <1>1 DEF Init
<1> QED
  BY <1>1, <1>2

LEMMA LockedStep ==
  ASSUME TypeOK, Locked, [Next]_vars
  PROVE  Locked'
<1>1. CASE UNCHANGED vars
  BY <1>1 DEF vars, thread, Locked
<1>2. SUFFICES ASSUME NEW t \in Threads,
                      \/ Enter(t) \/ FindCandidate(t) \/ ReadCandidate(t) \/ WriteIndex(t)
                      \/ WriteData(t) \/ WriteOperation(t) \/ Return(t),
                      NEW u \in Threads
               PROVE  pc'[u] # "idle" <=> mmap_lock'[AddressSpace[u]] = u
  BY <1>1 DEF Next, Locked
<1>3. /\ pc[u] # "idle" <=> mmap_lock[AddressSpace[u]] = u
      /\ pc[t] # "idle" <=> mmap_lock[AddressSpace[t]] = t
      /\ AddressSpace[u] \in Spaces /\ AddressSpace[t] \in Spaces /\ u # Nobody
  BY BridgeAssumption DEF Locked, Spaces
<1>4. /\ pc \in [Threads -> {"idle", "find", "candidate", "index", "data", "operation", "done"}]
      /\ mmap_lock \in [Spaces -> Threads \cup {Nobody}]
  BY DEF TypeOK
<1>5. CASE Enter(t)
  <2>1. PICK step \in {"find", "index"} : pc' = [pc EXCEPT ![t] = step]
    BY <1>5 DEF Enter, Goto
  <2>2. /\ pc[t] = "idle" /\ mmap_lock[AddressSpace[t]] = Nobody
        /\ mmap_lock' = [mmap_lock EXCEPT ![AddressSpace[t]] = t]
    BY <1>5 DEF Enter
  <2> QED
    BY <1>3, <1>4, <2>1, <2>2
<1>6. CASE Return(t)
  <2>1. /\ pc[t] = "done" /\ pc' = [pc EXCEPT ![t] = "idle"]
        /\ mmap_lock' = [mmap_lock EXCEPT ![AddressSpace[t]] = Nobody]
    BY <1>6 DEF Return, Goto
  <2> QED
    BY <1>3, <1>4, <2>1
<1>7. CASE ~Enter(t) /\ ~Return(t)
  <2>1. mmap_lock' = mmap_lock /\ pc[t] # "idle"
    BY <1>2, <1>7 DEF FindCandidate, ReadCandidate, WriteIndex, WriteData, WriteOperation
  <2>2. \/ pc' = pc
        \/ \E step \in {"candidate", "index", "data", "operation", "done"} :
             pc' = [pc EXCEPT ![t] = step]
    BY <1>2, <1>7 DEF FindCandidate, ReadCandidate, WriteIndex, WriteData,
                      WriteOperation, Goto
  <2>3. pc'[u] # "idle" <=> pc[u] # "idle"
    BY <1>4, <2>1, <2>2
  <2> QED
    BY <1>3, <2>1, <2>3
<1> QED
  BY <1>5, <1>6, <1>7

\* The calls of one process, whichever thread makes them, never overlap: the
\* kernel holds the lock of the address space from the first register write to
\* the last.  Two calls that overlap come from two processes.
LEMMA CallsOfOneProcessInTurn == Spec => []OneCallPerSpace
<1>1. Typed /\ Locked /\ [Next]_vars => Typed' /\ Locked'
  BY TypedStep, LockedStep DEF Typed
<1>2. Locked => OneCallPerSpace
  BY DEF Locked, OneCallPerSpace
<1> QED
  BY <1>1, <1>2, InitTyped, InitLocked, PTL DEF Spec

LEMMA OneProcess == ASSUME OneAddressSpace PROVE Spec => []OneCall
<1>1. OneCallPerSpace => OneCall
  BY DEF OneAddressSpace, OneCallPerSpace, OneCall
<1> QED
  BY <1>1, CallsOfOneProcessInTurn, PTL

-----------------------------------------------------------------------------
(* One call at a time: what it has done so far. *)

LEMMA InitInvariant == Init => IInv
<1> SUFFICES ASSUME Init PROVE IInv
  OBVIOUS
<1>1. TypeOK
  BY InitTyped DEF Typed
<1>2. \A t \in Threads : Progress(t)
  BY DEF Init, Progress
<1> QED
  BY <1>1, <1>2 DEF IInv

\* Words that agree one by one are the same entry.
LEMMA SameEntry ==
  ASSUME NEW d \in [1..Width -> Nat], NEW e \in [1..Width -> Nat],
         \A k \in 1..Width : d[k] = e[k]
  PROVE  d = e
<1>1. d = [k \in 1..Width |-> d[k]] /\ e = [k \in 1..Width |-> e[k]]
  OBVIOUS
<1>2. [k \in 1..Width |-> d[k]] = [k \in 1..Width |-> e[k]]
  BY Zenon
<1> QED
  BY <1>1, <1>2, Zenon

LEMMA InvariantStep ==
  ASSUME IInv, OneCall, OneCall', [Next]_vars
  PROVE  IInv'
<1>1. TypeOK'
  <2>1. Typed
    BY DEF IInv, Typed, Progress
  <2> QED
    BY <2>1, TypedStep DEF Typed
<1>2. CASE UNCHANGED vars
  BY <1>1, <1>2 DEF vars, registers, thread, IInv, Progress
<1>3. SUFFICES ASSUME NEW t \in Threads,
                      \/ Enter(t) \/ FindCandidate(t) \/ ReadCandidate(t) \/ WriteIndex(t)
                      \/ WriteData(t) \/ WriteOperation(t) \/ Return(t)
               PROVE  \A u \in Threads : Progress(u)'
  BY <1>1, <1>2 DEF Next, IInv
<1>4. TypeOK /\ \A u \in Threads : Progress(u)
  BY DEF IInv
\* Nobody else is in a call.
<1>5. \A u \in Threads \ {t} : pc[u] = "idle" /\ pc'[u] = "idle" /\ args'[u] = NoCall
  <2>1. SUFFICES ASSUME NEW u \in Threads, u # t
                 PROVE  pc[u] = "idle" /\ pc'[u] = pc[u] /\ args'[u] = args[u]
    BY <1>4 DEF Progress
  <2>2. (\E step : pc' = [pc EXCEPT ![t] = step]) \/ pc' = pc
    BY <1>3 DEF Enter, FindCandidate, ReadCandidate, WriteIndex, WriteData,
                WriteOperation, Return, Goto
  <2>3. pc[u] = "idle"
    <3>1. CASE Enter(t)
      <4>1. pc'[t] # "idle" /\ pc'[u] = pc[u]
        BY <1>4, <2>1, <3>1 DEF Enter, Goto, TypeOK
      <4> QED
        BY <2>1, <4>1 DEF OneCall
    <3>2. CASE ~Enter(t)
      <4>1. pc[t] # "idle"
        BY <1>3, <3>2 DEF FindCandidate, ReadCandidate, WriteIndex, WriteData,
                          WriteOperation, Return
      <4> QED
        BY <2>1, <4>1 DEF OneCall
    <3> QED
      BY <3>1, <3>2
  <2>4. (\E k : args' = [args EXCEPT ![t] = k]) \/ args' = args
    BY <1>3 DEF Enter, FindCandidate, ReadCandidate, WriteIndex, WriteData,
                WriteOperation, Return
  <2> QED
    BY <1>4, <2>1, <2>2, <2>3, <2>4 DEF TypeOK
\* What holds of every thread but t, before t's own part is looked at.
<1>6. \A u \in Threads \ {t} : Progress(u)'
  BY <1>5 DEF Progress
<1>7. Progress(t)'
  <2>1. CASE Enter(t)
    <3>1. PICK k \in Calls :
            /\ args' = [args EXCEPT ![t] = k]
            /\ \/ k.slots = Slots /\ pc' = [pc EXCEPT ![t] = "find"]
               \/ \E s \in Slots : /\ k.slots = {s} /\ pc' = [pc EXCEPT ![t] = "index"]
                                   /\ index' = [index EXCEPT ![t] = s]
      BY <2>1 DEF Enter, Goto
    <3>2. args'[t] = k
      BY <1>4, <3>1 DEF TypeOK
    <3>3. \/ k.slots = Slots /\ pc'[t] = "find"
          \/ pc'[t] = "index" /\ index'[t] \in k.slots
      BY <1>4, <3>1 DEF TypeOK
    <3> QED
      BY <3>2, <3>3 DEF Progress
  <2>2. CASE FindCandidate(t)
    BY <1>4, <2>2 DEF FindCandidate, Goto, Progress, TypeOK
  <2>3. CASE ReadCandidate(t)
    <3>1. pc'[t] = "index" /\ index'[t] = index_register /\ args' = args
      BY <1>4, <2>3 DEF ReadCandidate, Goto, TypeOK
    <3>2. args[t].slots = Slots /\ args[t] \in Calls
      BY <1>4, <2>3 DEF ReadCandidate, Progress
    <3> QED
      BY <1>4, <3>1, <3>2 DEF Progress, TypeOK
  <2>4. CASE WriteIndex(t)
    <3>1. /\ pc'[t] = "data" /\ index' = index /\ args' = args /\ word'[t] = 1
          /\ index_register' = index[t]
      BY <1>4, <2>4 DEF WriteIndex, Goto, TypeOK
    <3>2. index[t] \in args[t].slots /\ args[t] \in Calls
      BY <1>4, <2>4 DEF WriteIndex, Progress
    <3>3. 1..(1 - 1) = {}
      OBVIOUS
    <3> QED
      BY <3>1, <3>2, <3>3 DEF Progress
  <2>5. CASE WriteData(t)
    <3>1. /\ index' = index /\ args' = args /\ index_register' = index_register
          /\ data_registers' = [data_registers EXCEPT ![word[t]] = args[t].entry[word[t]]]
      BY <2>5 DEF WriteData
    <3>2. /\ index[t] \in args[t].slots /\ args[t] \in Calls /\ index_register = index[t]
          /\ \A k \in 1..(word[t] - 1) : data_registers[k] = args[t].entry[k]
      BY <1>4, <2>5 DEF WriteData, Progress
    <3>3. \A k \in 1..word[t] : data_registers'[k] = args[t].entry[k]
      <4>1. word[t] \in 1..Width /\ data_registers \in [1..Width -> Nat] /\ Width \in Nat
        BY <1>4, BridgeAssumption DEF TypeOK
      <4>2. \A k \in 1..word[t] : k \in 1..Width /\ (k = word[t] \/ k \in 1..(word[t] - 1))
        BY <4>1
      <4> QED
        BY <3>1, <3>2, <4>1, <4>2
    <3>4. CASE word[t] = Width
      <4>1. pc'[t] = "operation"
        BY <1>4, <2>5, <3>4 DEF WriteData, Goto, TypeOK
      <4>2. data_registers' = args[t].entry
        <5>1. data_registers' \in [1..Width -> Nat]
          BY <1>1 DEF TypeOK
        <5>2. args[t].entry \in [1..Width -> Nat]
          BY <3>2, CallsTyped
        <5>3. \A k \in 1..Width : data_registers'[k] = args[t].entry[k]
          BY <3>3, <3>4
        <5> QED
          BY <5>1, <5>2, <5>3, SameEntry
      <4> QED
        BY <3>1, <3>2, <4>1, <4>2 DEF Progress
    <3>5. CASE word[t] # Width
      <4>1. pc'[t] = "data"
        BY <2>5, <3>5 DEF WriteData
      <4>2. word'[t] = word[t] + 1
        BY <1>4, <2>5, <3>5 DEF WriteData, TypeOK
      <4>3. word'[t] - 1 = word[t]
        BY <1>4, <4>2 DEF TypeOK
      <4> QED
        BY <3>1, <3>2, <3>3, <4>1, <4>3 DEF Progress
    <3> QED
      BY <3>4, <3>5
  <2>6. CASE WriteOperation(t)
    <3>1. /\ pc'[t] = "done" /\ index' = index /\ args' = args /\ returned'[t] = index[t]
          /\ tlb' = [tlb EXCEPT ![index_register] = data_registers]
      BY <1>4, <2>6 DEF WriteOperation, Goto, TypeOK
    <3>2. /\ index[t] \in args[t].slots /\ args[t] \in Calls /\ index_register = index[t]
          /\ data_registers = args[t].entry
      BY <1>4, <2>6 DEF WriteOperation, Progress
    <3>3. tlb'[index[t]] = args[t].entry
      BY <1>4, <3>1, <3>2 DEF TypeOK
    <3> QED
      BY <3>1, <3>2, <3>3 DEF Progress
  <2>7. CASE Return(t)
    <3>1. pc'[t] = "idle" /\ args'[t] = NoCall
      BY <1>4, <2>7 DEF Return, Goto, TypeOK
    <3> QED
      BY <3>1 DEF Progress
  <2> QED
    BY <1>3, <2>1, <2>2, <2>3, <2>4, <2>5, <2>6, <2>7
<1> QED
  BY <1>6, <1>7

LEMMA Invariant == Spec /\ []OneCall => []IInv
<1>1. IInv /\ OneCall /\ OneCall' /\ [Next]_vars => IInv'
  BY InvariantStep
<1> QED
  BY <1>1, InitInvariant, PTL DEF Spec

\* As long as no two calls overlap, of however many processes, the slot a call
\* has replaced when it returns, which is one it may replace, holds the words it
\* passed: nothing has come between its register writes and the operation, nor
\* changed the index the bridge had offered it.
THEOREM ServedInTurn == Spec /\ []OneCall => []ServedOnReturn
<1>1. IInv => ServedOnReturn
  BY DEF IInv, Progress, ServedOnReturn
<1> QED
  BY <1>1, Invariant, PTL

\* So it is for the threads of one process, whatever they do.
COROLLARY BridgeServedOnReturn == ASSUME OneAddressSpace PROVE Spec => []ServedOnReturn
BY ServedInTurn, OneProcess, PTL

-----------------------------------------------------------------------------
(* The register writes implement TlbSpec. *)

\* What each caller still has to be given, as ApbBridge states it.
call == [t \in Threads |-> IF pc[t] \in {"idle", "done"} THEN NoCall ELSE args[t]]

LEMMA InitRefines == Init => Bridge!Init
<1> SUFFICES ASSUME Init PROVE Bridge!Init
  OBVIOUS
<1>1. tlb \in [Slots -> Data] /\ returned \in [Threads -> Slots]
  BY BridgeAssumption DEF Init
<1>2. call = [t \in Threads |-> NoCall]
  BY DEF Init, call
<1> QED
  BY <1>1, <1>2 DEF Bridge!Init, call

LEMMA StepRefines ==
  ASSUME IInv, [Next]_vars
  PROVE  [Bridge!Next]_<<tlb, call, returned>>
<1>0. TypeOK /\ \A t \in Threads : Progress(t)
  BY DEF IInv
<1>1. CASE UNCHANGED vars
  BY <1>1 DEF vars, registers, thread, call
<1>2. ASSUME NEW t \in Threads, Enter(t) PROVE Bridge!Next
  <2>1. PICK k \in Calls :
          /\ args' = [args EXCEPT ![t] = k]
          /\ \E step \in {"find", "index"} : pc' = [pc EXCEPT ![t] = step]
    BY <1>2 DEF Enter, Goto
  <2>2. call[t] = NoCall
    BY <1>2 DEF Enter, call
  <2>3. call' = [call EXCEPT ![t] = k]
    BY <1>0, <2>1 DEF TypeOK, call
  <2>4. UNCHANGED <<tlb, returned>>
    BY <1>2 DEF Enter, registers
  <2> QED
    BY <2>2, <2>3, <2>4 DEF Bridge!Next, Bridge!Ask, call
\* Up to the operation, and after it, neither the table nor what a caller is
\* still to be given changes.
<1>3. ASSUME NEW t \in Threads,
             \/ FindCandidate(t) \/ ReadCandidate(t) \/ WriteIndex(t) \/ WriteData(t)
             \/ Return(t)
      PROVE  UNCHANGED <<tlb, call, returned>>
  <2>1. UNCHANGED <<tlb, returned>>
    BY <1>3 DEF FindCandidate, ReadCandidate, WriteIndex, WriteData, Return, registers
  <2>2. CASE Return(t)
    <3>1. pc[t] = "done" /\ pc' = [pc EXCEPT ![t] = "idle"] /\ args' = [args EXCEPT ![t] = NoCall]
      BY <2>2 DEF Return, Goto
    <3> QED
      BY <1>0, <2>1, <3>1 DEF TypeOK, call
  <2>3. CASE ~Return(t)
    <3>1. /\ args' = args /\ pc[t] \notin {"idle", "done"}
          /\ \/ pc' = pc
             \/ \E step \in {"candidate", "index", "data", "operation"} :
                  pc' = [pc EXCEPT ![t] = step]
      BY <1>3, <2>3 DEF FindCandidate, ReadCandidate, WriteIndex, WriteData, Goto
    <3> QED
      BY <1>0, <2>1, <3>1 DEF TypeOK, call
  <2> QED
    BY <2>2, <2>3
<1>4. ASSUME NEW t \in Threads, WriteOperation(t) PROVE Bridge!Next
  <2>1. /\ pc[t] = "operation" /\ pc' = [pc EXCEPT ![t] = "done"] /\ args' = args
        /\ tlb' = [tlb EXCEPT ![index_register] = data_registers]
        /\ returned' = [returned EXCEPT ![t] = index[t]]
    BY <1>4 DEF WriteOperation, Goto
  <2>2. /\ args[t] \in Calls /\ index[t] \in args[t].slots /\ index_register = index[t]
        /\ data_registers = args[t].entry
    BY <1>0, <2>1 DEF Progress
  <2>3. call[t] = args[t] /\ call[t] # NoCall
    BY <2>1, <2>2, BridgeAssumption DEF call
  <2>4. call' = [call EXCEPT ![t] = NoCall]
    BY <1>0, <2>1 DEF TypeOK, call
  <2>5. /\ tlb' = [tlb EXCEPT ![index[t]] = call[t].entry]
        /\ index[t] \in call[t].slots
    BY <2>1, <2>2, <2>3
  <2> QED
    BY <2>1, <2>3, <2>4, <2>5 DEF Bridge!Next, Bridge!Replace, call
<1> QED
  BY <1>1, <1>2, <1>3, <1>4 DEF Next

\* As long as no two calls overlap the register writes are one replacement of
\* one entry, taking effect with the write of the operation: "Replaces a
\* specific entry", "Replaces and invalidates the next available candidate.
\* Returns the replaced index" (unimem_ops.h:20,24).
THEOREM ImplementsTlbInTurn == Spec /\ []OneCall => ImplementsTlb
<1>1. IInv /\ [Next]_vars => [Bridge!Next]_<<tlb, call, returned>>
  BY StepRefines
<1> QED
  BY <1>1, InitRefines, Invariant, PTL DEF Spec, ImplementsTlb, Bridge!Spec, call

\* So it is for the threads of one process, whatever they do.
COROLLARY BridgeImplementsTlb == ASSUME OneAddressSpace PROVE Spec => ImplementsTlb
BY ImplementsTlbInTurn, OneProcess, PTL
=============================================================================

------------------------- MODULE UnimemSessionProofs -------------------------
(***************************************************************************)
(* Theorems about sessions of the device: what is left when the last one   *)
(* ends, and what a process can rely on that has the device to itself.     *)
(***************************************************************************)
EXTENDS UnimemDriverProofs, WellFoundedInduction

-----------------------------------------------------------------------------
(* When the last session ends. *)

\* The files and mappings that keep a session alive.
LEMMA HeldUnchanged ==
  ASSUME UNCHANGED fd, UNCHANGED vma, NEW q
  PROVE  Held(q)' <=> Held(q)
BY DEF Held, Mapped

\* A process that has passed its last reference no longer holds the device, and
\* one that has not, still does.
LEMMA CloseAndHeld ==
  ASSUME TypeInv, NEW p \in Procs, Close(p) \/ Munmap(p) \/ Exit(p)
  PROVE  /\ Held(p) /\ \A q \in Procs \ {p} : Held(q)' <=> Held(q)
         /\ \/ /\ ~Held(p)' /\ unimemfile_release
               /\ req' = [req EXCEPT ![p] = NoRequest]
            \/ Held(p)' /\ UNCHANGED <<table, flags, lists, req>>
<1>1. fd \in [Procs -> BOOLEAN] /\ vma \in [Procs -> [GvaPages -> Targets \cup {NoVma}]]
  BY DEF TypeInv, TypeOK
<1>2. CASE Close(p)
  <2> DEFINE last == \A va \in GvaPages : ~Mapped(p, va)
  <2>1. fd[p] /\ fd' = [fd EXCEPT ![p] = FALSE] /\ vma' = vma /\ ReleaseIfLast(p, last)
    BY <1>2 DEF Close
  <2>2. ~fd'[p] /\ \A q \in Procs \ {p} : fd'[q] = fd[q]
    BY <1>1, <2>1
  <2>4. Held(p) /\ (Held(p)' <=> ~last)
    BY <2>1, <2>2 DEF Held, Mapped
  <2>5. \A q \in Procs \ {p} : Held(q)' <=> Held(q)
    BY <2>1, <2>2 DEF Held, Mapped
  <2> QED
    BY <2>1, <2>4, <2>5 DEF ReleaseIfLast
<1>3. CASE Munmap(p)
  <2>1. PICK va \in GvaPages :
          /\ Mapped(p, va)
          /\ vma' = [vma EXCEPT ![p][va] = NoVma]
          /\ ReleaseIfLast(p, ~fd[p] /\ \A o \in GvaPages \ {va} : ~Mapped(p, o))
    BY <1>3 DEF Munmap
  <2> DEFINE last == ~fd[p] /\ \A o \in GvaPages \ {va} : ~Mapped(p, o)
  <2>2. fd' = fd
    BY <1>3 DEF Munmap
  <2>3. /\ vma'[p][va] = NoVma
        /\ \A o \in GvaPages \ {va} : vma'[p][o] = vma[p][o]
        /\ \A q \in Procs \ {p} : vma'[q] = vma[q]
    BY <1>1, <2>1
  <2>4. ReleaseIfLast(p, last)
    BY <2>1
  <2>5. Held(p)
    BY <2>1 DEF Held
  <2>6. Held(p)' <=> ~last
    BY <2>2, <2>3 DEF Held, Mapped
  <2>7. \A q \in Procs \ {p} : Held(q)' <=> Held(q)
    BY <2>2, <2>3 DEF Held, Mapped
  <2> QED
    BY <2>4, <2>5, <2>6, <2>7 DEF ReleaseIfLast
<1>4. CASE Exit(p)
  <2>1. /\ Held(p) /\ fd' = [fd EXCEPT ![p] = FALSE]
        /\ vma' = [vma EXCEPT ![p] = [va \in GvaPages |-> NoVma]]
        /\ ReleaseIfLast(p, TRUE)
    BY <1>4 DEF Exit
  <2>2. /\ ~fd'[p] /\ \A va \in GvaPages : vma'[p][va] = NoVma
        /\ \A q \in Procs \ {p} : fd'[q] = fd[q] /\ vma'[q] = vma[q]
    BY <1>1, <2>1
  <2>3. ~Held(p)'
    BY <2>2 DEF Held, Mapped
  <2>4. \A q \in Procs \ {p} : Held(q)' <=> Held(q)
    BY <2>2 DEF Held, Mapped
  <2> QED
    BY <2>1, <2>3, <2>4 DEF ReleaseIfLast
<1> QED
  BY <1>2, <1>3, <1>4

\* A release empties the table, both flags and the entries of the lists of address
\* registers.
LEMMA ReleaseCleans ==
  ASSUME unimemfile_release
  PROVE  QuiescentClean'
BY DEF unimemfile_release, ReleaseTo, NoRegisters, QuiescentClean, flags

\* Once the last session has ended, in whatever order the processes closed their
\* files, unmapped their pages or were killed, and however many entries they
\* recorded, the table, the flags and the entries of the lists are empty.  (What
\* unimemfile_release leaves as it was: see QuiescentClean.)
THEOREM LastReleaseCleans == Spec => []QuiescentClean
<1>1. Init => TypeInv /\ QuiescentClean
  <2> SUFFICES ASSUME Init PROVE QuiescentClean
    BY InitTypeInv
  <2> QED
    BY DEF Init, QuiescentClean, flags
<1>2. TypeInv /\ QuiescentClean /\ [Next]_vars => TypeInv' /\ QuiescentClean'
  <2> SUFFICES ASSUME TypeInv, QuiescentClean, [Next]_vars PROVE QuiescentClean'
    BY TypeInvStep
  <2>1. CASE UNCHANGED vars
    <3>1. UNCHANGED <<table, flags, lists, fd, vma>>
      BY <2>1 DEF vars, apps
    <3> QED
      BY <3>1 DEF QuiescentClean, Held, Mapped, table, flags, lists
  <2>2. ASSUME NEW p \in Procs, fd'[p]
        PROVE  QuiescentClean'
    BY <2>2 DEF QuiescentClean, Held
  <2>3. ASSUME NEW p \in Procs, Open(p)
        PROVE  fd'[p]
    BY <2>3 DEF Open, TypeInv, TypeOK
  <2>4. ASSUME NEW p \in Procs, PassStruct(p) \/ AccRegisterHelper(p) \/ AccSetup(p)
        PROVE  fd'[p]
    BY <2>4 DEF PassStruct, AccRegisterHelper, AccSetup, CanSetUp, SetUp, apps
  <2>5. ASSUME NEW p \in Procs, Mmap(p)
        PROVE  fd'[p]
    BY <2>5 DEF Mmap, MmapHostDram, MmapFpgaDram, MmapAccelerator, MmapRemote, MmapNothing,
                MmapFails, Calls
  <2>6. ASSUME NEW p \in Procs, Close(p) \/ Munmap(p) \/ Exit(p)
        PROVE  QuiescentClean'
    <3>1. CASE unimemfile_release
      BY <3>1, ReleaseCleans
    <3>2. CASE Held(p)'
      BY <3>2 DEF QuiescentClean
    <3> QED
      BY <2>6, <3>1, <3>2, CloseAndHeld
  <2> QED
    BY <2>1, <2>2, <2>3, <2>4, <2>5, <2>6 DEF Next
<1> QED
  BY <1>1, <1>2, PTL DEF Spec

-----------------------------------------------------------------------------
(* A process that has the device to itself. *)

\* One process at a time has the device.
OneHolder == \A p, q \in Procs : Held(p) /\ Held(q) => p = q

\* 'data' is then what that process passed last.
DataIsOwn == \A p \in Procs : req[p] # NoRequest => Held(p) /\ data = req[p]

\* A mmap is made through an open file and touches the mappings of its process.
LEMMA MmapIsOwn ==
  ASSUME TypeInv, NEW p \in Procs, Mmap(p)
  PROVE  fd[p] /\ fd' = fd /\ \A q \in Procs \ {p} : vma'[q] = vma[q]
<1>1. fd[p] /\ fd' = fd
  BY DEF Mmap, MmapHostDram, MmapFpgaDram, MmapAccelerator, MmapRemote, MmapNothing,
         MmapFails, Calls
<1>2. \E t : Map(p, t)
  BY DEF Mmap, MmapHostDram, MmapFpgaDram, MmapAccelerator, MmapRemote, MmapNothing, MmapFails
<1>3. \A q \in Procs \ {p} : vma'[q] = vma[q]
  BY <1>2 DEF Map, TypeInv, TypeOK
<1> QED
  BY <1>1, <1>3

\* An mmap that finds its own request puts behind the page it asks for what the
\* page's request names, a hole if nothing serves it, or nothing if it fails.
LEMMA MmapMatches ==
  ASSUME TypeInv, NEW p \in Procs, Mmap(p), data = req[p]
  PROVE  /\ req[p] \in Requests /\ UNCHANGED <<data, fd, req>>
         /\ \E t \in {NoVma, Target(CURRENT_NODE, req[p].node, req[p].region)} :
              vma' = [vma EXCEPT ![p][req[p].base_addr] = t]
<1>1. Calls(p)
  BY DEF Mmap, MmapHostDram, MmapFpgaDram, MmapAccelerator, MmapRemote, MmapNothing, MmapFails
<1>2. req[p] \in Requests /\ data = req[p]
  BY <1>1 DEF Calls, TypeInv, TypeOK
<1>3. req[p].node \in Nat /\ req[p].region \in Nat
  BY <1>2, RequestFacts
<1>4. UNCHANGED <<data, fd, req>>
  BY DEF Mmap, MmapHostDram, MmapFpgaDram, MmapAccelerator, MmapRemote, MmapNothing, MmapFails
<1>5. PICK t \in {NoVma, Target(CURRENT_NODE, req[p].node, req[p].region)} : Map(p, t)
  <2>1. CASE MmapHostDram(p)
    BY <1>2, <2>1 DEF MmapHostDram, Target
  <2>2. CASE MmapFpgaDram(p)
    BY <1>2, <2>2 DEF MmapFpgaDram, Target
  <2>3. CASE MmapAccelerator(p)
    BY <1>2, <2>3 DEF MmapAccelerator, Target
  <2>4. CASE MmapRemote(p)
    BY <1>2, <2>4 DEF MmapRemote, Target
  <2>5. CASE MmapNothing(p)
    BY <1>2, <1>3, <2>5 DEF MmapNothing, Target
  <2>6. CASE MmapFails(p)
    BY <2>6 DEF MmapFails
  <2> QED
    BY <2>1, <2>2, <2>3, <2>4, <2>5, <2>6 DEF Mmap
<1> QED
  BY <1>2, <1>4, <1>5 DEF Map

\* A page with a new content is in order if that content is what it names.
LEMMA MatchesAfterMap ==
  ASSUME TypeInv, LayoutDistinct, MappingMatchesRequest,
         NEW p \in Procs, NEW r \in Requests,
         NEW t \in {NoVma, Target(CURRENT_NODE, r.node, r.region)},
         vma' = [vma EXCEPT ![p][r.base_addr] = t]
  PROVE  MappingMatchesRequest'
<1> SUFFICES ASSUME NEW q \in Procs, NEW w \in Wanted
             PROVE  vma'[q][GVA(w[1], w[2])] \in {NoVma, Target(CURRENT_NODE, w[1], w[2])}
  BY DEF MappingMatchesRequest
<1>1. vma \in [Procs -> [GvaPages -> Targets \cup {NoVma}]]
  BY DEF TypeInv, TypeOK
<1>2. GVA(w[1], w[2]) \in GvaPages
  BY DEF GvaPages
<1>3. vma[q][GVA(w[1], w[2])] \in {NoVma, Target(CURRENT_NODE, w[1], w[2])}
  BY DEF MappingMatchesRequest
<1>4. PICK v \in Wanted : r = Request(v[1], v[2])
  BY DEF Requests
<1>5. r.node = v[1] /\ r.region = v[2] /\ r.base_addr = GVA(v[1], v[2])
  BY <1>4 DEF Request
<1>6. CASE q = p /\ GVA(w[1], w[2]) = r.base_addr
  <2>1. v[1] = w[1] /\ v[2] = w[2]
    BY <1>5, <1>6 DEF LayoutDistinct
  <2>2. vma'[q][GVA(w[1], w[2])] = t
    BY <1>1, <1>2, <1>6
  <2> QED
    BY <1>5, <2>1, <2>2
<1>7. CASE ~(q = p /\ GVA(w[1], w[2]) = r.base_addr)
  <2>1. vma'[q][GVA(w[1], w[2])] = vma[q][GVA(w[1], w[2])]
    BY <1>1, <1>2, <1>7
  <2> QED
    BY <1>3, <2>1
<1> QED
  BY <1>6, <1>7

\* Closing, unmapping and exiting put nothing new behind any page.
LEMMA ClosingUnmaps ==
  ASSUME vma \in [Procs -> [GvaPages -> Targets \cup {NoVma}]],
         NEW p \in Procs, Close(p) \/ Munmap(p) \/ Exit(p)
  PROVE  \A q \in Procs, va \in GvaPages : vma'[q][va] \in {vma[q][va], NoVma}
<1>1. CASE Close(p)
  BY <1>1 DEF Close
<1>2. CASE Munmap(p)
  <2>1. PICK va \in GvaPages : vma' = [vma EXCEPT ![p][va] = NoVma]
    BY <1>2 DEF Munmap
  <2> QED
    BY <2>1
<1>3. CASE Exit(p)
  <2>1. vma' = [vma EXCEPT ![p] = [va \in GvaPages |-> NoVma]]
    BY <1>3 DEF Exit
  <2> QED
    BY <2>1
<1> QED
  BY <1>1, <1>2, <1>3

\* A mmap of the only holder finds its own request.
LEMMA HolderFindsOwn ==
  ASSUME DataIsOwn, NEW p \in Procs, Mmap(p)
  PROVE  data = req[p]
BY DEF DataIsOwn, Mmap, MmapHostDram, MmapFpgaDram, MmapAccelerator, MmapRemote, MmapNothing,
       MmapFails, Calls

\* One step of the driver leaves the only holder's request in 'data'.
LEMMA DataIsOwnStep ==
  ASSUME TypeInv, OneHolder, DataIsOwn, [Next]_vars
  PROVE  DataIsOwn'
<1>1. fd \in [Procs -> BOOLEAN] /\ req \in [Procs -> Requests \cup {NoRequest}]
  BY DEF TypeInv, TypeOK
<1>2. ASSUME UNCHANGED <<data, fd, vma, req>> PROVE DataIsOwn'
  BY <1>2 DEF DataIsOwn, Held, Mapped
<1>3. ASSUME NEW p \in Procs, Open(p) PROVE DataIsOwn'
  <2>1. fd' = [fd EXCEPT ![p] = TRUE] /\ UNCHANGED <<data, vma, req>>
    BY <1>3 DEF Open
  <2>2. \A q \in Procs : Held(q) => Held(q)'
    BY <1>1, <2>1 DEF Held, Mapped
  <2> QED
    BY <2>1, <2>2 DEF DataIsOwn
<1>4. ASSUME NEW p \in Procs, PassStruct(p) PROVE DataIsOwn'
  <2>1. PICK r \in Requests : data' = r /\ req' = [req EXCEPT ![p] = r]
    BY <1>4 DEF PassStruct
  <2>2. Held(p) /\ UNCHANGED <<fd, vma>>
    BY <1>4 DEF PassStruct, Held
  <2>3. \A q \in Procs : Held(q)' <=> Held(q)
    BY <2>2 DEF Held, Mapped
  <2>4. \A q \in Procs \ {p} : req'[q] = NoRequest
    BY <1>1, <2>1, <2>2 DEF OneHolder, DataIsOwn
  <2> QED
    BY <1>1, <2>1, <2>2, <2>3, <2>4 DEF DataIsOwn
<1>5. ASSUME NEW p \in Procs, AccRegisterHelper(p) \/ AccSetup(p) PROVE DataIsOwn'
  BY <1>2, <1>5 DEF AccRegisterHelper, AccSetup, CanSetUp, SetUp, apps
<1>6. ASSUME NEW p \in Procs, Mmap(p) PROVE DataIsOwn'
  <2>1. fd[p] /\ UNCHANGED fd /\ \A q \in Procs \ {p} : vma'[q] = vma[q]
    BY <1>6, MmapIsOwn
  <2>2. UNCHANGED <<data, req>>
    BY <1>6 DEF Mmap, MmapHostDram, MmapFpgaDram, MmapAccelerator, MmapRemote, MmapNothing,
                MmapFails
  <2>3. \A q \in Procs : Held(q)' <=> Held(q)
    BY <2>1 DEF Held, Mapped
  <2> QED
    BY <2>2, <2>3 DEF DataIsOwn
<1>7. ASSUME NEW p \in Procs, Close(p) \/ Munmap(p) \/ Exit(p) PROVE DataIsOwn'
  <2>1. /\ Held(p) /\ \A q \in Procs \ {p} : Held(q)' <=> Held(q)
        /\ \/ ~Held(p)' /\ req' = [req EXCEPT ![p] = NoRequest]
           \/ Held(p)' /\ req' = req
    BY <1>7, CloseAndHeld
  <2>2. data' = data
    BY <1>7 DEF Close, Munmap, Exit
  <2>3. \A q \in Procs : req'[q] # NoRequest => req'[q] = req[q] /\ Held(q)'
    BY <1>1, <2>1 DEF DataIsOwn
  <2> QED
    BY <2>2, <2>3 DEF DataIsOwn
<1>8. CASE UNCHANGED vars
  BY <1>2, <1>8 DEF vars, apps
<1> QED
  BY <1>3, <1>4, <1>5, <1>6, <1>7, <1>8 DEF Next

LEMMA DataIsOwnAlways == Spec /\ []OneHolder => [](TypeInv /\ DataIsOwn)
<1>1. Init => DataIsOwn
  <2>1. Init => \A q \in Procs : req[q] = NoRequest
    BY DEF Init
  <2> QED
    BY <2>1 DEF DataIsOwn
<1>2. TypeInv /\ OneHolder /\ DataIsOwn /\ [Next]_vars => TypeInv' /\ DataIsOwn'
  BY TypeInvStep, DataIsOwnStep
<1> QED
  BY <1>1, <1>2, InitTypeInv, PTL DEF Spec

\* One step of the driver keeps the mappings in order.
LEMMA MatchesStep ==
  ASSUME LayoutDistinct, TypeInv, DataIsOwn, MappingMatchesRequest, [Next]_vars
  PROVE  MappingMatchesRequest'
<1>1. CASE UNCHANGED vma
  BY <1>1 DEF MappingMatchesRequest
<1>2. ASSUME NEW p \in Procs, Mmap(p)
      PROVE  MappingMatchesRequest'
  <2>0. data = req[p]
    BY <1>2, HolderFindsOwn
  <2>1. req[p] \in Requests
    BY <1>2, <2>0, MmapMatches
  <2>2. PICK t \in {NoVma, Target(CURRENT_NODE, req[p].node, req[p].region)} :
          vma' = [vma EXCEPT ![p][req[p].base_addr] = t]
    BY <1>2, <2>0, MmapMatches
  <2> QED
    BY <2>1, <2>2, MatchesAfterMap
<1>3. ASSUME NEW p \in Procs, Close(p) \/ Munmap(p) \/ Exit(p)
      PROVE  MappingMatchesRequest'
  <2>1. \A q \in Procs, va \in GvaPages : vma'[q][va] \in {vma[q][va], NoVma}
    BY <1>3, ClosingUnmaps DEF TypeInv, TypeOK
  <2>2. \A w \in Wanted : GVA(w[1], w[2]) \in GvaPages
    BY DEF GvaPages
  <2> QED
    BY <2>1, <2>2 DEF MappingMatchesRequest
<1>4. ASSUME NEW p \in Procs,
             Open(p) \/ PassStruct(p) \/ AccRegisterHelper(p) \/ AccSetup(p)
      PROVE  UNCHANGED vma
  BY <1>4 DEF Open, PassStruct, AccRegisterHelper, AccSetup, CanSetUp, SetUp, apps
<1>5. CASE UNCHANGED vars
  BY <1>1, <1>5 DEF vars, apps
<1> QED
  BY <1>1, <1>2, <1>3, <1>4, <1>5 DEF Next

\* A process that has the device to itself gets what it asks for, whichever
\* processes had the device before it and whatever they left in 'data'.
THEOREM AloneGetsWhatItAskedFor ==
  ASSUME LayoutDistinct
  PROVE  Spec /\ []OneHolder => []MappingMatchesRequest
<1>1. Init => MappingMatchesRequest
  BY DEF Init, MappingMatchesRequest, GvaPages
<1>2. TypeInv /\ DataIsOwn /\ MappingMatchesRequest /\ [Next]_vars => MappingMatchesRequest'
  BY MatchesStep
<1> QED
  BY <1>1, <1>2, DataIsOwnAlways, PTL DEF Spec

-----------------------------------------------------------------------------
(* What a lone process has mapped, the table translates. *)

\* Behind every page that a process has mapped from the UNIMEM BAR there is an
\* entry of the table with that page, as long as the table is not overrun.
MappedRecorded ==
  InBounds => \A p \in Procs, va \in GvaPages :
    vma[p][va].bar = "UNIMEM_BAR" =>
      \E i \in Entries : /\ i < memory_allocations /\ virt_address[i] = va
                         /\ vma[p][va] = Fpga(phys_address[i])

\* An mmap that puts a page of the UNIMEM BAR behind an address records it, if the
\* table has room.
LEMMA MmapRecords ==
  ASSUME TypeInv, NEW p \in Procs, Mmap(p), data = req[p], InBounds'
  PROVE  /\ InBounds
         /\ \E t : /\ vma' = [vma EXCEPT ![p][req[p].base_addr] = t]
                   /\ \/ t.bar # "UNIMEM_BAR" /\ UNCHANGED table
                      \/ \E page \in Nat :
                           /\ t = Fpga(page) /\ memory_allocations \in Entries
                           /\ virt_address' = [virt_address EXCEPT ![memory_allocations]
                                                                     = req[p].base_addr]
                           /\ phys_address' = [phys_address EXCEPT ![memory_allocations] = page]
                           /\ memory_allocations' = memory_allocations + 1
<1>1. Calls(p)
  BY DEF Mmap, MmapHostDram, MmapFpgaDram, MmapAccelerator, MmapRemote, MmapNothing, MmapFails
<1>2. req[p] \in Requests /\ data = req[p]
  BY <1>1 DEF Calls, TypeInv, TypeOK
<1>3. data.node \in Nat /\ data.region \in Nat
  BY <1>2, RequestFacts
<1>4. CASE MmapFpgaDram(p) \/ MmapRemote(p)
  <2>1. PICK page \in Nat : Map(p, Fpga(page)) /\ Record(page)
    <3>1. CASE MmapFpgaDram(p)
      BY <3>1 DEF MmapFpgaDram, Ddr4_0, Ddr4_2
    <3>2. CASE MmapRemote(p)
      <4>1. WindowPage(data.node, data.region) \in Nat
        BY <1>3 DEF WindowPage, ToBase
      <4> QED
        BY <3>2, <4>1 DEF MmapRemote
    <3> QED
      BY <1>4, <3>1, <3>2
  <2> QED
    BY <1>2, <2>1, RecordInBounds DEF Map
<1>5. CASE ~(MmapFpgaDram(p) \/ MmapRemote(p))
  <2>1. UNCHANGED table
    BY <1>5 DEF Mmap, MmapHostDram, MmapAccelerator, MmapNothing, MmapFails
  <2>2. \E t \in {HostRam, Accel0, Hole, NoVma} : Map(p, t)
    BY <1>5 DEF Mmap, MmapHostDram, MmapAccelerator, MmapNothing, MmapFails
  <2>3. /\ HostRam.bar # "UNIMEM_BAR" /\ Accel0.bar # "UNIMEM_BAR"
        /\ Hole.bar # "UNIMEM_BAR" /\ NoVma.bar # "UNIMEM_BAR"
    BY DEF HostRam, Accel0, Hole, NoVma, Behind
  <2> QED
    BY <2>1, <2>2, <2>3 DEF Map, InBounds, table
<1> QED
  BY <1>4, <1>5

LEMMA GvaPagesAreNumbers == ASSUME NEW va \in GvaPages PROVE va \in Nat
<1>1. PICK w \in Wanted : va = GVA(w[1], w[2])
  BY DEF GvaPages
<1>2. Request(w[1], w[2]) \in Requests
  BY DEF Requests
<1>3. Request(w[1], w[2]).base_addr \in Nat
  BY <1>2, RequestFacts
<1> QED
  BY <1>1, <1>3 DEF Request

LEMMA MappedRecordedStep ==
  ASSUME TypeInv, OneHolder, DataIsOwn, MappedRecorded, [Next]_vars
  PROVE  MappedRecorded'
<1> SUFFICES ASSUME InBounds' PROVE MappedRecorded'
  BY DEF MappedRecorded
<1>0. /\ vma \in [Procs -> [GvaPages -> Targets \cup {NoVma}]]
      /\ virt_address \in [Entries -> GvaPages \cup {0}] /\ phys_address \in [Entries -> Nat]
      /\ memory_allocations \in Nat /\ TableSize \in Nat
  BY DriverAssumption DEF TypeInv, TypeOK
<1>1. ASSUME UNCHANGED table, \A q \in Procs, va \in GvaPages : vma'[q][va] \in {vma[q][va], NoVma}
      PROVE  MappedRecorded'
  <2>1. NoVma.bar # "UNIMEM_BAR"
    BY DEF NoVma, Behind
  <2> QED
    BY <1>1, <2>1 DEF MappedRecorded, table, InBounds
<1>2. ASSUME UNCHANGED <<table, vma>> PROVE MappedRecorded'
  BY <1>2 DEF MappedRecorded, table, InBounds
<1>3. ASSUME NEW p \in Procs,
             Open(p) \/ PassStruct(p) \/ AccRegisterHelper(p) \/ AccSetup(p)
      PROVE  MappedRecorded'
  BY <1>2, <1>3 DEF Open, PassStruct, AccRegisterHelper, AccSetup, CanSetUp, SetUp, apps
<1>4. ASSUME NEW p \in Procs, Mmap(p)
      PROVE  MappedRecorded'
  <2>0. data = req[p]
    BY <1>4, HolderFindsOwn
  <2>1. req[p].base_addr \in GvaPages
    BY <1>4, <2>0, MmapMatches, RequestFacts
  <2> DEFINE at == req[p].base_addr
  <2>2. PICK t : /\ vma' = [vma EXCEPT ![p][at] = t]
                 /\ \/ t.bar # "UNIMEM_BAR" /\ UNCHANGED table
                    \/ \E page \in Nat :
                         /\ t = Fpga(page) /\ memory_allocations \in Entries
                         /\ virt_address' = [virt_address EXCEPT ![memory_allocations] = at]
                         /\ phys_address' = [phys_address EXCEPT ![memory_allocations] = page]
                         /\ memory_allocations' = memory_allocations + 1
    BY <1>4, <2>0, MmapRecords
  <2>9. InBounds
    BY <1>4, <2>0, MmapRecords
  <2> HIDE DEF at
  <2>3. /\ vma'[p][at] = t
        /\ \A q \in Procs, va \in GvaPages : ~(q = p /\ va = at) => vma'[q][va] = vma[q][va]
    BY <1>0, <2>1, <2>2 DEF at
  <2>4. CASE t.bar # "UNIMEM_BAR" /\ UNCHANGED table
    BY <2>3, <2>4, <2>9 DEF MappedRecorded, table
  <2>5. ASSUME NEW page \in Nat,
               /\ t = Fpga(page) /\ memory_allocations \in Entries
               /\ virt_address' = [virt_address EXCEPT ![memory_allocations] = at]
               /\ phys_address' = [phys_address EXCEPT ![memory_allocations] = page]
               /\ memory_allocations' = memory_allocations + 1
        PROVE  MappedRecorded'
    <3>1. memory_allocations \in Entries
      BY <2>5
    <3>2. /\ virt_address'[memory_allocations] = at /\ phys_address'[memory_allocations] = page
          /\ memory_allocations < memory_allocations'
      BY <1>0, <2>5, <3>1
    <3>3. \A i \in Entries : i < memory_allocations =>
            /\ i < memory_allocations'
            /\ virt_address'[i] = virt_address[i] /\ phys_address'[i] = phys_address[i]
      BY <1>0, <2>5 DEF Entries
    <3>4. ASSUME NEW q \in Procs, NEW va \in GvaPages, vma'[q][va].bar = "UNIMEM_BAR"
          PROVE  \E i \in Entries : /\ i < memory_allocations' /\ virt_address'[i] = va
                                    /\ vma'[q][va] = Fpga(phys_address'[i])
      <4>1. CASE q = p /\ va = at
        BY <2>3, <2>5, <3>1, <3>2, <4>1
      <4>2. CASE ~(q = p /\ va = at)
        <5>1. vma'[q][va] = vma[q][va]
          BY <2>3, <4>2
        <5>2. PICK i \in Entries : /\ i < memory_allocations /\ virt_address[i] = va
                                   /\ vma[q][va] = Fpga(phys_address[i])
          BY <2>9, <3>4, <5>1 DEF MappedRecorded
        <5> QED
          BY <3>3, <5>1, <5>2
      <4> QED
        BY <4>1, <4>2
    <3> QED
      BY <3>4 DEF MappedRecorded
  <2> QED
    BY <2>2, <2>4, <2>5
<1>5. ASSUME NEW p \in Procs, Close(p) \/ Munmap(p) \/ Exit(p)
      PROVE  MappedRecorded'
  \* Nobody else has the device, so that a release leaves nothing mapped.
  <2>1. /\ Held(p) /\ \A q \in Procs \ {p} : Held(q)' <=> Held(q)
        /\ ~Held(p)' \/ UNCHANGED table
    BY <1>5, CloseAndHeld
  <2>2. CASE ~Held(p)'
    <3>1. \A q \in Procs : ~Held(q)'
      BY <2>1, <2>2 DEF OneHolder
    <3>2. \A q \in Procs, va \in GvaPages : vma'[q][va] = NoVma
      BY <3>1 DEF Held, Mapped
    <3>3. NoVma.bar # "UNIMEM_BAR"
      BY DEF NoVma, Behind
    <3> QED
      BY <3>2, <3>3 DEF MappedRecorded
  <2>3. CASE UNCHANGED table
    BY <1>0, <1>1, <1>5, <2>3, ClosingUnmaps
  <2> QED
    BY <2>1, <2>2, <2>3
<1>6. CASE UNCHANGED vars
  BY <1>2, <1>6 DEF vars, apps
<1> QED
  BY <1>3, <1>4, <1>5, <1>6 DEF Next

LEMMA MappedRecordedAlways == Spec /\ []OneHolder => [](TypeInv /\ MappedRecorded)
<1>1. Init => MappedRecorded
  <2>1. Init => \A p \in Procs, va \in GvaPages : vma[p][va] = NoVma
    BY DEF Init
  <2>2. NoVma.bar # "UNIMEM_BAR"
    BY DEF NoVma, Behind
  <2> QED
    BY <2>1, <2>2 DEF MappedRecorded
<1>2. TypeInv /\ OneHolder /\ DataIsOwn /\ MappedRecorded /\ [Next]_vars => MappedRecorded'
  BY MappedRecordedStep
<1> QED
  BY <1>1, <1>2, DataIsOwnAlways, PTL DEF Spec

\* A set of numbers that is not empty has a least one.
LEMMA LeastNumber ==
  ASSUME NEW T \in SUBSET Nat, T # {}
  PROVE  \E x \in T : \A y \in T : x <= y
<1> DEFINE R == OpToRel(<, Nat)
<1>1. IsWellFoundedOn(R, Nat)
  BY NatLessThanWellFounded, Zenon
<1>2. ASSUME NEW x \in Nat, NEW y \in Nat, y < x PROVE <<y, x>> \in R
  BY <1>2, Zenon DEF OpToRel
<1> HIDE DEF R
<1>3. PICK x \in T : \A y \in T : ~ (<<y, x>> \in R)
  BY <1>1, WFMin
<1>4. \A y \in T : ~ (y < x)
  BY <1>2, <1>3
<1> QED
  BY <1>4

\* The search for an address whose page has an entry finds one, and with one
\* translation for each page it does not matter which.
LEMMA EntryTranslates ==
  ASSUME TypeInv, InBounds, TranslationUnique, NEW address, NEW i \in Entries,
         i < memory_allocations, virt_address[i] = PageOf(address)
  PROVE  Translatable(address) /\ Translation(address) = phys_address[i]
<1>1. i \in Matches(address) /\ Matches(address) \in SUBSET Nat
  BY DriverAssumption DEF Matches, Entries
<1>2. PICK k \in Matches(address) : \A l \in Matches(address) : k <= l
  BY <1>1, LeastNumber
<1>3. k \in Entries /\ IsFirstMatch(k, address)
  BY <1>2 DEF IsFirstMatch, Matches
<1> DEFINE first == CHOOSE l \in Entries : IsFirstMatch(l, address)
<1>4. first \in Entries /\ IsFirstMatch(first, address)
  BY <1>3
<1>5. first < memory_allocations /\ virt_address[first] = PageOf(address)
  BY <1>4 DEF IsFirstMatch, Matches
<1>6. phys_address[first] = phys_address[i]
  BY <1>4, <1>5 DEF TranslationUnique
<1> QED
  BY <1>3, <1>6 DEF Translatable, Translation

\* For FPGA memory or a Unimem-TO window that a lone process maps, the search of
\* translate_and_setup_reg finds an entry, and the first it finds has the page that
\* the CPU reaches, although munmap leaves entries behind and a page may have been
\* mapped many times, as long as the table is not overrun.  It is the entry that is
\* proved, not what ACC_SETUP makes of it, which drops bits 30 to 33.
THEOREM AloneIsTranslated ==
  ASSUME LayoutDistinct
  PROVE  Spec /\ []OneHolder => []MappedIsTranslatable
<1>1. TypeInv /\ MappedRecorded /\ TranslationUnique => MappedIsTranslatable
  <2> SUFFICES ASSUME TypeInv, InBounds, MappedRecorded, TranslationUnique,
                      NEW p \in Procs, NEW va \in GvaPages, vma[p][va].bar = "UNIMEM_BAR"
               PROVE  /\ Translatable(va * LowSpan)
                      /\ vma[p][va] = Fpga(Translation(va * LowSpan))
    BY DEF MappedIsTranslatable
  <2>1. PICK i \in Entries : /\ i < memory_allocations /\ virt_address[i] = va
                             /\ vma[p][va] = Fpga(phys_address[i])
    BY DEF MappedRecorded
  <2>2. PageOf(va * LowSpan) = va
    <3>1. va \in Nat
      BY GvaPagesAreNumbers
    <3> QED
      BY <3>1, DriverAssumption DEF PageOf
  <2> QED
    BY <2>1, <2>2, EntryTranslates
<1> QED
  BY <1>1, MappedRecordedAlways, OneTranslation, PTL

\* A step puts local FPGA DRAM behind a page only if it sets the flag.
LEMMA MapSetsFlag ==
  ASSUME TypeInv, NEW p \in Procs, Mmap(p), NEW q \in Procs, NEW va \in GvaPages,
         vma'[q][va] \in {Fpga(Ddr4_0), Fpga(Ddr4_2)}
  PROVE  fpgadram_allocation_flag' = 1
         \/ (vma[q][va] = vma'[q][va] /\ UNCHANGED fpgadram_allocation_flag)
<1>1. vma \in [Procs -> [GvaPages -> Targets \cup {NoVma}]]
  BY DEF TypeInv, TypeOK
<1>2. CASE MmapFpgaDram(p)
  BY <1>2 DEF MmapFpgaDram
<1>3. CASE ~MmapFpgaDram(p)
  <2>1. data \in Requests
    BY DEF TypeInv, DataPassed, Mmap, MmapHostDram, MmapFpgaDram, MmapAccelerator, MmapRemote,
           MmapNothing, MmapFails, Calls
  <2>2. data.node \in Nat /\ data.region \in Nat
    BY <2>1, RequestFacts
  <2> DEFINE window == WindowPage(data.node, data.region)
  <2>3. UNCHANGED fpgadram_allocation_flag
        /\ \E t \in {HostRam, Accel0, Hole, NoVma, Fpga(window)} : Map(p, t)
    BY <1>3 DEF Mmap, MmapHostDram, MmapAccelerator, MmapRemote, MmapNothing, MmapFails, flags
  <2>4. window # Ddr4_0 /\ window # Ddr4_2
    BY <2>2 DEF WindowPage, ToBase, Ddr4_0, Ddr4_2
  <2>5. {HostRam, Accel0, Hole, NoVma, Fpga(window)} \cap {Fpga(Ddr4_0), Fpga(Ddr4_2)} = {}
    BY <2>4 DEF HostRam, Accel0, Hole, NoVma, Fpga, Behind
  <2>6. vma'[q][va] = vma[q][va] \/ vma'[q][va] \in {HostRam, Accel0, Hole, NoVma, Fpga(window)}
    BY <1>1, <2>3 DEF Map
  <2> QED
    BY <2>3, <2>5, <2>6
<1> QED
  BY <1>2, <1>3

\* The flag says "whether the fpga memory region has been allocated"
\* (unimem_main2.c:36): for a process alone at the device it is set while local
\* FPGA DRAM is mapped, also after the process has unmapped some, after mmaps that
\* failed and after an overrun of the table, and whatever the layout of addresses.
\* Of two processes the release of one clears it under the other.
THEOREM AloneFlagCovers == Spec /\ []OneHolder => []FlagCoversMapping
<1>0. ASSUME NEW page PROVE NoVma # Fpga(page)
  BY DEF NoVma, Fpga, Behind
<1>1. Init => FlagCoversMapping
  BY <1>0 DEF Init, FlagCoversMapping
<1>2. TypeInv /\ OneHolder /\ FlagCoversMapping /\ [Next]_vars => FlagCoversMapping'
  <2> SUFFICES ASSUME TypeInv, OneHolder, FlagCoversMapping, [Next]_vars,
                      NEW q \in Procs, NEW va \in GvaPages,
                      vma'[q][va] \in {Fpga(Ddr4_0), Fpga(Ddr4_2)}
               PROVE  fpgadram_allocation_flag' = 1
    BY DEF FlagCoversMapping
  <2>1. CASE UNCHANGED <<vma, fpgadram_allocation_flag>>
    BY <2>1 DEF FlagCoversMapping
  <2>2. CASE UNCHANGED vars
    BY <2>1, <2>2 DEF vars, apps, flags
  <2>3. ASSUME NEW p \in Procs,
               Open(p) \/ PassStruct(p) \/ AccRegisterHelper(p) \/ AccSetup(p)
        PROVE  UNCHANGED <<vma, fpgadram_allocation_flag>>
    BY <2>3 DEF Open, PassStruct, AccRegisterHelper, AccSetup, CanSetUp, SetUp, apps, flags
  <2>4. ASSUME NEW p \in Procs, Mmap(p)
        PROVE  fpgadram_allocation_flag' = 1
    BY <2>4, MapSetsFlag DEF FlagCoversMapping
  <2>5. ASSUME NEW p \in Procs, Close(p) \/ Munmap(p) \/ Exit(p)
        PROVE  fpgadram_allocation_flag' = 1
    <3>1. /\ Held(p) /\ \A o \in Procs \ {p} : Held(o)' <=> Held(o)
          /\ ~Held(p)' \/ UNCHANGED flags
      BY <2>5, CloseAndHeld
    <3>2. Held(q)'
      BY <1>0 DEF Held, Mapped
    <3>3. Held(p)'
      BY <3>1, <3>2 DEF OneHolder
    <3>4. vma'[q][va] \in {vma[q][va], NoVma}
      BY <2>5, ClosingUnmaps DEF TypeInv, TypeOK
    <3> QED
      BY <1>0, <3>1, <3>3, <3>4 DEF FlagCoversMapping, flags
  <2> QED
    BY <2>1, <2>2, <2>3, <2>4, <2>5 DEF Next
<1> QED
  BY <1>1, <1>2, InitTypeInv, TypeInvStep, PTL DEF Spec

-----------------------------------------------------------------------------
(* What ACC_SETUP makes of a translation. *)

\* Of the registers of a call, the last that writes a word decides what it holds.
LEMMA LastWriterDecides ==
  ASSUME NEW a \in Accels, NEW regs \in SetupLists, NEW w \in Words,
         NEW i \in 1..Len(regs), IsLastWriter(i, a, regs, w)
  PROVE  AfterSetup(a, regs)[w] = Written(a, regs[i], w)
<1> DEFINE last == CHOOSE k \in 1..Len(regs) : IsLastWriter(k, a, regs, w)
<1>1. last \in 1..Len(regs) /\ IsLastWriter(last, a, regs, w)
  OBVIOUS
<1>2. AfterSetup(a, regs)[w] = Written(a, regs[last], w)
  BY DEF AfterSetup
<1> HIDE DEF last
<1>3. Len(regs) \in Nat
  BY DriverAssumption
<1>4. ~(i < last) /\ ~(last < i)
  BY <1>1, <1>3 DEF IsLastWriter
<1>5. last = i
  BY <1>1, <1>3, <1>4
<1> QED
  BY <1>2, <1>5

\* Cutting the low four bits off a page number, and splitting the address into
\* the two words of a register, loses nothing of a multiple of 16.
LEMMA AlignedPageKept ==
  ASSUME NEW page \in Nat, page % 16 = 0
  PROVE  (KeptPage(page) \div 4) * 4 = page
<1>1. page = 16 * (page \div 16)
  OBVIOUS
<1>2. KeptPage(page) = page
  BY <1>1 DEF KeptPage
<1>3. page \div 4 = 4 * (page \div 16)
  BY <1>1
<1> QED
  BY <1>1, <1>2, <1>3

\* An address register whose value lies in a page of the UNIMEM BAR is given that
\* page, if nothing the call writes later touches the register.
LEMMA AlignedReached ==
  ASSUME TypeInv, InBounds, MappedRecorded, TranslationUnique,
         NEW p \in Procs, NEW regs \in SetupLists, NEW i \in 1..Len(regs), NEW a \in Accels,
         PageOf(regs[i].data) \in GvaPages,
         vma[p][PageOf(regs[i].data)].bar = "UNIMEM_BAR",
         vma[p][PageOf(regs[i].data)].page % 16 = 0,
         IsAddressRegister(a, regs[i].offset),
         \A k \in i+1..Len(regs) :
           Writes(a, regs[k]) \cap {regs[i].offset, regs[i].offset + 1} = {}
  PROVE  AddressIn(AfterSetup(a, regs), regs[i].offset)
           = vma[p][PageOf(regs[i].data)].page * LowSpan + (regs[i].data % LowSpan)
<1> DEFINE reg == regs[i]
           va  == PageOf(regs[i].data)
           Register == [offset : Offsets, data : Nat]
<1>1. reg.offset \in Offsets /\ reg.offset \in Nat /\ reg.data \in Nat
  <2>1. regs \in Seq(Register) /\ Offsets \subseteq Nat
    BY DriverAssumption
  <2> HIDE DEF Register
  <2>2. reg \in Register
    BY <2>1
  <2> QED
    BY <2>1, <2>2 DEF Register
<1>2. PICK e \in Entries : /\ e < memory_allocations /\ virt_address[e] = va
                           /\ vma[p][va] = Fpga(phys_address[e])
  BY DEF MappedRecorded
<1> DEFINE page == phys_address[e]
<1>3. vma[p][va].page = page /\ page \in Nat
  BY <1>2 DEF Fpga, Behind, TypeInv, TypeOK
<1>4. Translatable(reg.data) /\ Translation(reg.data) = page
  BY <1>2, EntryTranslates
<1>5. Writes(a, reg) = {reg.offset, reg.offset + 1}
  BY <1>4 DEF Writes
<1>6. /\ IsLastWriter(i, a, regs, reg.offset) /\ reg.offset \in Words
      /\ IsLastWriter(i, a, regs, reg.offset + 1) /\ reg.offset + 1 \in Words
  BY <1>1, <1>5 DEF IsLastWriter, Words
<1>7. AfterSetup(a, regs)[reg.offset] = reg.data % LowSpan
  BY <1>6, LastWriterDecides DEF Written
<1>8. AfterSetup(a, regs)[reg.offset + 1] = KeptPage(page) \div 4
  <2>1. AfterSetup(a, regs)[reg.offset + 1] = Written(a, reg, reg.offset + 1)
    BY <1>6, LastWriterDecides
  <2>2. reg.offset + 1 # reg.offset
    BY <1>1
  <2> QED
    BY <1>4, <2>1, <2>2 DEF Written
<1>9. (KeptPage(page) \div 4) * 4 = page
  BY <1>3, AlignedPageKept
<1> QED
  BY <1>3, <1>7, <1>8, <1>9 DEF AddressIn

\* The pointer to the buffer of ACC_SETUP is good as long as the table is not
\* overrun.
BufferKept == accel_data = "buffer" => InBounds

LEMMA BufferKeptAlways == Spec => []BufferKept
<1>1. Init => BufferKept
  BY DriverAssumption DEF Init, BufferKept, InBounds
<1>2. TypeInv /\ BufferKept /\ [Next]_vars => BufferKept'
  <2> SUFFICES ASSUME TypeInv, BufferKept, [Next]_vars PROVE BufferKept'
    OBVIOUS
  <2>0. memory_allocations \in Nat /\ TableSize \in Nat
    BY DriverAssumption DEF TypeInv, TypeOK
  <2>1. CASE \E p \in Procs : Recording(p)
    <3>1. PICK page \in Nat : Record(page)
      BY <2>1 DEF Recording
    <3> QED
      BY <2>0, <3>1 DEF Record, RecordAt, StoreEntry, StoreBeyond, BufferKept, InBounds
  <2>2. CASE Releasing
    BY <2>0, <2>2 DEF Releasing, unimemfile_release, ReleaseTo, BufferKept, InBounds
  <2>3. CASE Keeping
    BY <2>3 DEF Keeping, table, BufferKept, InBounds
  <2> QED
    BY <2>1, <2>2, <2>3, StepOnTable
<1> QED
  BY <1>1, <1>2, InitTypeInv, TypeInvStep, PTL DEF Spec

\* An accelerator of a lone process reaches the memory that the process has
\* mapped, at the same offset, for every page whose low four bits are zero, which
\* translate_and_setup_reg keeps: whatever else the call writes before, and
\* however many entries the table has for the page.
THEOREM AloneAlignedReached ==
  ASSUME LayoutDistinct
  PROVE  Spec /\ []OneHolder => []AlignedTranslation
<1>1. TypeInv /\ BufferKept /\ MappedRecorded /\ TranslationUnique => AlignedTranslation
  <2> SUFFICES ASSUME TypeInv, BufferKept, MappedRecorded, TranslationUnique PROVE Translates(16)
    BY DEF AlignedTranslation
  <2> USE DEF Translates
  <2> TAKE p \in {q \in Procs : CanSetUp(q)}, regs \in SetupLists
  <2> TAKE i \in 1..Len(regs)
  <2>1. InBounds
    BY DEF CanSetUp, BufferKept
  <2> QED
    BY <2>1, AlignedReached, ZenonT(40)
<1> QED
  BY <1>1, BufferKeptAlways, MappedRecordedAlways, OneTranslation, PTL
=============================================================================

--------------------------- MODULE EvictingProofs ---------------------------
(***************************************************************************)
(* Theorems about the earlier drivers, for every number of processes,      *)
(* pages, buffers and slots: types, and what a process that has the device *)
(* to itself may rely on, whichever slots the bridge names.                *)
(***************************************************************************)
EXTENDS EvictingDriver, TLAPS

USE EvictingAssumption

-----------------------------------------------------------------------------
(* Lemmas about pages. *)

LEMMA RequestTypes ==
  /\ Requests \subseteq [node : Int, region : Nat]
  /\ NoRequest \in [node : Int, region : Nat]
PROOF BY DEF Requests, NoRequest, Request

\* A window page is one of its slot's own.
LEMMA WindowFacts ==
  ASSUME NEW s \in Slots
  PROVE  /\ Window(s) \in Targets /\ ThroughWindow(Window(s)) /\ SlotOf(Window(s)) = s
         /\ \A f \in Frames : Buffer(f) # Window(s)
<1>1. Window(s) = Behind("UNIMEM_BAR", ToBase + s)
  BY DEF Window, Fpga
<1>2. Window(s).page = ToBase + s /\ Window(s).bar = "UNIMEM_BAR"
  BY <1>1 DEF Behind
<1>3. SlotOf(Window(s)) = s
  BY <1>2 DEF SlotOf, ToBase, Slots
<1>4. \A f \in Frames : Buffer(f).bar = "dma"
  BY DEF Buffer, Behind
<1>5. QED BY <1>2, <1>3, <1>4 DEF ThroughWindow, Targets

LEMMA BufferFacts ==
  ASSUME NEW f \in Frames
  PROVE  /\ Buffer(f) \in Targets /\ ~ThroughWindow(Buffer(f))
         /\ \A g \in Frames : Buffer(g) = Buffer(f) => g = f
<1>1. \A s \in Slots : Buffer(f) # Window(s)
  BY WindowFacts
<1>2. \A g \in Frames : Buffer(g).page = g
  BY DEF Buffer, Behind
<1>3. QED BY <1>1, <1>2 DEF ThroughWindow, Targets

\* The other branches map neither a window page nor a buffer.
LEMMA PlainFacts ==
  ASSUME NEW r \in [node : Int, region : Nat]
  PROVE  /\ PlainTarget(r) \in Targets
         /\ ~ThroughWindow(PlainTarget(r))
         /\ \A f \in Frames : Buffer(f) # PlainTarget(r)
<1>1. PlainTarget(r) \in {Hole, HostRam, Fpga(Ddr4_0)}
                           \cup {Behind("AXILITE_BAR", k) : k \in 0..2}
  <2>1. CASE r.node # CURRENT_NODE
    BY <2>1 DEF PlainTarget
  <2>2. CASE r.node = CURRENT_NODE /\ r.region = 0
    BY <2>2 DEF PlainTarget
  <2>3. CASE r.node = CURRENT_NODE /\ r.region = 1
    BY <2>3 DEF PlainTarget
  <2>4. CASE r.node = CURRENT_NODE /\ r.region \in 2..4 /\ build = "backup"
    <3>1. PlainTarget(r) = Behind("AXILITE_BAR", r.region - 2)
      BY <2>4 DEF PlainTarget
    <3>2. r.region - 2 \in 0..2
      BY <2>4
    <3>3. QED BY <3>1, <3>2
  <2>5. CASE /\ r.node = CURRENT_NODE /\ r.region \notin {0, 1}
             /\ ~(r.region \in 2..4 /\ build = "backup")
    BY <2>5 DEF PlainTarget
  <2>6. QED BY <2>1, <2>2, <2>3, <2>4, <2>5
<1>2. PlainTarget(r).bar \in {"hole", "host", "AXILITE_BAR"} \/ PlainTarget(r) = Fpga(Ddr4_0)
  BY <1>1 DEF Hole, HostRam, Behind
<1>3. /\ Fpga(Ddr4_0).bar = "UNIMEM_BAR" /\ Fpga(Ddr4_0).page = 16
      /\ \A f \in Frames : Buffer(f).bar = "dma"
      /\ \A s \in Slots : Window(s).bar = "UNIMEM_BAR" /\ Window(s).page >= 96
  BY DEF Fpga, Behind, Ddr4_0, Buffer, Window, ToBase, Slots
<1>4. QED BY <1>1, <1>2, <1>3 DEF ThroughWindow, Targets

-----------------------------------------------------------------------------
(* Types. *)

\* What an mmap adds to a process's pages and, for one alone, to the history.
LEMMA MappingTypes ==
  ASSUME TypeOK, NEW p \in Procs, NEW at \in Targets, NEW kept \in SUBSET got
  PROVE  /\ Remap(p, at) => vma' \in [Procs -> SUBSET Targets]
         /\ Obtains(p, at, kept) => got' \subseteq [at : Targets, asked : Requests]
<1>1. Remap(p, at) => vma' \in [Procs -> SUBSET Targets]
  BY DEF TypeOK, Remap
<1>2. kept \subseteq [at : Targets, asked : Requests]
  BY DEF TypeOK
<1>3. asked # Nothing => [at |-> at, asked |-> asked] \in [at : Targets, asked : Requests]
  BY DEF TypeOK
<1>4. Obtains(p, at, kept) => got' \subseteq [at : Targets, asked : Requests]
  BY <1>2, <1>3 DEF Obtains
<1>5. QED BY <1>1, <1>4

LEMMA TypeStep == TypeOK /\ [Next]_vars => TypeOK'
<1> SUFFICES ASSUME TypeOK, [Next]_vars PROVE TypeOK'
  OBVIOUS
<1> USE DEF bridges, dma, history
<1>1. /\ data \in [node : Int, region : Nat]
      /\ got \in SUBSET got /\ {m \in got : ~ThroughWindow(m.at)} \in SUBSET got
  BY RequestTypes DEF TypeOK
<1>2. CASE Reload
  <2>1. 0 \in Slots
    BY DEF Slots
  <2>2. QED BY <1>2, <2>1 DEF Reload, TypeOK
<1>3. ASSUME NEW p \in Procs, Open(p) PROVE TypeOK'
  BY <1>3 DEF Open, TypeOK
<1>4. ASSUME NEW p \in Procs, Close(p) PROVE TypeOK'
  BY <1>4 DEF Close, ReleaseIfLast, Forget, TypeOK
<1>5. ASSUME NEW p \in Procs, NEW at, Munmap(p, at) PROVE TypeOK'
  BY <1>5 DEF Munmap, ReleaseIfLast, Forget, TypeOK
<1>6. ASSUME NEW p \in Procs, Exit(p) PROVE TypeOK'
  BY <1>6 DEF Exit, ReleaseIfLast, Forget, TypeOK
<1>7. ASSUME NEW p \in Procs, NEW letter, Ioctl(p, letter) PROVE TypeOK'
  BY <1>7 DEF Ioctl, TypeOK
<1>8. ASSUME NEW p \in Procs, MmapPlain(p) PROVE TypeOK'
  <2>1. PlainTarget(data) \in Targets
    BY <1>1, PlainFacts
  <2>2. /\ vma' \in [Procs -> SUBSET Targets]
        /\ got' \subseteq [at : Targets, asked : Requests]
    BY <1>1, <1>8, <2>1, MappingTypes DEF MmapPlain
  <2>3. QED BY <1>8, <2>2 DEF MmapPlain, TypeOK
<1>9. ASSUME NEW p \in Procs, MmapBuffer(p) PROVE TypeOK'
  <2>1. /\ vma' \in [Procs -> SUBSET Targets]
        /\ got' \subseteq [at : Targets, asked : Requests]
        /\ kbuff' \in Frames \cup {NULL} /\ allocated' \subseteq Frames
    <3>1. CASE kbuff' = NULL /\ UNCHANGED <<allocated, vma, got>>
      BY <3>1 DEF TypeOK
    <3>2. ASSUME NEW f \in Frames, kbuff' = f, allocated' = allocated \cup {f},
                 \/ Remap(p, Buffer(f)) /\ Obtains(p, Buffer(f), got)
                 \/ UNCHANGED <<vma, got>>
          PROVE  /\ vma' \in [Procs -> SUBSET Targets]
                 /\ got' \subseteq [at : Targets, asked : Requests]
                 /\ kbuff' \in Frames \cup {NULL} /\ allocated' \subseteq Frames
      <4>1. kbuff' \in Frames \cup {NULL} /\ allocated' \subseteq Frames
        BY <3>2 DEF TypeOK
      <4>2. /\ vma' \in [Procs -> SUBSET Targets]
            /\ got' \subseteq [at : Targets, asked : Requests]
        BY <1>1, <3>2, BufferFacts, MappingTypes DEF TypeOK
      <4>3. QED BY <4>1, <4>2
    <3>3. QED BY <1>9, <3>1, <3>2 DEF MmapBuffer
  <2>2. QED BY <1>9, <2>1 DEF MmapBuffer, TypeOK
<1>10. ASSUME NEW p \in Procs, MmapRemote(p) PROVE TypeOK'
  <2> DEFINE kept == {m \in got : ~ThroughWindow(m.at)}
  <2>1. PICK slot \in Slots :
          /\ Replace(slot, RemotePage(data.region))
          /\ \/ Remap(p, Window(slot)) /\ Obtains(p, Window(slot), kept)
             \/ got' = kept /\ UNCHANGED vma
    BY <1>10 DEF MmapRemote
  <2>2. RemotePage(data.region) \in {1184, 1185}
    BY <1>10 DEF MmapRemote, IsRemote, RemotePage
  <2>3. to' \in [Slots -> {0, InitPage, 1184, 1185}]
    BY <2>1, <2>2 DEF Replace, TypeOK
  <2>4. /\ vma' \in [Procs -> SUBSET Targets]
        /\ got' \subseteq [at : Targets, asked : Requests]
    BY <1>1, <2>1, WindowFacts, MappingTypes DEF TypeOK
  <2>5. QED BY <1>10, <2>3, <2>4 DEF MmapRemote, TypeOK
<1>11. CASE UNCHANGED vars
  BY <1>11 DEF vars, TypeOK, Targets, Window, Buffer
<1>12. QED
  BY <1>2, <1>3, <1>4, <1>5, <1>6, <1>7, <1>8, <1>9, <1>10, <1>11 DEF Next

LEMMA TypeInit == Init => TypeOK
PROOF BY DEF Init, TypeOK

\* Every call of every number of processes keeps the driver's globals, the bridge
\* tables and the mappings within their types, in each version.
THEOREM EvictingTypeCorrect == Spec => []TypeOK
PROOF BY TypeInit, TypeStep, PTL DEF Spec

-----------------------------------------------------------------------------
(* A process that has had the device to itself since it opened it. *)

\* Where one of its pages leads, and what it had asked when it mapped it.
Leads(m) ==
  /\ IsRemote(m.asked) =>
       ThroughWindow(m.at) /\ to[SlotOf(m.at)] = RemotePage(m.asked.region)
  /\ IsBuffer(m.asked) => \E f \in allocated : m.at = Buffer(f)
  /\ ~IsRemote(m.asked) /\ ~IsBuffer(m.asked) => m.at = PlainTarget(m.asked)

\* Nobody else can have written 'data', freed a buffer or ended its session: it is
\* the only one that holds the device.
AloneInv ==
  /\ \A p \in alone : Held(p) /\ \A q \in Procs \ {p} : ~Held(q)
  /\ alone = {} => asked = Nothing /\ got = {}
  /\ asked # Nothing => data = asked
  /\ MappedBufferAllocated
  /\ \A p \in alone : \A m \in got : m.at \in vma[p]
  /\ \A m \in got : Leads(m)

LEMMA AloneInit == Init => AloneInv
PROOF BY DEF Init, AloneInv, MappedBufferAllocated

\* A page goes on leading where it did while no buffer is returned and, if it is a
\* window page, no entry replaced.
LEMMA LeadsOn ==
  ASSUME NEW m, Leads(m), build' = build, allocated \subseteq allocated',
         to' = to \/ ~ThroughWindow(m.at)
  PROVE  Leads(m)'
PROOF BY DEF Leads, IsRemote, IsBuffer, PlainTarget, ThroughWindow, SlotOf

\* Once the device is nobody's alone there is nothing left to prove.
LEMMA NobodyAlone == alone' = {} /\ asked' = Nothing /\ got' = {} => AloneInv'
PROOF BY DEF AloneInv, MappedBufferAllocated

\* A process that holds the device is the one alone, if there is one.
LEMMA OnlyHolder ==
  ASSUME TypeOK, AloneInv, NEW p \in Procs, Held(p)
  PROVE  alone = {} \/ alone = {p}
PROOF BY DEF TypeOK, AloneInv

\* A step that touches nothing of all this but who else holds a reference.
LEMMA Undisturbed ==
  ASSUME AloneInv, UNCHANGED <<build, to, allocated, data, vma, alone, asked, got>>,
         \A q \in Procs : Held(q)' <=> Held(q), alone \subseteq Procs
  PROVE  AloneInv'
<1>1. \A q \in alone' : Held(q)' /\ \A o \in Procs \ {q} : ~Held(o)'
  BY DEF AloneInv
<1>2. MappedBufferAllocated'
  <2>1. MappedBufferAllocated
    BY DEF AloneInv
  <2>2. QED BY <2>1 DEF MappedBufferAllocated, Buffer
<1>3. \A m \in got' : Leads(m)'
  BY LeadsOn DEF AloneInv
<1>4. \A q \in alone' : \A m \in got' : m.at \in vma'[q]
  BY DEF AloneInv
<1>5. (alone' = {} => asked' = Nothing /\ got' = {}) /\ (asked' # Nothing => data' = asked')
  BY DEF AloneInv
<1>6. QED BY <1>1, <1>2, <1>3, <1>4, <1>5 DEF AloneInv

\* What a call that adds a page has to show: the page leads where 'data' says.
LEMMA Mapped ==
  ASSUME TypeOK, AloneInv, NEW p \in Procs, Held(p), NEW at, NEW kept \in SUBSET got,
         UNCHANGED <<build, data, fd, alone, asked>>,
         allocated \subseteq allocated',
         \A f \in Frames : at = Buffer(f) => f \in allocated',
         \A m \in kept : to' = to \/ ~ThroughWindow(m.at),
         ASSUME NEW m, m.at = at, m.asked = data PROVE Leads(m)',
         \/ Remap(p, at) /\ Obtains(p, at, kept)
         \/ vma' = vma /\ got' = kept
  PROVE  AloneInv'
<1>1. /\ alone = {} \/ alone = {p}
      /\ vma \in [Procs -> SUBSET Targets]
  BY OnlyHolder DEF TypeOK
<1>2. \A q \in Procs \ {p} : vma'[q] = vma[q]
  BY <1>1 DEF Remap
<1>3. vma[p] \subseteq vma'[p] /\ vma'[p] \subseteq vma[p] \cup {at}
  BY <1>1 DEF Remap
<1>4. \A q \in Procs \ {p} : Held(q)' <=> Held(q)
  BY <1>2 DEF Held
<1>5. Held(p)'
  BY <1>3 DEF Held
<1>6. \A q \in alone' : Held(q)' /\ \A o \in Procs \ {q} : ~Held(o)'
  BY <1>1, <1>4, <1>5 DEF AloneInv
<1>7. alone' = {} => asked' = Nothing /\ got' = {}
  <2>1. alone = {} => kept = {}
    BY DEF AloneInv
  <2>2. alone = {} => got' = kept
    BY DEF Obtains
  <2>3. QED BY <2>1, <2>2 DEF AloneInv
<1>8. MappedBufferAllocated'
  <2>1. SUFFICES ASSUME p \in alone, NEW f \in Frames, Buffer(f) \in vma'[p]
                 PROVE  f \in allocated'
    BY <1>1 DEF MappedBufferAllocated, Buffer
  <2>2. Buffer(f) \in vma[p] => f \in allocated
    BY <2>1 DEF AloneInv, MappedBufferAllocated
  <2>3. QED BY <2>1, <2>2, <1>3
<1>9. \A m \in got' : /\ alone' = {p} => m.at \in vma'[p]
                      /\ Leads(m)'
  <2>1. TAKE m \in got'
  <2>2. CASE m \in kept
    <3>1. Leads(m) /\ (alone = {p} => m.at \in vma[p])
      BY <2>2 DEF AloneInv
    <3>2. QED BY <2>2, <3>1, <1>3, LeadsOn
  <2>3. CASE m \notin kept
    <3>1. /\ Remap(p, at) /\ asked # Nothing
          /\ m = [at |-> at, asked |-> asked]
      BY <2>3 DEF Obtains
    <3>2. m.at = at /\ m.asked = data
      BY <3>1 DEF AloneInv
    <3>3. at \in vma'[p]
      BY <1>1, <3>1 DEF Remap
    <3>4. QED BY <3>2, <3>3
  <2>4. QED BY <2>2, <2>3
<1>10. \A q \in alone' : \A m \in got' : m.at \in vma'[q]
  BY <1>1, <1>9
<1>11. QED BY <1>6, <1>7, <1>8, <1>9, <1>10 DEF AloneInv

LEMMA AloneStep == TypeOK /\ AloneInv /\ [Next]_vars => AloneInv'
<1> SUFFICES ASSUME TypeOK, AloneInv, [Next]_vars PROVE AloneInv'
  OBVIOUS
<1> USE DEF bridges, dma, history
<1>1. data \in [node : Int, region : Nat]
  BY RequestTypes DEF TypeOK
<1>2. CASE Reload
  <2>1. alone = {}
    BY <1>2 DEF Reload, AloneInv, TypeOK
  <2>2. QED BY <1>2, <2>1, NobodyAlone DEF Reload, AloneInv
\* A process that opens a free device is alone, and has mapped and asked nothing.
<1>3. ASSUME NEW p \in Procs, Open(p) PROVE AloneInv'
  <2>1. /\ asked' = Nothing /\ got' = {} /\ vma' = vma /\ vma[p] = {}
        /\ fd' = [fd EXCEPT ![p] = TRUE]
        /\ alone' = IF \A q \in Procs : ~Held(q) THEN {p} ELSE {}
    BY <1>3 DEF Open, Held
  <2>2. CASE \A q \in Procs : ~Held(q)
    <3>1. alone' = {p}
      BY <2>1, <2>2
    <3>2. Held(p)' /\ \A q \in Procs \ {p} : ~Held(q)'
      BY <2>1, <2>2 DEF Held, TypeOK
    <3>3. QED BY <2>1, <3>1, <3>2 DEF AloneInv, MappedBufferAllocated
  <2>3. CASE ~(\A q \in Procs : ~Held(q))
    BY <2>1, <2>3, NobodyAlone
  <2>4. QED BY <2>2, <2>3
<1>4. ASSUME NEW p \in Procs, Close(p) PROVE AloneInv'
  <2>1. CASE vma[p] = {}
    BY <1>4, <2>1, NobodyAlone DEF Close, ReleaseIfLast, Forget
  <2>2. CASE vma[p] # {}
    <3>1. /\ fd' = [fd EXCEPT ![p] = FALSE]
          /\ UNCHANGED <<build, data, to, allocated, vma, alone, asked, got>>
      BY <1>4, <2>2 DEF Close, ReleaseIfLast, Forget
    <3>2. \A q \in Procs : Held(q)' <=> Held(q)
      BY <1>4, <2>2, <3>1 DEF Held, Close, TypeOK
    <3>3. QED BY <1>4, <3>1, <3>2, Undisturbed DEF Close, ReleaseIfLast, TypeOK
  <2>3. QED BY <2>1, <2>2
<1>5. ASSUME NEW p \in Procs, NEW at \in vma[p], Munmap(p, at) PROVE AloneInv'
  <2> DEFINE last == ~fd[p] /\ vma[p] = {at}
  <2>1. /\ vma' = [vma EXCEPT ![p] = vma[p] \ {at}] /\ fd' = fd /\ Held(p)
        /\ got' = IF p \in alone THEN {m \in got : m.at # at} ELSE got
        /\ ReleaseIfLast(last)
    BY <1>5 DEF Munmap, Held
  <2>2. alone = {} \/ alone = {p}
    BY <2>1, OnlyHolder
  <2>3. CASE last
    <3>1. alone' = {} /\ asked' = Nothing
      BY <2>1, <2>3 DEF ReleaseIfLast, Forget
    <3>2. got' = {}
      <4>1. CASE alone = {p}
        BY <2>1, <2>3, <4>1 DEF AloneInv
      <4>2. CASE alone = {}
        BY <2>1, <4>2 DEF AloneInv
      <4>3. QED BY <2>2, <4>1, <4>2
    <3>3. QED BY <3>1, <3>2, NobodyAlone
  <2>4. CASE ~last
    <3>1. UNCHANGED <<build, data, to, allocated, alone, asked>> /\ got' \subseteq got
      BY <2>1, <2>4 DEF ReleaseIfLast, Forget
    <3>2. \A q \in Procs \ {p} : vma'[q] = vma[q] /\ (Held(q)' <=> Held(q))
      BY <2>1 DEF Held, TypeOK
    <3>3. vma'[p] = vma[p] \ {at} /\ Held(p)'
      BY <1>5, <2>1, <2>4 DEF Held, TypeOK
    <3>4. \A q \in alone' : Held(q)' /\ \A o \in Procs \ {q} : ~Held(o)'
      BY <2>2, <3>1, <3>2, <3>3 DEF AloneInv
    <3>5. MappedBufferAllocated'
      BY <2>2, <3>1, <3>3 DEF AloneInv, MappedBufferAllocated, Buffer
    <3>6. \A m \in got' : Leads(m)'
      BY <3>1, LeadsOn DEF AloneInv
    <3>7. \A q \in alone' : \A m \in got' : m.at \in vma'[q]
      BY <2>1, <2>2, <3>1, <3>3 DEF AloneInv
    <3>8. alone' = {} => asked' = Nothing /\ got' = {}
      BY <3>1 DEF AloneInv
    <3>9. asked' # Nothing => data' = asked'
      BY <3>1 DEF AloneInv
    <3>10. QED BY <3>4, <3>5, <3>6, <3>7, <3>8, <3>9 DEF AloneInv
  <2>5. QED BY <2>3, <2>4
<1>6. ASSUME NEW p \in Procs, Exit(p) PROVE AloneInv'
  BY <1>6, NobodyAlone DEF Exit, ReleaseIfLast, Forget
\* Every call that writes 'data' counts as asking.
<1>7. ASSUME NEW p \in Procs, NEW letter, Ioctl(p, letter) PROVE AloneInv'
  <2>1. /\ Held(p) /\ UNCHANGED <<build, to, allocated, fd, vma, alone, got>>
        /\ \/ UNCHANGED <<data, asked>>
           \/ \E r \in Requests : data' = r /\ asked' = IF p \in alone THEN r ELSE asked
    BY <1>7 DEF Ioctl, Held
  <2>2. alone = {} \/ alone = {p}
    BY <2>1, OnlyHolder
  <2>3. asked' # Nothing => data' = asked'
    BY <2>1, <2>2 DEF AloneInv
  <2>4. alone' = {} => asked' = Nothing /\ got' = {}
    BY <2>1 DEF AloneInv
  <2>5. \A q \in Procs : Held(q)' <=> Held(q)
    BY <2>1 DEF Held
  <2>6. \A m \in got : Leads(m)'
    BY <2>1, LeadsOn DEF AloneInv
  <2>7. QED BY <2>1, <2>3, <2>4, <2>5, <2>6 DEF AloneInv, MappedBufferAllocated, Buffer
<1>8. ASSUME NEW p \in Procs, MmapPlain(p) PROVE AloneInv'
  <2> DEFINE at == PlainTarget(data)
  <2>1. /\ Held(p) /\ ~IsBuffer(data) /\ ~IsRemote(data)
        /\ UNCHANGED <<build, data, to, allocated, fd, alone, asked>>
        /\ Remap(p, at) /\ Obtains(p, at, got)
    BY <1>8 DEF MmapPlain, Calls, Held
  <2>2. \A f \in Frames : at # Buffer(f)
    BY <1>1, PlainFacts
  <2>3. ASSUME NEW m, m.at = at, m.asked = data PROVE Leads(m)'
    BY <2>1, <2>3 DEF Leads, IsRemote, IsBuffer, PlainTarget
  <2>4. QED BY <2>1, <2>2, <2>3, Mapped
<1>9. ASSUME NEW p \in Procs, MmapBuffer(p) PROVE AloneInv'
  <2>1. /\ Held(p) /\ IsBuffer(data) /\ ~IsRemote(data)
        /\ UNCHANGED <<build, data, to, fd, alone, asked>>
    BY <1>9 DEF MmapBuffer, Calls, Held, IsBuffer, IsRemote
  <2>2. CASE UNCHANGED <<allocated, vma, got>>
    <3>1. \A q \in Procs : Held(q)' <=> Held(q)
      BY <2>1, <2>2 DEF Held
    <3>2. QED BY <2>1, <2>2, <3>1, Undisturbed DEF TypeOK
  <2>3. ASSUME NEW f \in Frames, allocated' = allocated \cup {f},
               \/ Remap(p, Buffer(f)) /\ Obtains(p, Buffer(f), got)
               \/ UNCHANGED <<vma, got>>
        PROVE  AloneInv'
    <3>1. \A g \in Frames : Buffer(f) = Buffer(g) => g \in allocated'
      BY <2>3, BufferFacts
    <3>2. ASSUME NEW m, m.at = Buffer(f), m.asked = data PROVE Leads(m)'
      BY <2>1, <2>3, <3>2 DEF Leads, IsRemote, IsBuffer, Buffer
    <3>3. QED BY <2>1, <2>3, <3>1, <3>2, Mapped
  <2>4. QED BY <1>9, <2>2, <2>3 DEF MmapBuffer
<1>10. ASSUME NEW p \in Procs, MmapRemote(p) PROVE AloneInv'
  <2> DEFINE kept == {m \in got : ~ThroughWindow(m.at)}
  <2>1. /\ Held(p) /\ IsRemote(data) /\ ~IsBuffer(data)
        /\ UNCHANGED <<build, data, allocated, fd, alone, asked>>
    BY <1>10 DEF MmapRemote, Calls, Held, IsBuffer, IsRemote
  <2>2. PICK slot \in Slots :
          /\ Replace(slot, RemotePage(data.region))
          /\ \/ Remap(p, Window(slot)) /\ Obtains(p, Window(slot), kept)
             \/ got' = kept /\ UNCHANGED vma
    BY <1>10 DEF MmapRemote
  <2>3. to'[slot] = RemotePage(data.region)
    BY <2>2 DEF Replace, TypeOK
  <2>4. /\ ThroughWindow(Window(slot)) /\ SlotOf(Window(slot)) = slot
        /\ \A f \in Frames : Buffer(f) # Window(slot)
    BY WindowFacts
  <2>5. ASSUME NEW m, m.at = Window(slot), m.asked = data PROVE Leads(m)'
    <3>1. ThroughWindow(m.at) /\ to'[SlotOf(m.at)] = RemotePage(m.asked.region)
      BY <2>3, <2>4, <2>5
    <3>2. QED BY <2>1, <2>5, <3>1 DEF Leads, IsRemote, IsBuffer, ThroughWindow, SlotOf
  <2>6. kept \in SUBSET got /\ \A m \in kept : ~ThroughWindow(m.at)
    OBVIOUS
  <2>7. QED BY <2>1, <2>2, <2>4, <2>5, <2>6, Mapped
<1>11. CASE UNCHANGED vars
  <2>1. \A q \in Procs : Held(q)' <=> Held(q)
    BY <1>11 DEF vars, Held
  <2>2. QED BY <1>11, <2>1, Undisturbed DEF vars, TypeOK
<1>12. QED
  BY <1>2, <1>3, <1>4, <1>5, <1>6, <1>7, <1>8, <1>9, <1>10, <1>11 DEF Next

LEMMA AloneAlways == Spec => [](TypeOK /\ AloneInv)
PROOF BY TypeInit, TypeStep, AloneInit, AloneStep, PTL DEF Spec

\* No buffer that a process alone at the device maps has been returned to the
\* kernel, whatever kbuff pointed at in earlier sessions and however often its own
\* mmaps have moved it on.
THEOREM BufferKept == Spec => []MappedBufferAllocated
<1>1. AloneInv => MappedBufferAllocated
  BY DEF AloneInv
<1>2. QED BY <1>1, AloneAlways, PTL

\* Every page that a process alone at the device maps leads where it had asked by
\* the last call that copied into 'data' before the mmap, in each version of the
\* driver and whichever slots the bridge names; window pages until the next mmap
\* of a remote region.
THEOREM AloneReachesRequest == Spec => []LeadsToAsked
<1>1. AloneInv => LeadsToAsked
  BY DEF AloneInv, Leads, LeadsToAsked
<1>2. QED BY <1>1, AloneAlways, PTL
=============================================================================

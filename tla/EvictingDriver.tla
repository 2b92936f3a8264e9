--------------------------- MODULE EvictingDriver ---------------------------
(***************************************************************************)
(* The earlier drivers, in the three versions the repository keeps.  They  *)
(* join two nodes: a remote mmap asks the Unimem-TO bridge for a slot,     *)
(* replaces the entry in it, and maps the page of that slot, whoever still *)
(* uses it; two versions hand out a DMA buffer as local region 2, and      *)
(* every release frees the one kbuff points at.  A system call is one      *)
(* step, as in UnimemDriver.                                               *)
(***************************************************************************)
EXTENDS UnimemMap, FiniteSets

CONSTANTS
  Procs,         \* processes
  MaxPages,      \* pages that a process has mapped at a time, an exploration bound
  Builds,        \* the versions looked at
  Wanted,        \* pairs <<node, region>> they ask for
  CURRENT_NODE,  \* this node, as find_current_node gave it
  SlotCount,     \* slots of the Unimem-TO table, 16
  Frames         \* buffers of 1 GB that dma_alloc_coherent may return

ASSUME EvictingAssumption ==
  /\ Builds \subseteq {"working", "main2_06_10", "backup"}
  /\ Wanted \subseteq Nat \X Nat /\ CURRENT_NODE \in Int
  /\ SlotCount \in Nat \ {0} /\ Frames \subseteq Nat \ {0} /\ MaxPages \in Nat

VARIABLES
  build,             \* the version that is installed
  data,              \* the request that was last copied in
  to, from,          \* the page presented in each slot of the two bridges
  kbuff, allocated,  \* the DMA buffer the driver knows, those the kernel gave it
  fd, vma,           \* of each process: its descriptor and the pages it maps
  alone,             \* history: the process that has had the device to itself since
                     \*   it opened it, a set of at most one
  asked,             \* history: what its last call that fills 'data' passed
  got                \* history: pages its mmaps gave it and what was asked at the
                     \*   time, window pages until its next mmap of a remote region

bridges == <<to, from>>
dma     == <<kbuff, allocated>>
history == <<alone, asked, got>>
vars    == <<build, data, bridges, dma, fd, vma, history>>

-----------------------------------------------------------------------------
Slots == 0 .. SlotCount - 1
NULL  == 0

Request(n, r) == [node |-> n, region |-> r]
Requests  == {Request(w[1], w[2]) : w \in Wanted}
NoRequest == Request(0, 0)
Nothing   == Request(-1, 0)

InitPage == 1344  \* 0x80201500

\* Slip: the address field of data3 taken for a page.
RemotePageOfField(r) == 4 * (1184 + r)

\* The page in which the other node presents region r: 0x80201280, 0x80201284.
RemotePage(r) == 1184 + r

Window(slot)  == Fpga(ToBase + slot)
Buffer(frame) == Behind("dma", frame)

\* What the branches that touch neither bridge slot nor buffer map.
PlainTarget(request) ==
  IF request.node # CURRENT_NODE THEN Hole
  ELSE CASE request.region = 0 -> HostRam
         [] request.region = 1 -> Fpga(Ddr4_0)
         [] request.region \in 2..4 /\ build = "backup" ->
              Behind("AXILITE_BAR", request.region - 2)
         [] OTHER -> Hole

IsBuffer(request) ==
  request.node = CURRENT_NODE /\ request.region = 2 /\ build # "backup"
IsRemote(request) == request.node # CURRENT_NODE /\ request.region \in {0, 1}

Held(p) == fd[p] \/ vma[p] # {}
ThroughWindow(at) == \E s \in Slots : at = Window(s)
SlotOf(at) == at.page - ToBase

\* All that a process may map.
Targets == {Hole, HostRam, Fpga(Ddr4_0)} \cup {Window(s) : s \in Slots}
             \cup {Buffer(f) : f \in Frames} \cup {Behind("AXILITE_BAR", k) : k \in 0..2}

TypeOK ==
  /\ build \in Builds
  /\ data \in Requests \cup {NoRequest}
  /\ to \in [Slots -> {0, InitPage, 1184, 1185}]
  /\ from \in [0..1 -> {0, HostPageSeenByFpga, Ddr4_0}]
  /\ kbuff \in Frames \cup {NULL} /\ allocated \subseteq Frames
  /\ fd \in [Procs -> BOOLEAN]
  /\ vma \in [Procs -> SUBSET Targets]
  /\ alone \subseteq Procs
  /\ asked \in Requests \cup {Nothing}
  /\ got \subseteq [at : Targets, asked : Requests]

-----------------------------------------------------------------------------
(* unimem_init and unimem_exit. *)

Init ==
  /\ build \in Builds
  /\ data = NoRequest
  /\ to = [s \in Slots |-> IF s = 0 THEN InitPage ELSE 0]
  /\ from = [s \in 0..1 |-> IF s = 0 THEN HostPageSeenByFpga ELSE 0]
  /\ kbuff = NULL /\ allocated = {}
  /\ fd = [p \in Procs |-> FALSE]
  /\ vma = [p \in Procs |-> {}]
  /\ alone = {} /\ asked = Nothing /\ got = {}

\* The module is removed and loaded again; the kernel refuses while it is used.
\* The globals start anew, the bridges keep what init does not store, and the
\* kernel the buffers it gave away.
Reload ==
  /\ \A p \in Procs : ~Held(p)
  /\ data' = NoRequest /\ kbuff' = NULL
  /\ to' = [to EXCEPT ![0] = InitPage] /\ from' = [from EXCEPT ![0] = HostPageSeenByFpga]
  /\ UNCHANGED <<build, allocated, fd, vma, history>>

-----------------------------------------------------------------------------
Open(p) ==
  /\ ~Held(p)
  /\ fd' = [fd EXCEPT ![p] = TRUE]
  /\ alone' = IF \A q \in Procs : ~Held(q) THEN {p} ELSE {}
  /\ asked' = Nothing /\ got' = {}
  /\ UNCHANGED <<build, data, bridges, dma, vma>>

\* The letter of PASS_STRUCT; of the other calls, ACC_SETUP ("b") of the last
\* version copies its argument into 'data' as well.
PASS_STRUCT(b) == IF b = "main2_06_10" THEN "a" ELSE "d"

Copies(b) == {PASS_STRUCT(b)} \cup (IF b = "backup" THEN {"b"} ELSE {})

\* An ioctl that copies nothing into 'data' leaves all of this as it is:
\* ACC_REGISTER_HELPER fills a vector that is printed and never read, ACC_POLL
\* returns -1, an unknown number -ENOTTY.
Ioctl(p, letter) ==
  /\ fd[p]
  /\ IF letter \in Copies(build)
     THEN \E r \in Requests : data' = r /\ asked' = IF p \in alone THEN r ELSE asked
     ELSE UNCHANGED <<data, asked>>
  /\ UNCHANGED <<build, bridges, dma, fd, vma, alone, got>>

-----------------------------------------------------------------------------
(* mmap.  Where the remap may fail, the call returns -EAGAIN after all that  *)
(* comes before it: nothing in a plain branch, a buffer or an entry of the   *)
(* bridge in the others.                                                     *)

Calls(p) == fd[p] /\ Cardinality(vma[p]) < MaxPages

\* The page is mapped, beside those that the process has.
Remap(p, at) == vma' = [vma EXCEPT ![p] = @ \cup {at}]

\* History: of the pages in 'kept' and the new one.
Obtains(p, at, kept) ==
  got' = IF p \in alone /\ asked # Nothing
         THEN kept \cup {[at |-> at, asked |-> asked]} ELSE kept

MmapPlain(p) ==
  /\ Calls(p) /\ ~IsBuffer(data) /\ ~IsRemote(data)
  /\ Remap(p, PlainTarget(data)) /\ Obtains(p, PlainTarget(data), got)
  /\ from' = IF PlainTarget(data) = Fpga(Ddr4_0) THEN [from EXCEPT ![1] = Ddr4_0] ELSE from
  /\ UNCHANGED <<build, data, to, dma, fd, alone, asked>>

\* dma_alloc_coherent gives a free buffer or NULL (-ENOMEM); kbuff forgets the
\* buffer it pointed at.
MmapBuffer(p) ==
  /\ Calls(p) /\ IsBuffer(data)
  /\ \/ \E f \in Frames \ allocated :
          /\ kbuff' = f /\ allocated' = allocated \cup {f}
          /\ \/ Remap(p, Buffer(f)) /\ Obtains(p, Buffer(f), got)
             \/ UNCHANGED <<vma, got>>
     \/ kbuff' = NULL /\ UNCHANGED <<allocated, vma, got>>
  /\ UNCHANGED <<build, data, bridges, fd, alone, asked>>

\* Slip: the candidate dropped on the way, so that slot 0 is replaced.
ReplaceSlot0(slot, page) == to' = [to EXCEPT ![0] = page]

\* unimemTo_replace, once the bridge has named the slot.
Replace(slot, page) == to' = [to EXCEPT ![slot] = page]

\* The bridge names any slot: it is not told which are in use.
MmapRemote(p) ==
  /\ Calls(p) /\ IsRemote(data)
  /\ \E slot \in Slots :
       LET kept == {m \in got : ~ThroughWindow(m.at)} IN
         /\ Replace(slot, RemotePage(data.region))
         /\ \/ Remap(p, Window(slot)) /\ Obtains(p, Window(slot), kept)
            \/ got' = kept /\ UNCHANGED vma
  /\ UNCHANGED <<build, data, from, dma, fd, alone, asked>>

-----------------------------------------------------------------------------
(* The end of a session: dma_free_coherent of kbuff, which keeps its value. *)

\* History: the session of a process alone is over.
Forget(last) ==
  IF last THEN alone' = {} /\ asked' = Nothing ELSE UNCHANGED <<alone, asked>>

\* Slip: the buffer freed when a descriptor is closed, mapped or not.
ReleaseAlways(last) ==
  /\ allocated' = allocated \ {kbuff} /\ Forget(last)
  /\ UNCHANGED <<build, data, bridges, kbuff>>

ReleaseIfLast(last) ==
  /\ allocated' = IF last THEN allocated \ {kbuff} ELSE allocated
  /\ Forget(last)
  /\ UNCHANGED <<build, data, bridges, kbuff>>

Close(p) ==
  /\ fd[p]
  /\ fd' = [fd EXCEPT ![p] = FALSE]
  /\ ReleaseIfLast(vma[p] = {})
  /\ got' = IF vma[p] = {} THEN {} ELSE got
  /\ UNCHANGED vma

\* munmap wherever the page is mapped; a mapping keeps the file open.
Munmap(p, at) ==
  /\ at \in vma[p]
  /\ vma' = [vma EXCEPT ![p] = @ \ {at}]
  /\ got' = IF p \in alone THEN {m \in got : m.at # at} ELSE got
  /\ ReleaseIfLast(~fd[p] /\ vma[p] = {at})
  /\ UNCHANGED fd

Exit(p) ==
  /\ Held(p)
  /\ fd' = [fd EXCEPT ![p] = FALSE] /\ vma' = [vma EXCEPT ![p] = {}]
  /\ got' = {}
  /\ ReleaseIfLast(TRUE)

Next ==
  \/ Reload
  \/ \E p \in Procs :
       \/ Open(p) \/ Close(p) \/ Exit(p)
       \/ MmapPlain(p) \/ MmapBuffer(p) \/ MmapRemote(p)
       \/ \E at \in vma[p] : Munmap(p, at)
       \/ \E letter \in {"a", "b", "c", "d"} : Ioctl(p, letter)

Spec == Init /\ [][Next]_vars

-----------------------------------------------------------------------------
(* Properties. *)

\* Every buffer that a process maps is the kernel's gift to the driver and not yet
\* returned, if nobody else has had the device since the process opened it: a
\* stale kbuff of an earlier session is never freed under it, nor the buffer of
\* one mmap when another has moved kbuff on.
MappedBufferAllocated ==
  \A p \in alone : \A f \in Frames : Buffer(f) \in vma[p] => f \in allocated

\* Every page that such a process maps leads where it had asked when it mapped it,
\* by its last call that copied into 'data': PASS_STRUCT, and the ACC_SETUP of the
\* backup version.  No call, mmap, failure or munmap since has changed that, but
\* that an mmap of a remote region may have taken the slot of any window page.
LeadsToAsked ==
  \A m \in got :
    CASE IsRemote(m.asked) ->
           ThroughWindow(m.at) /\ to[SlotOf(m.at)] = RemotePage(m.asked.region)
      [] IsBuffer(m.asked) -> \E f \in allocated : m.at = Buffer(f)
      [] OTHER -> m.at = PlainTarget(m.asked)
=============================================================================

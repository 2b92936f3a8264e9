---------------------------- MODULE ClusterProofs ----------------------------
(***************************************************************************)
(* Theorems about the cluster, for every set of nodes, names and regions:  *)
(* what the tables of each node hold at each stage of its driver, and that *)
(* the nodes together are one global memory.  A mmap of local region 3     *)
(* puts another page into slot 1 of Unimem-FROM: accesses to region 1 from *)
(* other nodes are lost from then on, but none goes astray.                *)
(***************************************************************************)
EXTENDS UnimemCluster, TLAPS

\* From the enabling of its bridges on, a node takes itself to be itself or nobody.
Identified == \A n \in Nodes : stage[n] # "down" => CURRENT_NODE[n] \in {n, -1}

\* What the bridges of node n hold: a slot of Unimem-FROM has never anything but
\* the page of its region, or in slot 1 that of region 3, and a node that creates
\* its device has filled both.
Loaded(n) ==
  /\ stage[n] # "down" => enabled[n]
  /\ stage[n] \in {"to", "from", "ready"} => to[n] = UnimemToTable
  /\ from[n][0] \in {0, HostPageSeenByFpga} /\ from[n][1] \in {0, Ddr4_0, Region3FromPage}
  /\ stage[n] \in {"from", "ready"} =>
       from[n][0] = HostPageSeenByFpga /\ from[n][1] \in {Ddr4_0, Region3FromPage}

\* What node n's application has mapped at the address of region r of node m is
\* that region, as the node knows it now: it has not changed its name since.
MappedAs(n, m, r) ==
  vma[n][GVA(m, r)] # NoVma =>
    stage[n] = "ready" /\ vma[n][GVA(m, r)] = Target(CURRENT_NODE[n], m, r)

TInv == TypeOK /\ Identified
LInv == TInv /\ \A n \in Nodes : Loaded(n)
IInv == LInv /\ \A n, m \in Nodes, r \in Regions : MappedAs(n, m, r)

-----------------------------------------------------------------------------
(* Types. *)

\* An access that arrives anywhere arrives in a page of DRAM of some node.
LEMMA ReachesDram ==
  ASSUME NEW n \in Nodes, NEW t, NEW p \in Reaches(n, t)
  PROVE  \E m \in Nodes, d \in DramPages : p = <<m, d>>
<1>1. CASE t = HostRam
  <2>1. t \notin {Fpga(Ddr4_0), Fpga(Ddr4_2)} /\ t.bar # "UNIMEM_BAR"
    BY <1>1 DEF HostRam, Fpga, Behind
  <2>2. p = <<n, HostPage>>
    BY <1>1, <2>1 DEF Reaches
  <2> QED
    BY <2>2 DEF DramPages
<1>2. CASE t # HostRam /\ t \in {Fpga(Ddr4_0), Fpga(Ddr4_2)}
  <2>1. ~(t.page >= ToBase)
    BY <1>2 DEF Fpga, Behind, Ddr4_0, Ddr4_2, ToBase
  <2>2. p = <<n, t.page>>
    BY <1>2, <2>1 DEF Reaches
  <2>3. t.page \in DramPages
    BY <1>2 DEF Fpga, Behind, DramPages
  <2> QED
    BY <2>2, <2>3
<1>3. CASE t # HostRam /\ t \notin {Fpga(Ddr4_0), Fpga(Ddr4_2)}
  <2>1. p \in Arrives(n, t.page - ToBase)
    BY <1>3 DEF Reaches
  <2>2. PICK m \in Nodes : \E page : p \in {m} \X DramBehind(page)
    BY <2>1 DEF Arrives
  <2>3. \A page : DramBehind(page) \subseteq DramPages
    BY DEF DramBehind, DramPages
  <2> QED
    BY <2>2, <2>3
<1> QED
  BY <1>1, <1>2, <1>3

\* The tables the driver loads have the types of the bridges.
LEMMA TablesTyped ==
  /\ UnimemFromTable \in [0..2 -> {0, Region3FromPage, HostPageSeenByFpga, Ddr4_0, Ddr4_2}]
  /\ UnimemFromTable[0] = HostPageSeenByFpga /\ UnimemFromTable[1] = Ddr4_0
BY DEF UnimemFromTable, HostPageSeenByFpga, Ddr4_0, Ddr4_2, Region3FromPage

\* A value read from memory is a value.
LEMMA MemoryTyped ==
  ASSUME TypeOK, NEW n \in Nodes, NEW t, NEW p \in Reaches(n, t)
  PROVE  p[1] \in Nodes /\ p[2] \in DramPages /\ memory[p[1]][p[2]] \in Values
<1>1. PICK m \in Nodes, d \in DramPages : p = <<m, d>>
  BY ReachesDram
<1> QED
  BY <1>1 DEF TypeOK

LEMMA InitTInv == Init => TInv
<1> SUFFICES ASSUME Init PROVE TInv
  OBVIOUS
<1>1. GM!InitialValue \in Values
  BY ClusterAssumption DEF GM!InitialValue
<1>2. access = GM!Access("none", <<0, 0>>, GM!InitialValue)
  BY DEF Init, GM!NoAccess
<1>3. memory \in [Nodes -> [DramPages -> Values]]
  BY <1>1 DEF Init
<1>4. TypeOK
  BY <1>1, <1>2, <1>3 DEF Init, TypeOK
<1> QED
  BY <1>4 DEF Init, TInv, Identified

LEMMA TInvStep == TInv /\ [Next]_vars => TInv'
<1> SUFFICES ASSUME TInv, [Next]_vars PROVE TInv'
  OBVIOUS
<1> DEFINE Driver == /\ stage \in [Nodes -> {"down", "enabled", "to", "from", "ready"}]
                     /\ CURRENT_NODE \in [Nodes -> -1..4]
                     /\ enabled \in [Nodes -> BOOLEAN]
                     /\ Identified
           Tables == /\ to \in [Nodes -> {UnimemToTable, [i \in 0..14 |-> Invalid]}]
                     /\ from \in [Nodes -> [0..2 -> {0, Region3FromPage, HostPageSeenByFpga,
                                                     Ddr4_0, Ddr4_2}]]
           Pages == vma \in [Nodes -> [GvaPages -> Targets \cup {NoVma}]]
           Accesses ==
             /\ memory \in [Nodes -> [DramPages -> Values]]
             /\ \E k \in {"none", "load", "store"}, c \in {<<0, 0>>} \cup Nodes \X Regions,
                   v \in Values : access = GM!Access(k, c, v)
<1>0. Driver /\ Tables /\ Pages /\ Accesses
  BY DEF TInv, TypeOK
<1>1. SUFFICES Driver' /\ Tables' /\ Pages' /\ Accesses'
  BY DEF TInv, TypeOK
<1>2. CASE UNCHANGED vars
  BY <1>0, <1>2 DEF vars, driver, Identified
<1>3. ASSUME NEW n \in Nodes, EnableBridges(n) PROVE Driver' /\ Tables' /\ Pages' /\ Accesses'
  <2>1. Driver'
    <3>1. PICK c : c \in {n, -1} /\ CURRENT_NODE' = [CURRENT_NODE EXCEPT ![n] = c]
      BY <1>3, ClusterAssumption DEF EnableBridges
    <3>2. c \in -1..4
      BY <3>1, ClusterAssumption
    <3>3. stage' = [stage EXCEPT ![n] = "enabled"] /\ enabled' = [enabled EXCEPT ![n] = TRUE]
      BY <1>3 DEF EnableBridges
    <3>4. Identified'
      BY <1>0, <3>1, <3>3 DEF Identified
    <3> QED
      BY <1>0, <3>1, <3>2, <3>3, <3>4
  <2>2. Tables' /\ Pages' /\ Accesses'
    BY <1>0, <1>3 DEF EnableBridges
  <2> QED
    BY <2>1, <2>2
<1>4. ASSUME NEW n \in Nodes, LoadToTable(n) PROVE Driver' /\ Tables' /\ Pages' /\ Accesses'
  <2>1. Driver'
    BY <1>0, <1>4 DEF LoadToTable, Identified
  <2>2. Tables'
    BY <1>0, <1>4 DEF LoadToTable
  <2>3. Pages' /\ Accesses'
    BY <1>0, <1>4 DEF LoadToTable
  <2> QED
    BY <2>1, <2>2, <2>3
<1>5. ASSUME NEW n \in Nodes, LoadFromTable(n) PROVE Driver' /\ Tables' /\ Pages' /\ Accesses'
  <2>1. Driver'
    BY <1>0, <1>5 DEF LoadFromTable, Identified
  <2>2. Tables'
    BY <1>0, <1>5, TablesTyped DEF LoadFromTable
  <2>3. Pages' /\ Accesses'
    BY <1>0, <1>5 DEF LoadFromTable
  <2> QED
    BY <2>1, <2>2, <2>3
<1>6. ASSUME NEW n \in Nodes, CreateDevice(n) PROVE Driver' /\ Tables' /\ Pages' /\ Accesses'
  <2>1. Driver'
    BY <1>0, <1>6 DEF CreateDevice, Identified
  <2> QED
    BY <1>0, <1>6, <2>1 DEF CreateDevice
<1>7. ASSUME NEW n \in Nodes, unimem_exit(n) PROVE Driver' /\ Tables' /\ Pages' /\ Accesses'
  <2>1. Driver'
    BY <1>0, <1>7 DEF unimem_exit, Identified
  <2> QED
    BY <1>0, <1>7, <2>1 DEF unimem_exit
<1>8. ASSUME NEW n \in Nodes, NEW va \in GvaPages, Munmap(n, va)
      PROVE  Driver' /\ Tables' /\ Pages' /\ Accesses'
  <2>1. Pages'
    BY <1>0, <1>8 DEF Munmap
  <2> QED
    BY <1>0, <1>8, <2>1 DEF Munmap, driver, Identified
<1>9. ASSUME NEW n \in Nodes, NEW m \in Nodes, NEW r \in Regions, Mmap(n, m, r)
      PROVE  Driver' /\ Tables' /\ Pages' /\ Accesses'
  <2>1. Pages'
    <3>1. CURRENT_NODE[n] \in Nodes \cup {-1}
      BY <1>0, <1>9 DEF Mmap, Identified
    <3>2. Target(CURRENT_NODE[n], m, r) \in Targets
      BY <3>1 DEF Targets
    <3>3. GVA(m, r) \in GvaPages
      BY DEF GvaPages
    <3> QED
      BY <1>0, <1>9, <3>2, <3>3 DEF Mmap
  <2>2. Tables'
    <3>1. Reprogram(n, r) \in [0..2 -> {0, Region3FromPage, HostPageSeenByFpga, Ddr4_0, Ddr4_2}]
      BY <1>0 DEF Reprogram
    <3> QED
      BY <1>0, <1>9, <3>1 DEF Mmap
  <2>3. Driver' /\ Accesses'
    BY <1>0, <1>9 DEF Mmap, Identified
  <2> QED
    BY <2>1, <2>2, <2>3
<1>10. ASSUME NEW n \in Nodes, NEW m \in Nodes, NEW r \in Served, Load(n, m, r)
       PROVE  Driver' /\ Tables' /\ Pages' /\ Accesses'
  <2>1. PICK p \in Reaches(n, vma[n][GVA(m, r)]) :
          access' = GM!Access("load", <<m, r>>, memory[p[1]][p[2]])
    BY <1>10 DEF Load
  <2>2. memory[p[1]][p[2]] \in Values
    BY MemoryTyped DEF TInv
  <2>3. <<m, r>> \in Nodes \X Regions
    BY ClusterAssumption
  <2>4. Accesses'
    BY <1>0, <1>10, <2>1, <2>2, <2>3 DEF Load
  <2> QED
    BY <1>0, <1>10, <2>4 DEF Load, driver, Identified
<1>11. ASSUME NEW n \in Nodes, NEW m \in Nodes, NEW r \in Served, NEW v \in Values,
              Store(n, m, r, v)
       PROVE  Driver' /\ Tables' /\ Pages' /\ Accesses'
  <2>1. PICK p \in Reaches(n, vma[n][GVA(m, r)]) : memory' = [memory EXCEPT ![p[1]][p[2]] = v]
    BY <1>11 DEF Store
  <2>2. p[1] \in Nodes /\ p[2] \in DramPages
    BY MemoryTyped DEF TInv
  <2>3. <<m, r>> \in Nodes \X Regions /\ access' = GM!Access("store", <<m, r>>, v)
    BY <1>11, ClusterAssumption DEF Store
  <2>4. Accesses'
    BY <1>0, <2>1, <2>2, <2>3
  <2> QED
    BY <1>0, <1>11, <2>4 DEF Store, driver, Identified
<1> QED
  BY <1>2, <1>3, <1>4, <1>5, <1>6, <1>7, <1>8, <1>9, <1>10, <1>11 DEF Next

\* However the nodes boot, unload, reload, map and access, the tables of their
\* bridges hold entries the driver wrote, their pages lead to memory the driver
\* offers, and every access that arrives does so in a page of DRAM.
THEOREM ClusterTypeCorrect == Spec => []TypeOK
<1>1. TInv => TypeOK
  BY DEF TInv
<1> QED
  BY <1>1, InitTInv, TInvStep, PTL DEF Spec

-----------------------------------------------------------------------------
(* The bridge tables. *)

LEMMA InitLInv == Init => LInv
<1> SUFFICES ASSUME Init PROVE LInv
  OBVIOUS
<1>1. TInv
  BY InitTInv
<1>2. \A n \in Nodes : Loaded(n)
  BY DEF Init, Loaded
<1> QED
  BY <1>1, <1>2 DEF LInv

LEMMA LInvStep ==
  ASSUME LInv, [Next]_vars
  PROVE  LInv'
<1>0. TypeOK /\ \A n \in Nodes : Loaded(n)
  BY DEF LInv, TInv
<1>1. TInv'
  BY TInvStep DEF LInv
<1>2. SUFFICES \A k \in Nodes : Loaded(k)'
  BY <1>1 DEF LInv
<1>3. CASE UNCHANGED driver
  BY <1>0, <1>3 DEF driver, Loaded
<1>4. ASSUME NEW n \in Nodes, EnableBridges(n) PROVE \A k \in Nodes : Loaded(k)'
  BY <1>0, <1>4 DEF EnableBridges, Loaded, TypeOK
<1>5. ASSUME NEW n \in Nodes, LoadToTable(n) PROVE \A k \in Nodes : Loaded(k)'
  BY <1>0, <1>5 DEF LoadToTable, Loaded, TypeOK
<1>6. ASSUME NEW n \in Nodes, LoadFromTable(n) PROVE \A k \in Nodes : Loaded(k)'
  BY <1>0, <1>6, TablesTyped DEF LoadFromTable, Loaded, TypeOK
<1>7. ASSUME NEW n \in Nodes, CreateDevice(n) PROVE \A k \in Nodes : Loaded(k)'
  BY <1>0, <1>7 DEF CreateDevice, Loaded, TypeOK
<1>8. ASSUME NEW n \in Nodes, unimem_exit(n) PROVE \A k \in Nodes : Loaded(k)'
  BY <1>0, <1>8 DEF unimem_exit, Loaded, TypeOK
<1>9. ASSUME NEW n \in Nodes, NEW m \in Nodes, NEW r \in Regions, Mmap(n, m, r)
      PROVE  \A k \in Nodes : Loaded(k)'
  <2>1. stage[n] = "ready" /\ stage' = stage /\ to' = to /\ enabled' = enabled
    BY <1>9 DEF Mmap
  <2>2. from[n][0] = HostPageSeenByFpga /\ from[n][1] \in {Ddr4_0, Region3FromPage}
    BY <1>0, <2>1 DEF Loaded
  <2>3. from[n] \in [0..2 -> {0, Region3FromPage, HostPageSeenByFpga, Ddr4_0, Ddr4_2}]
    BY <1>0 DEF TypeOK
  <2>4. /\ Reprogram(n, r)[0] = HostPageSeenByFpga
        /\ Reprogram(n, r)[1] \in {Ddr4_0, Region3FromPage}
    BY <2>2, <2>3 DEF Reprogram
  <2>5. /\ from'[n][0] = HostPageSeenByFpga /\ from'[n][1] \in {Ddr4_0, Region3FromPage}
        /\ \A k \in Nodes : k # n => from'[k] = from[k]
    BY <1>0, <1>9, <2>2, <2>4 DEF Mmap, TypeOK
  <2> QED
    BY <1>0, <2>1, <2>5 DEF Loaded
<1> QED
  <2>1. ASSUME NEW n \in Nodes, NEW va \in GvaPages, Munmap(n, va) PROVE UNCHANGED driver
    BY <2>1 DEF Munmap
  <2>2. ASSUME NEW n \in Nodes, NEW m \in Nodes, NEW r \in Served,
               Load(n, m, r) \/ \E v \in Values : Store(n, m, r, v)
        PROVE  UNCHANGED driver
    BY <2>2 DEF Load, Store
  <2>3. UNCHANGED vars => UNCHANGED driver
    BY DEF vars
  <2> QED
    BY <1>3, <1>4, <1>5, <1>6, <1>7, <1>8, <1>9, <2>1, <2>2, <2>3 DEF Next

-----------------------------------------------------------------------------
(* Where an access arrives. *)

CellPage(r) == IF r = 0 THEN HostPage ELSE Ddr4_0

\* The coordinates name one node.
LEMMA CoordinatesDistinct ==
  ASSUME NEW k \in 0..4, NEW m \in 0..4
  PROVE  get_ip_coordinates(k) = ToCoordinates[m + 1] <=> k = m
<1>1. m = 0 \/ m = 1 \/ m = 2 \/ m = 3 \/ m = 4
  OBVIOUS
<1>2. k = 0 \/ k = 1 \/ k = 2 \/ k = 3 \/ k = 4
  OBVIOUS
<1> QED
  BY <1>1, <1>2 DEF get_ip_coordinates, ip_address, ToCoordinates

\* The three entries of Unimem-TO that belong to node m carry its coordinates and
\* name the slots of its Unimem-FROM in order.
LEMMA EntryOfWindow ==
  ASSUME NEW m \in 0..4, NEW r \in {0, 1}
  PROVE  /\ UnimemToTable[3 * m + r].coordinates = ToCoordinates[m + 1]
         /\ UnimemToTable[3 * m + r].page % 16 = r
<1>1. 3 * m + r \in 0..14 /\ (3 * m + r) \div 3 = m /\ (3 * m + r) % 3 = r
  OBVIOUS
<1>2. UnimemToTable[3 * m + r] = [coordinates |-> ToCoordinates[m + 1], page |-> 1184 + r]
  BY <1>1 DEF UnimemToTable
<1>3. (1184 + r) % 16 = r
  OBVIOUS
<1> QED
  BY <1>2, <1>3

\* The slot of region r in the Unimem-FROM table of node m, when a mmap of its
\* region 3 has taken it.
Taken(m, r) == r = 1 /\ from[m][1] = Region3FromPage

\* What leaves through the window page of region r of node m arrives at no other
\* node and in no other page than that region; it arrives if m is ready and the
\* slot has not been taken.
LEMMA ArrivesAtCell ==
  ASSUME LInv, NEW n \in Nodes, NEW m \in Nodes, NEW r \in Served, stage[n] = "ready"
  PROVE  /\ Arrives(n, WindowPage(m, r) - ToBase) \subseteq {<<m, CellPage(r)>>}
         /\ stage[m] = "ready" /\ ~Taken(m, r) =>
              Arrives(n, WindowPage(m, r) - ToBase) = {<<m, CellPage(r)>>}
<1> DEFINE i == WindowPage(m, r) - ToBase
<1>1. m \in 0..4 /\ r \in {0, 1} /\ Nodes \subseteq 0..4
  BY ClusterAssumption
<1>2. i = 3 * m + r
  BY <1>1 DEF WindowPage, ToBase
<1>3. to[n] = UnimemToTable /\ enabled[n]
  BY DEF LInv, Loaded
<1>4. to[n][i].coordinates = ToCoordinates[m + 1] /\ to[n][i].page % 16 = r
  BY <1>1, <1>2, <1>3, EntryOfWindow
<1> HIDE DEF i
<1>5. \A k \in Nodes : get_ip_coordinates(k) = to[n][i].coordinates <=> k = m
  BY <1>1, <1>4, CoordinatesDistinct
<1>6. Arrives(n, i) = IF PassesOn(n, m) THEN {m} \X DramBehind(from[m][r]) ELSE {}
  BY <1>4, <1>5 DEF Arrives
<1>7. /\ from[m][0] \in {0, HostPageSeenByFpga} /\ from[m][1] \in {0, Ddr4_0, Region3FromPage}
      /\ stage[m] = "ready" => /\ from[m][0] = HostPageSeenByFpga
                               /\ from[m][1] \in {Ddr4_0, Region3FromPage} /\ enabled[m]
  BY DEF LInv, Loaded
<1>8. /\ DramBehind(0) = {} /\ DramBehind(HostPageSeenByFpga) = {HostPage}
      /\ DramBehind(Ddr4_0) = {Ddr4_0} /\ DramBehind(Region3FromPage) = {}
  BY DEF DramBehind, HostPageSeenByFpga, Ddr4_0, Ddr4_2, Region3FromPage
<1>9. DramBehind(from[m][r]) \subseteq {CellPage(r)}
  BY <1>1, <1>7, <1>8 DEF CellPage
<1>10. stage[m] = "ready" /\ ~Taken(m, r) => DramBehind(from[m][r]) = {CellPage(r)}
  BY <1>1, <1>7, <1>8 DEF CellPage, Taken
<1>11. stage[m] = "ready" => PassesOn(n, m)
  BY <1>3, <1>7 DEF PassesOn
<1> QED
  BY <1>6, <1>9, <1>10, <1>11 DEF i

\* Whatever a node takes itself to be, what it maps as region r of node m leads
\* to that region and nowhere else.
LEMMA ReachesCell ==
  ASSUME LInv, NEW n \in Nodes, NEW m \in Nodes, NEW r \in Served, stage[n] = "ready"
  PROVE  /\ Reaches(n, Target(CURRENT_NODE[n], m, r)) \subseteq {<<m, CellPage(r)>>}
         /\ stage[m] = "ready" /\ ~Taken(m, r) =>
              Reaches(n, Target(CURRENT_NODE[n], m, r)) = {<<m, CellPage(r)>>}
<1> DEFINE t == Target(CURRENT_NODE[n], m, r)
<1>1. m \in 0..4 /\ r \in {0, 1} /\ CURRENT_NODE[n] \in {n, -1}
  BY ClusterAssumption DEF LInv, TInv, Identified
<1>2. CASE CURRENT_NODE[n] = m
  <2>1. n = m
    BY <1>1, <1>2
  <2>2. CASE r = 0
    <3>1. t = HostRam
      BY <1>2, <2>2 DEF Target
    <3>2. t \notin {Fpga(Ddr4_0), Fpga(Ddr4_2)} /\ t.bar # "UNIMEM_BAR"
      BY <3>1 DEF HostRam, Fpga, Behind
    <3>3. Reaches(n, t) = {<<n, HostPage>>}
      BY <3>1, <3>2 DEF Reaches
    <3> QED
      BY <2>1, <2>2, <3>3 DEF CellPage
  <2>3. CASE r = 1
    <3>1. t = Fpga(Ddr4_0)
      BY <1>2, <2>3 DEF Target
    <3>2. t # HostRam /\ t.page = Ddr4_0 /\ ~(t.page >= ToBase)
      BY <3>1 DEF HostRam, Fpga, Behind, Ddr4_0, ToBase
    <3>3. Reaches(n, t) = {<<n, Ddr4_0>>}
      BY <3>1, <3>2 DEF Reaches
    <3> QED
      BY <2>1, <2>3, <3>3 DEF CellPage
  <2> QED
    BY <1>1, <2>2, <2>3
<1>3. CASE CURRENT_NODE[n] # m
  <2>1. t = Fpga(WindowPage(m, r))
    BY <1>1, <1>3 DEF Target
  <2>2. t.bar = "UNIMEM_BAR" /\ t.page = WindowPage(m, r) /\ t # HostRam
    BY <2>1 DEF Fpga, Behind, HostRam
  <2>3. WindowPage(m, r) \in Nat /\ WindowPage(m, r) >= ToBase
    BY <1>1 DEF WindowPage, ToBase
  <2>4. t \notin {Fpga(Ddr4_0), Fpga(Ddr4_2)}
    BY <2>2, <2>3 DEF Fpga, Behind, Ddr4_0, Ddr4_2, ToBase
  <2>5. Reaches(n, t) = Arrives(n, WindowPage(m, r) - ToBase)
    BY <2>2, <2>3, <2>4 DEF Reaches
  <2> QED
    BY <2>5, ArrivesAtCell
<1> QED
  BY <1>2, <1>3

\* What RemoteMatchesLocal says, but of the regions 1 whose slot is taken.
RemoteMatchesUnlessTaken ==
  \A n, m \in Nodes, r \in Served :
    (n # m /\ stage[n] = "ready" /\ stage[m] = "ready" /\ ~Taken(m, r)) =>
      Reaches(n, Target(CURRENT_NODE[n], m, r)) = Reaches(m, Target(CURRENT_NODE[m], m, r))

\* A node whose driver is ready serves its regions to the others: through any
\* other ready node's window region r of node m arrives at the page that node m
\* itself has mapped as region r, for any nodes, names, regions and layout of
\* addresses; only region 1 is lost, to a node that has mapped its region 3.
THEOREM ClusterRemoteMatches == Spec => []RemoteMatchesUnlessTaken
<1>1. LInv /\ [Next]_vars => LInv'
  BY LInvStep
<1>2. LInv => RemoteMatchesUnlessTaken
  <2>1. SUFFICES ASSUME LInv, NEW n \in Nodes, NEW m \in Nodes, NEW r \in Served,
                        stage[n] = "ready", stage[m] = "ready", ~Taken(m, r)
                 PROVE  Reaches(n, Target(CURRENT_NODE[n], m, r)) =
                        Reaches(m, Target(CURRENT_NODE[m], m, r))
    BY DEF RemoteMatchesUnlessTaken
  <2>2. Reaches(n, Target(CURRENT_NODE[n], m, r)) = {<<m, CellPage(r)>>}
    BY <2>1, ReachesCell
  <2>3. Reaches(m, Target(CURRENT_NODE[m], m, r)) = {<<m, CellPage(r)>>}
    BY <2>1, ReachesCell
  <2> QED
    BY <2>2, <2>3
<1> QED
  BY <1>1, <1>2, InitLInv, PTL DEF Spec

NoRegion3 == 3 \notin Regions

\* Only a mmap of region 3 takes the slot of region 1.
LEMMA NeverTaken ==
  ASSUME NoRegion3, TypeOK, NEW k \in Nodes, from[k][1] # Region3FromPage, [Next]_vars
  PROVE  from'[k][1] # Region3FromPage
<1>1. CASE UNCHANGED from
  BY <1>1
<1>2. ASSUME NEW n \in Nodes, LoadFromTable(n) PROVE from'[k][1] # Region3FromPage
  BY <1>2, TablesTyped DEF LoadFromTable, TypeOK, Ddr4_0, Region3FromPage
<1>3. ASSUME NEW n \in Nodes, NEW m \in Nodes, NEW r \in Regions, Mmap(n, m, r)
      PROVE  from'[k][1] # Region3FromPage
  <2>1. r # 3
    BY DEF NoRegion3
  <2>2. from[n] \in [0..2 -> {0, Region3FromPage, HostPageSeenByFpga, Ddr4_0, Ddr4_2}]
    BY DEF TypeOK
  <2>3. Reprogram(n, r)[1] \in {from[n][1], Ddr4_0}
    BY <2>1, <2>2 DEF Reprogram
  <2>4. from'[k][1] \in {from[k][1], Ddr4_0}
    BY <1>3, <2>3 DEF Mmap, TypeOK
  <2> QED
    BY <2>4 DEF Ddr4_0, Region3FromPage
<1> QED
  <2>1. ASSUME NEW n \in Nodes,
               \/ EnableBridges(n) \/ LoadToTable(n) \/ CreateDevice(n) \/ unimem_exit(n)
               \/ \E va \in GvaPages : Munmap(n, va)
               \/ \E m \in Nodes, r \in Served : Load(n, m, r) \/ \E v \in Values : Store(n, m, r, v)
        PROVE  UNCHANGED from
    BY <2>1 DEF EnableBridges, LoadToTable, CreateDevice, unimem_exit, Munmap, Load, Store, driver
  <2>2. UNCHANGED vars => UNCHANGED from
    BY DEF vars, driver
  <2> QED
    BY <1>1, <1>2, <1>3, <2>1, <2>2 DEF Next

\* As long as nobody maps local region 3, every region is served.
COROLLARY ClusterRemoteMatchesLocal == ASSUME NoRegion3 PROVE Spec => []RemoteMatchesLocal
<1> DEFINE Kept == \A k \in Nodes : from[k][1] # Region3FromPage
<1>1. Init => Kept
  BY DEF Init, Region3FromPage
<1>2. TInv /\ Kept /\ [Next]_vars => TInv' /\ Kept'
  BY TInvStep, NeverTaken DEF TInv
<1>3. Kept /\ RemoteMatchesUnlessTaken => RemoteMatchesLocal
  BY DEF RemoteMatchesUnlessTaken, RemoteMatchesLocal, Taken
<1> QED
  BY <1>1, <1>2, <1>3, InitTInv, ClusterRemoteMatches, PTL DEF Spec

-----------------------------------------------------------------------------
(* What the applications have mapped, when their layout of addresses gives    *)
(* each region of each node a page of its own.                                *)

RegionsFit == \A r \in Regions : r < NodeStride

LEMMA GVAInjective ==
  ASSUME RegionsFit, NEW n \in Nodes, NEW m \in Nodes, NEW r \in Regions, NEW s \in Regions,
         GVA(n, r) = GVA(m, s)
  PROVE  n = m /\ r = s
<1>1. n \in 0..4 /\ m \in 0..4 /\ r \in 0..3 /\ s \in 0..3 /\ NodeStride \in Nat
  BY ClusterAssumption, NodeStrideAssumption
<1>2. r < NodeStride /\ s < NodeStride
  BY DEF RegionsFit
<1>3. NodeStride * n + r = NodeStride * m + s
  <2>1. NodeStride * n \in Nat /\ NodeStride * m \in Nat
    BY <1>1
  <2> QED
    BY <1>1, <2>1 DEF GVA, GvasBase
<1>4. n = 0 \/ n = 1 \/ n = 2 \/ n = 3 \/ n = 4
  BY <1>1
<1>5. m = 0 \/ m = 1 \/ m = 2 \/ m = 3 \/ m = 4
  BY <1>1
<1> QED
  BY <1>1, <1>2, <1>3, <1>4, <1>5

LEMMA InitIInv == Init => IInv
<1> SUFFICES ASSUME Init PROVE IInv
  OBVIOUS
<1>1. LInv
  BY InitLInv
<1>2. \A n, m \in Nodes, r \in Regions : GVA(m, r) \in GvaPages
  BY DEF GvaPages
<1>3. \A n, m \in Nodes, r \in Regions : MappedAs(n, m, r)
  BY <1>2 DEF Init, MappedAs
<1> QED
  BY <1>1, <1>3 DEF IInv

LEMMA IInvStep ==
  ASSUME RegionsFit, IInv, [Next]_vars
  PROVE  IInv'
<1>1. LInv /\ LInv'
  BY LInvStep DEF IInv
<1>2. SUFFICES ASSUME NEW k \in Nodes, NEW l \in Nodes, NEW s \in Regions
               PROVE  MappedAs(k, l, s)'
  BY <1>1 DEF IInv
<1>3. MappedAs(k, l, s) /\ GVA(l, s) \in GvaPages
  BY DEF IInv, GvaPages
<1>4. TypeOK
  BY <1>1 DEF LInv, TInv
<1>5. CASE UNCHANGED vars
  BY <1>3, <1>5 DEF vars, driver, MappedAs
\* The driver of a node changes name or stage only while nothing is mapped there.
<1>6. ASSUME NEW n \in Nodes,
             EnableBridges(n) \/ LoadToTable(n) \/ LoadFromTable(n) \/ CreateDevice(n)
      PROVE  MappedAs(k, l, s)'
  <2>1. /\ stage[n] # "ready" /\ vma' = vma
        /\ k # n => stage'[k] = stage[k] /\ CURRENT_NODE'[k] = CURRENT_NODE[k]
    BY <1>4, <1>6 DEF EnableBridges, LoadToTable, LoadFromTable, CreateDevice, TypeOK
  <2>2. CASE k = n
    BY <1>3, <2>1, <2>2 DEF MappedAs
  <2>3. CASE k # n
    BY <1>3, <2>1, <2>3 DEF MappedAs
  <2> QED
    BY <2>2, <2>3
<1>7. ASSUME NEW n \in Nodes, unimem_exit(n) PROVE MappedAs(k, l, s)'
  <2>1. /\ vma[n] = [va \in GvaPages |-> NoVma] /\ vma' = vma /\ CURRENT_NODE' = CURRENT_NODE
        /\ k # n => stage'[k] = stage[k]
    BY <1>4, <1>7 DEF unimem_exit, TypeOK
  <2>2. CASE k = n
    BY <1>3, <2>1, <2>2 DEF MappedAs
  <2>3. CASE k # n
    BY <1>3, <2>1, <2>3 DEF MappedAs
  <2> QED
    BY <2>2, <2>3
<1>8. ASSUME NEW n \in Nodes, NEW va \in GvaPages, Munmap(n, va) PROVE MappedAs(k, l, s)'
  <2>1. vma'[k][GVA(l, s)] \in {NoVma, vma[k][GVA(l, s)]}
    BY <1>3, <1>4, <1>8 DEF Munmap, TypeOK
  <2>2. stage' = stage /\ CURRENT_NODE' = CURRENT_NODE
    BY <1>8 DEF Munmap, driver
  <2> QED
    BY <1>3, <2>1, <2>2 DEF MappedAs
<1>9. ASSUME NEW n \in Nodes, NEW m \in Nodes, NEW r \in Regions, Mmap(n, m, r)
      PROVE  MappedAs(k, l, s)'
  <2>1. /\ stage[n] = "ready" /\ stage' = stage /\ CURRENT_NODE' = CURRENT_NODE
        /\ vma' = [vma EXCEPT ![n][GVA(m, r)] = Target(CURRENT_NODE[n], m, r)]
    BY <1>9 DEF Mmap
  <2>2. CASE k = n /\ l = m /\ s = r
    BY <1>3, <1>4, <2>1, <2>2 DEF MappedAs, TypeOK
  <2>3. CASE ~(k = n /\ l = m /\ s = r)
    <3>1. k # n \/ GVA(l, s) # GVA(m, r)
      BY <2>3, GVAInjective
    <3>2. vma'[k][GVA(l, s)] = vma[k][GVA(l, s)]
      BY <1>3, <1>4, <2>1, <3>1 DEF TypeOK
    <3> QED
      BY <1>3, <2>1, <3>2 DEF MappedAs
  <2> QED
    BY <2>2, <2>3
<1>10. ASSUME NEW n \in Nodes, NEW m \in Nodes, NEW r \in Served,
              Load(n, m, r) \/ \E v \in Values : Store(n, m, r, v)
       PROVE  MappedAs(k, l, s)'
  <2>1. stage' = stage /\ CURRENT_NODE' = CURRENT_NODE /\ vma' = vma
    BY <1>10 DEF Load, Store, driver
  <2> QED
    BY <1>3, <2>1 DEF MappedAs
<1> QED
  BY <1>5, <1>6, <1>7, <1>8, <1>9, <1>10 DEF Next

-----------------------------------------------------------------------------
(* The cluster implements the global memory. *)

\* What each cell of the global memory holds, as UnimemCluster states it.
cell == [c \in Nodes \X Served |-> memory[c[1]][IF c[2] = 0 THEN HostPage ELSE Ddr4_0]]

LEMMA InitRefines == Init => GM!Init
<1> SUFFICES ASSUME Init PROVE GM!Init
  OBVIOUS
<1>1. cell = [c \in Nodes \X Served |-> GM!InitialValue]
  BY DEF Init, cell, DramPages
<1> QED
  BY <1>1 DEF Init, GM!Init, cell

\* An access through a mapping of region r of node m reaches that cell.
LEMMA AccessReachesCell ==
  ASSUME IInv, NEW n \in Nodes, NEW m \in Nodes, NEW r \in Served,
         NEW p \in Reaches(n, vma[n][GVA(m, r)])
  PROVE  p = <<m, CellPage(r)>>
<1>1. LInv /\ r \in Regions
  BY ClusterAssumption DEF IInv
<1>2. MappedAs(n, m, r)
  BY <1>1 DEF IInv
<1>3. vma[n][GVA(m, r)] # NoVma
  <2>1. NoVma # HostRam /\ NoVma \notin {Fpga(Ddr4_0), Fpga(Ddr4_2)} /\ NoVma.bar # "UNIMEM_BAR"
    BY DEF NoVma, HostRam, Fpga, Behind
  <2>2. Reaches(n, NoVma) = {}
    BY <2>1 DEF Reaches
  <2> QED
    BY <2>2
<1>4. stage[n] = "ready" /\ vma[n][GVA(m, r)] = Target(CURRENT_NODE[n], m, r)
  BY <1>2, <1>3 DEF MappedAs
<1>5. Reaches(n, Target(CURRENT_NODE[n], m, r)) \subseteq {<<m, CellPage(r)>>}
  BY <1>1, <1>4, ReachesCell
<1> QED
  BY <1>4, <1>5

LEMMA StepRefines ==
  ASSUME IInv, [Next]_vars
  PROVE  [GM!Next]_<<cell, access>>
<1>0. TypeOK
  BY DEF IInv, LInv, TInv
<1>1. CASE UNCHANGED <<memory, access>>
  BY <1>1 DEF cell
<1>2. ASSUME NEW n \in Nodes, NEW m \in Nodes, NEW r \in Served, Load(n, m, r)
      PROVE  GM!Next
  <2>1. PICK p \in Reaches(n, vma[n][GVA(m, r)]) :
          access' = GM!Access("load", <<m, r>>, memory[p[1]][p[2]])
    BY <1>2 DEF Load
  <2>2. memory[p[1]][p[2]] = cell[<<m, r>>]
    BY AccessReachesCell DEF cell, CellPage
  <2>3. cell' = cell
    BY <1>2 DEF Load, cell
  <2> QED
    BY <2>1, <2>2, <2>3 DEF GM!Next, GM!Load, cell
<1>3. ASSUME NEW n \in Nodes, NEW m \in Nodes, NEW r \in Served, NEW v \in Values,
             Store(n, m, r, v)
      PROVE  GM!Next
  <2>1. PICK p \in Reaches(n, vma[n][GVA(m, r)]) : memory' = [memory EXCEPT ![p[1]][p[2]] = v]
    BY <1>3 DEF Store
  <2>2. memory' = [memory EXCEPT ![m][CellPage(r)] = v]
    <3>1. p = <<m, CellPage(r)>>
      BY AccessReachesCell
    <3>2. p[1] = m /\ p[2] = CellPage(r)
      BY <3>1
    <3> QED
      BY <2>1, <3>2
  <2>3. HostPage # Ddr4_0 /\ CellPage(r) \in DramPages
    BY DEF HostPage, Ddr4_0, CellPage, DramPages
  <2>4. ASSUME NEW c \in Nodes \X Served
        PROVE  cell'[c] = IF c = <<m, r>> THEN v ELSE cell[c]
    <3>1. Served \subseteq {0, 1}
      BY ClusterAssumption
    <3>2. c[1] \in Nodes /\ c[2] \in Served /\ c = <<c[1], c[2]>>
      OBVIOUS
    <3>3. c[2] \in {0, 1} /\ r \in {0, 1}
      BY <3>1, <3>2
    <3>4. cell'[c] = memory'[c[1]][CellPage(c[2])] /\ cell[c] = memory[c[1]][CellPage(c[2])]
      BY DEF cell, CellPage
    <3>5. c = <<m, r>> <=> c[1] = m /\ CellPage(c[2]) = CellPage(r)
      BY <3>2, <3>3 DEF HostPage, Ddr4_0, CellPage
    <3>6. CellPage(c[2]) \in DramPages
      BY DEF CellPage, DramPages
    <3> QED
      BY <1>0, <2>2, <2>3, <3>2, <3>4, <3>5, <3>6 DEF TypeOK
  <2>5. cell' = [cell EXCEPT ![<<m, r>>] = v]
    BY <2>4 DEF cell
  <2>6. access' = GM!Access("store", <<m, r>>, v)
    BY <1>3 DEF Store
  <2> QED
    BY <2>5, <2>6 DEF GM!Next, GM!Store, cell
<1>4. ASSUME NEW n \in Nodes,
             \/ EnableBridges(n) \/ LoadToTable(n) \/ LoadFromTable(n) \/ CreateDevice(n)
             \/ unimem_exit(n) \/ \E va \in GvaPages : Munmap(n, va)
             \/ \E m \in Nodes, r \in Regions : Mmap(n, m, r)
      PROVE  UNCHANGED <<memory, access>>
  BY <1>4 DEF EnableBridges, LoadToTable, LoadFromTable, CreateDevice, unimem_exit, Munmap, Mmap
<1> QED
  BY <1>1, <1>2, <1>3, <1>4 DEF Next, vars

\* The nodes together implement one global memory: whatever nodes, names and
\* regions there are, a load or a store by any node through its mapping of region
\* r of node m acts on that cell, atomically and alone, while drivers are loaded
\* and unloaded and pages are mapped, as long as every region has an address of
\* its own.  A mmap of region 3 may make an access fail, never go elsewhere.
THEOREM ClusterImplementsGlobalMemory ==
  ASSUME RegionsFit
  PROVE  Spec => ImplementsGlobalMemory
<1>1. IInv /\ [Next]_vars => IInv'
  BY IInvStep
<1>2. IInv /\ [Next]_vars => [GM!Next]_<<cell, access>>
  BY StepRefines
<1> QED
  BY <1>1, <1>2, InitIInv, InitRefines, PTL DEF Spec, ImplementsGlobalMemory, GM!Spec, cell
=============================================================================

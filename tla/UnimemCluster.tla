---------------------------- MODULE UnimemCluster ----------------------------
(***************************************************************************)
(* Several nodes, each with its driver, its two Unimem bridges and one     *)
(* application, joined into one global address space.  A node loads its    *)
(* driver in stages, maps regions of any node, and loads and stores        *)
(* through what it mapped.  A remote access leaves through an entry of the *)
(* Unimem-TO table, travels to the node with the entry's coordinates and   *)
(* arrives at the page that slot of the node's Unimem-FROM table names.    *)
(*                                                                         *)
(* The bridges and the host's memory controller are hardware: what they do *)
(* with the tables is taken from how the driver fills them.                *)
(***************************************************************************)
EXTENDS UnimemMap, FiniteSets

CONSTANTS
  Nodes,     \* node numbers, positions in the tables of unimem_ops.c
  Regions,   \* regions the applications ask for
  Served,    \* the regions the global address space promises, 0 and 1
  Values,    \* values a page may hold
  HostName,  \* the names each node may have when its driver is loaded
  MaxMapped  \* bound: pages one application has mapped at a time

ASSUME ClusterAssumption ==
  /\ Nodes \subseteq 0..4 /\ Regions \subseteq 0..3 /\ Served \subseteq Regions \cap {0, 1}
  /\ Values # {} /\ MaxMapped \in Nat
  \* a node has its own name or one that the driver does not know
  /\ \A n \in Nodes : \A name \in HostName[n] :
       name \in HostNames /\ find_current_node(HostNumber(name)) \in {n, -1}

VARIABLES
  stage,         \* how far unimem_init has come
  CURRENT_NODE,  \* what each node takes itself to be
  enabled,       \* whether the bridges of a node pass accesses on
  to, from,      \* the two bridge tables of each node
  vma,           \* what each page of the node's application leads to
  memory,        \* what each page of each node's DRAM holds
  access         \* history: the last load or store, by the address it used

driver == <<stage, CURRENT_NODE, enabled, to, from>>
vars   == <<driver, vma, memory, access>>

-----------------------------------------------------------------------------
DramPages == {HostPage, Ddr4_0, Ddr4_2}
GvaPages  == {GVA(n, r) : n \in Nodes, r \in Regions}
Targets   == {Target(cn, n, r) : cn \in Nodes \cup {-1}, n \in Nodes, r \in Regions}

Invalid == [coordinates |-> 0, page |-> 0]

GM == INSTANCE GlobalMemory WITH
        Regions <- Served,
        cell <- [c \in Nodes \X Served |->
                   memory[c[1]][IF c[2] = 0 THEN HostPage ELSE Ddr4_0]]

TypeOK ==
  /\ stage \in [Nodes -> {"down", "enabled", "to", "from", "ready"}]
  /\ CURRENT_NODE \in [Nodes -> -1..4] /\ enabled \in [Nodes -> BOOLEAN]
  /\ to \in [Nodes -> {UnimemToTable, [i \in 0..14 |-> Invalid]}]
  /\ from \in [Nodes -> [0..2 -> {0, Region3FromPage, HostPageSeenByFpga, Ddr4_0, Ddr4_2}]]
  /\ vma \in [Nodes -> [GvaPages -> Targets \cup {NoVma}]]
  /\ memory \in [Nodes -> [DramPages -> Values]]
  /\ \E k \in {"none", "load", "store"}, c \in {<<0, 0>>} \cup Nodes \X Regions, v \in Values :
       access = GM!Access(k, c, v)

\* The machines are on; no bridge has been enabled, no table loaded.
Init ==
  /\ stage = [n \in Nodes |-> "down"]
  /\ CURRENT_NODE = [n \in Nodes |-> 0]
  /\ enabled = [n \in Nodes |-> FALSE]
  /\ to = [n \in Nodes |-> [i \in 0..14 |-> Invalid]]
  /\ from = [n \in Nodes |-> [i \in 0..2 |-> 0]]
  /\ vma = [n \in Nodes |-> [va \in GvaPages |-> NoVma]]
  /\ memory = [n \in Nodes |-> [p \in DramPages |-> GM!InitialValue]]
  /\ access = GM!NoAccess

-----------------------------------------------------------------------------
(* unimem_init: identity, the bridges enabled, Unimem-TO, Unimem-FROM, and   *)
(* only then the device file.  unimem_exit leaves the bridges as they are;   *)
(* the kernel refuses it while the device is in use.                         *)

\* The window of the slave bridge and the enable registers of both bridges are
\* written before there is anything in the tables.
EnableBridges(n) ==
  /\ stage[n] = "down"
  /\ stage' = [stage EXCEPT ![n] = "enabled"]
  /\ \E name \in HostName[n] :
       CURRENT_NODE' = [CURRENT_NODE EXCEPT ![n] = find_current_node(HostNumber(name))]
  /\ enabled' = [enabled EXCEPT ![n] = TRUE]
  /\ UNCHANGED <<to, from, vma, memory, access>>

\* Slip: the first node's coordinates in every row, as the older drivers had it.
LoadToTableOneNode(n) ==
  /\ stage[n] = "enabled"
  /\ stage' = [stage EXCEPT ![n] = "to"]
  /\ to' = [to EXCEPT ![n] = [i \in 0..14 |-> UnimemToTable[i % 3]]]
  /\ UNCHANGED <<CURRENT_NODE, enabled, from, vma, memory, access>>

LoadToTable(n) ==
  /\ stage[n] = "enabled"
  /\ stage' = [stage EXCEPT ![n] = "to"]
  /\ to' = [to EXCEPT ![n] = UnimemToTable]
  /\ UNCHANGED <<CURRENT_NODE, enabled, from, vma, memory, access>>

LoadFromTable(n) ==
  /\ stage[n] = "to"
  /\ stage' = [stage EXCEPT ![n] = "from"]
  /\ from' = [from EXCEPT ![n] = UnimemFromTable]
  /\ UNCHANGED <<CURRENT_NODE, enabled, to, vma, memory, access>>

CreateDevice(n) ==
  /\ stage[n] = "from"
  /\ stage' = [stage EXCEPT ![n] = "ready"]
  /\ UNCHANGED <<CURRENT_NODE, enabled, to, from, vma, memory, access>>

unimem_exit(n) ==
  /\ stage[n] = "ready" /\ vma[n] = [va \in GvaPages |-> NoVma]
  /\ stage' = [stage EXCEPT ![n] = "down"]
  /\ UNCHANGED <<CURRENT_NODE, enabled, to, from, vma, memory, access>>

-----------------------------------------------------------------------------
(* mmap of region r of node m by node n's application, which is alone on its *)
(* node: PASS_STRUCT and mmap are one step.                                  *)

\* Slip: both regions of DRAM programmed into slot 0.
ReprogramSlot0(n, r) ==
  CASE r = 0 -> [from[n] EXCEPT ![0] = HostPageSeenByFpga]
    [] r = 1 -> [from[n] EXCEPT ![0] = Ddr4_0]
    [] OTHER -> from[n]

\* The slot of Unimem-FROM that a local mmap programs, and with what.
Reprogram(n, r) ==
  CASE r = 0 -> [from[n] EXCEPT ![0] = HostPageSeenByFpga]
    [] r = 1 -> [from[n] EXCEPT ![1] = Ddr4_0]
    [] r = 3 -> [from[n] EXCEPT ![1] = Region3FromPage]
    [] OTHER -> from[n]

Mmap(n, m, r) ==
  /\ stage[n] = "ready"
  /\ Cardinality({va \in GvaPages : vma[n][va] # NoVma} \cup {GVA(m, r)}) <= MaxMapped
  /\ vma' = [vma EXCEPT ![n][GVA(m, r)] = Target(CURRENT_NODE[n], m, r)]
  /\ from' = [from EXCEPT ![n] = IF m = CURRENT_NODE[n] THEN Reprogram(n, r) ELSE @]
  /\ UNCHANGED <<stage, CURRENT_NODE, enabled, to, memory, access>>

\* munmap, or the end of the application.
Munmap(n, va) ==
  /\ vma[n][va] # NoVma
  /\ vma' = [vma EXCEPT ![n][va] = NoVma]
  /\ UNCHANGED <<driver, memory, access>>

-----------------------------------------------------------------------------
(* Loads and stores of the regions that the address space promises. *)

\* The DRAM page behind a page of the FPGA's address space, if there is one.
DramBehind(page) ==
  CASE page = HostPageSeenByFpga -> {HostPage}
    [] page \in {Ddr4_0, Ddr4_2} -> {page}
    [] OTHER -> {}

\* Unimem-TO of node n lets accesses out, Unimem-FROM of node m lets them in.
PassesOn(n, m) == enabled[n] /\ enabled[m]

\* Where an access through entry i of node n's Unimem-TO table arrives: at the
\* node with the entry's coordinates, in the page its Unimem-FROM slot names.
Arrives(n, i) ==
  UNION {{m} \X DramBehind(from[m][to[n][i].page % 16]) :
           m \in {k \in Nodes : /\ PassesOn(n, k)
                               /\ get_ip_coordinates(k) = to[n][i].coordinates}}

\* The places an access of node n to target t reaches; none when the page is a
\* hole, or a bridge on the way is not enabled or loaded: the access fails.
Reaches(n, t) ==
  CASE t = HostRam -> {<<n, HostPage>>}
    [] t \in {Fpga(Ddr4_0), Fpga(Ddr4_2)} -> {<<n, t.page>>}
    [] t.bar = "UNIMEM_BAR" /\ t.page >= ToBase -> Arrives(n, t.page - ToBase)
    [] OTHER -> {}

Store(n, m, r, v) ==
  /\ \E p \in Reaches(n, vma[n][GVA(m, r)]) :
       memory' = [memory EXCEPT ![p[1]][p[2]] = v]
  /\ access' = GM!Access("store", <<m, r>>, v)
  /\ UNCHANGED <<driver, vma>>

Load(n, m, r) ==
  /\ \E p \in Reaches(n, vma[n][GVA(m, r)]) :
       access' = GM!Access("load", <<m, r>>, memory[p[1]][p[2]])
  /\ UNCHANGED <<driver, vma, memory>>

Next == \E n \in Nodes :
  \/ EnableBridges(n) \/ LoadToTable(n) \/ LoadFromTable(n) \/ CreateDevice(n) \/ unimem_exit(n)
  \/ \E va \in GvaPages : Munmap(n, va)
  \/ \E m \in Nodes, r \in Regions : Mmap(n, m, r)
  \/ \E m \in Nodes, r \in Served : Load(n, m, r) \/ \E v \in Values : Store(n, m, r, v)

Spec == Init /\ [][Next]_vars

-----------------------------------------------------------------------------
(* Properties. *)

\* The nodes together implement the global memory: a load or a store by any node
\* through its mapping of region r of node m acts on that one region, wherever
\* the caller is, whatever is being mapped, loaded or unloaded meanwhile.
ImplementsGlobalMemory == GM!Spec

\* A node whose driver is ready serves its regions to the others: through any
\* other ready node's window, region r of node m arrives at the page that node m
\* itself has mapped as region r, even when it does not know its own name and
\* maps its regions through its own window.
RemoteMatchesLocal ==
  \A n, m \in Nodes, r \in Served :
    (n # m /\ stage[n] = "ready" /\ stage[m] = "ready") =>
      Reaches(n, Target(CURRENT_NODE[n], m, r)) = Reaches(m, Target(CURRENT_NODE[m], m, r))
=============================================================================

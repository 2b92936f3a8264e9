------------------------------ MODULE UnimemMap ------------------------------
(***************************************************************************)
(* The address map of the Unimem global address space, as the driver and   *)
(* its applications compute it.  Every address is counted in pages of 1 GB *)
(* (GIGABYTE, unimem_defs.h:13): the driver never maps, translates or      *)
(* programs anything smaller, so the low 30 bits of an address are an      *)
(* offset into a page and appear only where a register holds one.          *)
(***************************************************************************)
EXTENDS Integers

CONSTANT NodeStride  \* pages an application reserves per node in its GVA layout

ASSUME NodeStrideAssumption == NodeStride \in Nat \ {0}

-----------------------------------------------------------------------------
(* Addresses an application asks for. *)

GvasBase == 1024  \* UNIMEM_GVAS_BASE, 0x100_0000_0000

\* Slip: one page per node, as the other applications have it, so that region 1
\* of a node and region 0 of the next one share an address.
GVAOfOnePage(n, r) == GvasBase + n + r

\* The global virtual address of region r of node n.  simple_test.c uses three
\* pages per node; remote.c and the other applications use one.
GVA(n, r) == GvasBase + NodeStride * n + r

(* What the hardware offers. *)

Ddr4_0 == 16   \* FPGA DRAM behind UNIMEM_BAR + 0x4_0000_0000
Ddr4_2 == 48   \* FPGA DRAM behind UNIMEM_BAR + 0xC_0000_0000
ToBase == 96   \* the Unimem-TO window behind UNIMEM_BAR + 0x18_0000_0000
HostPage == 4  \* host DRAM reserved at 0x1_0000_0000, as the CPU addresses it
HostPageSeenByFpga == 268  \* 0x43_0000_0000, as the FPGA's slave bridge sees it

\* The page of the Unimem-TO window that leads to region r of node n: 'sum'.
WindowPage(n, r) == ToBase + 3 * n + r

-----------------------------------------------------------------------------
(* What a virtual page of an application may lead to. *)

Behind(bar, page) == [bar |-> bar, page |-> page]

NoVma   == Behind("no vma", 0)       \* nothing mapped at this address
Hole    == Behind("hole", 0)         \* a vma without a page behind it
HostRam == Behind("host", HostPage)
Accel0  == Behind("AXILITE_BAR", 0)  \* the registers at 0xA0000
Fpga(p) == Behind("UNIMEM_BAR", p)

\* The memory that stands behind region r of node n when node cn maps it.
Target(cn, n, r) ==
  IF n = cn
  THEN CASE r = 0 -> HostRam
         [] r = 1 -> Fpga(Ddr4_0)
         [] r = 2 -> Accel0
         [] r = 3 -> Fpga(Ddr4_2)
         [] OTHER -> Hole
  ELSE IF r \in {0, 1} THEN Fpga(WindowPage(n, r)) ELSE Hole

-----------------------------------------------------------------------------
(* Node identity: the host name gives a number, its position in mac_address *)
(* is the node's index.  The other 27 slots hold numbers no host name gives *)
(* and are left out.                                                        *)

mac_address == <<\h1621, \h1658, \h1659, \h1674, \h1680>>
ip_address  == <<\h1015, \h103A, \h103B, \h104A, \h1050>>

HostNames == {"node21", "node58", "node59", "node74", "node80", "other"}

HostNumber(name) ==
  CASE name = "node21" -> \h1621
    [] name = "node58" -> \h1658
    [] name = "node59" -> \h1659
    [] name = "node74" -> \h1674
    [] name = "node80" -> \h1680
    [] OTHER -> 0

find_current_node(address) ==
  IF \E i \in 1..5 : mac_address[i] = address
  THEN (CHOOSE i \in 1..5 : mac_address[i] = address) - 1
  ELSE -1

get_ip_coordinates(index) == ip_address[index + 1]

-----------------------------------------------------------------------------
(* The bridge tables that unimem_init loads.  An entry of Unimem-TO names    *)
(* the coordinates of a node (data1 >> 10) and the page presented there (the *)
(* address field of data3); an entry of Unimem-FROM names the page of this   *)
(* node that an incoming access reaches.                                     *)

ToCoordinates == <<\h1015, \h103A, \h103B, \h104A, \h1050>>

UnimemToTable ==
  [i \in 0..14 |-> [coordinates |-> ToCoordinates[(i \div 3) + 1],
                    page |-> 1184 + (i % 3)]]

\* Slip: the address field of data3 taken for a page, which is four times that.
UnimemFromTableOfFields == [i \in 0..2 |-> CASE i = 0 -> 4 * HostPageSeenByFpga
                                             [] i = 1 -> 4 * Ddr4_0
                                             [] i = 2 -> 4 * Ddr4_2]

UnimemFromTable == [i \in 0..2 |-> CASE i = 0 -> HostPageSeenByFpga
                                     [] i = 1 -> Ddr4_0
                                     [] i = 2 -> Ddr4_2]

\* The page mmap of local region 3 stores in slot 1: 0x80200010.
Region3FromPage == 4

-----------------------------------------------------------------------------
(* translate_and_setup_reg keeps bits 34 to 63 and bits 0 to 29 of the       *)
(* physical address: of a page number, the low four bits are lost.           *)
KeptPage(page) == (page \div 16) * 16
=============================================================================

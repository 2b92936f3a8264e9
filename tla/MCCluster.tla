----------------------------- MODULE MCCluster -----------------------------
(***************************************************************************)
(* Node 21 and node 74, positions 0 and 3 in the driver's tables, boot,    *)
(* unload and reload their drivers in any order, node 74 under its own     *)
(* name or one the driver does not know, and their applications use each   *)
(* other's host DRAM and FPGA DRAM.                                        *)
(***************************************************************************)
EXTENDS UnimemCluster

MCHostName == [n \in Nodes |-> CASE n = 0 -> {"node21"} [] n = 3 -> {"node74", "other"}]
=============================================================================

---------------------------- MODULE MCDriverShared ----------------------------
(***************************************************************************)
(* Two processes that have the device open at the same time, on node 0 of  *)
(* a cluster of two, with the GVA layout of simple_test.c (three pages per *)
(* node).  They list address registers, and may record one entry more than *)
(* the table has room for.  They set up no accelerator: ACC_SETUP changes  *)
(* nothing the properties of this run read.                                *)
(***************************************************************************)
EXTENDS UnimemDriver, TLC

CONSTANTS p1, p2

MCProcs == {p1, p2}
\* Host and FPGA DRAM of this node, host DRAM of the other.
MCWanted == {<<0, 0>>, <<0, 1>>, <<1, 0>>}
ProcSymmetry == Permutations(MCProcs)

\* A list that fills a row of two.
MCOffsets == {0, 2}
MCRegisterLists == {<<2, 2>>}
=============================================================================

----------------------------- MODULE MCEvicting -----------------------------
(***************************************************************************)
(* Node 5, "/dev/unimem_file-5", two processes that ask for its FPGA DRAM  *)
(* and region 2 and for both regions of node 1.  "working" differs from    *)
(* "main2_06_10" in the letter of PASS_STRUCT alone, which is the          *)
(* "backup" version's too.                                                 *)
(***************************************************************************)
EXTENDS EvictingDriver, TLC

MCWanted == ({5} \X {1, 2}) \cup ({1} \X {0, 1})
Symmetry == Permutations(Procs)
=============================================================================

-------------------------- MODULE MCDriverExclusive --------------------------
(***************************************************************************)
(* Two processes that open the device one after the other, on node 1.  The *)
(* one that has it maps local DRAM, an accelerator, a Unimem-TO page and a *)
(* region nobody serves, registers an address register and sets it up.     *)
(***************************************************************************)
EXTENDS UnimemDriver, TLC

CONSTANTS p1, p2

MCProcs == {p1, p2}
ProcSymmetry == Permutations(MCProcs)

\* Both banks of local FPGA DRAM, the accelerator, a page no branch serves, and
\* the first two pages of the Unimem-TO window: node 0's host and FPGA DRAM.
MCWanted == {<<1, 1>>, <<1, 2>>, <<1, 3>>, <<0, 0>>, <<0, 1>>, <<0, 2>>}

\* Register 0 is the control register, 2 and 3 hold an address.
MCOffsets == {0, 2}

MCRegisterLists == {<<2, 2>>}

Reg(o, d) == [offset |-> o, data |-> d]
In(n, r) == GVA(n, r) * LowSpan + 1

\* Addresses in local FPGA DRAM and in node 0's pages, alone, behind the
\* control register, and twice in one call.
MCSetupLists == {<<Reg(0, 1)>>, <<Reg(2, In(1, 3))>>, <<Reg(2, In(0, 1))>>,
                 <<Reg(0, 1), Reg(2, In(0, 0))>>,
                 <<Reg(2, In(0, 0)), Reg(2, In(1, 1))>>}
=============================================================================

------------------------------ MODULE MCThreads ------------------------------
(***************************************************************************)
(* Threads of a process on node 0: two that map, and users that set up and *)
(* poll an accelerator each, whose register 2 holds an address.  Their     *)
(* lists are of different lengths.                                         *)
(***************************************************************************)
EXTENDS UnimemThreads

CONSTANTS m1, m2, u1, u2

\* Local FPGA DRAM for one, host DRAM of the other node for the other.
MCWanted  == [t \in {m1, m2} |-> IF t = m1 THEN {<<0, 1>>} ELSE {<<1, 0>>}]
MCAddressRegisters == {0, 1} \X {2}
MCAccelRegisters   == {0, 1} \X {0, 2, 3}

Struct(accel, list) ==
  [accel_number |-> accel, reg_number |-> Len(list), poll_value |-> 0,
   reg_offset |-> [j \in Slots |-> IF j < Len(list) THEN list[j + 1][1] ELSE 0],
   reg_data |-> [j \in Slots |-> IF j < Len(list) THEN list[j + 1][2] ELSE 0]]

\* An address in local FPGA DRAM, and the start command; for the other only the
\* address.
Address == <<2, GVA(0, 1) * LowSpan + 1>>
Start   == <<0, 1>>
MCStructs == [u \in {u1, u2} |->
                {IF u = u1 THEN Struct(0, <<Address, Start>>) ELSE Struct(1, <<Address>>)}]

\* One sets up and the other polls, or both do either.
OneSetsUp == [u \in {u1, u2} |-> IF u = u1 THEN {"setup"} ELSE {"poll"}]
BothSetUp == [u \in {u1, u2} |-> {"setup", "poll"}]

\* Of the second mapper and the second user only one begins a call.  What they
\* have begun is not cut, so that whatever fairness promises is still there.
OneOfTheSeconds == request[m2] = NoRequest \/ call[u2] = NoStruct
=============================================================================

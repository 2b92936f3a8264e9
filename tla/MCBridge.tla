------------------------------ MODULE MCBridge ------------------------------
(***************************************************************************)
(* Threads that map memory.  OneProcess: three threads of one application, *)
(* two slots, entries that differ in both of two data words, calls that    *)
(* name a slot and calls that leave it to the bridge.  TwoProcesses: two   *)
(* applications and the calls that mmap of local regions 0 and 1 makes.    *)
(***************************************************************************)
EXTENDS ApbBridge, TLC

CONSTANTS t1, t2, t3

OneProcess   == t1 :> "app" @@ t2 :> "app" @@ t3 :> "app"
TwoProcesses == t1 :> "app" @@ t2 :> "other"

\* <<coordinates, page>>: two words stand for the five.
MCData  == {<<1, 11>>, <<2, 12>>}
MCCalls == [slots : {{0}, {1}, Slots}, entry : MCData]
MCTables == [Slots -> MCData]

\* Slot 0 leads to host DRAM, slot 1 to DDR4_0; the other words are all equal.
FromData  == {<<268>>, <<16>>}
FromCalls == {[slots |-> {0}, entry |-> <<268>>], [slots |-> {1}, entry |-> <<16>>]}
FromTables == {0 :> <<268>> @@ 1 :> <<16>>}
=============================================================================

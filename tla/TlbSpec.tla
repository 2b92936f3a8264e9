------------------------------ MODULE TlbSpec ------------------------------
(***************************************************************************)
(* What the functions of unimem_ops.h promise of a bridge's translation    *)
(* table: a call replaces one entry, as a whole, in a slot the caller      *)
(* named or, for unimemTo_replace and unimemFrom_replace, in a slot the    *)
(* bridge offers, and returns that slot; nothing else changes the table.   *)
(***************************************************************************)
CONSTANTS
  Callers, Slots, Entries,
  Calls,   \* records: the slots a call leaves open and the entry it passes
  NoCall

VARIABLES
  tlb,       \* the entry in each slot
  call,      \* what each caller asked for and has not been given yet
  returned   \* the slot each caller's last call replaced

Init == /\ tlb \in [Slots -> Entries]
        /\ call = [c \in Callers |-> NoCall]
        /\ returned \in [Callers -> Slots]

Ask(c) == /\ call[c] = NoCall
          /\ \E k \in Calls : call' = [call EXCEPT ![c] = k]
          /\ UNCHANGED <<tlb, returned>>

Replace(c) == /\ call[c] # NoCall
              /\ \E s \in call[c].slots : /\ tlb' = [tlb EXCEPT ![s] = call[c].entry]
                                          /\ returned' = [returned EXCEPT ![c] = s]
              /\ call' = [call EXCEPT ![c] = NoCall]

Next == \E c \in Callers : Ask(c) \/ Replace(c)

Spec == Init /\ [][Next]_<<tlb, call, returned>>
=============================================================================

---------------------------- MODULE GlobalMemory ----------------------------
(***************************************************************************)
(* What the Unimem global address space promises: one cell for every       *)
(* region of every node.  A store to region r of node m changes that cell  *)
(* and no other, a load of it returns what the cell holds, and nothing     *)
(* else the nodes do changes a cell.                                       *)
(***************************************************************************)
CONSTANTS Nodes, Regions, Values

VARIABLES
  cell,   \* what each region of each node holds
  access  \* the last access: what it was, to which cell, with which value

InitialValue == CHOOSE v \in Values : TRUE

Access(kind, c, v) == [kind |-> kind, cell |-> c, value |-> v]
NoAccess == Access("none", <<0, 0>>, InitialValue)

Init == /\ cell = [c \in Nodes \X Regions |-> InitialValue]
        /\ access = NoAccess

Store(c, v) == /\ cell' = [cell EXCEPT ![c] = v]
               /\ access' = Access("store", c, v)

Load(c) == /\ access' = Access("load", c, cell[c])
           /\ UNCHANGED cell

Next == \E c \in Nodes \X Regions : Load(c) \/ \E v \in Values : Store(c, v)

Spec == Init /\ [][Next]_<<cell, access>>
=============================================================================

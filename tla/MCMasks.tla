------------------------------ MODULE MCMasks ------------------------------
(***************************************************************************)
(* The addresses of the driver's pages, those of masks.c, and each single  *)
(* bit of an address; fields full, empty, as masks.c sets them, and one at *)
(* a time; a stack that is clear, full, or holds a single bit.             *)
(***************************************************************************)
EXTENDS UnimemMasks

Number(high, low) == {b + 32 : b \in BitsOf(high)} \cup BitsOf(low)

MCAddresses ==
  {AddressOf(w[1]) : w \in DriverWords} \cup {{b} : b \in {0, 29, 30, 31, 32, 47, 48, 63}}
    \cup {Number(\h2AAA0128, \h21130000) \cup {63}, 0..47, Bits64, {}}

Full == [f \in FieldNames |-> 0..Width[f] - 1]
Example ==
  [tag |-> BitsOf(\h8000001), rfu1 |-> {}, valid |-> {0}, rfu2 |-> {}, page_size |-> {0, 1},
   unimem_page_id_2 |-> BitsOf(\h9), unimem_page_id_1 |-> {0, 31},
   addr_ext |-> BitsOf(\h8001), coordinates |-> BitsOf(\h8009), context |-> BitsOf(\h8011),
   version |-> BitsOf(\h9), operation |-> BitsOf(\h81), unimem_gva |-> BitsOf(\h80009)]

MCFieldSets ==
  {Full, Example, [f \in FieldNames |-> {}]}
    \cup {[f \in FieldNames |-> IF f = g THEN Full[f] ELSE {}] : g \in FieldNames}

MCOnStack == {{}, Bits32, {18}, {20, 31}}
=============================================================================

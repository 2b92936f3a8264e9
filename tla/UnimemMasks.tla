----------------------------- MODULE UnimemMasks -----------------------------
(***************************************************************************)
(* masks/masks.c, the program with which the entries of the bridges were   *)
(* worked out: it packs the fields of a 160-bit table line, and turns an   *)
(* address into the five data words that a replace_entry call passes.      *)
(*                                                                         *)
(* A word is the set of its one-bits, so that shifts, masks and ors are    *)
(* set operations.  gen_mask ors into a local variable that nothing has    *)
(* initialised: what a call finds on the stack is a parameter of it.       *)
(***************************************************************************)
EXTENDS UnimemMap, Sequences

CONSTANTS
  Addresses,  \* addresses and AxUSER values: sets of bits of 0..63
  FieldSets,  \* values of the fields of the line
  OnStack     \* what a call of gen_mask may find: sets of bits of 0..31

Bits32 == 0..31
Bits64 == 0..63
FieldNames == {"tag", "rfu1", "valid", "rfu2", "page_size", "unimem_page_id_2",
               "unimem_page_id_1", "addr_ext", "coordinates", "context", "version",
               "operation", "unimem_gva"}

ASSUME MasksAssumption ==
  /\ Addresses \subseteq SUBSET Bits64 /\ OnStack \subseteq SUBSET Bits32
  /\ FieldSets \subseteq [FieldNames -> SUBSET Bits32]

VARIABLES
  fields,  \* the fields, as main assigned them
  line,    \* bit_63_0, bit_127_64 and bit_159_128
  usr, addr,   \* what the data words are generated from
  data     \* the words generated so far

vars == <<fields, line, usr, addr, data>>

-----------------------------------------------------------------------------
Left(x, n, word) == {b + n : b \in x} \cap word
Right(x, n)      == {b - n : b \in {c \in x : c >= n}}

\* Slip: the loop of gen_mask ends one bit early.
gen_mask_short(width, found) == found \cup 0..width - 2

gen_mask(width, found) == found \cup 0..width - 1

\* Slip: word 3 without the shift by two, as for the smaller pages.
gen_dataUnshifted(address, regID, found) ==
  Bits32 \cap CASE regID = 0 -> address \cap gen_mask(32, found)
                [] regID = 1 -> Right(address, 32)
                [] regID = 2 -> Right(address, 48)
                [] regID = 3 -> (Right(address, 30) \cap gen_mask(18, found)) \cup {21} \cup {31}
                [] OTHER -> {}

\* The data word with number regID, for pages of 1 GB.
gen_data(address, regID, found) ==
  Bits32 \cap CASE regID = 0 -> address \cap gen_mask(32, found)
                [] regID = 1 -> Right(address, 32)
                [] regID = 2 -> Right(address, 48)
                [] regID = 3 -> Left(Right(address, 30) \cap gen_mask(18, found), 2, Bits32)
                                  \cup {21} \cup {31}
                [] OTHER -> {}

-----------------------------------------------------------------------------
(* The line: fields in a 64-bit word from the right, each masked to its      *)
(* width and shifted by the widths of the fields behind it.                  *)

Width == [tag |-> 28, rfu1 |-> 4, valid |-> 1, rfu2 |-> 9, page_size |-> 2,
          unimem_page_id_2 |-> 4, unimem_page_id_1 |-> 32, addr_ext |-> 16,
          coordinates |-> 16, context |-> 16, version |-> 4, operation |-> 8,
          unimem_gva |-> 20]

\* Slip: the coordinates shifted over version and operation, not the context.
ShiftOfCoordinates32 ==
  [coordinates |-> 32, context |-> 32, version |-> 28, operation |-> 20, unimem_gva |-> 0,
   valid |-> 63, rfu2 |-> 54, page_size |-> 52, unimem_page_id_2 |-> 48,
   unimem_page_id_1 |-> 16, addr_ext |-> 0, tag |-> 32, rfu1 |-> 0]

Shift ==
  [coordinates |-> 48, context |-> 32, version |-> 28, operation |-> 20, unimem_gva |-> 0,
   valid |-> 63, rfu2 |-> 54, page_size |-> 52, unimem_page_id_2 |-> 48,
   unimem_page_id_1 |-> 16, addr_ext |-> 0, tag |-> 32, rfu1 |-> 0]

\* All three are of 64 bits in the code, the one that is named for 32 as well.
Parts == [bit_63_0 |-> {"coordinates", "context", "version", "operation", "unimem_gva"},
          bit_127_64 |-> {"valid", "rfu2", "page_size", "unimem_page_id_2",
                          "unimem_page_id_1", "addr_ext"},
          bit_159_128 |-> {"tag", "rfu1"}]

Masked(f, found) == fields[f] \cap gen_mask(Width[f], found)

NoLine == [part \in DOMAIN Parts |-> {}]

Init ==
  /\ fields \in FieldSets /\ line = NoLine
  /\ usr = {} /\ addr = {} /\ data = <<>>

\* The calls of gen_mask for the line find the same: a field that fits its width
\* comes out of its mask as it is, whatever they find.
PackLine ==
  /\ data = <<>> /\ line = NoLine
  /\ \E found \in OnStack :
       line' = [part \in DOMAIN Parts |->
                  UNION {Left(Masked(f, found), Shift[f], Bits64) : f \in Parts[part]}]
  /\ usr' \in Addresses /\ addr' \in Addresses
  /\ UNCHANGED <<fields, data>>

\* Slip: one word more than a table line has.
GenDataOneMore ==
  /\ line # NoLine /\ Len(data) <= 5
  /\ \E found \in OnStack :
       data' = Append(data, gen_data(IF Len(data) < 2 THEN usr ELSE addr, Len(data), found))
  /\ UNCHANGED <<fields, line, usr, addr>>

\* main prints words 0 and 1 of USR, then words 2, 3 and 4 of ADDR.
GenData ==
  /\ line # NoLine /\ Len(data) < 5
  /\ \E found \in OnStack :
       data' = Append(data, gen_data(IF Len(data) < 2 THEN usr ELSE addr, Len(data), found))
  /\ UNCHANGED <<fields, line, usr, addr>>

Next == PackLine \/ GenData

Spec == Init /\ [][Next]_vars

-----------------------------------------------------------------------------
(* Properties. *)

TypeOK ==
  /\ fields \in FieldSets
  /\ line \in [DOMAIN Parts -> SUBSET Bits64]
  /\ usr \in Addresses \cup {{}} /\ addr \in Addresses \cup {{}}
  /\ data \in Seq(SUBSET Bits32) /\ Len(data) <= 5

\* The layout that the notes of masks.c (48-72) give for pages of 1 GB: the
\* AxUSER signal in words 0 and 1, Addr[63:48] in word 2, {Addr[47:30], 2'b0},
\* page size, zeros and the valid bit in word 3, nothing in word 4.
Documented(regID, bit) ==
  CASE regID = 0 -> bit \in usr
    [] regID = 1 -> bit + 32 \in usr
    [] regID = 2 -> bit <= 15 /\ bit + 48 \in addr
    [] regID = 3 -> \/ bit \in 2..19 /\ bit + 28 \in addr
                    \/ bit \in {21, 31}
    [] OTHER -> FALSE

\* What the notes do not have: where the page size and the zeros stand in word 3,
\* a bit of Addr[58:48], if gen_mask may find that bit of its mask set.
LetThrough(regID, bit) ==
  /\ regID = 3 /\ bit \in 20..30 /\ bit + 28 \in addr
  /\ \E found \in OnStack : bit - 2 \in found

\* Every word has all that the notes give it, of any address, and nothing else but
\* in word 3 what an uninitialised mask lets through.  The address of masks.c
\* itself (line 74) has such bits; addresses of 48 bits have none.
LayoutKept ==
  \A k \in 1..Len(data), bit \in Bits32 :
    /\ Documented(k - 1, bit) => bit \in data[k]
    /\ bit \in data[k] => Documented(k - 1, bit) \/ LetThrough(k - 1, bit)

\* Bits of a number below 2^31.
BitsOf(n) == {b \in 0..30 : (n \div 2^b) % 2 = 1}

\* The pages that the driver's tables name and the constants that it passes as
\* data3, without the valid bit (unimem_main2.c:276,289,314,722-743).
DriverWords ==
  {<<HostPageSeenByFpga, \h200430>>, <<Ddr4_0, \h200040>>, <<Ddr4_2, \h2000C0>>,
   <<Region3FromPage, \h200010>>, <<UnimemToTable[0].page, \h201280>>,
   <<UnimemToTable[1].page, \h201284>>, <<UnimemToTable[2].page, \h201288>>}

AddressOf(page) == {b + 30 : b \in BitsOf(page)}

\* The driver's constants are what this program generates for the pages that
\* UnimemMap reads out of them: both sides agree where the page number stands.
DriverWordsGenerated ==
  \A w \in DriverWords :
    (addr = AddressOf(w[1]) /\ Len(data) >= 4) => data[4] = BitsOf(w[2]) \cup {31}

\* The 160 bits of a table line ("TC line", masks.c:7): the three parts one behind
\* the other, each from the bit it is named for.
At == [bit_63_0 |-> 0, bit_127_64 |-> 64, bit_159_128 |-> 128]
WholeLine == UNION {Left(line[part], At[part], 0..159) : part \in DOMAIN Parts}

\* Where a field is expected in it: before the fields that are declared after it
\* (masks.c:9-24), which is also where the notes (63-70) see valid, page size and
\* the zeros.
Place == [tag |-> 132, rfu1 |-> 128, valid |-> 127, rfu2 |-> 118, page_size |-> 116,
          unimem_page_id_2 |-> 112, unimem_page_id_1 |-> 80, addr_ext |-> 64,
          coordinates |-> 48, context |-> 32, version |-> 28, operation |-> 20,
          unimem_gva |-> 0]

\* The line can be taken apart again: at the place its width gives it, each field
\* but one finds its own value, so that none overlaps another, is displaced or is
\* cut off.  The one is tag: shifted by its own width too (masks.c:207), it stands
\* behind the 160 bits.
FieldsApart ==
  line # NoLine =>
    \A f \in FieldNames \ {"tag"} :
      Right(WholeLine \cap Place[f]..Place[f] + Width[f] - 1, Place[f]) = fields[f]
=============================================================================

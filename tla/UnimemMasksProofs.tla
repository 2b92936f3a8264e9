------------------------- MODULE UnimemMasksProofs -------------------------
(***************************************************************************)
(* The mask generator for every address, every value of the fields and     *)
(* everything that gen_mask may find on the stack.                         *)
(***************************************************************************)
EXTENDS UnimemMasks, SequenceTheorems, TLAPS

-----------------------------------------------------------------------------
(* Types. *)

\* A generated word has 32 bits.
LEMMA WordTypes ==
  ASSUME NEW a, NEW k, NEW found
  PROVE  gen_data(a, k, found) \in SUBSET Bits32
BY DEF gen_data

\* One word more at the end.
LEMMA Appended ==
  ASSUME data \in Seq(SUBSET Bits32), NEW w \in SUBSET Bits32, data' = Append(data, w)
  PROVE  /\ data' \in Seq(SUBSET Bits32) /\ Len(data) \in Nat /\ Len(data') = Len(data) + 1
         /\ data'[Len(data) + 1] = w
         /\ \A k \in 1..Len(data) : data'[k] = data[k]
BY AppendProperties, LenProperties

LEMMA InitTypes == Init => TypeOK
<1> SUFFICES ASSUME Init PROVE TypeOK
  OBVIOUS
<1>1. line \in [DOMAIN Parts -> SUBSET Bits64]
  BY DEF Init, NoLine
<1>2. data \in Seq(SUBSET Bits32) /\ Len(data) = 0
  BY EmptySeq DEF Init
<1> QED
  BY <1>1, <1>2 DEF Init, TypeOK

LEMMA StepTypes == TypeOK /\ [Next]_vars => TypeOK'
<1> SUFFICES ASSUME TypeOK, [Next]_vars PROVE TypeOK'
  OBVIOUS
<1>1. CASE PackLine
  <2>1. line' \in [DOMAIN Parts -> SUBSET Bits64]
    <3>1. PICK found \in OnStack :
            line' = [part \in DOMAIN Parts |->
                       UNION {Left(Masked(f, found), Shift[f], Bits64) : f \in Parts[part]}]
      BY <1>1 DEF PackLine
    <3>2. \A x, n : Left(x, n, Bits64) \subseteq Bits64
      BY DEF Left
    <3>3. ASSUME NEW part \in DOMAIN Parts
          PROVE  UNION {Left(Masked(f, found), Shift[f], Bits64) : f \in Parts[part]}
                   \in SUBSET Bits64
      BY <3>2
    <3> QED
      BY <3>1, <3>3
  <2> QED
    BY <1>1, <2>1 DEF PackLine, TypeOK
<1>2. CASE GenData
  <2>1. PICK w \in SUBSET Bits32 : data' = Append(data, w)
    BY <1>2, WordTypes DEF GenData
  <2>2. data' \in Seq(SUBSET Bits32) /\ Len(data') = Len(data) + 1 /\ Len(data) \in Nat
    BY <2>1, Appended DEF TypeOK
  <2> QED
    BY <1>2, <2>2 DEF GenData, TypeOK
<1>3. CASE UNCHANGED vars
  BY <1>3 DEF vars, TypeOK
<1> QED
  BY <1>1, <1>2, <1>3 DEF Next

\* Lines and data words have the bits of their words, and there are at most five
\* data words.
THEOREM MasksTypeCorrect == Spec => []TypeOK
BY InitTypes, StepTypes, PTL DEF Spec

-----------------------------------------------------------------------------
(* The data words. *)

\* Each word is made of its part of the signal or the address; in word 3 what
\* gen_mask found lets more of the address through.
LEMMA WordLayout ==
  ASSUME usr \subseteq Bits64, addr \subseteq Bits64, NEW regID \in 0..4,
         NEW found \in OnStack, NEW bit \in Bits32
  PROVE  LET w == gen_data(IF regID < 2 THEN usr ELSE addr, regID, found) IN
         /\ Documented(regID, bit) => bit \in w
         /\ bit \in w => Documented(regID, bit) \/ LetThrough(regID, bit)
<1> USE DEF gen_data, gen_mask, Documented, LetThrough, Right, Left, Bits32, Bits64
<1>1. CASE regID = 0
  BY <1>1
<1>2. CASE regID = 1
  BY <1>2
<1>3. CASE regID = 2
  BY <1>3
<1>4. CASE regID = 3
  <2> DEFINE kept == Right(addr, 30) \cap gen_mask(18, found)
  <2>1. \A c \in Int : c \in kept <=> (c \in 0..17 \/ c \in found) /\ c >= 0 /\ c + 30 \in addr
    OBVIOUS
  <2>2. \A c \in kept : c \in Int
    OBVIOUS
  <2>3. bit \in gen_data(addr, 3, found) <=> bit \in Left(kept, 2, Bits32) \/ bit \in {21, 31}
    OBVIOUS
  <2> HIDE DEF kept
  <2>4. bit \in Left(kept, 2, Bits32) <=> bit - 2 \in kept
    BY <2>2
  <2>5. bit - 2 \in kept <=>
          (bit - 2 \in 0..17 \/ bit - 2 \in found) /\ bit >= 2 /\ bit + 28 \in addr
    BY <2>1
  <2>6. bit - 2 \in 0..17 <=> bit \in 2..19
    OBVIOUS
  <2>7. bit \in 2..19 \/ bit \in 20..30 \/ bit = 31 \/ bit < 2
    OBVIOUS
  <2> QED
    BY <1>4, <2>3, <2>4, <2>5, <2>6, <2>7
<1>5. CASE regID = 4
  BY <1>5
<1> QED
  BY <1>1, <1>2, <1>3, <1>4, <1>5

\* Of every AxUSER value and every address, the words have what the notes of
\* masks.c give them, and in word 3 at most those bits of Addr[58:48] that some mask
\* lets through.
THEOREM LayoutOfWords == Spec => []LayoutKept
<1> DEFINE Laid(k, bit) ==
      /\ Documented(k - 1, bit) => bit \in data[k]
      /\ bit \in data[k] => Documented(k - 1, bit) \/ LetThrough(k - 1, bit)
<1>1. Init => LayoutKept
  BY DEF Init, LayoutKept
<1>2. TypeOK /\ LayoutKept /\ [Next]_vars => LayoutKept'
  <2> SUFFICES ASSUME TypeOK, LayoutKept, [Next]_vars,
                      NEW k \in 1..Len(data'), NEW bit \in Bits32
               PROVE  Laid(k, bit)'
    BY DEF LayoutKept
  <2>1. CASE PackLine
    BY <2>1, EmptySeq DEF PackLine
  <2>2. CASE GenData
    <3>1. /\ UNCHANGED <<usr, addr>> /\ Documented(k - 1, bit)' = Documented(k - 1, bit)
          /\ LetThrough(k - 1, bit)' = LetThrough(k - 1, bit)
      BY <2>2 DEF GenData, Documented, LetThrough
    <3>2. PICK found \in OnStack :
            data' = Append(data, gen_data(IF Len(data) < 2 THEN usr ELSE addr, Len(data), found))
      BY <2>2 DEF GenData
    <3> DEFINE w == gen_data(IF Len(data) < 2 THEN usr ELSE addr, Len(data), found)
    <3>3. /\ Len(data) \in Nat /\ Len(data') = Len(data) + 1 /\ data'[Len(data) + 1] = w
          /\ \A j \in 1..Len(data) : data'[j] = data[j]
      BY <3>2, WordTypes, Appended DEF TypeOK
    <3>4. CASE k \in 1..Len(data)
      BY <3>1, <3>3, <3>4 DEF LayoutKept
    <3>5. CASE k = Len(data) + 1
      <4>1. Len(data) \in 0..4
        <5>1. Len(data) < 5
          BY <2>2 DEF GenData
        <5>2. Len(data) \in Nat
          BY <3>3
        <5>3. \A n \in Nat : n < 5 => n \in 0..4
          OBVIOUS
        <5> QED
          BY <5>1, <5>2, <5>3
      <4>2. usr \subseteq Bits64 /\ addr \subseteq Bits64
        <5>1. (usr \in Addresses \/ usr = {}) /\ (addr \in Addresses \/ addr = {})
          BY DEF TypeOK
        <5> QED
          BY <5>1, MasksAssumption
      <4>4. /\ Documented(Len(data), bit) => bit \in w
            /\ bit \in w => Documented(Len(data), bit) \/ LetThrough(Len(data), bit)
        BY <4>1, <4>2, WordLayout
      <4>5. k - 1 = Len(data)
        BY <3>3, <3>5
      <4> QED
        BY <3>1, <3>3, <3>5, <4>4, <4>5
    <3> QED
      BY <3>3, <3>4, <3>5
  <2>3. CASE UNCHANGED vars
    BY <2>3 DEF vars, LayoutKept, Documented, LetThrough
  <2> QED
    BY <2>1, <2>2, <2>3 DEF Next
<1> QED
  BY <1>1, <1>2, InitTypes, StepTypes, PTL DEF Spec

-----------------------------------------------------------------------------
(* The driver's constants. *)

Digit(n, b) == (n \div 2^b) % 2

Digits(n) ==
  << Digit(n, 0), Digit(n, 1), Digit(n, 2), Digit(n, 3), Digit(n, 4), Digit(n, 5),
     Digit(n, 6), Digit(n, 7), Digit(n, 8), Digit(n, 9), Digit(n, 10), Digit(n, 11),
     Digit(n, 12), Digit(n, 13), Digit(n, 14), Digit(n, 15), Digit(n, 16), Digit(n, 17),
     Digit(n, 18), Digit(n, 19), Digit(n, 20), Digit(n, 21), Digit(n, 22), Digit(n, 23),
     Digit(n, 24), Digit(n, 25), Digit(n, 26), Digit(n, 27), Digit(n, 28), Digit(n, 29),
     Digit(n, 30) >>

\* The places of a word, one by one.
LEMMA Places ==
  \A b \in 0..30 : b \in {0, 1, 2, 3, 4, 5, 6, 7, 8, 9, 10, 11, 12, 13, 14, 15, 16, 17, 18,
                          19, 20, 21, 22, 23, 24, 25, 26, 27, 28, 29, 30}
OBVIOUS

LEMMA DigitAt ==
  ASSUME NEW n, NEW b \in 0..30
  PROVE  Digit(n, b) = Digits(n)[b + 1]
BY Places DEF Digits

\* A number's bits are where its digits are 1.
LEMMA BitsAreDigits ==
  ASSUME NEW n
  PROVE  BitsOf(n) = {b \in 0..30 : Digits(n)[b + 1] = 1}
<1>1. BitsOf(n) = {b \in 0..30 : Digit(n, b) = 1}
  BY DEF BitsOf, Digit
<1> QED
  BY <1>1, DigitAt

\* The pages that the driver's tables name.
LEMMA PageBits ==
  /\ BitsOf(268) = {2, 3, 8}
  /\ BitsOf(16) = {4}
  /\ BitsOf(48) = {4, 5}
  /\ BitsOf(4) = {2}
  /\ BitsOf(1184) = {5, 7, 10}
  /\ BitsOf(1185) = {0, 5, 7, 10}
  /\ BitsOf(1186) = {1, 5, 7, 10}
<1>1. BitsOf(268) = {2, 3, 8}
  <2>1. Digits(268) =
         <<0,0,1,1,0,0,0,0,1,0,0,0,0,0,0,0,0,0,0,0,0,0,0,0,0,0,0,0,0,0,0>>
    BY DEF Digits, Digit
  <2>2. \A b \in 0..30 : Digits(268)[b + 1] = 1 <=> b \in {2, 3, 8}
    BY <2>1, Places
  <2> QED
    BY <2>2, BitsAreDigits
<1>2. BitsOf(16) = {4}
  <2>1. Digits(16) =
         <<0,0,0,0,1,0,0,0,0,0,0,0,0,0,0,0,0,0,0,0,0,0,0,0,0,0,0,0,0,0,0>>
    BY DEF Digits, Digit
  <2>2. \A b \in 0..30 : Digits(16)[b + 1] = 1 <=> b \in {4}
    BY <2>1, Places
  <2> QED
    BY <2>2, BitsAreDigits
<1>3. BitsOf(48) = {4, 5}
  <2>1. Digits(48) =
         <<0,0,0,0,1,1,0,0,0,0,0,0,0,0,0,0,0,0,0,0,0,0,0,0,0,0,0,0,0,0,0>>
    BY DEF Digits, Digit
  <2>2. \A b \in 0..30 : Digits(48)[b + 1] = 1 <=> b \in {4, 5}
    BY <2>1, Places
  <2> QED
    BY <2>2, BitsAreDigits
<1>4. BitsOf(4) = {2}
  <2>1. Digits(4) =
         <<0,0,1,0,0,0,0,0,0,0,0,0,0,0,0,0,0,0,0,0,0,0,0,0,0,0,0,0,0,0,0>>
    BY DEF Digits, Digit
  <2>2. \A b \in 0..30 : Digits(4)[b + 1] = 1 <=> b \in {2}
    BY <2>1, Places
  <2> QED
    BY <2>2, BitsAreDigits
<1>5. BitsOf(1184) = {5, 7, 10}
  <2>1. Digits(1184) =
         <<0,0,0,0,0,1,0,1,0,0,1,0,0,0,0,0,0,0,0,0,0,0,0,0,0,0,0,0,0,0,0>>
    BY DEF Digits, Digit
  <2>2. \A b \in 0..30 : Digits(1184)[b + 1] = 1 <=> b \in {5, 7, 10}
    BY <2>1, Places
  <2> QED
    BY <2>2, BitsAreDigits
<1>6. BitsOf(1185) = {0, 5, 7, 10}
  <2>1. Digits(1185) =
         <<1,0,0,0,0,1,0,1,0,0,1,0,0,0,0,0,0,0,0,0,0,0,0,0,0,0,0,0,0,0,0>>
    BY DEF Digits, Digit
  <2>2. \A b \in 0..30 : Digits(1185)[b + 1] = 1 <=> b \in {0, 5, 7, 10}
    BY <2>1, Places
  <2> QED
    BY <2>2, BitsAreDigits
<1>7. BitsOf(1186) = {1, 5, 7, 10}
  <2>1. Digits(1186) =
         <<0,1,0,0,0,1,0,1,0,0,1,0,0,0,0,0,0,0,0,0,0,0,0,0,0,0,0,0,0,0,0>>
    BY DEF Digits, Digit
  <2>2. \A b \in 0..30 : Digits(1186)[b + 1] = 1 <=> b \in {1, 5, 7, 10}
    BY <2>1, Places
  <2> QED
    BY <2>2, BitsAreDigits
<1> QED
  BY <1>1, <1>2, <1>3, <1>4, <1>5, <1>6, <1>7

\* The constants that the driver passes as data3, under names: the provers take
\* their digits once and the numbers no more.
HostWord == \h200430
Ddr4_0Word == \h200040
Ddr4_2Word == \h2000C0
Region3Word == \h200010
To0Word == \h201280
To1Word == \h201284
To2Word == \h201288

LEMMA ConstantBits ==
  /\ BitsOf(HostWord) = {4, 5, 10, 21}
  /\ BitsOf(Ddr4_0Word) = {6, 21}
  /\ BitsOf(Ddr4_2Word) = {6, 7, 21}
  /\ BitsOf(Region3Word) = {4, 21}
  /\ BitsOf(To0Word) = {7, 9, 12, 21}
  /\ BitsOf(To1Word) = {2, 7, 9, 12, 21}
  /\ BitsOf(To2Word) = {3, 7, 9, 12, 21}
<1>1. BitsOf(HostWord) = {4, 5, 10, 21}
  <2>1. Digits(HostWord) =
         <<0,0,0,0,1,1,0,0,0,0,1,0,0,0,0,0,0,0,0,0,0,1,0,0,0,0,0,0,0,0,0>>
    BY SMT DEF Digits, Digit, HostWord
  <2>2. \A b \in 0..30 : Digits(HostWord)[b + 1] = 1 <=> b \in {4, 5, 10, 21}
    BY <2>1, Places
  <2> QED
    BY <2>2, BitsAreDigits
<1>2. BitsOf(Ddr4_0Word) = {6, 21}
  <2>1. Digits(Ddr4_0Word) =
         <<0,0,0,0,0,0,1,0,0,0,0,0,0,0,0,0,0,0,0,0,0,1,0,0,0,0,0,0,0,0,0>>
    BY SMT DEF Digits, Digit, Ddr4_0Word
  <2>2. \A b \in 0..30 : Digits(Ddr4_0Word)[b + 1] = 1 <=> b \in {6, 21}
    BY <2>1, Places
  <2> QED
    BY <2>2, BitsAreDigits
<1>3. BitsOf(Ddr4_2Word) = {6, 7, 21}
  <2>1. Digits(Ddr4_2Word) =
         <<0,0,0,0,0,0,1,1,0,0,0,0,0,0,0,0,0,0,0,0,0,1,0,0,0,0,0,0,0,0,0>>
    BY SMT DEF Digits, Digit, Ddr4_2Word
  <2>2. \A b \in 0..30 : Digits(Ddr4_2Word)[b + 1] = 1 <=> b \in {6, 7, 21}
    BY <2>1, Places
  <2> QED
    BY <2>2, BitsAreDigits
<1>4. BitsOf(Region3Word) = {4, 21}
  <2>1. Digits(Region3Word) =
         <<0,0,0,0,1,0,0,0,0,0,0,0,0,0,0,0,0,0,0,0,0,1,0,0,0,0,0,0,0,0,0>>
    BY SMT DEF Digits, Digit, Region3Word
  <2>2. \A b \in 0..30 : Digits(Region3Word)[b + 1] = 1 <=> b \in {4, 21}
    BY <2>1, Places
  <2> QED
    BY <2>2, BitsAreDigits
<1>5. BitsOf(To0Word) = {7, 9, 12, 21}
  <2>1. Digits(To0Word) =
         <<0,0,0,0,0,0,0,1,0,1,0,0,1,0,0,0,0,0,0,0,0,1,0,0,0,0,0,0,0,0,0>>
    BY SMT DEF Digits, Digit, To0Word
  <2>2. \A b \in 0..30 : Digits(To0Word)[b + 1] = 1 <=> b \in {7, 9, 12, 21}
    BY <2>1, Places
  <2> QED
    BY <2>2, BitsAreDigits
<1>6. BitsOf(To1Word) = {2, 7, 9, 12, 21}
  <2>1. Digits(To1Word) =
         <<0,0,1,0,0,0,0,1,0,1,0,0,1,0,0,0,0,0,0,0,0,1,0,0,0,0,0,0,0,0,0>>
    BY SMT DEF Digits, Digit, To1Word
  <2>2. \A b \in 0..30 : Digits(To1Word)[b + 1] = 1 <=> b \in {2, 7, 9, 12, 21}
    BY <2>1, Places
  <2> QED
    BY <2>2, BitsAreDigits
<1>7. BitsOf(To2Word) = {3, 7, 9, 12, 21}
  <2>1. Digits(To2Word) =
         <<0,0,0,1,0,0,0,1,0,1,0,0,1,0,0,0,0,0,0,0,0,1,0,0,0,0,0,0,0,0,0>>
    BY SMT DEF Digits, Digit, To2Word
  <2>2. \A b \in 0..30 : Digits(To2Word)[b + 1] = 1 <=> b \in {3, 7, 9, 12, 21}
    BY <2>1, Places
  <2> QED
    BY <2>2, BitsAreDigits
<1> QED
  BY <1>1, <1>2, <1>3, <1>4, <1>5, <1>6, <1>7

\* In word 3 the page number stands two places further left than in itself.
LEMMA PageInWord ==
  ASSUME NEW page, BitsOf(page) \subseteq 0..17, NEW bit \in Bits32
  PROVE  /\ AddressOf(page) \subseteq 0..47
         /\ bit \in 2..19 /\ bit + 28 \in AddressOf(page) <=> bit - 2 \in BitsOf(page)
<1>1. AddressOf(page) \subseteq 0..47
  BY DEF AddressOf
<1>2. bit + 28 \in AddressOf(page) <=> bit - 2 \in BitsOf(page)
  BY DEF AddressOf, Bits32
<1>3. bit - 2 \in BitsOf(page) => bit \in 2..19
  BY DEF Bits32
<1> QED
  BY <1>1, <1>2, <1>3

\* What masks.c generates for a page of the driver is what the driver passes: the
\* page, and the page size of 1 GB at place 21.
LEMMA DriverWordLayout ==
  ASSUME NEW w \in DriverWords, NEW bit \in Bits32
  PROVE  /\ AddressOf(w[1]) \subseteq 0..47
         /\ (bit \in 2..19 /\ bit + 28 \in AddressOf(w[1])) \/ bit \in {21, 31}
              <=> bit \in BitsOf(w[2]) \cup {31}
<1> SUFFICES /\ BitsOf(w[1]) \subseteq 0..17
             /\ bit - 2 \in BitsOf(w[1]) \/ bit = 21 <=> bit \in BitsOf(w[2])
  BY PageInWord
<1>1. DriverWords = {<<268, HostWord>>, <<16, Ddr4_0Word>>, <<48, Ddr4_2Word>>,
                     <<4, Region3Word>>, <<1184, To0Word>>, <<1185, To1Word>>,
                     <<1186, To2Word>>}
  <2>1. /\ UnimemToTable[0].page = 1184 /\ UnimemToTable[1].page = 1185
        /\ UnimemToTable[2].page = 1186
    BY DEF UnimemToTable
  <2> QED
    BY SMT, <2>1 DEF DriverWords, HostPageSeenByFpga, Ddr4_0, Ddr4_2, Region3FromPage,
       HostWord, Ddr4_0Word, Ddr4_2Word, Region3Word, To0Word, To1Word, To2Word
<1>2. CASE w = <<268, HostWord>>
  <2>1. BitsOf(w[1]) = {2, 3, 8} /\ BitsOf(w[2]) = {4, 5, 10, 21}
    BY <1>2, PageBits, ConstantBits
  <2> QED
    BY <2>1 DEF Bits32
<1>3. CASE w = <<16, Ddr4_0Word>>
  <2>1. BitsOf(w[1]) = {4} /\ BitsOf(w[2]) = {6, 21}
    BY <1>3, PageBits, ConstantBits
  <2> QED
    BY <2>1 DEF Bits32
<1>4. CASE w = <<48, Ddr4_2Word>>
  <2>1. BitsOf(w[1]) = {4, 5} /\ BitsOf(w[2]) = {6, 7, 21}
    BY <1>4, PageBits, ConstantBits
  <2> QED
    BY <2>1 DEF Bits32
<1>5. CASE w = <<4, Region3Word>>
  <2>1. BitsOf(w[1]) = {2} /\ BitsOf(w[2]) = {4, 21}
    BY <1>5, PageBits, ConstantBits
  <2> QED
    BY <2>1 DEF Bits32
<1>6. CASE w = <<1184, To0Word>>
  <2>1. BitsOf(w[1]) = {5, 7, 10} /\ BitsOf(w[2]) = {7, 9, 12, 21}
    BY <1>6, PageBits, ConstantBits
  <2> QED
    BY <2>1 DEF Bits32
<1>7. CASE w = <<1185, To1Word>>
  <2>1. BitsOf(w[1]) = {0, 5, 7, 10} /\ BitsOf(w[2]) = {2, 7, 9, 12, 21}
    BY <1>7, PageBits, ConstantBits
  <2> QED
    BY <2>1 DEF Bits32
<1>8. CASE w = <<1186, To2Word>>
  <2>1. BitsOf(w[1]) = {1, 5, 7, 10} /\ BitsOf(w[2]) = {3, 7, 9, 12, 21}
    BY <1>8, PageBits, ConstantBits
  <2> QED
    BY <2>1 DEF Bits32
<1> QED
  BY <1>1, <1>2, <1>3, <1>4, <1>5, <1>6, <1>7, <1>8

\* For the pages that the driver's tables name the program generates, whatever it
\* finds on the stack, the very constants that unimem_init and mmap pass.
THEOREM DriverConstantsGenerated == Spec => []DriverWordsGenerated
<1>1. TypeOK /\ LayoutKept => DriverWordsGenerated
  <2> SUFFICES ASSUME TypeOK, LayoutKept, NEW w \in DriverWords, addr = AddressOf(w[1]),
                      Len(data) >= 4
               PROVE  data[4] = BitsOf(w[2]) \cup {31}
    BY DEF DriverWordsGenerated
  <2>1. 4 \in 1..Len(data) /\ data[4] \in SUBSET Bits32
    <3>1. data \in Seq(SUBSET Bits32) /\ Len(data) \in Nat
      BY LenProperties DEF TypeOK
    <3>2. \A n \in Nat : n >= 4 => 4 \in 1..n
      OBVIOUS
    <3>3. 4 \in 1..Len(data)
      BY <3>1, <3>2
    <3> QED
      BY <3>1, <3>3, ElementOfSeq
  <2>2. addr \subseteq 0..47
    <3>1. 0 \in Bits32
      BY DEF Bits32
    <3> QED
      BY <3>1, DriverWordLayout
  <2>3. ASSUME NEW bit \in Bits32 PROVE bit \in data[4] <=> bit \in BitsOf(w[2]) \cup {31}
    <3>1. bit \in data[4] <=> Documented(3, bit)
      <4>1. 4 - 1 = 3
        OBVIOUS
      <4>2. ~LetThrough(3, bit)
        <5>1. \A b \in 20..30 : b + 28 \notin 0..47
          OBVIOUS
        <5> QED
          BY <5>1, <2>2 DEF LetThrough
      <4>3. /\ Documented(4 - 1, bit) => bit \in data[4]
            /\ bit \in data[4] => Documented(4 - 1, bit) \/ LetThrough(4 - 1, bit)
        BY <2>1 DEF LayoutKept
      <4> QED
        BY <4>1, <4>2, <4>3
    <3>2. Documented(3, bit) <=> (bit \in 2..19 /\ bit + 28 \in addr) \/ bit \in {21, 31}
      BY DEF Documented
    <3> QED
      BY <3>1, <3>2, DriverWordLayout
  <2>4. BitsOf(w[2]) \cup {31} \subseteq Bits32
    BY DEF BitsOf, Bits32
  <2> QED
    BY <2>1, <2>3, <2>4
<1>2. Spec => []TypeOK
  BY MasksTypeCorrect
<1> QED
  BY <1>1, <1>2, LayoutOfWords, PTL

-----------------------------------------------------------------------------
(* The line. *)

\* Every field has the width it is packed with.
FieldsFit ==
  \A given \in FieldSets : \A f \in FieldNames : given[f] \subseteq 0..Width[f] - 1

\* Where each field is put: at its place, but tag behind the line.
Standing == [Place EXCEPT !.tag = 160]

\* The places are those that the widths give: each field stands before those
\* declared after it, and all together have the width of the line.
LEMMA PlacesOfWidths ==
  /\ Place.unimem_gva = 0 /\ Place.operation = Place.unimem_gva + Width.unimem_gva
  /\ Place.version = Place.operation + Width.operation
  /\ Place.context = Place.version + Width.version
  /\ Place.coordinates = Place.context + Width.context
  /\ Place.addr_ext = Place.coordinates + Width.coordinates
  /\ Place.unimem_page_id_1 = Place.addr_ext + Width.addr_ext
  /\ Place.unimem_page_id_2 = Place.unimem_page_id_1 + Width.unimem_page_id_1
  /\ Place.page_size = Place.unimem_page_id_2 + Width.unimem_page_id_2
  /\ Place.rfu2 = Place.page_size + Width.page_size
  /\ Place.valid = Place.rfu2 + Width.rfu2
  /\ Place.rfu1 = Place.valid + Width.valid
  /\ Place.tag = Place.rfu1 + Width.rfu1 /\ Place.tag + Width.tag = 160
BY DEF Place, Width

\* The shifts put every field there, inside its part.
LEMMA StandingOf ==
  ASSUME NEW part \in DOMAIN Parts, NEW f \in Parts[part]
  PROVE  /\ f \in FieldNames /\ Shift[f] \in Nat /\ Width[f] \in Nat /\ At[part] \in Nat
         /\ Shift[f] + Width[f] <= 64 /\ At[part] + Shift[f] = Standing[f]
<1> USE DEF Parts, Shift, Width, FieldNames, At, Standing, Place
<1>1. CASE part = "bit_63_0"
  BY <1>1
<1>2. CASE part = "bit_127_64"
  BY <1>2
<1>3. CASE part = "bit_159_128"
  BY <1>3
<1> QED
  BY <1>1, <1>2, <1>3

LEMMA SomePart ==
  ASSUME NEW f \in FieldNames
  PROVE  \E part \in DOMAIN Parts : f \in Parts[part]
BY DEF FieldNames, Parts

\* No two fields stand over each other, and all but tag stand in the line.
LEMMA StandingApart ==
  ASSUME NEW f \in FieldNames
  PROVE  /\ Standing[f] \in Nat /\ Width[f] \in Nat
         /\ f # "tag" => Standing[f] = Place[f] /\ Standing[f] + Width[f] <= 160
         /\ \A g \in FieldNames : g # f => \/ Standing[f] + Width[f] <= Standing[g]
                                           \/ Standing[g] + Width[g] <= Standing[f]
BY DEF FieldNames, Standing, Place, Width

\* The mask keeps a field that has its width, whatever gen_mask found.
LEMMA FieldKept ==
  ASSUME NEW f, NEW found, fields[f] \subseteq 0..Width[f] - 1
  PROVE  Masked(f, found) = fields[f]
BY DEF Masked, gen_mask

\* The fields are unmasked in their parts.
Packed ==
  \A part \in DOMAIN Parts :
    line[part] = UNION {Left(fields[f], Shift[f], Bits64) : f \in Parts[part]}

\* A bit of the line is a bit of the field that stands there.
LEMMA LineBits ==
  ASSUME Packed, \A f \in FieldNames : fields[f] \subseteq 0..Width[f] - 1
  PROVE  /\ \A f \in FieldNames : \A b \in fields[f] :
              b + Standing[f] \in 0..159 => b + Standing[f] \in WholeLine
         /\ \A c \in WholeLine : \E f \in FieldNames : \E b \in fields[f] : c = b + Standing[f]
<1>1. ASSUME NEW f \in FieldNames, NEW b \in fields[f], b + Standing[f] \in 0..159
      PROVE  b + Standing[f] \in WholeLine
  <2>1. PICK part \in DOMAIN Parts : f \in Parts[part]
    BY SomePart
  <2>2. /\ Shift[f] \in Nat /\ Width[f] \in Nat /\ At[part] \in Nat
        /\ Shift[f] + Width[f] <= 64 /\ At[part] + Shift[f] = Standing[f]
    BY <2>1, StandingOf
  <2>3. b \in 0..Width[f] - 1
    OBVIOUS
  <2>4. b + Shift[f] \in Left(fields[f], Shift[f], Bits64)
    BY <2>2, <2>3 DEF Left, Bits64
  <2>5. b + Shift[f] \in line[part]
    BY <2>1, <2>4 DEF Packed
  <2>6. (b + Shift[f]) + At[part] = b + Standing[f]
    BY <2>2, <2>3
  <2>7. b + Standing[f] \in Left(line[part], At[part], 0..159)
    BY <1>1, <2>5, <2>6 DEF Left
  <2> QED
    BY <2>1, <2>7 DEF WholeLine
<1>2. ASSUME NEW c \in WholeLine
      PROVE  \E f \in FieldNames : \E b \in fields[f] : c = b + Standing[f]
  <2>1. PICK part \in DOMAIN Parts : c \in Left(line[part], At[part], 0..159)
    BY DEF WholeLine
  <2>2. PICK d \in line[part] : c = d + At[part]
    BY <2>1 DEF Left
  <2>3. PICK f \in Parts[part] : d \in Left(fields[f], Shift[f], Bits64)
    BY <2>1, <2>2 DEF Packed
  <2>4. PICK b \in fields[f] : d = b + Shift[f]
    BY <2>3 DEF Left
  <2>5. /\ f \in FieldNames /\ Shift[f] \in Nat /\ Width[f] \in Nat /\ At[part] \in Nat
        /\ At[part] + Shift[f] = Standing[f]
    BY <2>1, <2>3, StandingOf
  <2>6. b \in 0..Width[f] - 1
    BY <2>5
  <2>7. c = b + Standing[f]
    BY <2>2, <2>4, <2>5, <2>6
  <2> QED
    BY <2>5, <2>7
<1> QED
  BY <1>1, <1>2

\* A bit of a field, moved to the field's place, is a bit of that place.
LEMMA WithinPlace ==
  ASSUME NEW from \in Nat, NEW width \in Nat, from + width <= 160, NEW b \in 0..width - 1
  PROVE  /\ b + from \in from..from + width - 1 /\ b + from >= from
         /\ b + from \in 0..159 /\ (b + from) - from = b
OBVIOUS

\* Fields of their width, tag excepted, are found in the line of 160 bits at the
\* places their widths give them, whatever gen_mask found.
THEOREM FieldsFound ==
  ASSUME FieldsFit PROVE Spec => []FieldsApart
<1> DEFINE Whole == fields \in FieldSets /\ (line # NoLine => Packed)
<1>1. Init => Whole
  BY DEF Init
<1>2. Whole /\ [Next]_vars => Whole'
  <2> SUFFICES ASSUME Whole, [Next]_vars PROVE Whole'
    OBVIOUS
  <2>1. CASE PackLine
    <3>1. PICK found \in OnStack :
            line' = [part \in DOMAIN Parts |->
                       UNION {Left(Masked(f, found), Shift[f], Bits64) : f \in Parts[part]}]
      BY <2>1 DEF PackLine
    <3>2. UNCHANGED fields
      BY <2>1 DEF PackLine
    <3>3. ASSUME NEW part \in DOMAIN Parts
          PROVE  line'[part] = UNION {Left(fields[f], Shift[f], Bits64) : f \in Parts[part]}
      <4>1. \A f \in Parts[part] : Masked(f, found) = fields[f]
        BY FieldsFit, FieldKept, StandingOf DEF FieldsFit
      <4> QED
        BY <3>1, <4>1
    <3> QED
      BY <3>2, <3>3 DEF Packed
  <2>2. CASE GenData
    BY <2>2 DEF GenData, Packed
  <2>3. CASE UNCHANGED vars
    BY <2>3 DEF vars, Packed
  <2> QED
    BY <2>1, <2>2, <2>3 DEF Next
<1>3. Whole => FieldsApart
  <2> SUFFICES ASSUME Whole, line # NoLine, NEW f \in FieldNames, f # "tag"
               PROVE  Right(WholeLine \cap Place[f]..Place[f] + Width[f] - 1, Place[f])
                        = fields[f]
    BY DEF FieldsApart
  <2>1. Packed /\ \A g \in FieldNames : fields[g] \subseteq 0..Width[g] - 1
    BY FieldsFit DEF FieldsFit
  <2> DEFINE s == Place[f]
             place == s..s + Width[f] - 1
  <2>2. s = Standing[f] /\ s \in Nat /\ Width[f] \in Nat /\ s + Width[f] <= 160
    BY StandingApart
  <2> HIDE DEF s
  <2>3. ASSUME NEW b \in fields[f]
        PROVE  b \in Right(WholeLine \cap place, s)
    <3>1. b \in 0..Width[f] - 1
      BY <2>1
    <3>2. b + s \in place /\ b + s >= s /\ b + s \in 0..159 /\ (b + s) - s = b
      BY <2>2, <3>1, WithinPlace
    <3>3. b + s \in WholeLine
      BY <2>1, <2>2, <3>2, LineBits
    <3>4. b + s \in {c \in WholeLine \cap place : c >= s}
      BY <3>2, <3>3
    <3> HIDE DEF place
    <3> QED
      BY <3>2, <3>4 DEF Right
  <2>4. ASSUME NEW c \in WholeLine, c \in place
        PROVE  c - s \in fields[f]
    <3>0. PICK g \in FieldNames : \E b \in fields[g] : c = b + Standing[g]
      BY <2>1, LineBits
    <3>1. PICK b \in fields[g] : c = b + Standing[g]
      BY <3>0
    <3>2. b \in 0..Width[g] - 1 /\ Standing[g] \in Nat /\ Width[g] \in Nat
      BY <2>1, StandingApart
    <3>3. g # f => \/ Standing[f] + Width[f] <= Standing[g]
                   \/ Standing[g] + Width[g] <= Standing[f]
      BY StandingApart
    <3>4. g = f
      BY <2>2, <2>4, <3>1, <3>2, <3>3
    <3> QED
      BY <2>2, <3>1, <3>2, <3>4
  <2>5. Right(WholeLine \cap place, s) \subseteq fields[f]
    BY <2>4 DEF Right
  <2> QED
    BY <2>3, <2>5 DEF s
<1> QED
  BY <1>1, <1>2, <1>3, PTL DEF Spec
=============================================================================

------------------------- MODULE UnimemUsersProofs -------------------------
(***************************************************************************)
(* The threads that set up and poll accelerators, statement by statement:  *)
(* their types, and that every statement takes its call further, for any   *)
(* number of them; and what a set-up does while no other of them is in a   *)
(* call, beside any number of threads that map.                            *)
(*                                                                         *)
(* The argument for that: the buffer is then the caller's own list as far  *)
(* as it has been copied (Copied), so each register is read, and its       *)
(* address looked up, as the list has it (Position, Reading, Searching).   *)
(* The entries below the count that the set-up was called with never       *)
(* change, because the table is a log (EntriesStay); so what the search    *)
(* found stays the first match, and a register once done stays done until  *)
(* a later one of the list shares a word with it (DoneSoFar).              *)
(***************************************************************************)
EXTENDS UnimemThreadsProofs

-----------------------------------------------------------------------------
(* Types. *)

\* The accelerators there are.
Numbers == {a \in Nat : <<a, 0>> \in AccelRegisters}

Frames == [cmd : {"none", "setup", "poll"}, accel : Nat, count : 0..TableSize, i : Nat,
           row : Nat, offset : Nat, value : Nat, translate : BOOLEAN, k : Nat, page : Nat]

UserTypes ==
  /\ accel_data \in Acc_data /\ acc_regs \in [AccelRegisters -> Nat]
  /\ call \in [Users -> Acc_data] /\ frame \in [Users -> Frames]
  /\ pc \in [Threads -> Pcs]

\* What the registers of a call hold that later statements index with.
PlacedAt(u) ==
  /\ pc[u] \in {"copy offsets", "copy data"} => frame[u].cmd \in {"setup", "poll"}
  /\ pc[u] # "idle" => /\ accel_data.accel_number \in Numbers
                       /\ accel_data.reg_number <= RegSlots
  /\ pc[u] = "register" => frame[u].accel \in Numbers
  /\ pc[u] \in {"row", "match", "value", "offset"} => frame[u].i < RegSlots
  /\ pc[u] = "search" => frame[u].k <= frame[u].count
  /\ pc[u] = "translate" => frame[u].k < frame[u].count

Placed == \A u \in Users : PlacedAt(u)

\* No list is longer than the structure.
ListsFit == \A u \in Users : \A s \in Structs[u] : s.reg_number <= RegSlots


-----------------------------------------------------------------------------
IoctlStep(u) == StartIoctl(u) \/ InIoctl(u)

\* What a user's step leaves to the others.
LEMMA OtherUsersKept ==
  ASSUME UserTypes, NEW u \in Users, IoctlStep(u), NEW v \in Users, v # u
  PROVE  pc'[v] = pc[v] /\ frame'[v] = frame[v] /\ call'[v] = call[v]
<1> v \in Threads /\ u \in Threads
  BY DEF Threads
<1>1. pc'[v] = pc[v]
  BY DEF UserTypes, IoctlStep, StartIoctl, InIoctl, CopyOffsets, CopyData, CallSetup, Latch,
         Loop, ReadRow, Match, ReadValue, ReadOffset, Search, ReadPhys, WriteLow, WriteHigh, setup_reg,
         Return, ReadNumber, poll_accel, StorePoll, CopyBack, Goto
<1>2. frame' = frame \/ \E x : frame' = [frame EXCEPT ![u] = x]
  BY DEF IoctlStep, StartIoctl, InIoctl, CopyOffsets, CopyData, CallSetup, Latch,
         Loop, ReadRow, Match, ReadValue, ReadOffset, Search, ReadPhys, WriteLow, WriteHigh, setup_reg,
         Return, ReadNumber, poll_accel, StorePoll, CopyBack, Keep, user
<1>3. call' = call \/ \E x : call' = [call EXCEPT ![u] = x]
  BY DEF IoctlStep, StartIoctl, InIoctl, CopyOffsets, CopyData, CallSetup, Latch,
         Loop, ReadRow, Match, ReadValue, ReadOffset, Search, ReadPhys, WriteLow, WriteHigh, setup_reg,
         Return, ReadNumber, poll_accel, StorePoll, CopyBack, Keep, user
<1> QED
  BY <1>1, <1>2, <1>3 DEF UserTypes

\* What a list holds is in the types of the structure.
LEMMA ListTypes ==
  ASSUME ListsFit, NEW u \in Users, NEW s \in Structs[u]
  PROVE  s \in Acc_data /\ s.accel_number \in Numbers /\ s.reg_number <= RegSlots
BY ThreadsAssumption DEF ListsFit, Numbers, Acc_data

LEMMA CommandNames ==
  ASSUME NEW u \in Users
  PROVE  Commands[u] \subseteq {"setup", "poll"}
BY ThreadsAssumption

\* The bounds are numbers.
LEMMA Sizes == TableSize \in Nat /\ RegSlots \in Nat /\ LowSpan \in Nat \ {0}
BY ThreadsAssumption

\* A frame that is empty, and one that goes on to the next register.
LEMMA FreshFrames ==
  /\ NoFrame \in Frames
  /\ \A c \in {"setup", "poll"} : [NoFrame EXCEPT !.cmd = c] \in Frames
  /\ \A f \in Frames : NextRegister(f) \in Frames
<1>1. 0 \in Nat /\ 0 \in 0..TableSize
  BY Sizes
<1>2. NoFrame \in Frames
  BY <1>1 DEF NoFrame, Frames
<1>3. ASSUME NEW c \in {"setup", "poll"} PROVE [NoFrame EXCEPT !.cmd = c] \in Frames
  BY <1>2 DEF Frames
<1>4. ASSUME NEW f \in Frames PROVE NextRegister(f) \in Frames
  <2>1. /\ f.cmd \in {"none", "setup", "poll"} /\ f.accel \in Nat /\ f.count \in 0..TableSize
        /\ f.i + 1 \in Nat
    BY DEF Frames
  <2> QED
    BY <1>2, <2>1 DEF NextRegister, Frames
<1> QED
  BY <1>2, <1>3, <1>4

\* A frame with a register's offset, found to hold an address or not.
LEMMA MatchedFrame ==
  ASSUME NEW f \in Frames, NEW o \in Nat, NEW b \in BOOLEAN
  PROVE  /\ [f EXCEPT !.offset = o, !.translate = b] \in Frames
         /\ [f EXCEPT !.offset = o, !.translate = b].i = f.i
         /\ [f EXCEPT !.offset = o, !.k = 0] \in Frames
         /\ [f EXCEPT !.offset = o, !.k = 0].k = 0
         /\ [f EXCEPT !.offset = o, !.k = 0].count = f.count
         /\ 0 <= f.count
<1>1. /\ [f EXCEPT !.offset = o, !.translate = b] \in Frames
      /\ [f EXCEPT !.offset = o, !.translate = b].i = f.i
  BY DEF Frames
<1>2. /\ [f EXCEPT !.offset = o, !.k = 0] \in Frames
      /\ [f EXCEPT !.offset = o, !.k = 0].k = 0
      /\ [f EXCEPT !.offset = o, !.k = 0].count = f.count
  BY DEF Frames
<1>3. 0 <= f.count
  BY Sizes DEF Frames
<1> QED
  BY <1>1, <1>2, <1>3

LEMMA MembershipIsBoolean ==
  ASSUME NEW x, NEW S
  PROVE  \E b \in BOOLEAN : b = (x \in S)
<1>1. (x \in S) \in BOOLEAN
  OBVIOUS
<1> QED
  BY <1>1

LEMMA FrameAfterMatch ==
  ASSUME frame \in [Users -> Frames], NEW u \in Users, Match(u),
         accel_data.reg_offset[frame[u].i] \in Nat
  PROVE  frame'[u] \in Frames /\ frame'[u].i = frame[u].i
<1> DEFINE o == accel_data.reg_offset[frame[u].i]
           w == <<frame[u].row, o>>
<1>1. frame'[u] = [frame[u] EXCEPT !.offset = o, !.translate = w \in AddressRegisters]
  BY DEF Match, Keep
<1>2. o \in Nat /\ frame[u] \in Frames
  OBVIOUS
<1> HIDE DEF o, w
<1>3. PICK b \in BOOLEAN : b = (w \in AddressRegisters)
  BY MembershipIsBoolean
<1>4. frame'[u] = [frame[u] EXCEPT !.offset = o, !.translate = b]
  BY <1>1, <1>3
<1>5. /\ [frame[u] EXCEPT !.offset = o, !.translate = b] \in Frames
      /\ [frame[u] EXCEPT !.offset = o, !.translate = b].i = frame[u].i
  BY <1>2, MatchedFrame, Zenon
<1> QED
  BY <1>4, <1>5, Zenon

\* A frame that goes on to the next entry.
LEMMA SearchingFrame ==
  ASSUME NEW f \in Frames
  PROVE  /\ f.k \in Nat /\ f.count \in Nat
         /\ [f EXCEPT !.k = @ + 1] \in Frames
         /\ [f EXCEPT !.k = @ + 1].k = f.k + 1
         /\ [f EXCEPT !.k = @ + 1].count = f.count
<1>1. f.k \in Nat /\ f.count \in Nat
  BY Sizes DEF Frames
<1> QED
  BY <1>1 DEF Frames

\* The words that are written are numbers.
LEMMA WordTypes ==
  ASSUME NEW f \in Frames
  PROVE  /\ f.value % LowSpan \in Nat /\ LowWord(f.value) \in Nat
         /\ KeptPage(f.page) \div 4 \in Nat
<1>1. f.value \in Nat /\ f.page \in Nat /\ LowSpan \in Nat \ {0}
  BY Sizes DEF Frames
<1>2. 4 * LowSpan \in Nat \ {0}
  BY <1>1
<1>3. f.value % LowSpan \in Nat
  BY <1>1
<1>4. f.value % (4 * LowSpan) \in Nat
  BY <1>1, <1>2
<1>5. f.page \div 16 \in Nat
  BY <1>1
<1>6. (f.page \div 16) * 16 \in Nat
  BY <1>5
<1>7. ((f.page \div 16) * 16) \div 4 \in Nat
  BY <1>6
<1> QED
  BY <1>3, <1>4, <1>7 DEF LowWord, KeptPage

\* Each statement of an ioctl keeps the buffer, the registers of accelerators
\* and those of the call in their types, and leads to where the next expects it.
LEMMA OwnTypes ==
  ASSUME UserTypes, Types, ListsFit, NEW u \in Users, PlacedAt(u), IoctlStep(u)
  PROVE  UserTypes' /\ PlacedAt(u)'
<1> USE DEF UserTypes, PlacedAt, Goto, Keep, user
<1>0. u \in Threads /\ frame[u] \in Frames /\ accel_data \in Acc_data /\ call[u] \in Acc_data
  BY DEF Threads
<1>1. CASE StartIoctl(u)
  <2>1. PICK s \in Structs[u], c \in {"setup", "poll"} :
          /\ call' = [call EXCEPT ![u] = s]
          /\ frame' = [frame EXCEPT ![u] = [NoFrame EXCEPT !.cmd = c]]
          /\ accel_data' = [accel_data EXCEPT !.accel_number = s.accel_number,
                                              !.reg_number = s.reg_number]
    BY <1>1, CommandNames DEF StartIoctl
  <2>2. s \in Acc_data /\ s.accel_number \in Numbers /\ s.reg_number <= RegSlots
    BY <2>1, ListTypes
  <2>3. accel_data' \in Acc_data /\ accel_data'.accel_number = s.accel_number
         /\ accel_data'.reg_number = s.reg_number
    BY <1>0, <2>1, <2>2 DEF Acc_data
  <2>4. frame'[u] \in Frames /\ frame'[u].cmd = c
    BY <2>1, FreshFrames DEF NoFrame
  <2>5. frame' \in [Users -> Frames] /\ call' \in [Users -> Acc_data]
    BY <2>1, <2>2, <2>4
  <2>6. pc' \in [Threads -> Pcs] /\ pc'[u] = "copy offsets" /\ acc_regs' = acc_regs
    BY <1>0, <1>1 DEF StartIoctl, Pcs
  <2> QED
    BY <2>2, <2>3, <2>4, <2>5, <2>6
<1>2. CASE CopyOffsets(u)
  <2>1. accel_data' \in Acc_data /\ accel_data'.accel_number = accel_data.accel_number
         /\ accel_data'.reg_number = accel_data.reg_number
    BY <1>0, <1>2 DEF CopyOffsets, Acc_data
  <2> QED
    BY <1>0, <1>2, <2>1 DEF CopyOffsets, Pcs
<1>3. CASE CopyData(u)
  <2>1. accel_data' \in Acc_data /\ accel_data'.accel_number = accel_data.accel_number
         /\ accel_data'.reg_number = accel_data.reg_number
    BY <1>0, <1>3 DEF CopyData, Acc_data
  <2>2. pc'[u] \in {"setup", "poll"} /\ pc' \in [Threads -> Pcs]
    BY <1>0, <1>3 DEF CopyData, Pcs
  <2> QED
    BY <1>0, <1>3, <2>1, <2>2 DEF CopyData
<1>4. CASE CallSetup(u)
  <2>1. frame'[u] \in Frames
    BY <1>0, <1>4 DEF CallSetup, Frames, Types
  <2> QED
    BY <1>0, <1>4, <2>1 DEF CallSetup, Pcs
<1>5. CASE Latch(u)
  <2>1. frame'[u] \in Frames
    BY <1>0, <1>5 DEF Latch, Frames, Acc_data
  <2> QED
    BY <1>0, <1>5, <2>1 DEF Latch, Pcs
<1>6. CASE Loop(u)
  <2>1. frame[u].i < accel_data.reg_number => frame[u].i < RegSlots
    BY <1>0, <1>6, Sizes DEF Loop, Frames, Acc_data
  <2> QED
    BY <1>0, <1>6, <2>1 DEF Loop, Pcs
<1>20. CASE ReadRow(u)
  <2>1. frame'[u] \in Frames /\ frame'[u].i = frame[u].i
    BY <1>0, <1>20 DEF ReadRow, Frames, Acc_data
  <2> QED
    BY <1>0, <1>20, <2>1 DEF ReadRow, Pcs
<1>7. CASE Match(u)
  <2>1. frame[u].i \in Slots /\ frame[u].i < RegSlots
    BY <1>0, <1>7, Sizes DEF Match, Frames, Slots
  <2>2. accel_data.reg_offset[frame[u].i] \in Nat
    BY <1>0, <2>1 DEF Acc_data
  <2>3. frame'[u] \in Frames /\ frame'[u].i = frame[u].i
    BY <1>0, <1>7, <2>2, FrameAfterMatch
  <2> QED
    BY <1>0, <1>7, <2>1, <2>3 DEF Match, Pcs
<1>8. CASE ReadValue(u)
  <2>1. frame[u].i \in Slots /\ frame[u].i < RegSlots
    BY <1>0, <1>8, Sizes DEF ReadValue, Frames, Slots
  <2>2. accel_data.reg_data[frame[u].i] \in Nat
    BY <1>0, <2>1 DEF Acc_data
  <2>3. frame'[u] \in Frames /\ frame'[u].i = frame[u].i
    BY <1>0, <1>8, <2>2 DEF ReadValue, Frames
  <2> QED
    BY <1>0, <1>8, <2>1, <2>3 DEF ReadValue, Pcs
<1>9. CASE ReadOffset(u)
  <2>1. frame[u].i \in Slots
    BY <1>0, <1>9, Sizes DEF ReadOffset, Frames, Slots
  <2>2. accel_data.reg_offset[frame[u].i] \in Nat
    BY <1>0, <2>1 DEF Acc_data
  <2>3. frame'[u] = [frame[u] EXCEPT !.offset = accel_data.reg_offset[frame[u].i], !.k = 0]
    BY <1>0, <1>9 DEF ReadOffset
  <2> QED
    BY <1>0, <1>9, <2>2, <2>3, MatchedFrame DEF ReadOffset, Pcs
<1>10. CASE Search(u)
  <2>1. frame[u].k <= frame[u].count /\ pc[u] = "search"
    BY <1>10 DEF Search
  <2>2. /\ frame[u].k \in Nat /\ frame[u].count \in Nat
        /\ NextRegister(frame[u]) \in Frames
        /\ [frame[u] EXCEPT !.k = @ + 1] \in Frames
    BY <1>0, SearchingFrame, FreshFrames
  <2>3. CASE Goto(u, "search", "loop") /\ Keep(u, NextRegister(frame[u]))
    BY <1>0, <1>10, <2>2, <2>3 DEF Search, Pcs
  <2>4. CASE frame[u].k # frame[u].count /\ Goto(u, "search", "translate") /\ Keep(u, frame[u])
    <3>1. frame[u].k < frame[u].count
      BY <2>1, <2>2, <2>4
    <3>2. frame' = frame
      BY <1>0, <2>4
    <3> QED
      BY <1>0, <1>10, <2>4, <3>1, <3>2 DEF Search, Pcs
  <2>5. CASE frame[u].k # frame[u].count /\ UNCHANGED pc
             /\ Keep(u, [frame[u] EXCEPT !.k = @ + 1])
    <3>1. frame'[u].k = frame[u].k + 1 /\ frame'[u].count = frame[u].count
      BY <1>0, <2>5, SearchingFrame
    <3>2. frame'[u].k <= frame'[u].count
      BY <2>1, <2>2, <2>5, <3>1
    <3> QED
      BY <1>0, <1>10, <2>1, <2>2, <2>5, <3>2 DEF Search
  <2> QED
    BY <1>10, <2>3, <2>4, <2>5 DEF Search
<1>11. CASE ReadPhys(u)
  <2>1. frame[u].k \in Entries
    BY <1>0, <1>11, Sizes DEF ReadPhys, Frames, Entries
  <2>2. phys_address[frame[u].k] \in Nat
    BY <2>1 DEF Types
  <2>3. frame'[u] \in Frames
    BY <1>0, <1>11, <2>2 DEF ReadPhys, Frames
  <2> QED
    BY <1>0, <1>11, <2>3 DEF ReadPhys, Pcs
<1>12. CASE WriteLow(u)
  <2>1. frame[u].value % LowSpan \in Nat
    BY <1>0, WordTypes
  <2> QED
    BY <1>0, <1>12, <2>1 DEF WriteLow, Pcs
<1>13. CASE WriteHigh(u)
  <2>1. KeptPage(frame[u].page) \div 4 \in Nat /\ NextRegister(frame[u]) \in Frames
    BY <1>0, WordTypes, FreshFrames
  <2> QED
    BY <1>0, <1>13, <2>1 DEF WriteHigh, Pcs
<1>14. CASE setup_reg(u)
  <2>1. LowWord(frame[u].value) \in Nat /\ NextRegister(frame[u]) \in Frames
    BY <1>0, WordTypes, FreshFrames
  <2> QED
    BY <1>0, <1>14, <2>1 DEF setup_reg, Pcs
<1>15. CASE Return(u)
  <2>1. NoFrame \in Frames
    BY FreshFrames
  <2> QED
    BY <1>0, <1>15, <2>1 DEF Return, Pcs
<1>16. CASE ReadNumber(u)
  <2>1. frame'[u] \in Frames /\ frame'[u].accel = accel_data.accel_number
    BY <1>0, <1>16 DEF ReadNumber, Frames, Acc_data
  <2> QED
    BY <1>0, <1>16, <2>1 DEF ReadNumber, Pcs
<1>17. CASE poll_accel(u)
  <2>1. acc_regs[<<frame[u].accel, 0>>] \in Nat
    BY <1>17 DEF poll_accel, Numbers
  <2>2. frame'[u] \in Frames
    BY <1>0, <1>17, <2>1 DEF poll_accel, Frames
  <2> QED
    BY <1>0, <1>17, <2>2 DEF poll_accel, Pcs
<1>18. CASE StorePoll(u)
  <2>1. accel_data' \in Acc_data /\ accel_data'.accel_number = accel_data.accel_number
         /\ accel_data'.reg_number = accel_data.reg_number
    BY <1>0, <1>18 DEF StorePoll, Acc_data, Frames
  <2> QED
    BY <1>0, <1>18, <2>1 DEF StorePoll, Pcs
<1>19. CASE CopyBack(u)
  <2>1. NoFrame \in Frames
    BY FreshFrames
  <2> QED
    BY <1>0, <1>19, <2>1 DEF CopyBack, Pcs
<1> QED
  BY <1>1, <1>2, <1>3, <1>4, <1>5, <1>6, <1>7, <1>8, <1>9, <1>10, <1>11, <1>12, <1>13, <1>14,
     <1>15, <1>16, <1>17, <1>18, <1>19, <1>20 DEF IoctlStep, InIoctl

\* The head of the buffer only ever comes from a list.
LEMMA HeadFromList ==
  ASSUME UserTypes, NEW u \in Users, IoctlStep(u)
  PROVE  \/ /\ accel_data'.accel_number = accel_data.accel_number
            /\ accel_data'.reg_number = accel_data.reg_number
         \/ \E s \in Structs[u] : /\ accel_data'.accel_number = s.accel_number
                                  /\ accel_data'.reg_number = s.reg_number
<1> USE DEF UserTypes, Acc_data
<1>1. CASE StartIoctl(u)
  BY <1>1 DEF StartIoctl
<1>2. CASE CopyOffsets(u) \/ CopyData(u) \/ StorePoll(u)
  BY <1>2 DEF CopyOffsets, CopyData, StorePoll
<1>3. CASE ~(StartIoctl(u) \/ CopyOffsets(u) \/ CopyData(u) \/ StorePoll(u))
  BY <1>3 DEF IoctlStep, InIoctl, CallSetup, Latch, Loop, ReadRow, Match, ReadValue, ReadOffset, Search,
     ReadPhys, WriteLow, WriteHigh, setup_reg, Return, ReadNumber, poll_accel, CopyBack, Keep,
     user
<1> QED
  BY <1>1, <1>2, <1>3

\* A step of one user leaves the others where they are.
LEMMA PlacedKept ==
  ASSUME UserTypes, Types, ListsFit, Placed, NEW u \in Users, IoctlStep(u)
  PROVE  UserTypes' /\ Placed'
<1>1. UserTypes' /\ PlacedAt(u)'
  BY OwnTypes DEF Placed
<1>2. ASSUME NEW v \in Users, v # u
      PROVE  PlacedAt(v)'
  <2>1. pc'[v] = pc[v] /\ frame'[v] = frame[v]
    BY <1>2, OtherUsersKept
  <2>2. PlacedAt(v)
    BY DEF Placed
  <2>3. \/ /\ accel_data'.accel_number = accel_data.accel_number
           /\ accel_data'.reg_number = accel_data.reg_number
        \/ accel_data'.accel_number \in Numbers /\ accel_data'.reg_number <= RegSlots
    BY HeadFromList, ListTypes
  <2> QED
    BY <2>1, <2>2, <2>3 DEF PlacedAt
<1> QED
  BY <1>1, <1>2 DEF Placed

\* A mapper's statement leaves what users work with as it is.
LEMMA MappersKeepUsers ==
  ASSUME Types, pc \in [Threads -> Pcs], NEW t \in Mappers, MapperStep(t)
  PROVE  /\ UNCHANGED user /\ pc' \in [Threads -> Pcs]
         /\ \A u \in Users : pc'[u] = pc[u]
<1>1. UNCHANGED user
  BY DEF MapperStep, PassStruct, Enter, CopyNode, CopyBase, InMmap, Branch, BranchAway,
         ReadSlot, ReadBase, StoreFirst, StoreSecond, Publish, Leave
<1>2. \E x \in Pcs : pc' = [pc EXCEPT ![t] = x]
  BY DEF MapperStep, PassStruct, Enter, CopyNode, CopyBase, InMmap, Branch, BranchAway,
         ReadSlot, ReadBase, StoreFirst, StoreSecond, Publish, Leave, Goto, Pcs
<1>3. \A u \in Users : u # t /\ u \in Threads
  BY ThreadsAssumption DEF Threads
<1> QED
  BY <1>1, <1>2, <1>3

-----------------------------------------------------------------------------
(* The types of the whole. *)

MapperTypes ==
  /\ mmap_lock \in Mappers \cup {NoThread}
  /\ \A t \in Mappers : request[t] \in Requests(t) \cup {NoRequest}
  /\ mmaps \in [Mappers -> 0..MaxMmaps]

TypeInv == Inv /\ MapperTypes /\ UserTypes /\ Placed

\* The lock, the requests and the counts of mmaps keep their types.
LEMMA MapperTypesKept ==
  ASSUME Inv, MapperTypes, NEW t \in Mappers, MapperStep(t)
  PROVE  MapperTypes'
<1> USE DEF MapperTypes, mapper
<1>0. MaxMmaps \in Nat /\ DOMAIN request = Mappers
  BY ThreadsAssumption DEF Inv, Types
<1>1. CASE PassStruct(t)
  <2>1. \A s \in Mappers : Requests(s)' = Requests(s) /\ NoRequest' = NoRequest
    BY DEF Requests, Request, NoRequest
  <2>2. \E r \in Requests(t) : request' = [request EXCEPT ![t] = r]
    BY <1>1 DEF PassStruct
  <2> QED
    BY <1>0, <1>1, <2>1, <2>2 DEF PassStruct
<1>2. CASE Enter(t)
  <2>1. mmaps[t] + 1 \in 0..MaxMmaps
    BY <1>0, <1>2 DEF Enter
  <2> QED
    BY <1>2, <2>1 DEF Enter, Requests, Request, NoRequest
<1>3. CASE CopyNode(t) \/ CopyBase(t) \/ (InMmap(t) /\ ~Leave(t))
  BY <1>3 DEF CopyNode, CopyBase, InMmap, Branch, BranchAway, ReadSlot, ReadBase, StoreFirst,
     StoreSecond, Publish, Requests, Request, NoRequest
<1>4. CASE Leave(t)
  BY <1>4 DEF Leave, Requests, Request, NoRequest
<1> QED
  BY <1>1, <1>2, <1>3, <1>4 DEF MapperStep, InMmap

\* A step is a mapper's, a user's, or none.
LEMMA StepCases ==
  ASSUME [Next]_vars
  PROVE  \/ \E t \in Mappers : MapperStep(t)
         \/ \E u \in Users : IoctlStep(u)
         \/ UNCHANGED vars
BY DEF Next, InCall, MapperStep, IoctlStep

\* Nobody is in a call at first.
LEMMA InitTypes == Init => TypeInv
<1> SUFFICES ASSUME Init PROVE TypeInv
  OBVIOUS
<1>1. MapperTypes
  <2>1. MaxMmaps \in Nat
    BY ThreadsAssumption
  <2> QED
    BY <2>1 DEF Init, MapperTypes
<1>2. UserTypes
  <2>1. NoStruct \in Acc_data
    BY DEF NoStruct, Acc_data
  <2>2. NoFrame \in Frames
    BY FreshFrames
  <2>3. pc \in [Threads -> Pcs]
    BY DEF Init, Pcs
  <2> QED
    BY <2>1, <2>2, <2>3 DEF Init, UserTypes
<1>3. Placed
  BY DEF Init, Placed, PlacedAt, Threads
<1> QED
  BY <1>1, <1>2, <1>3, InitInv DEF TypeInv

\* Every step keeps the types.
LEMMA StepTypes ==
  ASSUME ListsFit
  PROVE  TypeInv /\ [Next]_vars => TypeInv'
<1> SUFFICES ASSUME TypeInv, [Next]_vars PROVE TypeInv'
  OBVIOUS
<1>0. Inv /\ Inv' /\ Types /\ MapperTypes /\ UserTypes /\ Placed /\ DOMAIN pc = Threads
  BY StepInv DEF TypeInv, Inv, Types
<1>1. ASSUME NEW t \in Mappers, MapperStep(t) PROVE TypeInv'
  <2>1. MapperTypes'
    BY <1>0, <1>1, MapperTypesKept
  <2>2. UNCHANGED user /\ pc' \in [Threads -> Pcs] /\ \A u \in Users : pc'[u] = pc[u]
    BY <1>0, <1>1, MappersKeepUsers DEF UserTypes
  <2>3. UserTypes' /\ Placed'
    BY <1>0, <2>2 DEF user, UserTypes, Placed, PlacedAt
  <2> QED
    BY <1>0, <2>1, <2>3 DEF TypeInv
<1>2. ASSUME NEW u \in Users, IoctlStep(u) PROVE TypeInv'
  <2>1. UserTypes' /\ Placed'
    BY <1>0, <1>2, PlacedKept
  <2>2. UNCHANGED driver
    BY <1>0, <1>2, UsersKeepDriver DEF IoctlStep
  <2>3. MapperTypes'
    BY <1>0, <2>2 DEF driver, mapper, MapperTypes, Requests, Request, NoRequest
  <2> QED
    BY <1>0, <2>1, <2>3 DEF TypeInv
<1>3. CASE UNCHANGED vars
  BY <1>0, <1>3 DEF vars, user, mapper, UserTypes, Placed, PlacedAt, MapperTypes, Requests,
     Request, NoRequest, TypeInv
<1> QED
  BY <1>1, <1>2, <1>3, StepCases

\* The table, the buffer and the registers of each call keep their types, for
\* any number of threads, if no list is longer than the structure: with longer
\* ones a call that has compared reg_number with 24 may find another there,
\* copied in by another thread, and read on behind the lists.
THEOREM ThreadsTypeCorrect ==
  ASSUME ListsFit
  PROVE  Spec => []TypeOK
<1>1. TypeInv => TypeOK
  BY DEF TypeInv, Inv, Types, MapperTypes, UserTypes, TypeOK, RequestRecord
<1> QED
  BY <1>1, InitTypes, StepTypes, PTL DEF Spec

-----------------------------------------------------------------------------
(* What a set-up has done, beside any number of mappers, while no other user *)
(* is in a call: with one user, or with many that take turns.                *)

\* Every register that is listed, and every upper word of an address, is there.
RegistersExist ==
  /\ \A w \in AddressRegisters : <<w[1], w[2] + 1>> \in AccelRegisters
  /\ \A u \in Users : \A s \in Structs[u] : \A j \in 0..s.reg_number - 1 :
       <<s.accel_number, s.reg_offset[j]>> \in AccelRegisters

BodyPcs == {"row", "match", "value", "offset", "search", "translate", "low", "high", "write"}
LoopPcs == BodyPcs \cup {"loop", "return"}
AddressPcs == {"offset", "search", "translate", "low", "high"}

Word(u)  == <<frame[u].accel, frame[u].offset>>

\* The buffer is the caller's own, as far as it has been copied.
Copied(u) ==
  LET s == call[u] IN
  /\ pc[u] # "idle" => /\ s \in Structs[u]
                       /\ accel_data.accel_number = s.accel_number
                       /\ accel_data.reg_number = s.reg_number
  /\ pc[u] \notin {"idle", "copy offsets"} => accel_data.reg_offset = s.reg_offset
  /\ pc[u] \notin {"idle", "copy offsets", "copy data"} => accel_data.reg_data = s.reg_data

\* Where a set-up is in its list.
Position(u) ==
  LET s == call[u]
      f == frame[u]
  IN
  /\ pc[u] \in {"copy offsets", "copy data", "setup", "latch"} => f.i = 0
  /\ pc[u] \in LoopPcs \cup {"latch"} => f.count <= memory_allocations
  /\ pc[u] \in LoopPcs => f.accel = s.accel_number /\ (f.i = 0 \/ f.i <= s.reg_number)
  /\ pc[u] = "return" => f.i >= s.reg_number
  /\ pc[u] \in BodyPcs => f.i < s.reg_number

\* What it has read of the register it is at.
Reading(u) ==
  LET s == call[u]
      f == frame[u]
  IN
  /\ pc[u] = "match" => f.row = s.accel_number
  /\ pc[u] \in BodyPcs \ {"row", "match"} => f.offset = s.reg_offset[f.i]
  /\ pc[u] = "value" => (f.translate <=> Word(u) \in AddressRegisters)
  /\ pc[u] = "write" => Word(u) \notin AddressRegisters
  /\ pc[u] \in AddressPcs => Word(u) \in AddressRegisters
  /\ pc[u] \in AddressPcs \cup {"write"} => f.value = s.reg_data[f.i]
  /\ pc[u] = "high" => acc_regs[Word(u)] = f.value % LowSpan

\* How far its search has come.
Searching(u) ==
  LET f == frame[u] IN
  /\ pc[u] = "search" => /\ f.k <= f.count
                         /\ \A d \in 0..f.k - 1 : virt_address[d] # PageOf(f.value)
  /\ pc[u] \in {"translate", "low", "high"} => FirstBelow(f.count, f.value, f.k)
  /\ pc[u] \in {"low", "high"} => f.page = phys_address[f.k]

RegisterDone(s, j, n) ==
  LET w == <<s.accel_number, s.reg_offset[j]>> IN
  IF w \notin AddressRegisters THEN acc_regs[w] = LowWord(s.reg_data[j])
  ELSE \A e \in Entries : FirstBelow(n, s.reg_data[j], e) => HoldsAddress(w, s.reg_data[j], e)

\* The registers before the one a set-up is at have been done, and stay done
\* unless one after them, the one half written included, shares a word with them.
DoneSoFar(u) ==
  LET s == call[u]
      f == frame[u]
  IN pc[u] \in LoopPcs =>
       \A j \in 0..f.i - 1 :
         (\A l \in j + 1..(IF pc[u] = "high" THEN f.i ELSE f.i - 1) :
            WordsOf(s, l) \cap WordsOf(s, j) = {})
         => RegisterDone(s, j, f.count)

SetUpBy(u) == Copied(u) /\ Position(u) /\ Reading(u) /\ Searching(u) /\ DoneSoFar(u)

SetUpInv == TypeInv /\ \A u \in Users : SetUpBy(u)

-----------------------------------------------------------------------------
\* An entry below the count stays as it is.
LEMMA EntriesStay ==
  ASSUME Inv, NEW t \in Mappers, MapperStep(t)
  PROVE  /\ memory_allocations <= memory_allocations'
         /\ \A e \in 0..memory_allocations - 1 :
              virt_address'[e] = virt_address[e] /\ phys_address'[e] = phys_address[e]
<1>0. /\ memory_allocations \in Nat /\ memory_allocations <= TableSize /\ TableSize \in Nat
      /\ virt_address \in [Entries -> Nat] /\ phys_address \in [Entries -> Nat]
      /\ RecordingBy(t)
  BY Sizes DEF Inv, Types, Recording
<1>1. CASE StoreFirst(t) \/ StoreSecond(t)
  <2>1. slot[t] = memory_allocations /\ memory_allocations' = memory_allocations
    BY <1>0, <1>1 DEF RecordingBy, StoreFirst, StoreSecond, Goto
  <2>2. \A e \in Entries : e # slot[t] =>
          virt_address'[e] = virt_address[e] /\ phys_address'[e] = phys_address[e]
    BY <1>0, <1>1 DEF StoreFirst, StoreSecond, StoreVirt, StorePhys
  <2>3. \A e \in 0..memory_allocations - 1 : e \in Entries /\ e # memory_allocations
    BY <1>0 DEF Entries
  <2> QED
    BY <1>0, <2>1, <2>2, <2>3
<1>2. CASE Publish(t)
  <2>1. slot[t] = memory_allocations
    BY <1>0, <1>2 DEF RecordingBy, Publish, Goto
  <2> QED
    BY <1>0, <1>2, <2>1 DEF Publish
<1>3. CASE ~(StoreFirst(t) \/ StoreSecond(t) \/ Publish(t))
  <2>1. UNCHANGED table
    BY <1>3 DEF MapperStep, PassStruct, Enter, CopyNode, CopyBase, InMmap, Branch, BranchAway,
       ReadSlot, ReadBase, Leave
  <2> QED
    BY <1>0, <2>1 DEF table
<1> QED
  BY <1>1, <1>2, <1>3

\* What a search finds is the same as long as the entries it looks at are.
LEMMA FoundStays ==
  ASSUME NEW n \in Nat, NEW a, NEW e \in Nat,
         \A d \in 0..n - 1 : virt_address'[d] = virt_address[d]
  PROVE  FirstBelow(n, a, e)' <=> FirstBelow(n, a, e)
<1>1. e < n => e \in 0..n - 1 /\ \A d \in 0..e - 1 : d \in 0..n - 1
  OBVIOUS
<1> QED
  BY <1>1 DEF FirstBelow

LEMMA FoundOnce ==
  ASSUME NEW n, NEW a, NEW e \in Nat, NEW k \in Nat, FirstBelow(n, a, e), FirstBelow(n, a, k)
  PROVE  e = k
<1>1. ~(e < k) /\ ~(k < e)
  BY DEF FirstBelow
<1> QED
  BY <1>1

\* A register that has been done stays done while the entries that its address
\* was looked up in, and its own words, stay as they are.
LEMMA DoneStays ==
  ASSUME NEW s, NEW j, NEW n \in Nat,
         \A d \in 0..n - 1 : virt_address'[d] = virt_address[d] /\ phys_address'[d] = phys_address[d],
         \A w \in WordsOf(s, j) : acc_regs'[w] = acc_regs[w],
         RegisterDone(s, j, n)
  PROVE  RegisterDone(s, j, n)'
<1> DEFINE w == <<s.accel_number, s.reg_offset[j]>>
<1>1. CASE w \notin AddressRegisters
  <2>1. acc_regs'[w] = acc_regs[w]
    BY DEF WordsOf
  <2> QED
    BY <1>1, <2>1 DEF RegisterDone
<1>2. CASE w \in AddressRegisters
  <2>1. acc_regs'[w] = acc_regs[w] /\ acc_regs'[<<w[1], w[2] + 1>>] = acc_regs[<<w[1], w[2] + 1>>]
    BY <1>2 DEF WordsOf
  <2>2. ASSUME NEW e \in Entries, FirstBelow(n, s.reg_data[j], e)'
        PROVE  HoldsAddress(w, s.reg_data[j], e)'
    <3>1. e \in Nat /\ e \in 0..n - 1
      BY <2>2, Sizes DEF Entries, FirstBelow
    <3>2. FirstBelow(n, s.reg_data[j], e)
      BY <2>2, <3>1, FoundStays
    <3>3. HoldsAddress(w, s.reg_data[j], e) /\ phys_address'[e] = phys_address[e]
      BY <1>2, <3>1, <3>2 DEF RegisterDone
    <3> QED
      BY <2>1, <3>3 DEF HoldsAddress
  <2> QED
    BY <1>2, <2>2 DEF RegisterDone
<1> QED
  BY <1>1, <1>2

\* What the numbers of a set-up are.
LEMMA FrameNumbers ==
  ASSUME UserTypes, NEW u \in Users
  PROVE  /\ frame[u].i \in Nat /\ frame[u].count \in Nat /\ frame[u].k \in Nat
         /\ frame[u].offset \in Nat /\ frame[u].value \in Nat /\ frame[u].page \in Nat
         /\ frame[u].accel \in Nat
<1>1. frame[u] \in Frames
  BY DEF UserTypes
<1> QED
  BY <1>1, SearchingFrame DEF Frames

\* A mapper's statement leaves a set-up where it is, and what it has done.
LEMMA MapperKeepsSetUp ==
  ASSUME SetUpInv, NEW t \in Mappers, MapperStep(t), NEW u \in Users
  PROVE  SetUpBy(u)'
<1>1. Inv /\ Types /\ UserTypes /\ SetUpBy(u) /\ memory_allocations \in Nat
  BY Sizes DEF SetUpInv, TypeInv, Inv, Types
<1>2. UNCHANGED <<accel_data, acc_regs, call, frame>> /\ pc'[u] = pc[u]
  BY <1>1, MappersKeepUsers DEF UserTypes, user
<1>3. /\ memory_allocations <= memory_allocations' /\ memory_allocations' \in Nat
      /\ \A e \in 0..memory_allocations - 1 :
           virt_address'[e] = virt_address[e] /\ phys_address'[e] = phys_address[e]
  <2>1. Inv'
    BY <1>1, StepInv DEF Next, MapperStep, InCall, Threads
  <2> QED
    BY <1>1, <2>1, EntriesStay, Sizes DEF Inv, Types
<1>4. Copied(u)'
  BY <1>1, <1>2 DEF SetUpBy, Copied
<1> DEFINE f == frame[u]
<1>5. f.count \in Nat /\ f.k \in Nat
  BY <1>1, FrameNumbers
<1>6. ASSUME pc[u] \in LoopPcs \cup {"latch"}
      PROVE  \A d \in 0..f.count - 1 :
               virt_address'[d] = virt_address[d] /\ phys_address'[d] = phys_address[d]
  <2>1. f.count <= memory_allocations
    BY <1>1, <1>6 DEF SetUpBy, Position
  <2> QED
    BY <1>1, <1>3, <1>5, <2>1
<1>7. Position(u)' /\ Reading(u)' /\ Searching(u)'
  <2>1. Position(u) /\ Reading(u) /\ Searching(u) /\ Word(u)' = Word(u) /\ f' = f
    BY <1>1, <1>2 DEF SetUpBy, Word
  <2>2. pc[u] = "search" => \A d \in 0..f.k - 1 : virt_address'[d] = virt_address[d]
    BY <1>5, <1>6, <2>1 DEF Searching, LoopPcs, BodyPcs
  <2>3. pc[u] \in {"translate", "low", "high"} =>
          FirstBelow(f.count, f.value, f.k)' /\ phys_address'[f.k] = phys_address[f.k]
    <3> SUFFICES ASSUME pc[u] \in {"translate", "low", "high"}
                 PROVE  FirstBelow(f.count, f.value, f.k)' /\ phys_address'[f.k] = phys_address[f.k]
      OBVIOUS
    <3>1. FirstBelow(f.count, f.value, f.k)
      BY <2>1 DEF Searching
    <3>2. f.k \in 0..f.count - 1
      BY <1>5, <3>1 DEF FirstBelow
    <3>3. \A d \in 0..f.count - 1 :
            virt_address'[d] = virt_address[d] /\ phys_address'[d] = phys_address[d]
      BY <1>6 DEF LoopPcs, BodyPcs
    <3> QED
      BY <1>2, <1>5, <3>1, <3>2, <3>3, FoundStays
  <2>4. f.count <= memory_allocations => f.count <= memory_allocations'
    BY <1>1, <1>3, <1>5
  <2>5. Position(u)'
    BY <1>2, <2>1, <2>4 DEF Position
  <2>6. Reading(u)'
    BY <1>2, <2>1 DEF Reading
  <2>7. Searching(u)'
    BY <1>2, <2>1, <2>2, <2>3 DEF Searching
  <2> QED
    BY <2>5, <2>6, <2>7
<1>8. DoneSoFar(u)'
  <2> SUFFICES ASSUME pc[u] \in LoopPcs, NEW j \in 0..f.i - 1, RegisterDone(call[u], j, f.count)
               PROVE  RegisterDone(call[u], j, f.count)'
    BY <1>1, <1>2 DEF SetUpBy, DoneSoFar
  <2> QED
    BY <1>2, <1>5, <1>6, DoneStays
<1> QED
  BY <1>4, <1>7, <1>8 DEF SetUpBy

-----------------------------------------------------------------------------
(* The steps of a set-up itself. *)

\* The table does not change under a user's step.
LEMMA TableUnderUser ==
  ASSUME SetUpInv, NEW u \in Users, IoctlStep(u)
  PROVE  /\ virt_address' = virt_address /\ phys_address' = phys_address
         /\ memory_allocations' = memory_allocations
         /\ u \in Threads /\ pc \in [Threads -> Pcs] /\ UserTypes /\ Types /\ SetUpBy(u)
         /\ \A s \in Structs[u] : s \in Acc_data
<1>1. Types /\ UserTypes /\ SetUpBy(u)
  BY DEF SetUpInv, TypeInv, Inv
<1>2. UNCHANGED driver
  BY <1>1, UsersKeepDriver DEF Types, IoctlStep
<1>3. u \in Threads /\ \A s \in Structs[u] : s \in Acc_data
  BY ThreadsAssumption DEF Threads
<1> QED
  BY <1>1, <1>2, <1>3 DEF driver, table, UserTypes

\* An ACC_SETUP or ACC_POLL copies its own list into the buffer, from its head
\* to its data, and a set-up begins at the first register.
LEMMA CopyingKept ==
  ASSUME SetUpInv, ListsFit, NEW u \in Users,
         StartIoctl(u) \/ CopyOffsets(u) \/ CopyData(u) \/ CallSetup(u) \/ Latch(u)
  PROVE  SetUpBy(u)'
<1>0. /\ virt_address' = virt_address /\ phys_address' = phys_address
      /\ memory_allocations' = memory_allocations /\ u \in Threads /\ pc \in [Threads -> Pcs]
      /\ UserTypes /\ SetUpBy(u) /\ accel_data \in Acc_data /\ frame[u] \in Frames
      /\ \A s \in Structs[u] : s \in Acc_data
  BY TableUnderUser DEF IoctlStep, InIoctl, UserTypes
<1>1. CASE StartIoctl(u)
  <2>1. PICK s \in Structs[u], c \in {"setup", "poll"} :
          /\ call' = [call EXCEPT ![u] = s]
          /\ frame' = [frame EXCEPT ![u] = [NoFrame EXCEPT !.cmd = c]]
          /\ accel_data' = [accel_data EXCEPT !.accel_number = s.accel_number,
                                              !.reg_number = s.reg_number]
    BY <1>1, CommandNames DEF StartIoctl
  <2>2. pc'[u] = "copy offsets" /\ call'[u] = s /\ frame'[u].i = 0
    BY <1>0, <1>1, <2>1 DEF StartIoctl, Goto, UserTypes, NoFrame
  <2>3. accel_data'.accel_number = s.accel_number /\ accel_data'.reg_number = s.reg_number
    BY <1>0, <2>1 DEF Acc_data
  <2>4. Copied(u)'
    BY <2>2, <2>3 DEF Copied
  <2>5. Position(u)' /\ Reading(u)' /\ Searching(u)' /\ DoneSoFar(u)'
    BY <2>2 DEF Position, Reading, Searching, DoneSoFar, LoopPcs, BodyPcs, AddressPcs
  <2> QED
    BY <2>4, <2>5 DEF SetUpBy
<1>2. CASE CopyOffsets(u)
  <2>1. pc[u] = "copy offsets" /\ pc'[u] = "copy data" /\ call' = call /\ frame' = frame
    BY <1>0, <1>2 DEF CopyOffsets, Goto
  <2>2. /\ accel_data'.accel_number = accel_data.accel_number
        /\ accel_data'.reg_number = accel_data.reg_number
        /\ accel_data'.reg_offset = call[u].reg_offset
    BY <1>0, <1>2 DEF CopyOffsets, Acc_data
  <2>3. Copied(u)'
    BY <1>0, <2>1, <2>2 DEF SetUpBy, Copied
  <2>4. Position(u)'
    BY <1>0, <2>1 DEF SetUpBy, Position, LoopPcs, BodyPcs
  <2>5. Reading(u)' /\ Searching(u)' /\ DoneSoFar(u)'
    BY <2>1 DEF Reading, Searching, DoneSoFar, LoopPcs, BodyPcs, AddressPcs
  <2> QED
    BY <2>3, <2>4, <2>5 DEF SetUpBy
<1>3. CASE CopyData(u)
  <2>1. pc[u] = "copy data" /\ pc'[u] = frame[u].cmd /\ call' = call /\ frame' = frame
    BY <1>0, <1>3 DEF CopyData, Goto
  <2>2. pc'[u] \in {"setup", "poll"}
    BY <2>1 DEF SetUpInv, TypeInv, Placed, PlacedAt
  <2>3. /\ accel_data'.accel_number = accel_data.accel_number
        /\ accel_data'.reg_number = accel_data.reg_number
        /\ accel_data'.reg_offset = accel_data.reg_offset
        /\ accel_data'.reg_data = call[u].reg_data
    BY <1>0, <1>3 DEF CopyData, Acc_data
  <2>4. Copied(u)'
    BY <1>0, <2>1, <2>2, <2>3 DEF SetUpBy, Copied
  <2>5. Position(u)'
    BY <1>0, <2>1, <2>2 DEF SetUpBy, Position, LoopPcs, BodyPcs
  <2>6. Reading(u)' /\ Searching(u)' /\ DoneSoFar(u)'
    BY <2>2 DEF Reading, Searching, DoneSoFar, LoopPcs, BodyPcs, AddressPcs
  <2> QED
    BY <2>4, <2>5, <2>6 DEF SetUpBy
<1>4. CASE CallSetup(u)
  <2>1. /\ pc[u] = "setup" /\ pc'[u] = "latch" /\ call' = call /\ accel_data' = accel_data
        /\ frame'[u] = [frame[u] EXCEPT !.count = memory_allocations]
    BY <1>0, <1>4 DEF CallSetup, Goto, Keep, UserTypes
  <2>2. frame'[u].count = memory_allocations /\ frame'[u].i = frame[u].i
    BY <1>0, <2>1 DEF Frames
  <2>3. memory_allocations <= memory_allocations'
    BY <1>0, TableUnderUser, <1>4 DEF IoctlStep, InIoctl, Types
  <2>4. Copied(u)'
    BY <1>0, <2>1 DEF SetUpBy, Copied
  <2>5. Position(u)'
    BY <1>0, <2>1, <2>2, <2>3 DEF SetUpBy, Position, LoopPcs, BodyPcs
  <2>6. Reading(u)' /\ Searching(u)' /\ DoneSoFar(u)'
    BY <2>1 DEF Reading, Searching, DoneSoFar, LoopPcs, BodyPcs, AddressPcs
  <2> QED
    BY <2>4, <2>5, <2>6 DEF SetUpBy
<1>5. CASE Latch(u)
  <2>1. accel_data.reg_number <= RegSlots /\ accel_data.reg_number \in Int
    BY <1>0, <1>5 DEF Latch, Goto, SetUpInv, TypeInv, Placed, PlacedAt, Acc_data
  <2>2. /\ pc[u] = "latch" /\ pc'[u] = "loop" /\ call' = call /\ accel_data' = accel_data
        /\ frame'[u] = [frame[u] EXCEPT !.accel = accel_data.accel_number]
    BY <1>0, <1>5, <2>1, Sizes DEF Latch, Goto, Keep, UserTypes
  <2>3. /\ frame'[u].accel = accel_data.accel_number /\ frame'[u].i = frame[u].i
        /\ frame'[u].count = frame[u].count
    BY <1>0, <2>2 DEF Frames
  <2>4. Copied(u)'
    BY <1>0, <2>2 DEF SetUpBy, Copied
  <2>5. frame'[u].i = 0 /\ accel_data.accel_number = call[u].accel_number
    BY <1>0, <2>2, <2>3 DEF SetUpBy, Position, Copied
  <2>6. Position(u)'
    BY <1>0, <2>2, <2>3, <2>5 DEF SetUpBy, Position, LoopPcs, BodyPcs
  <2>7. Reading(u)' /\ Searching(u)' /\ DoneSoFar(u)'
    BY <2>2, <2>5 DEF Reading, Searching, DoneSoFar, LoopPcs, BodyPcs, AddressPcs
  <2> QED
    BY <2>4, <2>6, <2>7 DEF SetUpBy
<1> QED
  BY <1>1, <1>2, <1>3, <1>4, <1>5

\* A statement that writes no register and goes on with the same one leaves
\* done what was done.
LEMMA DoneWhileReading ==
  ASSUME NEW u \in Users, DoneSoFar(u),
         UNCHANGED <<virt_address, phys_address, acc_regs>>,
         call'[u] = call[u], frame'[u].i = frame[u].i, frame'[u].count = frame[u].count,
         frame[u].count \in Nat, pc[u] \in LoopPcs \ {"high"}, pc'[u] # "high"
  PROVE  DoneSoFar(u)'
<1> SUFFICES ASSUME NEW j \in 0..frame[u].i - 1, RegisterDone(call[u], j, frame[u].count)
             PROVE  RegisterDone(call[u], j, frame[u].count)'
  BY DEF DoneSoFar
<1> QED
  BY DoneStays

\* A set-up reads what its list says of a register, and looks its address up.
LEMMA ReadingKept ==
  ASSUME SetUpInv, NEW u \in Users,
         Loop(u) \/ ReadRow(u) \/ Match(u) \/ ReadValue(u) \/ ReadOffset(u) \/ ReadPhys(u)
  PROVE  SetUpBy(u)'
<1>0. /\ virt_address' = virt_address /\ phys_address' = phys_address
      /\ memory_allocations' = memory_allocations /\ u \in Threads /\ pc \in [Threads -> Pcs]
      /\ UserTypes /\ SetUpBy(u) /\ frame[u] \in Frames /\ DOMAIN frame = Users
      /\ call[u] \in Acc_data /\ frame[u].count \in Nat
  BY TableUnderUser, FrameNumbers DEF IoctlStep, InIoctl, UserTypes
<1>1. UNCHANGED <<accel_data, call, acc_regs>>
  BY DEF Loop, ReadRow, Match, ReadValue, ReadOffset, ReadPhys, Keep, user
<1> USE DEF LoopPcs, BodyPcs, AddressPcs
<1>2. CASE Loop(u)
  <2>1. pc[u] = "loop" /\ frame' = frame /\ pc'[u] \in {"row", "return"}
        /\ (pc'[u] = "row" <=> frame[u].i < accel_data.reg_number)
    BY <1>0, <1>2 DEF Loop, Goto, user
  <2>2. Copied(u)'
    BY <1>0, <1>1, <2>1 DEF SetUpBy, Copied
  <2>3. Position(u)'
    <3>1. frame[u].i \in Nat /\ call[u].reg_number \in Int
      BY <1>0, FrameNumbers DEF Acc_data
    <3>2. accel_data.reg_number = call[u].reg_number
      BY <1>0, <2>1 DEF SetUpBy, Copied
    <3>3. /\ pc'[u] = "row" => frame[u].i < call[u].reg_number
          /\ pc'[u] = "return" => frame[u].i >= call[u].reg_number
      BY <2>1, <3>1, <3>2
    <3>4. /\ frame[u].count <= memory_allocations /\ frame[u].accel = call[u].accel_number
          /\ frame[u].i = 0 \/ frame[u].i <= call[u].reg_number
      BY <1>0, <2>1 DEF SetUpBy, Position
    <3> QED
      BY <1>0, <1>1, <2>1, <3>3, <3>4 DEF Position
  <2>4. DoneSoFar(u)'
    BY <1>0, <1>1, <2>1, DoneWhileReading DEF SetUpBy
  <2>5. Reading(u)' /\ Searching(u)'
    BY <2>1 DEF Reading, Searching
  <2> QED
    BY <2>2, <2>3, <2>4, <2>5 DEF SetUpBy
<1>7. CASE ReadRow(u)
  <2>1. /\ pc[u] = "row" /\ pc'[u] = "match"
        /\ frame'[u] = [frame[u] EXCEPT !.row = accel_data.accel_number]
    BY <1>0, <1>7 DEF ReadRow, Goto, Keep
  <2>2. /\ frame'[u].i = frame[u].i /\ frame'[u].count = frame[u].count
        /\ frame'[u].accel = frame[u].accel /\ frame'[u].row = accel_data.accel_number
    BY <1>0, <2>1 DEF Frames
  <2>3. accel_data.accel_number = call[u].accel_number
    BY <1>0, <2>1 DEF SetUpBy, Copied
  <2>4. Copied(u)' /\ Position(u)'
    BY <1>0, <1>1, <2>1, <2>2 DEF SetUpBy, Copied, Position
  <2>5. Reading(u)' /\ Searching(u)'
    BY <1>1, <2>1, <2>2, <2>3 DEF Reading, Searching
  <2>6. DoneSoFar(u)'
    BY <1>0, <1>1, <2>1, <2>2, DoneWhileReading DEF SetUpBy
  <2> QED
    BY <2>4, <2>5, <2>6 DEF SetUpBy
<1>3. CASE Match(u)
  <2> DEFINE o == accel_data.reg_offset[frame[u].i]
  <2>1. /\ pc[u] = "match" /\ pc'[u] = "value"
        /\ frame'[u] = [frame[u] EXCEPT
             !.offset = o, !.translate = <<frame[u].row, o>> \in AddressRegisters]
    BY <1>0, <1>3 DEF Match, Goto, Keep
  <2>2. /\ frame'[u].i = frame[u].i /\ frame'[u].count = frame[u].count
        /\ frame'[u].accel = frame[u].accel /\ frame'[u].offset = o
        /\ frame'[u].translate <=> <<frame[u].row, o>> \in AddressRegisters
    BY <1>0, <2>1 DEF Frames
  <2>3. /\ frame[u].row = frame[u].accel /\ o = call[u].reg_offset[frame[u].i]
    BY <1>0, <2>1 DEF SetUpBy, Copied, Position, Reading
  <2>4. Copied(u)' /\ Position(u)'
    BY <1>0, <1>1, <2>1, <2>2 DEF SetUpBy, Copied, Position
  <2>5. Reading(u)' /\ Searching(u)'
    BY <1>1, <2>1, <2>2, <2>3 DEF Reading, Searching, Word
  <2>6. DoneSoFar(u)'
    BY <1>0, <1>1, <2>1, <2>2, DoneWhileReading DEF SetUpBy
  <2> QED
    BY <2>4, <2>5, <2>6 DEF SetUpBy
<1>4. CASE ReadValue(u)
  <2>1. /\ pc[u] = "value" /\ pc'[u] = (IF frame[u].translate THEN "offset" ELSE "write")
        /\ frame'[u] = [frame[u] EXCEPT !.value = accel_data.reg_data[frame[u].i]]
    BY <1>0, <1>4 DEF ReadValue, Goto, Keep
  <2>2. /\ frame'[u].i = frame[u].i /\ frame'[u].count = frame[u].count
        /\ frame'[u].accel = frame[u].accel /\ frame'[u].offset = frame[u].offset
        /\ frame'[u].value = accel_data.reg_data[frame[u].i]
    BY <1>0, <2>1 DEF Frames
  <2>3. accel_data.reg_data = call[u].reg_data
    BY <1>0, <2>1 DEF SetUpBy, Copied
  <2>4. Copied(u)' /\ Position(u)'
    BY <1>0, <1>1, <2>1, <2>2 DEF SetUpBy, Copied, Position
  <2>5. Reading(u)' /\ Searching(u)'
    BY <1>0, <1>1, <2>1, <2>2, <2>3 DEF SetUpBy, Reading, Searching, Word
  <2>6. DoneSoFar(u)'
    BY <1>0, <1>1, <2>1, <2>2, DoneWhileReading DEF SetUpBy
  <2> QED
    BY <2>4, <2>5, <2>6 DEF SetUpBy
<1>5. CASE ReadOffset(u)
  <2>1. /\ pc[u] = "offset" /\ pc'[u] = "search"
        /\ frame'[u] = [frame[u] EXCEPT !.offset = accel_data.reg_offset[frame[u].i], !.k = 0]
    BY <1>0, <1>5 DEF ReadOffset, Goto, Keep
  <2>2. /\ frame'[u].i = frame[u].i /\ frame'[u].count = frame[u].count /\ frame'[u].k = 0
        /\ frame'[u].accel = frame[u].accel /\ frame'[u].value = frame[u].value
        /\ frame'[u].offset = accel_data.reg_offset[frame[u].i]
    BY <1>0, <2>1 DEF Frames
  <2>3. accel_data.reg_offset = call[u].reg_offset
    BY <1>0, <2>1 DEF SetUpBy, Copied
  <2>4. Copied(u)' /\ Position(u)'
    BY <1>0, <1>1, <2>1, <2>2 DEF SetUpBy, Copied, Position
  <2>5. Reading(u)'
    BY <1>0, <1>1, <2>1, <2>2, <2>3 DEF SetUpBy, Reading, Word
  <2>6. Searching(u)'
    BY <1>0, <2>1, <2>2 DEF Searching
  <2>7. DoneSoFar(u)'
    BY <1>0, <1>1, <2>1, <2>2, DoneWhileReading DEF SetUpBy
  <2> QED
    BY <2>4, <2>5, <2>6, <2>7 DEF SetUpBy
<1>6. CASE ReadPhys(u)
  <2>1. /\ pc[u] = "translate" /\ pc'[u] = "low"
        /\ frame'[u] = [frame[u] EXCEPT !.page = phys_address[frame[u].k]]
    BY <1>0, <1>6 DEF ReadPhys, Goto, Keep
  <2>2. /\ frame'[u].i = frame[u].i /\ frame'[u].count = frame[u].count
        /\ frame'[u].accel = frame[u].accel /\ frame'[u].value = frame[u].value
        /\ frame'[u].offset = frame[u].offset /\ frame'[u].k = frame[u].k
        /\ frame'[u].page = phys_address[frame[u].k]
    BY <1>0, <2>1 DEF Frames
  <2>3. Copied(u)' /\ Position(u)'
    BY <1>0, <1>1, <2>1, <2>2 DEF SetUpBy, Copied, Position
  <2>4. Reading(u)'
    BY <1>0, <1>1, <2>1, <2>2 DEF SetUpBy, Reading, Word
  <2>5. Searching(u)'
    BY <1>0, <2>1, <2>2 DEF SetUpBy, Searching, FirstBelow
  <2>6. DoneSoFar(u)'
    BY <1>0, <1>1, <2>1, <2>2, DoneWhileReading DEF SetUpBy
  <2> QED
    BY <2>3, <2>4, <2>5, <2>6 DEF SetUpBy
<1> QED
  BY <1>2, <1>3, <1>4, <1>5, <1>6, <1>7

\* The words of a listed register are words of its accelerator.
LEMMA WordsExist ==
  ASSUME RegistersExist, NEW u \in Users, NEW s \in Structs[u], NEW j \in 0..s.reg_number - 1
  PROVE  WordsOf(s, j) \subseteq AccelRegisters
<1> DEFINE w == <<s.accel_number, s.reg_offset[j]>>
<1>1. w \in AccelRegisters /\ (w \in AddressRegisters => <<w[1], w[2] + 1>> \in AccelRegisters)
  BY DEF RegistersExist
<1>2. w[1] = s.accel_number /\ w[2] = s.reg_offset[j]
  OBVIOUS
<1> QED
  BY <1>1, <1>2 DEF WordsOf

\* A write to a word of one register leaves registers without that word alone.
LEMMA OtherWordsStay ==
  ASSUME RegistersExist, acc_regs \in [AccelRegisters -> Nat],
         NEW u \in Users, NEW s \in Structs[u], NEW j \in 0..s.reg_number - 1, NEW i, NEW v, NEW x,
         WordsOf(s, i) \cap WordsOf(s, j) = {}, v \in WordsOf(s, i),
         acc_regs' = [acc_regs EXCEPT ![v] = x]
  PROVE  \A w \in WordsOf(s, j) : acc_regs'[w] = acc_regs[w]
<1>1. \A w \in WordsOf(s, j) : w \in AccelRegisters /\ w # v
  BY WordsExist
<1> QED
  BY <1>1

\* When a set-up goes on to the next register, what was done before stays done,
\* unless the one it leaves shares a word with it.
LEMMA DoneByOneMore ==
  ASSUME RegistersExist, UserTypes, NEW u \in Users, Copied(u), Position(u), DoneSoFar(u),
         NEW s, NEW i, NEW n, s = call[u], i = frame[u].i, n = frame[u].count,
         UNCHANGED <<virt_address, phys_address>>,
         call'[u] = s, frame'[u].i = i + 1, frame'[u].count = n,
         pc[u] \in BodyPcs, pc'[u] = "loop", RegisterDone(s, i, n)',
         acc_regs' = acc_regs
           \/ \E v \in WordsOf(s, i) : \E x : acc_regs' = [acc_regs EXCEPT ![v] = x]
  PROVE  DoneSoFar(u)'
<1>0. /\ i \in Nat /\ n \in Nat /\ s \in Structs[u] /\ s.reg_number \in Int
      /\ i < s.reg_number /\ acc_regs \in [AccelRegisters -> Nat]
  BY FrameNumbers DEF UserTypes, Acc_data, Copied, Position, BodyPcs
<1> SUFFICES ASSUME NEW j \in 0..i,
                    \A l \in j + 1..i : WordsOf(s, l) \cap WordsOf(s, j) = {}
             PROVE  RegisterDone(s, j, n)'
  BY <1>0 DEF DoneSoFar
<1>1. CASE j = i
  BY <1>1
<1>2. CASE j # i
  <2>1. j \in 0..i - 1 /\ j \in 0..s.reg_number - 1 /\ i \in j + 1..i
    BY <1>0, <1>2
  <2>2. RegisterDone(s, j, n)
    <3>1. \A l \in j + 1..(IF pc[u] = "high" THEN i ELSE i - 1) : l \in j + 1..i
      BY <1>0
    <3> QED
      BY <2>1, <3>1 DEF DoneSoFar, LoopPcs
  <2>3. WordsOf(s, i) \cap WordsOf(s, j) = {}
    BY <2>1
  <2>4. \A w \in WordsOf(s, j) : acc_regs'[w] = acc_regs[w]
    <3>1. CASE acc_regs' = acc_regs
      BY <3>1
    <3>2. ASSUME NEW v \in WordsOf(s, i), NEW x, acc_regs' = [acc_regs EXCEPT ![v] = x]
          PROVE  \A w \in WordsOf(s, j) : acc_regs'[w] = acc_regs[w]
      BY <1>0, <2>1, <2>3, <3>2, OtherWordsStay
    <3> QED
      BY <3>1, <3>2
  <2> QED
    BY <1>0, <2>2, <2>4, DoneStays
<1> QED
  BY <1>1, <1>2

\* The fields of the frame with which a set-up comes round again.
LEMMA NextFrame ==
  ASSUME NEW f \in Frames
  PROVE  /\ NextRegister(f).i = f.i + 1 /\ NextRegister(f).count = f.count
         /\ NextRegister(f).accel = f.accel
BY DEF NextRegister, NoFrame

\* Come round again, a set-up stands where its loop expects it.
LEMMA RoundAgain ==
  ASSUME UserTypes, NEW u \in Users, SetUpBy(u), pc[u] \in BodyPcs, pc'[u] = "loop",
         UNCHANGED <<accel_data, call, memory_allocations>>,
         frame'[u] = NextRegister(frame[u])
  PROVE  Copied(u)' /\ Position(u)' /\ Reading(u)' /\ Searching(u)'
<1>1. frame'[u].i = frame[u].i + 1 /\ frame'[u].count = frame[u].count
      /\ frame'[u].accel = frame[u].accel
  BY NextFrame DEF UserTypes
<1>2. /\ frame[u].i \in Nat /\ call[u].reg_number \in Int /\ frame[u].i < call[u].reg_number
      /\ frame[u].count <= memory_allocations /\ frame[u].accel = call[u].accel_number
  BY FrameNumbers DEF SetUpBy, Position, UserTypes, Acc_data, LoopPcs
<1>3. frame'[u].i <= call[u].reg_number
  BY <1>1, <1>2
<1>4. Copied(u)'
  BY DEF SetUpBy, Copied, BodyPcs
<1>5. Position(u)'
  BY <1>1, <1>2, <1>3 DEF Position, LoopPcs, BodyPcs
<1>6. Reading(u)' /\ Searching(u)'
  BY DEF Reading, Searching, BodyPcs, AddressPcs
<1> QED
  BY <1>4, <1>5, <1>6

\* The search goes over the entries in their order and stops at the first whose
\* page is the address's; an address that no entry has is left out.
LEMMA SearchKept ==
  ASSUME SetUpInv, RegistersExist, NEW u \in Users, Search(u)
  PROVE  SetUpBy(u)'
<1> DEFINE f == frame[u]
<1>0. /\ virt_address' = virt_address /\ phys_address' = phys_address
      /\ memory_allocations' = memory_allocations /\ u \in Threads /\ pc \in [Threads -> Pcs]
      /\ UserTypes /\ SetUpBy(u) /\ f \in Frames /\ DOMAIN frame = Users
  BY TableUnderUser DEF IoctlStep, InIoctl, UserTypes
<1>1. UNCHANGED <<accel_data, call, acc_regs>> /\ pc[u] = "search"
  BY DEF Search, Keep
<1>2. /\ f.k \in Nat /\ f.count \in Nat /\ f.k <= f.count
      /\ \A d \in 0..f.k - 1 : virt_address[d] # PageOf(f.value)
  BY <1>0, <1>1, FrameNumbers DEF SetUpBy, Searching
<1>3. CASE f.k = f.count
  <2>1. pc'[u] = "loop" /\ frame'[u] = NextRegister(f)
    BY <1>0, <1>3 DEF Search, Goto, Keep
  <2>2. Copied(u)' /\ Position(u)' /\ Reading(u)' /\ Searching(u)'
    BY <1>0, <1>1, <2>1, RoundAgain DEF BodyPcs
  <2>4. PICK s, i, n : s = call[u] /\ i = f.i /\ n = f.count
    OBVIOUS
  <2>5. RegisterDone(s, i, n)'
    <3>1. <<s.accel_number, s.reg_offset[i]>> \in AddressRegisters /\ f.value = s.reg_data[i]
      BY <1>0, <1>1, <2>4
         DEF SetUpBy, Reading, Position, Word, LoopPcs, BodyPcs, AddressPcs
    <3>2. \A e \in Entries : ~FirstBelow(n, s.reg_data[i], e)'
      <4>1. \A e \in Entries : e < n => e \in 0..n - 1
        BY <1>2, <2>4, Sizes DEF Entries
      <4>2. \A d \in 0..n - 1 : virt_address'[d] # PageOf(s.reg_data[i])
        BY <1>0, <1>2, <1>3, <2>4, <3>1
      <4> QED
        BY <4>1, <4>2 DEF FirstBelow
    <3> QED
      BY <3>1, <3>2 DEF RegisterDone
  <2>6. frame'[u].i = i + 1 /\ frame'[u].count = n
    BY <1>0, <2>1, <2>4, NextFrame
  <2>7. DoneSoFar(u)'
    <3>1. Copied(u) /\ Position(u) /\ DoneSoFar(u) /\ call'[u] = s
      BY <1>0, <1>1, <2>4 DEF SetUpBy
    <3> QED
      BY <1>0, <1>1, <2>1, <2>4, <2>5, <2>6, <3>1, DoneByOneMore DEF BodyPcs
  <2> QED
    BY <2>2, <2>7 DEF SetUpBy
<1>4. CASE f.k # f.count /\ virt_address[f.k] = PageOf(f.value)
  <2>1. pc'[u] = "translate" /\ frame'[u] = f
    BY <1>0, <1>4 DEF Search, Goto, Keep
  <2>2. FirstBelow(f.count, f.value, f.k)'
    BY <1>0, <1>2, <1>4, <2>1 DEF FirstBelow
  <2>3. Copied(u)' /\ Position(u)'
    BY <1>0, <1>1, <2>1 DEF SetUpBy, Copied, Position, LoopPcs, BodyPcs
  <2>4. Reading(u)'
    BY <1>0, <1>1, <2>1 DEF SetUpBy, Reading, Word, BodyPcs, AddressPcs
  <2>5. Searching(u)'
    BY <2>1, <2>2 DEF Searching
  <2>6. DoneSoFar(u)'
    BY <1>0, <1>1, <1>2, <2>1, DoneWhileReading DEF SetUpBy, LoopPcs, BodyPcs
  <2> QED
    BY <2>3, <2>4, <2>5, <2>6 DEF SetUpBy
<1>5. CASE f.k # f.count /\ virt_address[f.k] # PageOf(f.value)
  <2>1. pc'[u] = "search" /\ frame'[u] = [f EXCEPT !.k = @ + 1]
    BY <1>0, <1>1, <1>5 DEF Search, Goto, Keep
  <2>2. /\ frame'[u].i = f.i /\ frame'[u].count = f.count /\ frame'[u].accel = f.accel
        /\ frame'[u].value = f.value /\ frame'[u].offset = f.offset /\ frame'[u].k = f.k + 1
    BY <1>0, <2>1 DEF Frames
  <2>3. Copied(u)' /\ Position(u)'
    BY <1>0, <1>1, <2>1, <2>2 DEF SetUpBy, Copied, Position, LoopPcs, BodyPcs
  <2>4. Reading(u)'
    BY <1>0, <1>1, <2>1, <2>2 DEF SetUpBy, Reading, Word, BodyPcs, AddressPcs
  <2>5. Searching(u)'
    <3>1. f.k + 1 <= f.count /\ \A d \in 0..f.k : d = f.k \/ d \in 0..f.k - 1
      BY <1>2, <1>5
    <3>2. \A d \in 0..f.k : virt_address'[d] # PageOf(f.value)
      BY <1>0, <1>2, <1>5, <3>1
    <3>3. frame'[u].k - 1 = f.k
      BY <1>2, <2>2
    <3>4. \A d \in 0..frame'[u].k - 1 : virt_address'[d] # PageOf(frame'[u].value)
      BY <2>2, <3>2, <3>3
    <3> QED
      BY <2>1, <2>2, <3>1, <3>4 DEF Searching
  <2>6. DoneSoFar(u)'
    BY <1>0, <1>1, <1>2, <2>1, <2>2, DoneWhileReading DEF SetUpBy, LoopPcs, BodyPcs
  <2> QED
    BY <2>3, <2>4, <2>5, <2>6 DEF SetUpBy
<1> QED
  BY <1>3, <1>4, <1>5

\* The first word of an address: what shares a word with it is no longer held
\* to be done.
LEMMA LowWritten ==
  ASSUME SetUpInv, RegistersExist, NEW u \in Users, WriteLow(u)
  PROVE  SetUpBy(u)'
<1> DEFINE f == frame[u]
<1>0. /\ virt_address' = virt_address /\ phys_address' = phys_address
      /\ memory_allocations' = memory_allocations /\ u \in Threads /\ pc \in [Threads -> Pcs]
      /\ UserTypes /\ SetUpBy(u)
  BY TableUnderUser DEF IoctlStep, InIoctl
<1>1. /\ UNCHANGED <<accel_data, call, frame>> /\ pc[u] = "low" /\ pc'[u] = "high"
      /\ acc_regs' = [acc_regs EXCEPT ![Word(u)] = f.value % LowSpan]
  BY <1>0 DEF WriteLow, Goto, Word
<1>2. Word(u) \in AddressRegisters /\ Word(u)' = Word(u) /\ Word(u) \in AccelRegisters
  BY <1>0, <1>1, ThreadsAssumption DEF SetUpBy, Reading, Word, AddressPcs
<1>3. Copied(u)' /\ Position(u)'
  BY <1>0, <1>1 DEF SetUpBy, Copied, Position, LoopPcs, BodyPcs
<1>4. Reading(u)'
  <2>1. acc_regs'[Word(u)] = f.value % LowSpan
    BY <1>1, <1>2 DEF UserTypes, SetUpInv, TypeInv
  <2> QED
    BY <1>0, <1>1, <1>2, <2>1 DEF SetUpBy, Reading, BodyPcs, AddressPcs
<1>5. Searching(u)'
  BY <1>0, <1>1 DEF SetUpBy, Searching, FirstBelow
<1>6. DoneSoFar(u)'
  <2>1. PICK s, i, n : s = call[u] /\ i = f.i /\ n = f.count
    OBVIOUS
  <2>2. /\ i \in Nat /\ n \in Nat /\ s \in Structs[u] /\ s.reg_number \in Int
        /\ i < s.reg_number /\ acc_regs \in [AccelRegisters -> Nat]
        /\ Word(u) = <<s.accel_number, s.reg_offset[i]>>
    BY <1>0, <1>1, <2>1, FrameNumbers
       DEF UserTypes, Acc_data, SetUpBy, Copied, Position, Reading, Word, LoopPcs, BodyPcs
  <2>3. Word(u) \in WordsOf(s, i)
    BY <2>2 DEF WordsOf
  <2> SUFFICES ASSUME NEW j \in 0..i - 1,
                      \A l \in j + 1..i : WordsOf(s, l) \cap WordsOf(s, j) = {}
               PROVE  RegisterDone(s, j, n)'
    BY <1>1, <2>1 DEF DoneSoFar
  <2>4. j \in 0..s.reg_number - 1 /\ i \in j + 1..i /\ \A l \in j + 1..i - 1 : l \in j + 1..i
    BY <2>2
  <2>5. RegisterDone(s, j, n)
    BY <1>0, <1>1, <2>1, <2>4 DEF SetUpBy, DoneSoFar, LoopPcs, BodyPcs
  <2>6. \A w \in WordsOf(s, j) : acc_regs'[w] = acc_regs[w]
    <3>1. PICK v, x : v = Word(u) /\ x = f.value % LowSpan
      OBVIOUS
    <3> QED
      BY <1>1, <2>2, <2>3, <2>4, <3>1, OtherWordsStay
  <2> QED
    BY <1>0, <2>2, <2>5, <2>6, DoneStays
<1> QED
  BY <1>3, <1>4, <1>5, <1>6 DEF SetUpBy

\* With the second word the register holds the translation of its address, by
\* the only entry that a search can stop at.
LEMMA HighWritten ==
  ASSUME SetUpInv, RegistersExist, NEW u \in Users, WriteHigh(u)
  PROVE  SetUpBy(u)'
<1> DEFINE f == frame[u]
<1>0. /\ virt_address' = virt_address /\ phys_address' = phys_address
      /\ memory_allocations' = memory_allocations /\ u \in Threads /\ pc \in [Threads -> Pcs]
      /\ UserTypes /\ SetUpBy(u) /\ f \in Frames /\ DOMAIN frame = Users
  BY TableUnderUser DEF IoctlStep, InIoctl, UserTypes
<1> DEFINE up == <<f.accel, f.offset + 1>>
<1>1. /\ UNCHANGED <<accel_data, call>> /\ pc[u] = "high" /\ pc'[u] = "loop"
      /\ frame'[u] = NextRegister(f)
      /\ acc_regs' = [acc_regs EXCEPT ![up] = KeptPage(f.page) \div 4]
  BY <1>0 DEF WriteHigh, Goto, Keep
<1>2. PICK s, i, n : s = call[u] /\ i = f.i /\ n = f.count
  OBVIOUS
<1>3. /\ i \in Nat /\ n \in Nat /\ s \in Structs[u] /\ s.reg_number \in Int
      /\ i < s.reg_number /\ acc_regs \in [AccelRegisters -> Nat]
      /\ f.accel = s.accel_number /\ f.offset = s.reg_offset[i] /\ f.offset \in Nat
      /\ f.value = s.reg_data[i] /\ Word(u) \in AddressRegisters
      /\ acc_regs[Word(u)] = f.value % LowSpan
  BY <1>0, <1>1, <1>2, FrameNumbers
     DEF UserTypes, Acc_data, SetUpBy, Copied, Position, Reading, LoopPcs, BodyPcs, AddressPcs
<1>4. /\ Word(u) = <<s.accel_number, s.reg_offset[i]>> /\ up \in WordsOf(s, i)
      /\ up = <<s.accel_number, s.reg_offset[i] + 1>> /\ up # Word(u)
      /\ Word(u) \in AccelRegisters /\ up \in AccelRegisters
  <2>1. i \in 0..s.reg_number - 1
    BY <1>3
  <2>2. /\ Word(u) = <<s.accel_number, s.reg_offset[i]>> /\ up \in WordsOf(s, i)
        /\ up = <<s.accel_number, s.reg_offset[i] + 1>> /\ up # Word(u)
    BY <1>3 DEF Word, WordsOf
  <2> QED
    BY <1>3, <2>1, <2>2, WordsExist, ThreadsAssumption
<1>5. RegisterDone(s, i, n)'
  <2>1. /\ acc_regs'[Word(u)] = f.value % LowSpan
        /\ acc_regs'[up] = KeptPage(f.page) \div 4
    BY <1>1, <1>3, <1>4
  <2>2. FirstBelow(n, f.value, f.k) /\ f.page = phys_address[f.k] /\ f.k \in Nat
    BY <1>0, <1>1, <1>2, FrameNumbers DEF SetUpBy, Searching
  <2>3. ASSUME NEW e \in Entries, FirstBelow(n, s.reg_data[i], e)'
        PROVE  HoldsAddress(<<s.accel_number, s.reg_offset[i]>>, s.reg_data[i], e)'
    <3>1. e \in Nat /\ FirstBelow(n, f.value, e)
      BY <1>0, <1>3, <2>3, Sizes DEF Entries, FirstBelow
    <3>2. e = f.k
      BY <2>2, <3>1, FoundOnce
    <3> QED
      BY <1>0, <1>3, <1>4, <2>1, <2>2, <3>2 DEF HoldsAddress
  <2> QED
    BY <1>3, <1>4, <2>3 DEF RegisterDone
<1>6. frame'[u].i = i + 1 /\ frame'[u].count = n
  BY <1>0, <1>1, <1>2, NextFrame
<1>7. DoneSoFar(u)'
  <2>1. Copied(u) /\ Position(u) /\ DoneSoFar(u) /\ call'[u] = s
    BY <1>0, <1>1, <1>2 DEF SetUpBy
  <2>2. \E v \in WordsOf(s, i) : \E x : acc_regs' = [acc_regs EXCEPT ![v] = x]
    BY <1>1, <1>4
  <2> QED
    BY <1>0, <1>1, <1>2, <1>5, <1>6, <2>1, <2>2, DoneByOneMore DEF BodyPcs
<1>8. Copied(u)' /\ Position(u)' /\ Reading(u)' /\ Searching(u)'
  BY <1>0, <1>1, RoundAgain DEF BodyPcs
<1> QED
  BY <1>7, <1>8 DEF SetUpBy

\* A register that holds no address is written as it is.
LEMMA PlainWritten ==
  ASSUME SetUpInv, RegistersExist, NEW u \in Users, setup_reg(u)
  PROVE  SetUpBy(u)'
<1> DEFINE f == frame[u]
<1>0. /\ virt_address' = virt_address /\ phys_address' = phys_address
      /\ memory_allocations' = memory_allocations /\ u \in Threads /\ pc \in [Threads -> Pcs]
      /\ UserTypes /\ SetUpBy(u) /\ f \in Frames /\ DOMAIN frame = Users
  BY TableUnderUser DEF IoctlStep, InIoctl, UserTypes
<1>1. /\ UNCHANGED <<accel_data, call>> /\ pc[u] = "write" /\ pc'[u] = "loop"
      /\ frame'[u] = NextRegister(f)
      /\ acc_regs' = [acc_regs EXCEPT ![Word(u)] = LowWord(f.value)]
  BY <1>0 DEF setup_reg, Goto, Keep, Word
<1>2. PICK s, i, n : s = call[u] /\ i = f.i /\ n = f.count
  OBVIOUS
<1>3. /\ i \in Nat /\ s \in Structs[u] /\ s.reg_number \in Int
      /\ i < s.reg_number /\ acc_regs \in [AccelRegisters -> Nat]
      /\ f.value = s.reg_data[i] /\ Word(u) \notin AddressRegisters
      /\ Word(u) = <<s.accel_number, s.reg_offset[i]>>
  BY <1>0, <1>1, <1>2, FrameNumbers
     DEF UserTypes, Acc_data, SetUpBy, Copied, Position, Reading, Word, LoopPcs, BodyPcs
<1>4. Word(u) \in WordsOf(s, i) /\ Word(u) \in AccelRegisters
  <2>1. i \in 0..s.reg_number - 1
    BY <1>3
  <2> QED
    BY <1>3, <2>1, WordsExist DEF WordsOf
<1>5. RegisterDone(s, i, n)'
  <2>1. acc_regs'[Word(u)] = LowWord(f.value)
    BY <1>1, <1>3, <1>4
  <2> QED
    BY <1>3, <2>1 DEF RegisterDone
<1>6. frame'[u].i = i + 1 /\ frame'[u].count = n
  BY <1>0, <1>1, <1>2, NextFrame
<1>7. DoneSoFar(u)'
  <2>1. Copied(u) /\ Position(u) /\ DoneSoFar(u) /\ call'[u] = s
    BY <1>0, <1>1, <1>2 DEF SetUpBy
  <2>2. \E v \in WordsOf(s, i) : \E x : acc_regs' = [acc_regs EXCEPT ![v] = x]
    BY <1>1, <1>4
  <2> QED
    BY <1>0, <1>1, <1>2, <1>5, <1>6, <2>1, <2>2, DoneByOneMore DEF BodyPcs
<1>8. Copied(u)' /\ Position(u)' /\ Reading(u)' /\ Searching(u)'
  BY <1>0, <1>1, RoundAgain DEF BodyPcs
<1> QED
  BY <1>7, <1>8 DEF SetUpBy

\* Between calls, and in ACC_POLL, nothing of a list is under way.
LEMMA OutsideKept ==
  ASSUME SetUpInv, NEW u \in Users,
         Return(u) \/ ReadNumber(u) \/ poll_accel(u) \/ StorePoll(u) \/ CopyBack(u)
  PROVE  SetUpBy(u)'
<1>0. /\ u \in Threads /\ pc \in [Threads -> Pcs] /\ UserTypes /\ SetUpBy(u)
      /\ accel_data \in Acc_data
  BY TableUnderUser DEF IoctlStep, InIoctl, UserTypes
<1>1. /\ pc[u] \in {"return", "poll", "register", "poll_value", "copy back"}
      /\ pc'[u] \in {"idle", "register", "poll_value", "copy back"}
      /\ pc'[u] # "idle" => call' = call
  BY <1>0 DEF Return, ReadNumber, poll_accel, StorePoll, CopyBack, Goto, Keep
<1>2. Position(u)' /\ Reading(u)' /\ Searching(u)' /\ DoneSoFar(u)'
  BY <1>1 DEF Position, Reading, Searching, DoneSoFar, LoopPcs, BodyPcs, AddressPcs
<1>3. pc'[u] # "idle" =>
        /\ accel_data'.accel_number = accel_data.accel_number
        /\ accel_data'.reg_number = accel_data.reg_number
        /\ accel_data'.reg_offset = accel_data.reg_offset
        /\ accel_data'.reg_data = accel_data.reg_data
  <2>1. CASE StorePoll(u)
    BY <1>0, <2>1 DEF StorePoll, Acc_data
  <2>2. CASE ~StorePoll(u)
    BY <2>2 DEF Return, ReadNumber, poll_accel, CopyBack, Keep
  <2> QED
    BY <2>1, <2>2
<1>4. Copied(u)'
  BY <1>0, <1>1, <1>3 DEF SetUpBy, Copied
<1> QED
  BY <1>2, <1>4 DEF SetUpBy

-----------------------------------------------------------------------------
\* No set-up is under way at first.
LEMMA InitSetUp == Init => SetUpInv
<1> SUFFICES ASSUME Init PROVE SetUpInv
  OBVIOUS
<1>1. \A u \in Users : pc[u] = "idle"
  BY DEF Init, Threads
<1>2. \A u \in Users : SetUpBy(u)
  BY <1>1 DEF SetUpBy, Copied, Position, Reading, Searching, DoneSoFar, LoopPcs, BodyPcs,
     AddressPcs
<1> QED
  BY <1>2, InitTypes DEF SetUpInv

\* Nothing is claimed of a user outside a call.
LEMMA IdleSetUp ==
  ASSUME NEW u \in Users, pc'[u] = "idle"
  PROVE  SetUpBy(u)'
BY DEF SetUpBy, Copied, Position, Reading, Searching, DoneSoFar, LoopPcs, BodyPcs, AddressPcs

\* A user's statement is one of a call.
LEMMA StepsInCall ==
  ASSUME SetUpInv, NEW u \in Users, IoctlStep(u)
  PROVE  pc[u] # "idle" \/ pc'[u] # "idle"
<1>1. CASE StartIoctl(u)
  <2>1. pc \in [Threads -> Pcs] /\ u \in Threads
    BY DEF SetUpInv, TypeInv, UserTypes, Threads
  <2> QED
    BY <1>1, <2>1 DEF StartIoctl, Goto
<1>2. CASE InIoctl(u)
  BY <1>2 DEF InIoctl, CopyOffsets, CopyData, CallSetup, Latch, Loop, ReadRow, Match, ReadValue,
     ReadOffset, Search, ReadPhys, WriteLow, WriteHigh, setup_reg, Return, ReadNumber,
     poll_accel, StorePoll, CopyBack, Goto
<1> QED
  BY <1>1, <1>2 DEF IoctlStep

\* Every step of a user, and of any mapper, keeps it.
LEMMA StepSetUp ==
  ASSUME ListsFit, RegistersExist
  PROVE  SetUpInv /\ OneAtATime /\ OneAtATime' /\ [Next]_vars => SetUpInv'
<1> SUFFICES ASSUME SetUpInv, OneAtATime, OneAtATime', [Next]_vars PROVE SetUpInv'
  OBVIOUS
<1>1. TypeInv'
  BY StepTypes DEF SetUpInv
<1>2. ASSUME NEW t \in Mappers, MapperStep(t) PROVE \A u \in Users : SetUpBy(u)'
  BY <1>2, MapperKeepsSetUp
<1>3. ASSUME NEW u \in Users, IoctlStep(u) PROVE \A v \in Users : SetUpBy(v)'
  <2>1. SetUpBy(u)'
    BY <1>3, CopyingKept, ReadingKept, SearchKept, LowWritten, HighWritten, PlainWritten,
       OutsideKept DEF IoctlStep, InIoctl
  <2>2. ASSUME NEW v \in Users, v # u PROVE SetUpBy(v)'
    <3>1. pc'[v] = pc[v]
      BY <1>3, <2>2, OtherUsersKept DEF SetUpInv, TypeInv
    <3>2. pc[u] # "idle" \/ pc'[u] # "idle"
      BY <1>3, StepsInCall
    <3>3. pc'[v] = "idle"
      BY <2>2, <3>1, <3>2 DEF OneAtATime
    <3> QED
      BY <3>3, IdleSetUp
  <2> QED
    BY <2>1, <2>2
<1>4. CASE UNCHANGED vars
  <2> SUFFICES ASSUME NEW u \in Users PROVE SetUpBy(u)'
    BY <1>1 DEF SetUpInv
  <2>1. SetUpBy(u) /\ Word(u)' = Word(u)
    BY <1>4 DEF SetUpInv, Word, vars, user
  <2>2. UNCHANGED <<virt_address, phys_address, memory_allocations, pc, accel_data, acc_regs,
                    call, frame>>
    BY <1>4 DEF vars, table, user
  <2>3. Copied(u)' /\ Position(u)'
    BY <2>1, <2>2 DEF SetUpBy, Copied, Position
  <2>4. Reading(u)' /\ Searching(u)'
    <3>1. Reading(u)'
      BY <2>1, <2>2 DEF SetUpBy, Reading
    <3>2. FirstBelow(frame[u].count, frame[u].value, frame[u].k)'
            <=> FirstBelow(frame[u].count, frame[u].value, frame[u].k)
      BY <2>2 DEF FirstBelow
    <3>3. Searching(u)'
      BY <2>1, <2>2, <3>2 DEF SetUpBy, Searching
    <3> QED
      BY <3>1, <3>3
  <2>5. DoneSoFar(u)'
    <3> SUFFICES ASSUME pc[u] \in LoopPcs, NEW j \in 0..frame[u].i - 1,
                        RegisterDone(call[u], j, frame[u].count)
                 PROVE  RegisterDone(call[u], j, frame[u].count)'
      BY <2>1, <2>2 DEF SetUpBy, DoneSoFar
    <3> QED
      BY <2>2 DEF RegisterDone, FirstBelow, HoldsAddress
  <2> QED
    BY <2>3, <2>4, <2>5 DEF SetUpBy
<1> QED
  BY <1>1, <1>2, <1>3, <1>4, StepCases DEF SetUpInv

\* Threads that set up or poll accelerators one at a time, beside any number that
\* map: a set-up that returns has done what its list says, with the entries that
\* there were when it was called.  Beside another set-up it need not (run
\* threads_two_users).
THEOREM SetUpAlone ==
  ASSUME ListsFit, RegistersExist
  PROVE  Spec => SetUpInTurn
<1>1. SetUpInv => SetUpDone
  <2> SUFFICES ASSUME SetUpInv, NEW u \in Users, pc[u] = "return",
                      NEW j \in 0..call[u].reg_number - 1,
                      \A l \in j + 1..call[u].reg_number - 1 :
                        WordsOf(call[u], l) \cap WordsOf(call[u], j) = {}
               PROVE  RegisterDone(call[u], j, frame[u].count)
    BY DEF SetUpDone, RegisterDone
  <2>1. /\ frame[u].i \in Nat /\ call[u].reg_number \in Int
        /\ frame[u].i >= call[u].reg_number
        /\ frame[u].i = 0 \/ frame[u].i <= call[u].reg_number
    BY FrameNumbers
       DEF SetUpInv, TypeInv, UserTypes, Acc_data, SetUpBy, Position, LoopPcs
  <2>2. frame[u].i = call[u].reg_number
    BY <2>1
  <2> QED
    BY <2>2 DEF SetUpInv, SetUpBy, DoneSoFar, LoopPcs
<1> QED
  BY <1>1, InitSetUp, StepSetUp, PTL DEF Spec, SetUpInTurn

-----------------------------------------------------------------------------
(* No stray address. *)

\* The upper word of an address register is neither listed by itself nor the
\* lower one of another.
UppersReserved ==
  \A w \in AddressRegisters :
    /\ <<w[1], w[2] + 1>> \notin AddressRegisters
    /\ \A u \in Users : \A s \in Structs[u] : \A j \in 0..s.reg_number - 1 :
         <<s.accel_number, s.reg_offset[j]>> # <<w[1], w[2] + 1>>

\* A register that no address was written to, or the translation of one.
Clean(w) ==
  \/ acc_regs[w] = 0 /\ acc_regs[<<w[1], w[2] + 1>>] = 0
  \/ \E u \in Users : \E s \in Structs[u], e \in 0..memory_allocations - 1 :
       \E j \in 0..s.reg_number - 1 :
         PageOf(s.reg_data[j]) = virt_address[e] /\ HoldsAddress(w, s.reg_data[j], e)

Half(w) == \E u \in Users : pc[u] = "high" /\ w = Word(u)

StrayInv == SetUpInv /\ \A w \in AddressRegisters : Clean(w) \/ Half(w)

\* A translation stays one while its words do and entries are only added.
LEMMA CleanKept ==
  ASSUME NEW w, Clean(w),
         memory_allocations \in Nat, memory_allocations' \in Nat,
         memory_allocations <= memory_allocations',
         \A e \in 0..memory_allocations - 1 :
           virt_address'[e] = virt_address[e] /\ phys_address'[e] = phys_address[e],
         acc_regs'[w] = acc_regs[w],
         acc_regs'[<<w[1], w[2] + 1>>] = acc_regs[<<w[1], w[2] + 1>>]
  PROVE  Clean(w)'
<1>1. CASE acc_regs[w] = 0 /\ acc_regs[<<w[1], w[2] + 1>>] = 0
  BY <1>1 DEF Clean
<1>2. ASSUME NEW u \in Users, NEW s \in Structs[u], NEW e \in 0..memory_allocations - 1,
             NEW j \in 0..s.reg_number - 1,
             PageOf(s.reg_data[j]) = virt_address[e], HoldsAddress(w, s.reg_data[j], e)
      PROVE  Clean(w)'
  <2>1. e \in 0..memory_allocations' - 1
    <3>1. PICK m \in Nat, n \in Nat : m = memory_allocations /\ n = memory_allocations'
      OBVIOUS
    <3>2. e \in 0..m - 1 /\ m <= n
      BY <3>1
    <3>3. e \in 0..n - 1
      BY <3>2
    <3> QED
      BY <3>1, <3>3
  <2>2. PageOf(s.reg_data[j]) = virt_address'[e] /\ HoldsAddress(w, s.reg_data[j], e)'
    BY <1>2 DEF HoldsAddress
  <2> QED
    BY <2>1, <2>2 DEF Clean
<1> QED
  BY <1>1, <1>2 DEF Clean

\* What a user's step leaves, in the terms of CleanKept.
LEMMA CleanUnderUser ==
  ASSUME SetUpInv, NEW u \in Users, IoctlStep(u), NEW w, Clean(w),
         acc_regs'[w] = acc_regs[w],
         acc_regs'[<<w[1], w[2] + 1>>] = acc_regs[<<w[1], w[2] + 1>>]
  PROVE  Clean(w)'
<1>1. UNCHANGED <<virt_address, phys_address, memory_allocations>> /\ memory_allocations \in Nat
  BY TableUnderUser, Sizes DEF Types
<1> QED
  BY <1>1, CleanKept

\* The steps that write no register end no half-written one.
LEMMA QuietStep ==
  ASSUME StrayInv, NEW u \in Users, IoctlStep(u),
         ~(WriteLow(u) \/ WriteHigh(u) \/ setup_reg(u)), NEW w \in AddressRegisters
  PROVE  Clean(w)' \/ Half(w)'
<1>1. acc_regs' = acc_regs
  BY DEF IoctlStep, InIoctl, StartIoctl, CopyOffsets, CopyData, CallSetup, Latch, Loop, ReadRow, Match,
     ReadValue, ReadOffset, Search, ReadPhys, Return, ReadNumber, poll_accel, StorePoll,
     CopyBack, Keep, user
<1>2. CASE Clean(w)
  BY <1>1, <1>2, CleanUnderUser DEF StrayInv
<1>3. ASSUME NEW v \in Users, pc[v] = "high", w = Word(v)
      PROVE  Half(w)'
  <2>1. v # u
    BY <1>3 DEF IoctlStep, InIoctl, StartIoctl, CopyOffsets, CopyData, CallSetup, Latch, Loop, ReadRow,
       Match, ReadValue, ReadOffset, Search, ReadPhys, Return, ReadNumber, poll_accel,
       StorePoll, CopyBack, Goto
  <2>2. pc'[v] = pc[v] /\ frame'[v] = frame[v]
    BY <2>1, OtherUsersKept DEF StrayInv, SetUpInv, TypeInv
  <2> QED
    BY <1>3, <2>2 DEF Half, Word
<1> QED
  BY <1>2, <1>3 DEF StrayInv, Half

\* The steps that write one.
LEMMA WritingStep ==
  ASSUME StrayInv, OneAtATime, RegistersExist, UppersReserved, NEW u \in Users,
         WriteLow(u) \/ WriteHigh(u) \/ setup_reg(u), NEW w \in AddressRegisters
  PROVE  Clean(w)' \/ Half(w)'
<1> DEFINE f == frame[u]
           up == <<w[1], w[2] + 1>>
<1>0. /\ virt_address' = virt_address /\ phys_address' = phys_address
      /\ memory_allocations' = memory_allocations /\ u \in Threads /\ pc \in [Threads -> Pcs]
      /\ UserTypes /\ SetUpBy(u) /\ SetUpInv /\ IoctlStep(u)
  BY TableUnderUser DEF IoctlStep, InIoctl, StrayInv
<1>1. /\ acc_regs \in [AccelRegisters -> Nat] /\ w \in AccelRegisters /\ up \in AccelRegisters
      /\ \E a \in Nat, o \in Nat : w = <<a, o>>
      /\ f.accel \in Nat /\ f.offset \in Nat /\ f.i \in Nat /\ f.k \in Nat /\ f.count \in Nat
  BY <1>0, FrameNumbers, ThreadsAssumption DEF UserTypes, RegistersExist
<1>2. \A v \in Users : pc[v] = "high" => v = u
  <2>1. pc[u] # "idle"
    BY DEF WriteLow, WriteHigh, setup_reg, Goto
  <2> QED
    BY <2>1 DEF OneAtATime
<1>3. CASE WriteLow(u)
  <2>1. /\ pc[u] = "low" /\ pc'[u] = "high" /\ frame' = frame
        /\ acc_regs' = [acc_regs EXCEPT ![Word(u)] = f.value % LowSpan]
    BY <1>0, <1>3 DEF WriteLow, Goto, Word
  <2>2. Word(u) \in AddressRegisters
    BY <1>0, <2>1 DEF SetUpBy, Reading, AddressPcs
  <2>3. CASE w = Word(u)
    BY <2>1, <2>3 DEF Half, Word
  <2>4. CASE w # Word(u)
    <3>1. up # Word(u)
      BY <2>2 DEF UppersReserved
    <3>2. acc_regs'[w] = acc_regs[w] /\ acc_regs'[up] = acc_regs[up]
      BY <1>1, <2>1, <2>4, <3>1
    <3>3. Clean(w)
      BY <1>2, <2>1 DEF StrayInv, Half
    <3> QED
      BY <1>0, <3>2, <3>3, CleanUnderUser
  <2> QED
    BY <2>3, <2>4
<1>4. CASE WriteHigh(u)
  <2> DEFINE x == <<f.accel, f.offset + 1>>
  <2>1. /\ pc[u] = "high" /\ acc_regs' = [acc_regs EXCEPT ![x] = KeptPage(f.page) \div 4]
    BY <1>0, <1>4 DEF WriteHigh, Goto
  <2>2. Word(u) \in AddressRegisters /\ x \notin AddressRegisters
    BY <1>0, <2>1 DEF SetUpBy, Reading, AddressPcs, UppersReserved, Word
  <2>3. CASE w = Word(u)
    <3>1. PICK s, i, e, n : s = call[u] /\ i = f.i /\ e = f.k /\ n = f.count
      OBVIOUS
    <3>2. /\ s \in Structs[u] /\ s.reg_number \in Int /\ i < s.reg_number
          /\ f.value = s.reg_data[i] /\ acc_regs[w] = f.value % LowSpan
          /\ e < n /\ n <= memory_allocations
          /\ virt_address[e] = PageOf(f.value) /\ f.page = phys_address[e]
      BY <1>0, <2>1, <2>3, <3>1
         DEF UserTypes, Acc_data, SetUpBy, Copied, Position, Reading, Searching, FirstBelow,
             LoopPcs, BodyPcs, AddressPcs
    <3>3. x = up /\ x # w
      BY <1>1, <2>3 DEF Word
    <3>4. acc_regs'[w] = f.value % LowSpan /\ acc_regs'[up] = KeptPage(f.page) \div 4
      BY <1>1, <2>1, <3>2, <3>3
    <3>5. HoldsAddress(w, s.reg_data[i], e)'
      BY <1>0, <3>2, <3>4 DEF HoldsAddress
    <3>6. i \in 0..s.reg_number - 1 /\ e \in 0..memory_allocations' - 1
      <4>1. memory_allocations \in Nat
        BY TableUnderUser, <1>0, Sizes DEF Types
      <4> QED
        BY <1>0, <1>1, <3>1, <3>2, <4>1
    <3> QED
      BY <1>0, <3>2, <3>5, <3>6 DEF Clean
  <2>4. CASE w # Word(u)
    <3>1. x # w /\ x # up
      BY <1>1, <2>2, <2>4 DEF Word
    <3>2. acc_regs'[w] = acc_regs[w] /\ acc_regs'[up] = acc_regs[up]
      BY <1>1, <2>1, <3>1
    <3>3. Clean(w)
      BY <1>2, <2>4 DEF StrayInv, Half
    <3> QED
      BY <1>0, <3>2, <3>3, CleanUnderUser
  <2> QED
    BY <2>3, <2>4
<1>5. CASE setup_reg(u)
  <2>1. /\ pc[u] = "write" /\ acc_regs' = [acc_regs EXCEPT ![Word(u)] = LowWord(f.value)]
    BY <1>0, <1>5 DEF setup_reg, Goto, Word
  <2>2. PICK s, i : s = call[u] /\ i = f.i
    OBVIOUS
  <2>3. /\ s \in Structs[u] /\ s.reg_number \in Int /\ i < s.reg_number
        /\ Word(u) = <<s.accel_number, s.reg_offset[i]>> /\ Word(u) \notin AddressRegisters
    BY <1>0, <2>1, <2>2
       DEF UserTypes, Acc_data, SetUpBy, Copied, Position, Reading, Word, LoopPcs, BodyPcs
  <2>4. i \in 0..s.reg_number - 1
    BY <1>1, <2>2, <2>3
  <2>5. Word(u) # w /\ Word(u) # up
    BY <2>3, <2>4 DEF UppersReserved
  <2>6. acc_regs'[w] = acc_regs[w] /\ acc_regs'[up] = acc_regs[up]
    BY <1>1, <2>1, <2>5
  <2>7. Clean(w)
    BY <1>2, <2>1 DEF StrayInv, Half
  <2> QED
    BY <1>0, <2>6, <2>7, CleanUnderUser
<1> QED
  BY <1>3, <1>4, <1>5

\* Threads that set up or poll accelerators one at a time, beside any number that
\* map: an address register that is not half-written holds the translation, by a
\* recorded entry, of an address some list has, or what no set-up has written.
THEOREM NoStrayAlone ==
  ASSUME ListsFit, RegistersExist, UppersReserved
  PROVE  Spec => NoStrayInTurn
<1>1. Init => StrayInv
  <2> SUFFICES ASSUME Init, NEW w \in AddressRegisters PROVE Clean(w)
    BY InitSetUp DEF StrayInv
  <2>1. w \in AccelRegisters /\ <<w[1], w[2] + 1>> \in AccelRegisters
    BY ThreadsAssumption DEF RegistersExist
  <2> QED
    BY <2>1 DEF Init, Clean
<1>2. StrayInv /\ OneAtATime /\ OneAtATime' /\ [Next]_vars => StrayInv'
  <2> SUFFICES ASSUME StrayInv, OneAtATime, OneAtATime', [Next]_vars PROVE StrayInv'
    OBVIOUS
  <2>1. SetUpInv /\ SetUpInv'
    BY StepSetUp DEF StrayInv
  <2>2. Inv /\ Types /\ UserTypes /\ memory_allocations \in Nat /\ memory_allocations' \in Nat
    BY <2>1, Sizes DEF SetUpInv, TypeInv, Inv, Types
  <2> SUFFICES ASSUME NEW w \in AddressRegisters PROVE Clean(w)' \/ Half(w)'
    BY <2>1 DEF StrayInv
  <2>3. ASSUME NEW t \in Mappers, MapperStep(t) PROVE Clean(w)' \/ Half(w)'
    <3>1. UNCHANGED <<acc_regs, frame>> /\ \A u \in Users : pc'[u] = pc[u]
      BY <2>2, <2>3, MappersKeepUsers DEF UserTypes, user
    <3>2. CASE Clean(w)
      BY <2>2, <2>3, <3>1, <3>2, EntriesStay, CleanKept
    <3>3. CASE Half(w)
      BY <3>1, <3>3 DEF Half, Word
    <3> QED
      BY <3>2, <3>3 DEF StrayInv
  <2>4. ASSUME NEW u \in Users, IoctlStep(u) PROVE Clean(w)' \/ Half(w)'
    BY <2>4, QuietStep, WritingStep
  <2>5. CASE UNCHANGED vars
    BY <2>5 DEF vars, table, user, StrayInv, Clean, Half, Word, HoldsAddress
  <2> QED
    BY <2>3, <2>4, <2>5, StepCases
<1>3. StrayInv => NoStrayAddress
  BY DEF StrayInv, NoStrayAddress, Clean, Half
<1> QED
  BY <1>1, <1>2, <1>3, PTL DEF Spec, NoStrayInTurn
-----------------------------------------------------------------------------
(* Every statement takes its call further. *)

\* A set-up goes round its loop at most as often as the lists have room, and its
\* search over at most as many entries as the table has.
AheadAt(u) ==
  /\ pc[u] # "idle" => frame[u].i <= RegSlots /\ frame[u].k <= TableSize
  /\ pc[u] \in BodyPcs => frame[u].i < RegSlots

AdvanceInv == TypeInv /\ \A u \in Users : AheadAt(u)

\* The order of the statements.
LEMMA MapperStages ==
  /\ Stage("copy node") < Stage("copy base_addr")
  /\ Stage("branch") < Stage("slot") /\ Stage("branch") < Stage("leave")
  /\ Stage("slot") < Stage("base") /\ Stage("base") < Stage("first")
  /\ Stage("first") < Stage("second") /\ Stage("second") < Stage("publish")
  /\ Stage("publish") < Stage("leave")
BY DEF Stage

LEMMA IoctlStages ==
  /\ Stage("copy offsets") < Stage("copy data")
  /\ Stage("copy data") < Stage("setup") /\ Stage("copy data") < Stage("poll")
  /\ Stage("poll") < Stage("register") /\ Stage("register") < Stage("poll_value")
  /\ Stage("poll_value") < Stage("copy back")
BY DEF Stage

LEMMA SetUpStages ==
  /\ Stage("setup") < Stage("latch") /\ Stage("latch") < Stage("loop")
  /\ Stage("latch") < Stage("return") /\ Stage("loop") < Stage("return")
  /\ Stage("loop") < Stage("row") /\ Stage("row") < Stage("match") /\ Stage("match") < Stage("value")
  /\ Stage("value") < Stage("offset") /\ Stage("value") < Stage("write")
  /\ Stage("offset") < Stage("search") /\ Stage("search") < Stage("translate")
  /\ Stage("translate") < Stage("low") /\ Stage("low") < Stage("high")
BY DEF Stage

\* A statement of mmap or PASS_STRUCT.
LEMMA MapperAdvances ==
  ASSUME pc \in [Threads -> Pcs], NEW t \in Mappers, CopyNode(t) \/ CopyBase(t) \/ InMmap(t)
  PROVE  pc'[t] = "idle" \/ Further(t)
<1> t \in Threads
  BY DEF Threads
<1> QED
  BY MapperStages DEF CopyNode, CopyBase, InMmap, Branch, BranchAway, ReadSlot, ReadBase,
     StoreFirst, StoreSecond, Publish, Leave, Goto, Further

\* A round ends with the next register, of which there is room for one more.
LEMMA RoundEnds ==
  ASSUME UserTypes, NEW u \in Users, AheadAt(u), pc[u] \in BodyPcs, pc'[u] = "loop",
         frame'[u] = NextRegister(frame[u])
  PROVE  AheadAt(u)' /\ Further(u)
<1>1. frame'[u].i = frame[u].i + 1 /\ frame'[u].k = 0
  <2>1. frame[u] \in Frames
    BY DEF UserTypes
  <2> QED
    BY <2>1 DEF NextRegister, NoFrame
<1>2. frame[u].i \in Nat /\ frame[u].i < RegSlots
  BY FrameNumbers DEF AheadAt
<1>3. frame[u].i < frame'[u].i /\ frame'[u].i <= RegSlots /\ frame'[u].k <= TableSize
  BY <1>1, <1>2, Sizes
<1> QED
  BY <1>3 DEF AheadAt, Further, BodyPcs

\* Any other statement of a set-up or a poll goes to a later one of the same round.
LEMMA StageAdvances ==
  ASSUME UserTypes, NEW u \in Users, AheadAt(u), pc[u] # "idle",
         Stage(pc[u]) < Stage(pc'[u]), frame'[u].i = frame[u].i,
         frame'[u].k <= TableSize, pc'[u] \in BodyPcs => frame[u].i < RegSlots
  PROVE  AheadAt(u)' /\ Further(u)
<1>1. frame[u].i <= RegSlots
  BY DEF AheadAt
<1> QED
  BY <1>1 DEF AheadAt, Further

LEMMA CountersAfterMatch ==
  ASSUME frame \in [Users -> Frames], NEW u \in Users, Match(u)
  PROVE  frame'[u].i = frame[u].i /\ frame'[u].k = frame[u].k
<1> DEFINE o == accel_data.reg_offset[frame[u].i]
           w == <<frame[u].row, o>>
<1>1. frame'[u] = [frame[u] EXCEPT !.offset = o, !.translate = w \in AddressRegisters]
  BY DEF Match, Keep
<1> HIDE DEF o, w
<1>2. PICK b \in BOOLEAN : b = (w \in AddressRegisters)
  BY MembershipIsBoolean
<1>3. frame'[u] = [frame[u] EXCEPT !.offset = o, !.translate = b] /\ frame[u] \in Frames
  BY <1>1, <1>2
<1> QED
  BY <1>3 DEF Frames

\* A statement of an ioctl on an accelerator.
LEMMA IoctlAdvances ==
  ASSUME TypeInv, NEW u \in Users, AheadAt(u), InIoctl(u)
  PROVE  AheadAt(u)' /\ (pc'[u] = "idle" \/ Further(u))
<1> USE DEF Goto, Keep, BodyPcs
<1> DEFINE f == frame[u]
<1>0. /\ u \in Threads /\ pc \in [Threads -> Pcs] /\ UserTypes /\ PlacedAt(u) /\ f \in Frames
      /\ frame \in [Users -> Frames] /\ accel_data \in Acc_data
  BY DEF TypeInv, UserTypes, Placed, Threads
<1>1. /\ f.i \in Nat /\ f.k \in Nat /\ f.count \in 0..TableSize /\ TableSize \in Nat
      /\ RegSlots \in Nat /\ accel_data.reg_number \in Int
  BY <1>0, FrameNumbers, Sizes DEF Frames, Acc_data
<1>2. ASSUME pc[u] # "idle", Stage(pc[u]) < Stage(pc'[u]), frame'[u].i = f.i,
             frame'[u].k <= TableSize, pc'[u] \in BodyPcs => f.i < RegSlots
      PROVE  AheadAt(u)' /\ (pc'[u] = "idle" \/ Further(u))
  BY <1>0, <1>2, StageAdvances
<1>3. CASE CopyOffsets(u) \/ CopyData(u)
  <2>1. frame' = frame /\ pc[u] \in {"copy offsets", "copy data"} /\ f.cmd \in {"setup", "poll"}
    BY <1>0, <1>3 DEF CopyOffsets, CopyData, PlacedAt
  <2>2. \/ pc[u] = "copy offsets" /\ pc'[u] = "copy data"
        \/ pc[u] = "copy data" /\ pc'[u] \in {"setup", "poll"}
    BY <1>0, <1>3, <2>1 DEF CopyOffsets, CopyData
  <2> QED
    BY <1>2, <2>1, <2>2, IoctlStages DEF AheadAt
<1>4. CASE CallSetup(u) \/ Latch(u) \/ ReadNumber(u) \/ poll_accel(u)
  <2>1. frame'[u].i = f.i /\ frame'[u].k = f.k
    BY <1>0, <1>4 DEF CallSetup, Latch, ReadNumber, poll_accel, Frames
  <2>2. \/ pc[u] = "setup" /\ pc'[u] = "latch"
        \/ pc[u] = "latch" /\ pc'[u] \in {"loop", "return"}
        \/ pc[u] = "poll" /\ pc'[u] = "register"
        \/ pc[u] = "register" /\ pc'[u] = "poll_value"
    BY <1>0, <1>4 DEF CallSetup, Latch, ReadNumber, poll_accel
  <2> QED
    BY <1>2, <2>1, <2>2, IoctlStages, SetUpStages DEF AheadAt
<1>5. CASE Loop(u)
  <2>1. frame' = frame /\ pc[u] = "loop" /\ accel_data.reg_number <= RegSlots
    BY <1>0, <1>5 DEF Loop, user, PlacedAt
  <2>2. \/ pc'[u] = "row" /\ f.i < RegSlots
        \/ pc'[u] = "return"
    BY <1>0, <1>1, <1>5, <2>1 DEF Loop
  <2> QED
    BY <1>2, <2>1, <2>2, SetUpStages DEF AheadAt
<1>6. CASE ReadRow(u) \/ Match(u) \/ ReadValue(u) \/ ReadOffset(u)
  <2>1. frame'[u].i = f.i /\ frame'[u].k \in {f.k, 0}
    <3>1. CASE Match(u)
      BY <1>0, <3>1, CountersAfterMatch
    <3>2. CASE ReadValue(u)
      BY <1>0, <3>2 DEF ReadValue, Frames
    <3>4. CASE ReadRow(u)
      BY <1>0, <3>4 DEF ReadRow, Frames
    <3>3. CASE ReadOffset(u)
      <4>1. PICK o : frame'[u] = [f EXCEPT !.offset = o, !.k = 0]
        BY <1>0, <3>3 DEF ReadOffset
      <4> QED
        BY <1>0, <4>1 DEF Frames
    <3> QED
      BY <1>6, <3>1, <3>2, <3>3, <3>4
  <2>2. \/ pc[u] = "row" /\ pc'[u] = "match"
        \/ pc[u] = "match" /\ pc'[u] = "value"
        \/ pc[u] = "value" /\ pc'[u] \in {"offset", "write"}
        \/ pc[u] = "offset" /\ pc'[u] = "search"
    BY <1>0, <1>6 DEF ReadRow, Match, ReadValue, ReadOffset
  <2>3. f.i < RegSlots /\ frame'[u].k <= TableSize
    BY <1>1, <2>1, <2>2 DEF AheadAt
  <2> QED
    BY <1>2, <2>1, <2>2, <2>3, SetUpStages
<1>7. CASE Search(u)
  <2>0. pc[u] = "search" /\ f.k <= f.count /\ f.i < RegSlots /\ f.i <= RegSlots
    BY <1>0, <1>7 DEF Search, PlacedAt, AheadAt
  <2>1. CASE Goto(u, "search", "loop") /\ Keep(u, NextRegister(f))
    BY <1>0, <2>0, <2>1, RoundEnds
  <2>2. CASE Goto(u, "search", "translate") /\ Keep(u, f)
    <3>1. frame' = frame /\ pc'[u] = "translate"
      BY <1>0, <2>2
    <3> QED
      BY <1>2, <2>0, <3>1, SetUpStages DEF AheadAt
  <2>3. CASE f.k # f.count /\ UNCHANGED pc /\ Keep(u, [f EXCEPT !.k = @ + 1])
    <3>1. frame'[u].i = f.i /\ frame'[u].k = f.k + 1
      BY <1>0, <2>3, SearchingFrame DEF Frames
    <3>2. f.k < frame'[u].k /\ frame'[u].k <= TableSize
      BY <1>1, <2>0, <2>3, <3>1
    <3> QED
      BY <2>0, <2>3, <3>1, <3>2 DEF AheadAt, Further
  <2> QED
    BY <1>7, <2>1, <2>2, <2>3 DEF Search
<1>8. CASE ReadPhys(u) \/ WriteLow(u)
  <2>1. frame'[u].i = f.i /\ frame'[u].k = f.k
    BY <1>0, <1>8 DEF ReadPhys, WriteLow, Frames
  <2>2. \/ pc[u] = "translate" /\ pc'[u] = "low"
        \/ pc[u] = "low" /\ pc'[u] = "high"
    BY <1>0, <1>8 DEF ReadPhys, WriteLow
  <2> QED
    BY <1>2, <2>1, <2>2, SetUpStages DEF AheadAt
<1>9. CASE WriteHigh(u) \/ setup_reg(u)
  BY <1>0, <1>9, RoundEnds DEF WriteHigh, setup_reg
<1>10. CASE StorePoll(u)
  BY <1>0, <1>2, <1>10, IoctlStages DEF StorePoll, AheadAt
<1>11. CASE Return(u) \/ CopyBack(u)
  BY <1>0, <1>11 DEF Return, CopyBack, AheadAt
<1> QED
  BY <1>3, <1>4, <1>5, <1>6, <1>7, <1>8, <1>9, <1>10, <1>11 DEF InIoctl

\* A call starts with its first register.
LEMMA CallStarts ==
  ASSUME TypeInv, NEW u \in Users, StartIoctl(u)
  PROVE  AheadAt(u)'
<1>1. pc'[u] = "copy offsets"
  BY DEF StartIoctl, Goto, TypeInv, UserTypes, Threads
<1>2. frame'[u].i = 0 /\ frame'[u].k = 0
  <2>1. PICK c \in {"setup", "poll"} : frame' = [frame EXCEPT ![u] = [NoFrame EXCEPT !.cmd = c]]
    BY CommandNames DEF StartIoctl
  <2> QED
    BY <2>1 DEF TypeInv, UserTypes, NoFrame
<1>3. 0 <= RegSlots /\ 0 <= TableSize
  BY Sizes
<1> QED
  BY <1>1, <1>2, <1>3 DEF AheadAt, BodyPcs

LEMMA AdvanceStep ==
  ASSUME ListsFit
  PROVE  AdvanceInv /\ [Next]_vars => AdvanceInv'
<1> SUFFICES ASSUME AdvanceInv, [Next]_vars PROVE AdvanceInv'
  OBVIOUS
<1>1. TypeInv /\ TypeInv' /\ UserTypes /\ Types
  BY StepTypes DEF AdvanceInv, TypeInv, Inv
<1> SUFFICES ASSUME NEW v \in Users PROVE AheadAt(v)'
  BY <1>1 DEF AdvanceInv
<1>2. AheadAt(v)
  BY DEF AdvanceInv
<1>3. ASSUME NEW t \in Mappers, MapperStep(t) PROVE AheadAt(v)'
  <2>1. frame' = frame /\ pc'[v] = pc[v]
    BY <1>1, <1>3, MappersKeepUsers DEF UserTypes, user
  <2> QED
    BY <1>2, <2>1 DEF AheadAt
<1>4. ASSUME NEW u \in Users, IoctlStep(u) PROVE AheadAt(v)'
  <2>1. CASE u = v
    BY <1>1, <1>2, <1>4, <2>1, IoctlAdvances, CallStarts DEF IoctlStep
  <2>2. CASE u # v
    <3>1. pc'[v] = pc[v] /\ frame'[v] = frame[v]
      BY <1>1, <1>4, <2>2, OtherUsersKept
    <3> QED
      BY <1>2, <3>1 DEF AheadAt
  <2> QED
    BY <2>1, <2>2
<1>5. CASE UNCHANGED vars
  BY <1>2, <1>5 DEF vars, user, AheadAt
<1> QED
  BY <1>3, <1>4, <1>5, StepCases

\* What a thread's call is at while other threads step.
LEMMA OthersStay ==
  ASSUME TypeInv, NEW t \in Threads, pc[t] # "idle", [Next]_vars, ~InCall(t)
  PROVE  pc'[t] = pc[t] /\ (t \in Users => frame'[t] = frame[t])
<1>0. Inv /\ Types /\ UserTypes /\ DOMAIN pc = Threads
  BY DEF TypeInv, Inv, Types
<1>1. ASSUME NEW m \in Mappers, MapperStep(m)
      PROVE  pc'[t] = pc[t] /\ (t \in Users => frame'[t] = frame[t])
  <2>1. t # m
    BY <1>1 DEF InCall, MapperStep, PassStruct, Enter, Goto
  <2>2. CASE t \in Mappers
    <3>1. t \notin Users
      BY <2>2, ThreadsAssumption
    <3> QED
      BY <1>0, <1>1, <2>1, <2>2, <3>1, OthersKept
  <2>3. CASE t \in Users
    BY <1>0, <1>1, <2>3, MappersKeepUsers DEF UserTypes, user
  <2> QED
    BY <2>2, <2>3 DEF Threads
<1>2. ASSUME NEW u \in Users, IoctlStep(u)
      PROVE  pc'[t] = pc[t] /\ (t \in Users => frame'[t] = frame[t])
  <2>1. t # u
    BY <1>2 DEF InCall, IoctlStep, StartIoctl, Goto
  <2>2. CASE t \in Mappers
    <3>1. t \notin Users
      BY <2>2, ThreadsAssumption
    <3> QED
      BY <1>0, <1>2, <2>2, <3>1, UsersKeepDriver DEF IoctlStep
  <2>3. CASE t \in Users
    BY <1>0, <1>2, <2>1, <2>3, OtherUsersKept
  <2> QED
    BY <2>2, <2>3 DEF Threads
<1>3. CASE UNCHANGED vars
  BY <1>3 DEF vars, user
<1> QED
  BY <1>1, <1>2, <1>3, StepCases

\* Any number of threads that map, and of threads that set up and poll
\* accelerators all at once: each statement takes its call further or out of the
\* driver, and no other thread takes it back.  A call thus has a fixed number of
\* statements at most, whatever the others put into the buffer meanwhile.
THEOREM EveryCallAdvances ==
  ASSUME ListsFit
  PROVE  Spec => CallsAdvance
<1>1. Init => AdvanceInv
  <2> SUFFICES ASSUME Init PROVE AdvanceInv
    OBVIOUS
  <2>1. \A u \in Users : pc[u] = "idle"
    BY DEF Init, Threads
  <2> QED
    BY <2>1, InitTypes DEF AdvanceInv, AheadAt, BodyPcs
<1>2. ASSUME AdvanceInv, [Next]_vars, NEW t \in Threads, pc[t] # "idle"
      PROVE  IF InCall(t) THEN pc'[t] = "idle" \/ Further(t)
             ELSE pc'[t] = pc[t] /\ (t \in Users => frame'[t] = frame[t])
  <2>1. CASE InCall(t)
    BY <1>2, <2>1, MapperAdvances, IoctlAdvances DEF AdvanceInv, TypeInv, UserTypes, InCall
  <2>2. CASE ~InCall(t)
    BY <1>2, <2>2, OthersStay DEF AdvanceInv
  <2> QED
    BY <2>1, <2>2
<1>3. AdvanceInv /\ [Next]_vars =>
        [\A t \in Threads : pc[t] # "idle" =>
           IF InCall(t) THEN pc'[t] = "idle" \/ Further(t)
           ELSE pc'[t] = pc[t] /\ (t \in Users => frame'[t] = frame[t])]_vars
  BY <1>2
<1> QED
  BY <1>1, <1>3, AdvanceStep, PTL DEF Spec, CallsAdvance
=============================================================================

----------------------------- MODULE MkfsProofs -----------------------------
(***************************************************************************)
(* Theorems about Mkfs: on an image of at most Byte blocks (1 MiB), what   *)
(* mounts has regions fit for it, and up to 16 inodes the inode table is   *)
(* one of them; mkfs -z leaves it empty; and mkfs loses a file system only *)
(* when it was told to.                                                    *)
(***************************************************************************)
EXTENDS Mkfs, WellFoundedInduction, TLAPS

-----------------------------------------------------------------------------
(* Arithmetic.                                                             *)

LEMMA DivMod ==
  ASSUME NEW a \in Nat, NEW b \in Nat \ {0}
  PROVE  /\ a \div b \in Nat /\ a % b \in 0 .. (b - 1)
         /\ a = b * (a \div b) + (a % b)
OBVIOUS

LEMMA MulMono ==
  ASSUME NEW a \in Nat, NEW b \in Nat, NEW c \in Nat, a <= b
  PROVE  a * c <= b * c
OBVIOUS

LEMMA CeilDivEnough ==
  ASSUME NEW a \in Nat \ {0}, NEW b \in Nat \ {0}
  PROVE  /\ CeilDiv(a, b) \in Nat \ {0}
         /\ a <= CeilDiv(a, b) * b
         /\ a <= b => CeilDiv(a, b) = 1
<1> DEFINE q == a \div b
           r == a % b
<1>1. q \in Nat /\ r \in 0 .. (b - 1) /\ a = b * q + r
  BY DivMod
<1>2. CeilDiv(a, b) = q + (IF r = 0 THEN 0 ELSE 1)
  BY DEF CeilDiv
<1> HIDE DEF q, r
<1>3. b * q = q * b /\ (q + 1) * b = q * b + b
  BY <1>1
<1>4. CASE r = 0
  <2>1. q # 0
    BY <1>1, <1>3, <1>4
  <2>2. a <= b => q = 1
    <3> SUFFICES ASSUME a <= b, q >= 2
                 PROVE  FALSE
      BY <1>1, <2>1
    <3>1. 2 * b <= q * b
      BY <1>1, MulMono
    <3> QED BY <1>1, <1>3, <1>4, <3>1
  <2> QED BY <1>1, <1>2, <1>3, <1>4, <2>1, <2>2
<1>5. CASE r # 0
  <2>1. a <= b => q = 0
    <3> SUFFICES ASSUME a <= b, q >= 1
                 PROVE  FALSE
      BY <1>1
    <3>1. 1 * b <= q * b
      BY <1>1, MulMono
    <3> QED BY <1>1, <1>3, <1>5, <3>1
  <2> QED BY <1>1, <1>2, <1>3, <1>5, <2>1
<1> QED BY <1>4, <1>5

\* The loop of mkfs ends, with enough blocks for the bitmap.
LEMMA NumDbmEnough ==
  ASSUME NEW n \in Nat, Remaining(n) \in Nat \ {0}
  PROVE  NumDbm(n) \in 1 .. Remaining(n) /\ DbmEnough(n, NumDbm(n))
<1> DEFINE R == Remaining(n)
<1>1. DbmEnough(n, R)
  <2>1. (R - R) \div BitsPerBlock = 0
    BY LayoutAssumption
  <2> QED BY <2>1 DEF DbmEnough
<1>2. PICK d \in {e \in 1 .. R : DbmEnough(n, e)} :
        \A e \in {f \in 1 .. R : DbmEnough(n, f)} : e >= d
  <2> DEFINE S == {e \in 1 .. R : DbmEnough(n, e)}
  <2>1. S \subseteq Nat /\ S # {}
    BY <1>1
  <2> HIDE DEF S
  <2>2. PICK x \in S : \A y \in S : <<y, x>> \notin OpToRel(<, Nat)
    BY <2>1, WFMin, NatLessThanWellFounded, Zenon
  <2>3. \A y \in S : ~ (y < x)
    BY <2>1, <2>2, Zenon DEF OpToRel
  <2>4. \A y \in S : y >= x
    BY <2>1, <2>3
  <2> QED BY <2>4 DEF S
<1>3. \A e \in 1 .. (d - 1) : ~ DbmEnough(n, e)
  BY <1>2
<1> QED BY <1>2, <1>3 DEF NumDbm

\* A region for the blocks' bits holds a bit for every block.
LEMMA BitmapEnough ==
  ASSUME NEW n \in Nat, Remaining(n) \in Nat \ {0}
  PROVE  NumData(n) <= NumDbm(n) * BitsPerBlock
<1> DEFINE d == NumDbm(n)
           B == BitsPerBlock
           a == Remaining(n) - d
           q == a \div B
<1>1. d \in 1 .. Remaining(n) /\ DbmEnough(n, d)
  BY NumDbmEnough
<1>2. a \in Nat /\ B \in Nat \ {0} /\ d \in Nat \ {0}
  BY <1>1, LayoutAssumption
<1>3. q \in Nat /\ a % B \in 0 .. (B - 1) /\ a = B * q + (a % B)
  BY <1>2, DivMod
<1>4. d >= q + (IF q = 0 THEN 0 ELSE 1)
  BY <1>1 DEF DbmEnough
<1>5. NumData(n) = a
  BY DEF NumData
<1> HIDE DEF d, B, a, q
<1>6. q + 1 <= d
  BY <1>2, <1>3, <1>4
<1>7. (q + 1) * B <= d * B
  BY <1>2, <1>3, <1>6, MulMono
<1>8. (q + 1) * B = B * q + B
  BY <1>2, <1>3
<1>9. a <= d * B
  BY <1>2, <1>3, <1>7, <1>8
<1> QED BY <1>5, <1>9 DEF d, B

LEMMA SmallMod ==
  ASSUME NEW a \in Nat, NEW b \in Nat \ {0}, a < b
  PROVE  a % b = a
OBVIOUS

\* The layout of an accepted call is sound; the inode table has room for its
\* inodes as long as one block has.
LEMMA PlacedSound ==
  ASSUME Total <= Byte, NEW n \in Nat \ {0}, Accepts(n)
  PROVE  /\ Sound(Placed(n), n)
         /\ n <= InodesPerBlock => TableHolds(Placed(n), n)
         /\ Total - Placed(n).first_data = NumData(n)
<1> DEFINE ibm == NumIbm(n)
           ib == NumInodeBlocks(n)
           dbm == NumDbm(n)
<1>1. ibm \in Nat \ {0} /\ n <= ibm * BitsPerBlock
  BY CeilDivEnough, LayoutAssumption DEF NumIbm
<1>2. ib \in Nat \ {0}
  BY CeilDivEnough, LayoutAssumption DEF NumInodeBlocks
<1>3. Remaining(n) \in Nat \ {0}
  BY <1>1, <1>2, LayoutAssumption DEF Accepts, TableFits, Remaining
<1>4. dbm \in Nat \ {0} /\ NumData(n) <= dbm * BitsPerBlock
  BY <1>3, NumDbmEnough, BitmapEnough
<1>5. /\ NumData(n) > 0
      /\ NumData(n) = Total - 1 - ibm - ib - dbm
  BY DEF Accepts, NumData, Remaining
<1>6. /\ Total \in Nat /\ Byte \in Nat \ {0}
      /\ BitsPerBlock \in Nat \ {0} /\ InodesPerBlock \in Nat \ {0}
  BY LayoutAssumption
<1>7. Placed(n) = [inode_bitmap |-> 1,
                   block_bitmap |-> 1 + ibm,
                   inode_table  |-> 1 + ibm + dbm,
                   first_data   |-> 1 + ibm + dbm + ib]
  <2> HIDE DEF ibm, ib, dbm
  <2>1. /\ 1 + ibm < Byte /\ 1 + ibm + dbm < Byte /\ 1 + ibm + dbm + ib < Byte
        /\ 1 + ibm \in Nat /\ 1 + ibm + dbm \in Nat /\ 1 + ibm + dbm + ib \in Nat
    BY <1>1, <1>2, <1>4, <1>5, <1>6
  <2>2. /\ (1 + ibm) % Byte = 1 + ibm
        /\ (1 + ibm + dbm) % Byte = 1 + ibm + dbm
        /\ (1 + ibm + dbm + ib) % Byte = 1 + ibm + dbm + ib
    BY <1>6, <2>1, SmallMod
  <2> QED BY <2>2 DEF Placed, ibm, ib, dbm
<1>8. n <= InodesPerBlock => CeilDiv(n, InodesPerBlock) = 1
  BY <1>6, CeilDivEnough
<1> HIDE DEF ibm, ib, dbm
<1>9. /\ (1 + ibm) - 1 = ibm
      /\ (1 + ibm + dbm) - (1 + ibm) = dbm
      /\ Total - (1 + ibm + dbm + ib) = NumData(n)
  BY <1>1, <1>2, <1>4, <1>5, <1>6
<1>10. Sound(Placed(n), n)
  BY <1>1, <1>2, <1>4, <1>5, <1>6, <1>7, <1>9 DEF Sound
<1>11. n <= InodesPerBlock => TableHolds(Placed(n), n)
  BY <1>1, <1>2, <1>4, <1>7, <1>8 DEF TableHolds
<1>12. Total - Placed(n).first_data = NumData(n)
  BY <1>7, <1>9
<1> QED BY <1>10, <1>11, <1>12

-----------------------------------------------------------------------------
(* Types.                                                                  *)

LEMMA PlacedTyped ==
  ASSUME NEW n \in Counts, Accepts(n)
  PROVE  Placed(n) \in [inode_bitmap : 0 .. (Byte - 1),
                        block_bitmap : 0 .. (Byte - 1),
                        inode_table : 0 .. (Byte - 1),
                        first_data : 0 .. (Byte - 1)]
<1>1. n \in Nat \ {0}
  BY MkfsAssumption
<1>2. NumIbm(n) \in Nat /\ NumInodeBlocks(n) \in Nat
  BY <1>1, CeilDivEnough, LayoutAssumption DEF NumIbm, NumInodeBlocks
<1>3. Remaining(n) \in Nat \ {0}
  BY <1>2, LayoutAssumption DEF Accepts, TableFits, Remaining
<1>4. NumDbm(n) \in Nat
  BY <1>1, <1>3, NumDbmEnough
<1>5. \A a \in Nat : a % Byte \in 0 .. (Byte - 1)
  BY DivMod, LayoutAssumption
<1>6. Byte >= 2 /\ Byte \in Nat
  BY LayoutAssumption
<1>7. /\ 1 + NumIbm(n) \in Nat /\ 1 + NumIbm(n) + NumDbm(n) \in Nat
      /\ 1 + NumIbm(n) + NumDbm(n) + NumInodeBlocks(n) \in Nat
  BY <1>2, <1>4
<1> QED BY <1>5, <1>6, <1>7 DEF Placed

LEMMA NumDataTyped ==
  ASSUME NEW n \in Counts, Accepts(n)
  PROVE  NumData(n) \in Int
<1>1. n \in Nat \ {0}
  BY MkfsAssumption
<1>2. NumIbm(n) \in Nat /\ NumInodeBlocks(n) \in Nat
  BY <1>1, CeilDivEnough, LayoutAssumption DEF NumIbm, NumInodeBlocks
<1>3. Remaining(n) \in Nat \ {0}
  BY <1>2, LayoutAssumption DEF Accepts, TableFits, Remaining
<1> QED BY <1>1, <1>3, NumDbmEnough DEF NumData

LEMMA TotalTyped ==
  ASSUME NEW a \in Int
  PROVE  a % Byte \in 0 .. (Byte - 1)
BY LayoutAssumption

\* From the layout to the magic number mkfs works for the n it was given, and
\* a magic number stands over a layout of some n that was accepted.
Laid(n) == Accepts(n) /\ place = Placed(n) /\ counts.inodes = n
Formats ==
  pc \in {"root", "magic", "finish"} => Laid(opts.n) /\ (pc # "finish" => ~ magic)
Formatted == magic => \E n \in Counts : Laid(n)
MkfsInv == TypeOK /\ Formats /\ Formatted

CountsType == [size : {0, Total}, inodes : Counts \cup {0},
                   free_inodes : Int, free_blocks : Int, total : 0 .. (Byte - 1)]

\* Changing one member of a record of counts.
LEMMA CountsChanged ==
  ASSUME NEW c \in CountsType, Counts \subseteq Int
  PROVE  /\ \A n \in Counts :
              /\ [c EXCEPT !.inodes = n, !.free_inodes = n] \in CountsType
              /\ [c EXCEPT !.inodes = n, !.free_inodes = n].inodes = n
         /\ [c EXCEPT !.free_inodes = @ - 1] \in CountsType
         /\ [c EXCEPT !.free_inodes = @ - 1].inodes = c.inodes
         /\ [c EXCEPT !.free_inodes = @ - 1, !.free_blocks = @ - 1] \in CountsType
         /\ [c EXCEPT !.free_inodes = @ - 1, !.free_blocks = @ - 1].inodes = c.inodes
<1>1. \A n \in Counts :
        /\ [c EXCEPT !.inodes = n, !.free_inodes = n] \in CountsType
        /\ [c EXCEPT !.inodes = n, !.free_inodes = n].inodes = n
  BY DEF CountsType
<1>2. /\ [c EXCEPT !.free_inodes = @ - 1] \in CountsType
      /\ [c EXCEPT !.free_inodes = @ - 1].inodes = c.inodes
  BY DEF CountsType
<1>3. /\ [c EXCEPT !.free_inodes = @ - 1, !.free_blocks = @ - 1] \in CountsType
      /\ [c EXCEPT !.free_inodes = @ - 1, !.free_blocks = @ - 1].inodes = c.inodes
  <2> DEFINE d == [c EXCEPT !.free_inodes = @ - 1]
  <2>1. d \in CountsType /\ d.inodes = c.inodes /\ d.free_blocks = c.free_blocks
    BY <1>2 DEF CountsType
  <2>2. [c EXCEPT !.free_inodes = @ - 1, !.free_blocks = @ - 1]
          = [d EXCEPT !.free_blocks = @ - 1]
    OBVIOUS
  <2> HIDE DEF d
  <2>3. /\ [d EXCEPT !.free_blocks = @ - 1] \in CountsType
        /\ [d EXCEPT !.free_blocks = @ - 1].inodes = d.inodes
    BY <2>1 DEF CountsType
  <2> QED BY <2>1, <2>2, <2>3
<1> QED BY <1>1, <1>2, <1>3

LEMMA CountsFinished ==
  ASSUME NEW c \in CountsType, NEW v \in Int, NEW t \in 0 .. (Byte - 1)
  PROVE  /\ [c EXCEPT !.size = Total, !.free_blocks = v, !.total = t] \in CountsType
         /\ [c EXCEPT !.size = Total, !.free_blocks = v, !.total = t].inodes
              = c.inodes
<1> DEFINE e == [c EXCEPT !.size = Total]
           f == [e EXCEPT !.free_blocks = v]
<1>1. e \in CountsType /\ e.inodes = c.inodes
  BY DEF CountsType
<1>2. [c EXCEPT !.size = Total, !.free_blocks = v, !.total = t]
        = [f EXCEPT !.total = t]
  OBVIOUS
<1> HIDE DEF e
<1>3. f \in CountsType /\ f.inodes = c.inodes
  BY <1>1 DEF CountsType
<1> HIDE DEF f
<1>4. [f EXCEPT !.total = t] \in CountsType /\ [f EXCEPT !.total = t].inodes = c.inodes
  BY <1>3 DEF CountsType
<1> QED BY <1>2, <1>4

LEMMA CountsTyped == MkfsInv => counts \in CountsType
BY DEF MkfsInv, TypeOK, CountsType

LEMMA CountsInt == Counts \subseteq Int
BY MkfsAssumption

\* What a zeroed superblock holds.
LEMMA ZerosTyped ==
  /\ NoCounts \in CountsType
  /\ NoPlace \in [inode_bitmap : 0 .. (Byte - 1), block_bitmap : 0 .. (Byte - 1),
                  inode_table : 0 .. (Byte - 1), first_data : 0 .. (Byte - 1)]
<1>1. 0 \in 0 .. (Byte - 1)
  BY LayoutAssumption
<1>2. NoCounts \in CountsType
  BY <1>1 DEF NoCounts, CountsType
<1>3. NoPlace \in [inode_bitmap : 0 .. (Byte - 1), block_bitmap : 0 .. (Byte - 1),
                  inode_table : 0 .. (Byte - 1), first_data : 0 .. (Byte - 1)]
  BY <1>1 DEF NoPlace
<1> QED BY <1>2, <1>3

LEMMA InitTyped == Init => MkfsInv
<1> SUFFICES ASSUME Init
             PROVE  MkfsInv
  OBVIOUS
<1>1. opts \in Options /\ counts.free_blocks \in Int
  BY MkfsAssumption DEF Init, Options, NoCounts
<1>2. counts \in CountsType
  BY MkfsAssumption, LayoutAssumption DEF Init, NoCounts, CountsType
<1>3. /\ place = NoPlace /\ magic = FALSE /\ pc = "idle" /\ result = "none"
      /\ inode_bits \in SUBSET Numbers /\ block_bits \in SUBSET Blocks
      /\ dirs = {}
  BY DEF Init
<1>4. TypeOK
  BY <1>1, <1>2, <1>3, ZerosTyped DEF TypeOK, CountsType
<1> QED BY <1>3, <1>4 DEF MkfsInv, Formats, Formatted

LEMMA StartsTyped ==
  ASSUME MkfsInv,
         \/ \E o \in Options : Begin(o)
         \/ WipeSuperblock \/ WipeRest \/ Refuse \/ RootFails \/ Stop \/ Mount
  PROVE  MkfsInv'
<1>1. ASSUME NEW o \in Options, Begin(o)
      PROVE  MkfsInv'
  BY <1>1 DEF Begin, disk, MkfsInv, TypeOK, CountsType, Formats, Formatted, Laid
<1>2. CASE WipeSuperblock
  BY <1>2, ZerosTyped
  DEF WipeSuperblock, At, MkfsInv, TypeOK, CountsType, Formats, Formatted
<1>3. CASE WipeRest
  BY <1>3 DEF WipeRest, At, MkfsInv, TypeOK, CountsType, Formats, Formatted, Laid
<1>4. CASE Refuse
  BY <1>4 DEF Refuse, Ends, disk, MkfsInv, TypeOK, CountsType, Formats, Formatted, Laid
<1>5. CASE RootFails
  BY <1>5 DEF RootFails, Ends, disk, MkfsInv, TypeOK, CountsType, Formats, Formatted, Laid
<1>6. CASE Stop
  BY <1>6 DEF Stop, Ends, disk, MkfsInv, TypeOK, CountsType, Formats, Formatted, Laid
<1>7. CASE Mount
  BY <1>7 DEF Mount, disk, MkfsInv, TypeOK, CountsType, Formats, Formatted, Laid
<1> QED BY <1>1, <1>2, <1>3, <1>4, <1>5, <1>6, <1>7

LEMMA LayOutTyped ==
  ASSUME MkfsInv, LayOut \/ LayOutFails
  PROVE  MkfsInv'
<1>1. opts.n \in Counts /\ opts.n \in Nat \ {0}
  BY MkfsAssumption DEF MkfsInv, TypeOK, CountsType, Options
<1>2. /\ Counted(opts.n) \in CountsType
      /\ Counted(opts.n).inodes = opts.n
  BY <1>1, CountsTyped, CountsInt, CountsChanged DEF Counted
<1>3. CASE LayOut
  <2>1. Placed(opts.n) \in [inode_bitmap : 0 .. (Byte - 1),
          block_bitmap : 0 .. (Byte - 1), inode_table : 0 .. (Byte - 1),
          first_data : 0 .. (Byte - 1)]
    BY <1>1, <1>3, PlacedTyped DEF LayOut
  <2> QED BY <1>2, <1>3, <2>1
          DEF LayOut, At, IsPresent, MkfsInv, TypeOK, CountsType, Formats, Formatted, Laid
<1>4. CASE LayOutFails
  <2>1. 1 \in 0 .. (Byte - 1)
    BY LayoutAssumption
  <2> QED BY <1>2, <1>4, <2>1
          DEF LayOutFails, Ends, IsPresent, MkfsInv, TypeOK, CountsType, Formats, Formatted
<1> QED BY <1>3, <1>4

LEMMA MakeRootTyped ==
  ASSUME MkfsInv, MakeRoot
  PROVE  MkfsInv'
<1>1. opts.n \in Counts
  BY DEF MkfsInv, TypeOK, CountsType, Options
<1>2. 0 .. (opts.n - 1) \subseteq Numbers
  BY <1>1 DEF Numbers
<1>3. counts' \in CountsType
      /\ counts'.inodes = counts.inodes
  BY CountsTyped, CountsInt, CountsChanged DEF MakeRoot
<1> QED BY <1>2, <1>3
        DEF MakeRoot, At, MkfsInv, TypeOK, CountsType, Formats, Formatted, Laid

LEMMA FinishTyped ==
  ASSUME MkfsInv, StoreMagic \/ Finish
  PROVE  MkfsInv'
<1>1. opts.n \in Counts
  BY DEF MkfsInv, TypeOK, CountsType, Options
<1>2. CASE StoreMagic
  BY <1>1, <1>2 DEF StoreMagic, At, MkfsInv, TypeOK, CountsType, Formats, Formatted, Laid
<1>3. CASE Finish
  <2>1. NumData(opts.n) \in Int
    BY <1>1, <1>3, NumDataTyped DEF Finish, MkfsInv, Formats, Laid
  <2>a. place.first_data \in 0 .. (Byte - 1)
    BY DEF MkfsInv, TypeOK
  <2>b. Total - place.first_data \in Int
    BY <2>a, LayoutAssumption
  <2>2. (Total - place.first_data) % Byte \in 0 .. (Byte - 1)
    BY <2>b, TotalTyped
  <2>3. counts' \in CountsType
        /\ counts'.inodes = counts.inodes
    <3> DEFINE v == NumData(opts.n)
               t == (Total - place.first_data) % Byte
               c == [counts EXCEPT !.size = Total, !.free_blocks = v, !.total = t]
    <3>1. counts' = c
      BY <1>3 DEF Finish
    <3>2. v \in Int /\ t \in 0 .. (Byte - 1)
      BY <2>1, <2>2
    <3> HIDE DEF v, t
    <3>3. c \in CountsType /\ c.inodes = counts.inodes
      BY <3>2, CountsTyped, CountsFinished
    <3> QED BY <3>1, <3>3
  <2> QED BY <1>3, <2>3 DEF Finish, Ends, MkfsInv, TypeOK, CountsType, Formats, Formatted, Laid
<1> QED BY <1>2, <1>3

LEMMA UseTyped ==
  ASSUME MkfsInv, Use
  PROVE  MkfsInv'
<1>a. counts.inodes \in Counts \cup {0}
  BY CountsTyped DEF CountsType
<1>1. 0 .. (counts.inodes - 1) \subseteq Numbers
  BY <1>a DEF Numbers
<1>2. counts' \in CountsType /\ counts'.inodes = counts.inodes
  BY CountsTyped, CountsInt, CountsChanged DEF Use
<1>3. block_bits' \in SUBSET Blocks
  BY DEF Use, MkfsInv, TypeOK
<1>4. inode_bits' \in SUBSET Numbers /\ dirs' \in SUBSET Numbers
  BY <1>1 DEF Use, MkfsInv, TypeOK
<1> QED BY <1>2, <1>3, <1>4
        DEF Use, MkfsInv, TypeOK, CountsType, Formats, Formatted, Laid

LEMMA MkfsInvariant == Spec => []MkfsInv
<1>1. MkfsInv /\ [Next]_vars => MkfsInv'
  <2> SUFFICES ASSUME MkfsInv, [Next]_vars
               PROVE  MkfsInv'
    OBVIOUS
  <2>1. CASE UNCHANGED vars
    BY <2>1 DEF vars, disk, MkfsInv, TypeOK, CountsType, Formats, Formatted, Laid
  <2> QED BY <2>1, StartsTyped, LayOutTyped, MakeRootTyped, FinishTyped, UseTyped
          DEF Next, Formatting
<1> QED BY <1>1, InitTyped, PTL DEF Spec

\* Whatever runs of mkfs fail or are killed, every member keeps its type.
THEOREM ImageTyped == Spec => []TypeOK
<1>1. MkfsInv => TypeOK
  BY DEF MkfsInv
<1> QED BY <1>1, MkfsInvariant, PTL

\* On an image of up to Byte blocks, what mounts has a sound layout.
THEOREM LayoutsSound ==
  ASSUME Total <= Byte
  PROVE  Spec => []MountsSound
<1>1. MkfsInv => MountsSound
  BY PlacedSound, MkfsAssumption DEF MkfsInv, Formatted, Laid, MountsSound
<1> QED BY <1>1, MkfsInvariant, PTL

-----------------------------------------------------------------------------
(* What mkfs leaves, and what it destroys.                                 *)

\* The image is wiped only on request, and a file system on it only by force.
Willing == pc = "wipe" => opts.zero /\ (magic => opts.force)

LEMMA WillingKept == MkfsInv /\ Willing /\ [Next]_vars => Willing'
<1> SUFFICES ASSUME MkfsInv, Willing, [Next]_vars
             PROVE  Willing'
  OBVIOUS
<1>1. ASSUME NEW o \in Options, Begin(o)
      PROVE  Willing'
  BY <1>1 DEF Begin, disk, Willing
<1>2. CASE Formatting
  BY <1>2 DEF Formatting, WipeSuperblock, WipeRest, Refuse, LayOutFails, LayOut,
              RootFails, MakeRoot, StoreMagic, Finish, At, Ends, Willing
<1>3. CASE Stop \/ Mount \/ Use
  BY <1>3 DEF Stop, Mount, Use, Ends, Willing
<1>4. CASE UNCHANGED vars
  BY <1>4 DEF vars, disk, Willing
<1> QED BY <1>1, <1>2, <1>3, <1>4 DEF Next

\* On an image of any size a file system is lost only to a mkfs that was told
\* both to overwrite it and to zero the image (mkfs.c:274, 279).
THEOREM LossNeedsForce == Spec => LostOnlyByForce
<1> DEFINE Loss == magic /\ ~ magic' => opts.force /\ opts.zero
<1>1. Init => Willing
  BY DEF Init, Willing
<1>2. Willing /\ [Next]_vars => [Loss]_vars
  <2> SUFFICES ASSUME Willing, Next
               PROVE  Loss
    BY DEF vars
  <2>1. CASE \E o \in Options : Begin(o)
    BY <2>1 DEF Begin, disk
  <2>2. CASE Formatting
    BY <2>2 DEF Formatting, WipeSuperblock, WipeRest, Refuse, LayOutFails, LayOut,
                RootFails, MakeRoot, StoreMagic, Finish, At, Ends, disk, Willing
  <2>3. CASE Stop \/ Mount \/ Use
    BY <2>3 DEF Stop, Mount, Use, Ends, disk
  <2> QED BY <2>1, <2>2, <2>3 DEF Next
<1> QED BY <1>1, <1>2, MkfsInvariant, WillingKept, PTL DEF Spec, LostOnlyByForce

\* What a zeroed image holds as mkfs goes on.
Empty == inode_bits = {} /\ dirs = {} /\ block_bits = {}
RootOnly == /\ inode_bits = {0} /\ dirs = {0} /\ block_bits = {}
            /\ counts.free_inodes = opts.n - 1

\* While mkfs runs it has no result, so nothing undoes what a result promises.
Busy ==
  pc \in {"wipe", "wiping", "format", "root", "magic", "finish"}
    => result = "running"

Filling ==
  opts.zero =>
    /\ pc \in {"format", "root"} => Empty
    /\ pc = "root" => counts.free_inodes = opts.n
    /\ pc \in {"magic", "finish"} => RootOnly

Filled ==
  result = "formatted" =>
    /\ Laid(opts.n)
    /\ opts.zero => RootOnly /\ counts.free_blocks = NumData(opts.n)

Fresh == Busy /\ Filling /\ Filled

LEMMA RootIsZero ==
  ASSUME MkfsInv, Fresh, MakeRoot
  PROVE  Fresh'
<1>1. /\ counts'.free_inodes = counts.free_inodes - 1
      /\ counts'.inodes = counts.inodes
  BY CountsTyped DEF MakeRoot, CountsType
<1>2. opts.zero => inode_bits' = {0} /\ dirs' = {0} /\ block_bits' = {}
  <2> SUFFICES ASSUME opts.zero
               PROVE  inode_bits' = {0} /\ dirs' = {0} /\ block_bits' = {}
    OBVIOUS
  <2>1. Empty
    BY DEF Fresh, Filling, MakeRoot, At
  <2>2. PICK r \in 0 .. (opts.n - 1) :
          /\ 0 .. (r - 1) \subseteq inode_bits
          /\ inode_bits' = inode_bits \cup {r}
          /\ dirs' = dirs \cup {r}
    BY DEF MakeRoot
  <2>3. r = 0
    <3> SUFFICES ASSUME r # 0
                 PROVE  FALSE
      OBVIOUS
    <3>1. 0 \in 0 .. (r - 1)
      OBVIOUS
    <3> QED BY <2>1, <2>2, <3>1 DEF Empty
  <2> QED BY <2>1, <2>2, <2>3 DEF MakeRoot, Empty
<1> QED BY <1>1, <1>2 DEF MakeRoot, At, Fresh, Busy, Filling, Filled, RootOnly

LEMMA FinishedIsFilled ==
  ASSUME MkfsInv, Fresh, Finish
  PROVE  Fresh'
<1>1. /\ counts'.free_inodes = counts.free_inodes
      /\ counts'.inodes = counts.inodes
      /\ counts'.free_blocks = NumData(opts.n)
  BY CountsTyped DEF Finish, CountsType
<1>2. Laid(opts.n)'
  BY <1>1 DEF Finish, Ends, MkfsInv, Formats, Laid
<1>3. opts.zero => RootOnly'
  BY <1>1 DEF Finish, Ends, Fresh, Filling, RootOnly
<1> QED BY <1>1, <1>2, <1>3 DEF Finish, Ends, Fresh, Busy, Filling, Filled

LEMMA LaidOutIsEmpty ==
  ASSUME MkfsInv, Fresh, LayOut
  PROVE  Fresh'
<1>1. counts'.free_inodes = opts.n
  BY CountsTyped DEF LayOut, Counted, CountsType
<1> QED BY <1>1 DEF LayOut, At, Fresh, Busy, Filling, Filled, Empty

LEMMA FreshKept == MkfsInv /\ Fresh /\ [Next]_vars => Fresh'
<1> SUFFICES ASSUME MkfsInv, Fresh, [Next]_vars
             PROVE  Fresh'
  OBVIOUS
<1> USE DEF Fresh, Busy, Filling, Filled
<1>1. ASSUME NEW o \in Options, Begin(o)
      PROVE  Fresh'
  BY <1>1 DEF Begin, disk
<1>2. CASE WipeSuperblock \/ WipeRest \/ StoreMagic
  BY <1>2 DEF WipeSuperblock, WipeRest, StoreMagic, At, Empty, RootOnly
<1>3. CASE Refuse \/ LayOutFails \/ RootFails
  BY <1>3 DEF Refuse, LayOutFails, RootFails, Ends
<1>4. CASE Stop
  BY <1>4 DEF Stop, Ends, disk, Laid, RootOnly
<1>5. CASE Mount
  BY <1>5 DEF Mount, disk, Laid, RootOnly
<1>6. CASE Use
  BY <1>6 DEF Use
<1>7. CASE UNCHANGED vars
  BY <1>7 DEF vars, disk, Laid, RootOnly, Empty
<1> QED BY <1>1, <1>2, <1>3, <1>4, <1>5, <1>6, <1>7,
           RootIsZero, FinishedIsFilled, LaidOutIsEmpty DEF Next, Formatting

\* Whatever was on the image before, of up to Byte blocks, a successful mkfs -z
\* leaves what A1fs starts from: nothing in use but inode 0, a directory, and
\* counters that say so (mkfs.c:211-247, 279).
THEOREM FormattedIsFresh ==
  ASSUME Total <= Byte
  PROVE  Spec => []FreshImage
<1>1. Init => Fresh
  BY DEF Init, Fresh, Busy, Filling, Filled
<1>2. MkfsInv /\ Fresh => FreshImage
  <2> SUFFICES ASSUME MkfsInv, Fresh, result = "formatted", opts.zero
               PROVE  /\ RootOnly
                      /\ counts.free_blocks = Total - place.first_data
    BY DEF FreshImage, RootOnly
  <2>1. opts.n \in Nat \ {0}
    BY MkfsAssumption DEF MkfsInv, TypeOK, Options
  <2>2. Laid(opts.n) /\ RootOnly /\ counts.free_blocks = NumData(opts.n)
    BY DEF Fresh, Filled
  <2> QED BY <2>1, <2>2, PlacedSound DEF Laid
<1> QED BY <1>1, <1>2, MkfsInvariant, FreshKept, PTL DEF Spec
=============================================================================

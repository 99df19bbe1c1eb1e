----------------------------- MODULE A1fsProofs -----------------------------
(***************************************************************************)
(* What every call of the file system preserves, orderly use or not: the   *)
(* types of the image's parts, the accounting of inodes, that blocks are   *)
(* of the data region; and, in orderly use, that no block has two owners.  *)
(***************************************************************************)
EXTENDS A1fs, FiniteSetTheorems, FunctionTheorems, SequenceTheorems, TLAPS

LEMMA ConstantTypes ==
  /\ MaxIndex \in Nat /\ MaxIndex >= DataBlocks
  /\ DataBlocks \in Nat /\ NInodes \in Nat /\ 0 \in Ino
  /\ Blank \in Entry /\ Vacancy \in Entry /\ Idle \in [ino : Ino, want : Nat]
  /\ \A i \in Ino, n \in Names : [ino |-> i, name |-> n] \in Entry
BY A1fsAssumption, TotalBlocksAssumption
DEF MaxIndex, Ino, Blank, Vacancy, Entry, Idle

-----------------------------------------------------------------------------
(* Extents.                                                                *)

LEMMA RunType ==
  ASSUME NEW s \in Nat, NEW n \in Nat
  PROVE  Run(s, n) \subseteq Nat /\ IsFiniteSet(Run(s, n))
<1>1. Run(s, n) \subseteq Nat
  BY DEF Run
<1>2. s \in Int /\ (s + n - 1) \in Int
  OBVIOUS
<1> QED
  BY <1>1, <1>2, FS_Interval DEF Run

LEMMA PairsType ==
  ASSUME NEW ext \in Seq(Extent)
  PROVE  /\ IsFiniteSet(Pairs(ext))
         /\ Cardinality(Pairs(ext)) \in Nat
         /\ \A p \in Pairs(ext) : p[2] \in Nat
<1> DEFINE Part(x) == {x} \X Run(ext[x].start, ext[x].count)
           Parts == {Part(x) : x \in DOMAIN ext}
           f == [x \in DOMAIN ext |-> Part(x)]
<1>1. ASSUME NEW x \in DOMAIN ext
      PROVE  ext[x].start \in Nat /\ ext[x].count \in Nat
  <2>1. ext[x] \in Extent
    BY <1>1
  <2> QED
    BY <2>1 DEF Extent
<1>2. \A x \in DOMAIN ext : IsFiniteSet(Part(x))
  BY <1>1, RunType, FS_Singleton, FS_Product
<1>3. IsFiniteSet(DOMAIN ext)
  <2>1. DOMAIN ext = 1 .. Len(ext) /\ Len(ext) \in Int /\ 1 \in Int
    OBVIOUS
  <2> QED
    BY <2>1, FS_Interval
<1>4. f \in Surjection(DOMAIN ext, Parts)
  BY DEF Surjection
<1>5. IsFiniteSet(Parts)
  BY <1>3, <1>4, FS_Surjection
<1>6. Pairs(ext) = UNION Parts
  BY DEF Pairs
<1>7. IsFiniteSet(Pairs(ext))
  BY <1>2, <1>5, <1>6, FS_UNION
<1>8. \A p \in Pairs(ext) : p[2] \in Nat
  BY <1>1, <1>6, RunType
<1> QED
  BY <1>7, <1>8, FS_CardinalityType

LEMMA FlipBitsType ==
  ASSUME NEW bits \in SUBSET Nat, NEW S \in SUBSET Nat
  PROVE  FlipBits(bits, S) \in SUBSET Nat
BY DEF FlipBits

LEMMA FlippedType ==
  ASSUME NEW bits \in SUBSET Nat, NEW P, \A p \in P : p[2] \in Nat
  PROVE  Flipped(bits, P) \in SUBSET Nat
BY DEF Flipped, FlipBits

LEMMA LastPairsType ==
  ASSUME NEW ext \in Seq(Extent), NEW m
  PROVE  /\ Cardinality(LastPairs(ext, m)) \in Nat
         /\ \A p \in LastPairs(ext, m) : p[2] \in Nat
<1>1. LastPairs(ext, m) \subseteq Pairs(ext)
  BY DEF LastPairs
<1> QED
  BY <1>1, PairsType, FS_Subset, FS_CardinalityType

LEMMA UpToType ==
  ASSUME NEW ext \in Seq(Extent), NEW k \in 0 .. (Len(ext) - 1)
  PROVE  /\ Cardinality(UpTo(ext, k)) \in Nat
         /\ \A p \in UpTo(ext, k) : p[2] \in Nat
<1>1. SubSeq(ext, 1, k) \in Seq(Extent)
  <2>1. 1 \in Int /\ k \in Int /\ \A i \in 1 .. k : ext[i] \in Extent
    OBVIOUS
  <2> QED
    BY <2>1, SubSeqProperties
<1> QED
  BY <1>1, PairsType DEF UpTo

\* allocate_data_blks appends to the extents or lengthens the last of them.
LEMMA GrownType ==
  ASSUME NEW ext \in Seq(Extent), NEW bits, NEW r \in Nat, NEW n \in Nat
  PROVE  /\ Grown(ext, bits, r, n) \in Seq(Extent)
         /\ AllocatedAt(ext, bits, r, n) \in Nat
<1> DEFINE new == [start |-> r, count |-> n]
           longer == [ext EXCEPT ![Len(ext)].count = @ + n]
<1>1. new \in Extent
  BY DEF Extent
<1>2. <<new>> \in Seq(Extent) /\ Append(ext, new) \in Seq(Extent)
  BY <1>1
<1>3. CASE ext = <<>>
  BY <1>2, <1>3 DEF Grown, AllocatedAt
<1>4. CASE ext # <<>>
  <2>1. Len(ext) \in 1 .. Len(ext)
    BY <1>4
  <2>2. ext[Len(ext)] \in Extent
    BY <2>1
  <2>3. After(ext) \in Nat
    BY <2>2 DEF After, LastExtent, Extent
  <2>4. longer \in Seq(Extent)
    <3>1. [ext[Len(ext)] EXCEPT !.count = @ + n] \in Extent
      BY <2>2 DEF Extent
    <3> QED
      BY <2>1, <3>1
  <2> QED
    BY <1>2, <1>4, <2>3, <2>4 DEF Grown, AllocatedAt
<1> QED
  BY <1>3, <1>4

\* A block is handed out only if the counter covers the request (util.h:73).
LEMMA GetAvailableType ==
  ASSUME NEW bits, NEW free \in Nat, NEW n \in Nat, NEW r \in 0 .. MaxIndex,
         GetAvailableBlock(bits, free, n, r)
  PROVE  free - n \in Nat /\ r \in Nat
BY ConstantTypes DEF GetAvailableBlock

LEMMA Quotient ==
  ASSUME NEW a \in Nat, NEW b \in Nat \ {0}
  PROVE  /\ a \div b \in Nat /\ a % b \in 0 .. (b - 1)
         /\ a = b * (a \div b) + (a % b)
OBVIOUS

LEMMA Times ==
  ASSUME NEW a \in Nat, NEW b \in Nat, NEW c \in Nat, a <= b
  PROVE  c * a <= c * b
OBVIOUS

LEMMA BlocksForType ==
  ASSUME NEW s \in Nat
  PROVE  BlocksFor(s) \in Nat
<1>1. BlockUnits \in Nat \ {0}
  BY A1fsAssumption
<1>2. s \div BlockUnits \in Nat
  BY <1>1
<1> QED
  BY <1>2 DEF BlocksFor

-----------------------------------------------------------------------------
(* The data region and the inode table.                                    *)

DataType == [Region -> [Slots -> Entry]]
TableType == [Ino -> Inode]

LEMMA PutType ==
  ASSUME NEW dat \in DataType, NEW b, NEW k, NEW v \in Entry
  PROVE  [dat EXCEPT ![b][k] = v] \in DataType
BY DEF DataType

LEMMA EnteredType ==
  ASSUME NEW dat \in DataType, NEW ext, NEW n \in Names, NEW i \in Ino
  PROVE  Entered(dat, ext, n, i) \in DataType
BY PutType, ConstantTypes DEF Entered

LEMMA VacatedType ==
  ASSUME NEW dat \in DataType, NEW b
  PROVE  Vacated(dat, b) \in DataType
<1>1. ASSUME NEW e \in Entry PROVE [e EXCEPT !.ino = -1] \in Entry
  BY ConstantTypes DEF Entry
<1>2. ASSUME b \in Region
      PROVE  [k \in Slots |-> [dat[b][k] EXCEPT !.ino = -1]] \in [Slots -> Entry]
  BY <1>1, <1>2 DEF DataType
<1> QED
  BY <1>2 DEF Vacated, DataType

LEMMA StoredType ==
  ASSUME NEW dat \in DataType, NEW ext, NEW s, NEW c \in Calls(s)
  PROVE  Stored(dat, ext, c) \in DataType
<1>1. c.fill \in Entry
  BY ConstantTypes, A1fsAssumption DEF Calls
<1>2. ASSUME NEW b \in Region
      PROVE  [k \in Slots |-> IF k < c.units THEN c.fill ELSE dat[b][k]]
               \in [Slots -> Entry]
  BY <1>1 DEF DataType
<1> QED
  BY <1>2 DEF Stored, DataType

LEMMA ZeroedType ==
  ASSUME NEW dat \in DataType, NEW ext, NEW m
  PROVE  Zeroed(dat, ext, m) \in DataType
BY ConstantTypes DEF Zeroed, DataType

LEMMA LastBlockZeroedType ==
  ASSUME data \in DataType, NEW f
  PROVE  LastBlockZeroed(f) \in DataType
<1>1. ASSUME NEW b \in Region
      PROVE  [k \in Slots |-> IF k >= itable[f].size % BlockUnits
                              THEN Blank ELSE data[b][k]] \in [Slots -> Entry]
  BY ConstantTypes DEF DataType
<1> QED
  BY <1>1 DEF LastBlockZeroed, DataType

LEMMA DataForType ==
  ASSUME data \in DataType, NEW f, NEW s
  PROVE  DataFor(f, s) \in DataType
BY LastBlockZeroedType DEF DataFor

\* An inode table with other extents, another size, or another entry count.
LEMMA TableTypes ==
  ASSUME NEW t \in TableType, NEW i \in Ino,
         NEW ext \in Seq(Extent), NEW s \in Nat, NEW k \in Int
  PROVE  /\ [t EXCEPT ![i].ext = ext] \in TableType
         /\ [t EXCEPT ![i].size = s] \in TableType
         /\ [t EXCEPT ![i].num_entries = k] \in TableType
<1>1. t[i] \in Inode
  BY DEF TableType
<1>2. /\ [t[i] EXCEPT !.ext = ext] \in Inode
      /\ [t[i] EXCEPT !.size = s] \in Inode
      /\ [t[i] EXCEPT !.num_entries = k] \in Inode
  BY <1>1 DEF Inode
<1> QED
  BY <1>2 DEF TableType

LEMMA CreatedType ==
  ASSUME NEW i \in Ino, NEW mode \in {"dir", "file"}, itable \in TableType
  PROVE  WithInode(i, mode) \in TableType
<1>1. Created(mode) \in Inode
  <2>1. <<>> \in Seq(Extent)
    OBVIOUS
  <2> QED
    BY <2>1 DEF Created, Inode
<1> QED
  BY <1>1 DEF WithInode, TableType

LEMMA InodeFields ==
  ASSUME NEW t \in TableType, NEW i \in Ino
  PROVE  t[i].ext \in Seq(Extent) /\ t[i].size \in Nat /\ t[i].num_entries \in Int
BY DEF TableType, Inode

-----------------------------------------------------------------------------
(* Every action keeps the types.                                           *)

\* A step that leaves each variable with its type.
LEMMA TypesKept ==
  ASSUME TypeOK,
         inode_bits' \in SUBSET Ino, free_inodes_count' \in Int,
         block_bits' \in SUBSET Nat, free_blocks_count' \in Nat,
         itable' \in TableType, data' \in DataType,
         fs' \in {"up", "spinning", "undefined"},
         job' \in [ino : Ino, want : Nat]
  PROVE  TypeOK'
BY DEF TypeOK, TableType, DataType

LEMMA Types ==
  ASSUME TypeOK
  PROVE  /\ inode_bits \in SUBSET Ino /\ free_inodes_count \in Int
         /\ block_bits \in SUBSET Nat /\ free_blocks_count \in Nat
         /\ itable \in TableType /\ data \in DataType
         /\ fs \in {"up", "spinning", "undefined"}
         /\ job \in [ino : Ino, want : Nat]
BY DEF TypeOK, TableType, DataType

LEMMA InitTypes ==
  ASSUME Init
  PROVE  TypeOK
<1>1. Created("dir") \in Inode /\ Created("none") \in Inode
  <2>1. <<>> \in Seq(Extent)
    OBVIOUS
  <2> QED
    BY <2>1 DEF Created, Inode
<1> DEFINE zero == <<[start |-> 0, count |-> 0]>>
<1>2. [Created("none") EXCEPT !.ext = zero] \in Inode
  <2>1. zero \in Seq(Extent)
    BY DEF Extent
  <2> HIDE DEF zero
  <2> QED
    BY <2>1 DEF Created, Inode
<1>3. itable \in [Ino -> Inode]
  BY <1>1, <1>2 DEF Init
<1>4. data \in [Region -> [Slots -> Entry]]
  BY ConstantTypes DEF Init
<1> QED
  BY <1>3, <1>4, ConstantTypes DEF Init, TypeOK

LEMMA TakeInodeTypes ==
  ASSUME TypeOK, NEW i \in Ino, TakeInode(i)
  PROVE  inode_bits' \in SUBSET Ino /\ free_inodes_count' \in Int
BY DEF TypeOK, TakeInode

LEMMA AddEntryTypes ==
  ASSUME TypeOK, NEW d \in Ino, NEW n \in Names, NEW i \in Ino,
         NEW mode \in {"dir", "file"}, AddEntry(d, n, i, mode)
  PROVE  TypeOK'
<1> DEFINE t == WithInode(i, mode)
<1>1. t \in TableType
  BY Types, CreatedType
<1>2. itable' \in TableType
  <2>1. t[d].num_entries + 1 \in Int
    BY <1>1, InodeFields
  <2>2. itable' = [t EXCEPT ![d].num_entries = t[d].num_entries + 1]
    BY DEF AddEntry
  <2> HIDE DEF t
  <2> QED
    BY <1>1, <2>1, <2>2, TableTypes, InodeFields
<1>3. data' \in DataType
  BY Types, EnteredType DEF AddEntry
<1> QED
  BY <1>2, <1>3, Types, TypesKept, TakeInodeTypes DEF AddEntry, NewInode

LEMMA AddEntryInNewBlockTypes ==
  ASSUME TypeOK, NEW d \in Ino, NEW n \in Names, NEW i \in Ino,
         NEW mode \in {"dir", "file"}, AddEntryInNewBlock(d, n, i, mode)
  PROVE  TypeOK'
<1> DEFINE t == WithInode(i, mode)
<1>1. PICK r \in 0 .. MaxIndex :
        LET ext == Grown(t[d].ext, block_bits, r, 1)
            b == AllocatedAt(t[d].ext, block_bits, r, 1)
            first == LastExtent(ext).start
        IN  /\ GetAvailableBlock(block_bits, free_blocks_count, 1, r)
            /\ data' = Entered(Vacated(data, first), ext, n, i)
            /\ itable' = [t EXCEPT ![d].ext = ext, ![d].num_entries = @ + 1]
            /\ block_bits' = FlipBits(block_bits, {b})
            /\ free_blocks_count' = free_blocks_count - 1
  BY DEF AddEntryInNewBlock
<1> DEFINE ext == Grown(t[d].ext, block_bits, r, 1)
           u == [t EXCEPT ![d].ext = ext]
<1>2. r \in Nat /\ 1 \in Nat /\ free_blocks_count - 1 \in Nat
  BY <1>1, GetAvailableType, Types
<1>3. t \in TableType
  BY Types, CreatedType
<1>4. t[d].ext \in Seq(Extent)
  BY <1>3, InodeFields
<1>5. ext \in Seq(Extent) /\ AllocatedAt(t[d].ext, block_bits, r, 1) \in Nat
  BY <1>2, <1>4, GrownType
<1>6. itable' \in TableType
  <2>1. itable' = [t EXCEPT ![d].ext = ext, ![d].num_entries = @ + 1]
    BY <1>1
  <2> HIDE DEF t, ext
  <2>2. u \in TableType
    BY <1>3, <1>5, TableTypes, InodeFields
  <2>3. itable' = [u EXCEPT ![d].num_entries = u[d].num_entries + 1]
    BY <2>1
  <2> HIDE DEF u
  <2>4. u[d].num_entries + 1 \in Int
    BY <2>2, InodeFields
  <2> QED
    BY <2>2, <2>3, <2>4, TableTypes, InodeFields
<1>7. data' \in DataType
  BY <1>1, Types, VacatedType, EnteredType
<1>8. block_bits' \in SUBSET Nat
  <2>1. {AllocatedAt(t[d].ext, block_bits, r, 1)} \in SUBSET Nat
    BY <1>5
  <2> QED
    BY <1>1, <2>1, FlipBitsType, Types
<1> QED
  BY <1>1, <1>2, <1>6, <1>7, <1>8, Types, TypesKept, TakeInodeTypes
  DEF AddEntryInNewBlock, NewInode

LEMMA AddEntryNoSpaceTypes ==
  ASSUME TypeOK, NEW d \in Ino, NEW n \in Names, NEW i \in Ino,
         NEW mode \in {"dir", "file"}, AddEntryNoSpace(d, n, i, mode)
  PROVE  TypeOK'
BY Types, CreatedType, TypesKept, TakeInodeTypes DEF AddEntryNoSpace, NewInode

LEMMA RemovedTypes ==
  ASSUME TypeOK, NEW d \in Ino, NEW i \in Ino, NEW freed \in Nat,
         Removed(d, i, freed)
  PROVE  /\ inode_bits' \in SUBSET Ino /\ free_inodes_count' \in Int
         /\ free_blocks_count' \in Nat
         /\ itable' \in TableType /\ data' \in DataType
<1> DEFINE t1 == [itable EXCEPT ![i].size = 0]
           t2 == [t1 EXCEPT ![i].ext = <<>>]
           t3 == [t2 EXCEPT ![i].num_entries = 0]
           t == [itable EXCEPT ![i].size = 0, ![i].ext = <<>>,
                               ![i].num_entries = 0]
           found == IF i \in inode_bits THEN Naming(t[d].ext, i) ELSE {}
           one == IF found = {} THEN 0 ELSE 1
<1>1. t \in TableType
  <2>1. itable \in TableType /\ <<>> \in Seq(Extent) /\ 0 \in Nat /\ 0 \in Int
    BY Types
  <2>2. t1 \in TableType
    BY <2>1, TableTypes
  <2>3. t2 \in TableType
    <3> HIDE DEF t1
    <3> QED
      BY <2>1, <2>2, TableTypes
  <2>4. t3 \in TableType
    <3> HIDE DEF t2
    <3> QED
      BY <2>1, <2>3, TableTypes
  <2>5. t = t3
    BY <2>1 DEF TableType
  <2> QED
    BY <2>4, <2>5
<1>2. one \in {0, 1}
  OBVIOUS
<1>3. itable' \in TableType
  <2>1. itable' = [t EXCEPT ![d].num_entries = t[d].num_entries - one]
    BY DEF Removed
  <2> HIDE DEF t, one
  <2>2. t[d].num_entries - one \in Int
    BY <1>1, <1>2, InodeFields
  <2> QED
    BY <1>1, <2>1, <2>2, TableTypes, InodeFields
<1>4. data' \in DataType
  <2>1. data' = IF found = {} THEN data
                ELSE [data EXCEPT ![FirstOf(found)[2]][FirstOf(found)[3]]
                        = Vacancy]
    BY DEF Removed
  <2> HIDE DEF found
  <2> QED
    BY <2>1, Types, PutType, ConstantTypes
<1>5. free_blocks_count' \in Nat
  <2>1. free_blocks_count' = free_blocks_count + freed + one
    BY DEF Removed
  <2> QED
    BY <1>2, <2>1, Types
<1>6. inode_bits' \in SUBSET Ino
  <2>1. inode_bits' = inode_bits \ {i}
    BY DEF Removed
  <2> QED
    BY <2>1, Types
<1>7. free_inodes_count' \in Int
  <2>1. free_inodes_count'
          = free_inodes_count + (IF i \in inode_bits THEN 1 ELSE 0)
    BY DEF Removed
  <2> QED
    BY <2>1, Types
<1> QED
  BY <1>3, <1>4, <1>5, <1>6, <1>7

LEMMA RmdirTypes ==
  ASSUME TypeOK, NEW d \in Ino, NEW n \in Names, NEW i \in Ino, Rmdir(d, n, i)
  PROVE  TypeOK'
BY Types, RemovedTypes, TypesKept DEF Rmdir

LEMMA UnlinkTypes ==
  ASSUME TypeOK, NEW d \in Ino, NEW n \in Names, NEW i \in Ino, Unlink(d, n, i)
  PROVE  TypeOK'
<1> DEFINE all == Pairs(itable[i].ext)
<1>1. itable[i].ext \in Seq(Extent)
  BY Types, InodeFields
<1>2. Cardinality(all) \in Nat /\ \A p \in all : p[2] \in Nat
  BY <1>1, PairsType
<1>3. block_bits' \in SUBSET Nat
  BY <1>2, Types, FlippedType DEF Unlink
<1> QED
  BY <1>2, <1>3, Types, RemovedTypes, TypesKept DEF Unlink

LEMMA UnlinkGivesUpTypes ==
  ASSUME TypeOK, NEW d \in Ino, NEW n \in Names, NEW i \in Ino,
         UnlinkGivesUp(d, n, i)
  PROVE  TypeOK'
<1>1. PICK k \in 0 .. (Len(itable[i].ext) - 1) :
        /\ block_bits' = Flipped(block_bits, UpTo(itable[i].ext, k))
        /\ free_blocks_count'
             = free_blocks_count + Cardinality(UpTo(itable[i].ext, k))
  BY DEF UnlinkGivesUp
<1>2. itable[i].ext \in Seq(Extent)
  BY Types, InodeFields
<1>3. /\ Cardinality(UpTo(itable[i].ext, k)) \in Nat
      /\ \A p \in UpTo(itable[i].ext, k) : p[2] \in Nat
  BY <1>2, UpToType
<1>4. block_bits' \in SUBSET Nat /\ free_blocks_count' \in Nat
  BY <1>1, <1>3, Types, FlippedType
<1> QED
  BY <1>4, Types, TypesKept DEF UnlinkGivesUp

LEMMA WantedType ==
  ASSUME NEW m \in Int, m # 0
  PROVE  Wanted(m) \in Nat /\ Wanted(m) >= 1
<1>1. CASE m < 0
  BY <1>1 DEF Wanted
<1>2. CASE m > 0
  <2>1. BlockUnits \in Nat /\ BlockUnits > 0
    BY A1fsAssumption
  <2>2. m \div BlockUnits \in Nat /\ m % BlockUnits \in Nat
    BY <1>2, <2>1
  <2>3. CASE m % BlockUnits # 0
    BY <1>2, <2>2, <2>3 DEF Wanted, BlocksFor
  <2>4. CASE m % BlockUnits = 0
    <3>1. m \div BlockUnits # 0
      BY <1>2, <2>1, <2>2, <2>4
    <3> QED
      BY <1>2, <2>2, <2>4, <3>1 DEF Wanted, BlocksFor
  <2> QED
    BY <2>3, <2>4
<1> QED
  BY <1>1, <1>2

LEMMA RequestType ==
  ASSUME TypeOK, NEW f \in Ino, NEW s \in Nat
  PROVE  Request(f, s) \in Int
<1>1. itable[f].size \in Nat /\ BlockUnits \in Nat \ {0}
  BY Types, InodeFields, A1fsAssumption
<1>2. UntilFull(f) \in Int
  BY <1>1 DEF UntilFull
<1> QED
  BY <1>1, <1>2 DEF Request

LEMMA FillLastBlockTypes ==
  ASSUME TypeOK, NEW f \in Ino, NEW s \in Nat, NEW c \in Calls(s),
         FillLastBlock(f, s, c)
  PROVE  TypeOK'
<1>1. itable' \in TableType
  <2>1. <<>> \in Seq(Extent) /\ 0 \in Int
    OBVIOUS
  <2> QED
    BY <2>1, Types, TableTypes DEF FillLastBlock
<1>2. data' \in DataType
  BY Types, LastBlockZeroedType, StoredType DEF FillLastBlock
<1> QED
  BY <1>1, <1>2, Types, TypesKept DEF FillLastBlock, bitmaps, counters

LEMMA ExtendTypes ==
  ASSUME TypeOK, NEW f \in Ino, NEW s \in Nat, NEW c \in Calls(s),
         Extend(f, s, c)
  PROVE  TypeOK'
<1> DEFINE m == Request(f, s)
           n == BlocksFor(m)
           old == itable[f].ext
<1>1. PICK r \in 0 .. MaxIndex :
        LET ext == Grown(old, block_bits, r, n)
            at == AllocatedAt(old, block_bits, r, n)
        IN  /\ GetAvailableBlock(block_bits, free_blocks_count, n, r)
            /\ itable' = [itable EXCEPT ![f].ext = ext, ![f].size = s]
            /\ data' = Stored(Zeroed(DataFor(f, s), ext, m), ext, c)
            /\ block_bits' = FlipBits(block_bits, Run(at, n))
  BY DEF Extend
<1> DEFINE ext == Grown(old, block_bits, r, n)
           at == AllocatedAt(old, block_bits, r, n)
           t == [itable EXCEPT ![f].ext = ext]
<1>2. m \in Nat /\ n \in Nat
  <2>1. m \in Int /\ m > 0
    BY RequestType DEF Extend
  <2> HIDE DEF m
  <2> QED
    BY <2>1, BlocksForType
<1>3. old \in Seq(Extent)
  BY Types, InodeFields
<1>4. r \in Nat /\ free_blocks_count - n \in Nat
  BY <1>1, <1>2, GetAvailableType, Types
<1>5. ext \in Seq(Extent) /\ at \in Nat
  BY <1>2, <1>3, <1>4, GrownType
<1>6. itable' \in TableType
  <2>1. itable' = [itable EXCEPT ![f].ext = ext, ![f].size = s]
    BY <1>1
  <2>2. 0 \in Int /\ 0 \in Nat /\ itable \in TableType
    BY Types
  <2> HIDE DEF ext
  <2>3. t \in TableType
    BY <1>5, <2>2, TableTypes
  <2>4. itable' = [t EXCEPT ![f].size = s]
    BY <2>1
  <2> HIDE DEF t
  <2> QED
    BY <1>5, <2>2, <2>3, <2>4, TableTypes
<1>7. data' \in DataType
  BY <1>1, Types, DataForType, ZeroedType, StoredType
<1>8. block_bits' \in SUBSET Nat
  BY <1>1, <1>2, <1>5, RunType, FlipBitsType, Types
<1>9. free_blocks_count' \in Nat
  BY <1>4 DEF Extend
<1> QED
  BY <1>6, <1>7, <1>8, <1>9, Types, TypesKept DEF Extend

LEMMA ExtendSpinsTypes ==
  ASSUME TypeOK, NEW f \in Ino, NEW s \in Nat, ExtendSpins(f, s)
  PROVE  TypeOK'
<1>1. Wanted(Request(f, s)) - 1 \in Nat
  BY RequestType, WantedType DEF ExtendSpins
<1>2. data' \in DataType
  BY Types, DataForType DEF ExtendSpins
<1> QED
  BY <1>1, <1>2, Types, TypesKept DEF ExtendSpins, bitmaps, counters

\* A request for no block is always met, so the level below it is never asked.
LEMMA SpinDeeperTypes ==
  ASSUME TypeOK, SpinDeeper
  PROVE  TypeOK'
<1>1. job.want \in Nat /\ job.ino \in Ino /\ free_blocks_count \in Nat
  BY Types
<1>2. job.want # 0
  <2>1. SUFFICES ASSUME job.want = 0 PROVE FALSE
    OBVIOUS
  <2>2. 0 \in 0 .. (MaxIndex - job.want - 1)
    BY <2>1, TotalBlocksAssumption DEF MaxIndex
  <2>3. FreeRun(block_bits, 0, job.want)
    BY <2>1 DEF FreeRun, Run
  <2> QED
    BY <1>1, <2>1, <2>2, <2>3 DEF SpinDeeper, GetAvailableBlock
<1>3. job' \in [ino : Ino, want : Nat]
  BY <1>1, <1>2, Types DEF SpinDeeper
<1> QED
  BY <1>3, Types, TypesKept DEF SpinDeeper, bitmaps, counters

LEMMA SpinAllocatesTypes ==
  ASSUME TypeOK, SpinAllocates
  PROVE  TypeOK'
<1> DEFINE old == itable[job.ino].ext
           n == job.want
<1>1. PICK r \in 0 .. MaxIndex :
        LET ext == Grown(old, block_bits, r, n)
            at == AllocatedAt(old, block_bits, r, n)
        IN  /\ GetAvailableBlock(block_bits, free_blocks_count, n, r)
            /\ itable' = [itable EXCEPT ![job.ino].ext = ext]
            /\ block_bits' = FlipBits(block_bits, Run(at, n))
  BY DEF SpinAllocates
<1> DEFINE ext == Grown(old, block_bits, r, n)
           at == AllocatedAt(old, block_bits, r, n)
<1>2. n \in Nat /\ job.ino \in Ino
  BY Types
<1>3. old \in Seq(Extent)
  BY <1>2, Types, InodeFields
<1>4. r \in Nat /\ free_blocks_count - n \in Nat
  BY <1>1, <1>2, GetAvailableType, Types
<1>5. ext \in Seq(Extent) /\ at \in Nat
  BY <1>2, <1>3, <1>4, GrownType
<1>6. itable' \in TableType
  <2>1. itable' = [itable EXCEPT ![job.ino].ext = ext]
    BY <1>1
  <2>2. 0 \in Int /\ 0 \in Nat /\ itable \in TableType
    BY Types
  <2> HIDE DEF ext
  <2> QED
    BY <1>2, <1>5, <2>1, <2>2, TableTypes
<1>7. block_bits' \in SUBSET Nat
  BY <1>1, <1>2, <1>5, RunType, FlipBitsType, Types
<1>8. free_blocks_count' \in Nat
  BY <1>4 DEF SpinAllocates
<1> QED
  BY <1>6, <1>7, <1>8, Types, TypesKept DEF SpinAllocates

LEMMA ShrinkTypes ==
  ASSUME TypeOK, NEW f \in Ino, NEW s \in Nat, Shrink(f, s)
  PROVE  TypeOK'
<1> DEFINE cut == LastPairs(itable[f].ext,
                            BlocksFor(itable[f].size) - BlocksFor(s))
           ext == IF s = 0 THEN <<>> ELSE itable[f].ext
           t == [itable EXCEPT ![f].size = s]
<1>1. itable[f].ext \in Seq(Extent)
  BY Types, InodeFields
<1>2. Cardinality(cut) \in Nat /\ \A p \in cut : p[2] \in Nat
  BY <1>1, LastPairsType
<1>3. itable' \in TableType
  <2>1. ext \in Seq(Extent) /\ 0 \in Int /\ itable \in TableType
    BY <1>1, Types
  <2>2. t \in TableType
    BY <2>1, TableTypes
  <2>3. itable' = [t EXCEPT ![f].ext = ext]
    BY <2>1 DEF Shrink, TableType
  <2> HIDE DEF t, ext
  <2> QED
    BY <2>1, <2>2, <2>3, TableTypes
<1>4. block_bits' \in SUBSET Nat
  BY <1>2, Types, FlippedType DEF Shrink
<1>5. free_blocks_count' \in Nat
  BY <1>2, Types DEF Shrink
<1> QED
  BY <1>3, <1>4, <1>5, Types, TypesKept DEF Shrink

LEMMA WriteInPlaceTypes ==
  ASSUME TypeOK, NEW f, NEW s, NEW v \in Payload, WriteInPlace(f, s, v)
  PROVE  TypeOK'
<1>1. [units |-> s, fill |-> v] \in Calls(s)
  BY DEF Calls, WriteInPlace
<1>2. data' \in DataType
  BY <1>1, Types, StoredType DEF WriteInPlace
<1> QED
  BY <1>2, Types, TypesKept DEF WriteInPlace, bitmaps, counters

\* The steps into "undefined" change nothing else.
LEMMA FaultTypes ==
  ASSUME TypeOK, fs' = "undefined",
         UNCHANGED <<bitmaps, counters, itable, data, job>>
  PROVE  TypeOK'
BY Types, TypesKept DEF bitmaps, counters

LEMMA StepTypes ==
  ASSUME TypeOK, [Next]_vars
  PROVE  TypeOK'
<1>1. Dirs \subseteq Ino /\ Files \subseteq Ino /\ Sizes \subseteq Nat
  BY A1fsAssumption DEF Dirs, Files
<1>2. ASSUME NEW d \in Dirs, NEW n \in Names, NEW i \in Ino,
             NEW mode \in {"dir", "file"},
             \/ AddEntry(d, n, i, mode)
             \/ AddEntryInNewBlock(d, n, i, mode)
             \/ AddEntryNoSpace(d, n, i, mode)
             \/ AddEntryFault(d, n, i, mode)
      PROVE  TypeOK'
  <2>1. ASSUME AddEntryFault(d, n, i, mode) PROVE TypeOK'
    BY <2>1, FaultTypes DEF AddEntryFault
  <2> QED
    BY <1>1, <1>2, <2>1, AddEntryTypes, AddEntryInNewBlockTypes,
       AddEntryNoSpaceTypes
<1>3. ASSUME NEW d \in Dirs, NEW n \in Names, NEW i \in Ino,
             Rmdir(d, n, i) \/ Unlink(d, n, i) \/ UnlinkGivesUp(d, n, i)
      PROVE  TypeOK'
  BY <1>1, <1>3, RmdirTypes, UnlinkTypes, UnlinkGivesUpTypes
<1>4. ASSUME NEW f \in Files, NEW s \in Sizes,
             \/ \E c \in Calls(s) : FillLastBlock(f, s, c) \/ Extend(f, s, c)
             \/ ExtendFault(f, s) \/ ExtendSpins(f, s) \/ Shrink(f, s)
             \/ \E v \in Payload : WriteInPlace(f, s, v)
      PROVE  TypeOK'
  <2>1. f \in Ino /\ s \in Nat
    BY <1>1
  <2>2. ASSUME NEW c \in Calls(s), FillLastBlock(f, s, c) \/ Extend(f, s, c)
        PROVE  TypeOK'
    BY <2>1, <2>2, FillLastBlockTypes, ExtendTypes
  <2>3. ASSUME ExtendFault(f, s) PROVE TypeOK'
    BY <2>3, FaultTypes DEF ExtendFault
  <2>4. ASSUME ExtendSpins(f, s) \/ Shrink(f, s) PROVE TypeOK'
    BY <2>1, <2>4, ExtendSpinsTypes, ShrinkTypes
  <2>5. ASSUME NEW v \in Payload, WriteInPlace(f, s, v) PROVE TypeOK'
    BY <2>5, WriteInPlaceTypes
  <2> QED
    BY <1>4, <2>2, <2>3, <2>4, <2>5
<1>5. ASSUME SpinStep PROVE TypeOK'
  <2>1. ASSUME SpinOverflows PROVE TypeOK'
    BY <2>1, FaultTypes DEF SpinOverflows
  <2> QED
    BY <1>5, <2>1, SpinDeeperTypes, SpinAllocatesTypes DEF SpinStep
<1>6. ASSUME UNCHANGED vars PROVE TypeOK'
  BY <1>6, Types, TypesKept DEF vars, bitmaps, counters
<1> QED
  BY <1>2, <1>3, <1>4, <1>5, <1>6 DEF Next

\* The image's parts keep their types, and the free-block counter stays a
\* natural number: it never wraps below 0 (util.h:73, 171).
THEOREM TypeCorrect == Spec => []TypeOK
<1>1. Init => TypeOK
  BY InitTypes
<1>2. TypeOK /\ [Next]_vars => TypeOK'
  BY StepTypes
<1> QED
  BY <1>1, <1>2, PTL DEF Spec

-----------------------------------------------------------------------------
(* The accounting of inodes.  Only set_bits in create_inode, rmdir and     *)
(* unlink touches either side of it.                                       *)

LEMMA BitsFinite ==
  ASSUME NEW bits \in SUBSET Ino
  PROVE  IsFiniteSet(bits) /\ Cardinality(bits) \in Nat
<1>1. IsFiniteSet(Ino)
  <2>1. 0 \in Int /\ NInodes - 1 \in Int
    BY A1fsAssumption
  <2> QED
    BY <2>1, FS_Interval DEF Ino
<1> QED
  BY <1>1, FS_Subset, FS_CardinalityType

\* How far the counter is from the bitmap stays as it is.
AccountKept ==
  free_inodes_count' + Cardinality(inode_bits') =
    free_inodes_count + Cardinality(inode_bits)

LEMMA TakeInodeAccounting ==
  ASSUME TypeOK, NEW i \in Ino, TakeInode(i)
  PROVE  AccountKept
<1>1. /\ IsFiniteSet(inode_bits) /\ Cardinality(inode_bits) \in Nat
      /\ free_inodes_count \in Int
  BY Types, BitsFinite
<1>2. Cardinality(inode_bits') = Cardinality(inode_bits) + 1
  BY <1>1, FS_AddElement DEF TakeInode
<1> QED
  BY <1>1, <1>2, A1fsAssumption DEF AccountKept, TakeInode

LEMMA RemovedAccounting ==
  ASSUME TypeOK, NEW d, NEW i, NEW freed, Removed(d, i, freed)
  PROVE  AccountKept
<1>1. /\ IsFiniteSet(inode_bits) /\ Cardinality(inode_bits) \in Nat
      /\ free_inodes_count \in Int
  BY Types, BitsFinite
<1>2. /\ inode_bits' = inode_bits \ {i}
      /\ free_inodes_count'
           = free_inodes_count + (IF i \in inode_bits THEN 1 ELSE 0)
  BY DEF Removed
<1>3. CASE i \in inode_bits
  <2>1. Cardinality(inode_bits') = Cardinality(inode_bits) - 1
    BY <1>1, <1>2, <1>3, FS_RemoveElement
  <2> QED
    BY <1>1, <1>2, <1>3, <2>1, A1fsAssumption DEF AccountKept
<1>4. CASE i \notin inode_bits
  <2>1. inode_bits' = inode_bits
    BY <1>2, <1>4
  <2>2. free_inodes_count' = free_inodes_count
    <3>1. free_inodes_count \in Int
      BY Types
    <3> QED
      BY <1>2, <1>4, <3>1
  <2> QED
    BY <2>1, <2>2 DEF AccountKept
<1> QED
  BY <1>3, <1>4

LEMMA StepAccounting ==
  ASSUME TypeOK, [Next]_vars
  PROVE  AccountKept
<1>1. ASSUME inode_bits' = inode_bits, free_inodes_count' = free_inodes_count
      PROVE  AccountKept
  BY <1>1 DEF AccountKept
<1>2. ASSUME NEW d \in Dirs, NEW n \in Names, NEW i \in Ino,
             NEW mode \in {"dir", "file"},
             \/ AddEntry(d, n, i, mode)
             \/ AddEntryInNewBlock(d, n, i, mode)
             \/ AddEntryNoSpace(d, n, i, mode)
             \/ AddEntryFault(d, n, i, mode)
      PROVE  AccountKept
  <2>1. ASSUME AddEntryFault(d, n, i, mode) PROVE AccountKept
    BY <1>1, <2>1 DEF AddEntryFault, bitmaps, counters
  <2> QED
    BY <1>2, <2>1, TakeInodeAccounting
    DEF AddEntry, AddEntryInNewBlock, AddEntryNoSpace, NewInode
<1>3. ASSUME NEW d \in Dirs, NEW n \in Names, NEW i \in Ino,
             Rmdir(d, n, i) \/ Unlink(d, n, i) \/ UnlinkGivesUp(d, n, i)
      PROVE  AccountKept
  BY <1>1, <1>3, RemovedAccounting DEF Rmdir, Unlink, UnlinkGivesUp
<1>4. ASSUME NEW f \in Files, NEW s \in Sizes,
             \/ \E c \in Calls(s) : FillLastBlock(f, s, c) \/ Extend(f, s, c)
             \/ ExtendFault(f, s) \/ ExtendSpins(f, s) \/ Shrink(f, s)
             \/ \E v \in Payload : WriteInPlace(f, s, v)
      PROVE  AccountKept
  BY <1>1, <1>4
  DEF FillLastBlock, Extend, ExtendFault, ExtendSpins, Shrink, WriteInPlace,
      bitmaps, counters
<1>5. ASSUME SpinStep \/ UNCHANGED vars PROVE AccountKept
  BY <1>1, <1>5
  DEF SpinStep, SpinDeeper, SpinAllocates, SpinOverflows, vars, bitmaps, counters
<1> QED
  BY <1>2, <1>3, <1>4, <1>5 DEF Next

\* The inode counter and the inode bitmap never drift apart, whatever calls
\* are made and whichever of them fail (util.h:144-151).
THEOREM InodesAccountedFor == Spec => []InodeAccounting
<1>1. Init => InodeAccounting
  BY FS_Singleton, A1fsAssumption DEF Init, InodeAccounting
<1>2. TypeOK /\ InodeAccounting /\ [Next]_vars => InodeAccounting'
  <2> SUFFICES ASSUME TypeOK, InodeAccounting, [Next]_vars
               PROVE  InodeAccounting'
    OBVIOUS
  <2>1. TypeOK' /\ AccountKept
    BY StepTypes, StepAccounting
  <2>2. /\ free_inodes_count \in Int /\ free_inodes_count' \in Int
        /\ Cardinality(inode_bits) \in Nat /\ Cardinality(inode_bits') \in Nat
    BY <2>1, BitsFinite DEF TypeOK
  <2> QED BY <2>1, <2>2, A1fsAssumption DEF AccountKept, InodeAccounting
<1> QED
  BY <1>1, <1>2, TypeCorrect, PTL DEF Spec

-----------------------------------------------------------------------------
(***************************************************************************)
(* What the calls do to the blocks of the image.  As far as bitmap and     *)
(* extents go, a step leaves the bitmap alone, or frees blocks of one      *)
(* inode, or takes a run of blocks for one.                                *)
(***************************************************************************)
\* The extents stay as they are, or are dropped as a whole.
ExtentsKept(S) == \A j \in S : itable'[j].ext \in {itable[j].ext, <<>>}

Untouched == block_bits' = block_bits /\ ExtentsKept(Ino)

Frees(i, P) ==
  /\ P \subseteq Pairs(itable[i].ext)
  /\ block_bits' = Flipped(block_bits, P)
  /\ ExtentsKept(Ino)

Takes(d, old, r, n) ==
  /\ old \in {itable[d].ext, <<>>}
  /\ r \in Nat /\ n \in Nat
  /\ GetAvailableBlock(block_bits, free_blocks_count, n, r)
  /\ itable'[d].ext = Grown(old, block_bits, r, n)
  /\ ExtentsKept(Ino \ {d})
  /\ Run(AllocatedAt(old, block_bits, r, n), n) \subseteq Region
  /\ block_bits' = FlipBits(block_bits, Run(AllocatedAt(old, block_bits, r, n), n))

\* All inodes, those not in use included, have blocks of the data region only.
Inside ==
  Up => /\ block_bits \subseteq Region
        /\ \A i \in Ino : OwnedBy(itable[i].ext) \subseteq Region

-----------------------------------------------------------------------------
(* Blocks of extents.                                                      *)

LEMMA OwnedByDef ==
  ASSUME NEW ext, NEW b
  PROVE  b \in OwnedBy(ext) <=>
           \E x \in DOMAIN ext : b \in Run(ext[x].start, ext[x].count)
<1>1. ASSUME NEW x \in DOMAIN ext, b \in Run(ext[x].start, ext[x].count)
      PROVE  b \in OwnedBy(ext)
  <2>1. <<x, b>> \in Pairs(ext)
    BY <1>1 DEF Pairs
  <2> QED
    BY <2>1 DEF OwnedBy
<1>2. ASSUME b \in OwnedBy(ext)
      PROVE  \E x \in DOMAIN ext : b \in Run(ext[x].start, ext[x].count)
  <2>1. PICK p \in Pairs(ext) : p[2] = b
    BY <1>2 DEF OwnedBy
  <2>2. PICK x \in DOMAIN ext : p \in {x} \X Run(ext[x].start, ext[x].count)
    BY <2>1 DEF Pairs
  <2> QED
    BY <2>1, <2>2
<1> QED
  BY <1>1, <1>2

LEMMA OwnedByEmpty == OwnedBy(<<>>) = {} /\ Pairs(<<>>) = {}
BY DEF OwnedBy, Pairs

LEMMA RunAppend ==
  ASSUME NEW s \in Nat, NEW c \in Nat, NEW n \in Nat
  PROVE  Run(s, c + n) = Run(s, c) \cup Run(s + c, n)
BY DEF Run

LEMMA OwnedByGrown ==
  ASSUME NEW ext \in Seq(Extent), NEW bits, NEW r \in Nat, NEW n \in Nat
  PROVE  OwnedBy(Grown(ext, bits, r, n))
           = OwnedBy(ext) \cup Run(AllocatedAt(ext, bits, r, n), n)
<1> DEFINE new == [start |-> r, count |-> n]
           l == Len(ext)
           longer == [ext EXCEPT ![l].count = @ + n]
<1>1. CASE ext = <<>>
  <2>1. Grown(ext, bits, r, n) = <<new>> /\ AllocatedAt(ext, bits, r, n) = r
    BY <1>1 DEF Grown, AllocatedAt
  <2>2. ASSUME NEW b PROVE b \in OwnedBy(<<new>>) <=> b \in Run(r, n)
    <3>1. DOMAIN <<new>> = {1} /\ <<new>>[1].start = r /\ <<new>>[1].count = n
      OBVIOUS
    <3> HIDE DEF new
    <3> QED
      BY <3>1, OwnedByDef
  <2> QED
    BY <1>1, <2>1, <2>2, OwnedByEmpty
<1>2. ASSUME ext # <<>>, Attachable(ext, bits, n)
      PROVE  OwnedBy(longer) = OwnedBy(ext) \cup Run(After(ext), n)
  <2>1. l \in DOMAIN ext /\ ext[l] \in Extent
    BY <1>2
  <2>2. ext[l].start \in Nat /\ ext[l].count \in Nat
    BY <2>1 DEF Extent
  <2>3. Run(ext[l].start, ext[l].count + n)
          = Run(ext[l].start, ext[l].count) \cup Run(After(ext), n)
    <3>1. After(ext) = ext[l].start + ext[l].count
      BY DEF After, LastExtent
    <3>2. Run(ext[l].start, ext[l].count + n)
            = Run(ext[l].start, ext[l].count)
                \cup Run(ext[l].start + ext[l].count, n)
      <4> DEFINE start == ext[l].start
                 count == ext[l].count
      <4>1. start \in Nat /\ count \in Nat
        BY <2>2
      <4> HIDE DEF start, count
      <4>2. Run(start, count + n) = Run(start, count) \cup Run(start + count, n)
        BY <4>1, RunAppend
      <4> QED
        BY <4>2 DEF start, count
    <3> QED
      BY <3>1, <3>2
  <2>4. /\ DOMAIN longer = DOMAIN ext
        /\ \A x \in DOMAIN ext \ {l} : longer[x] = ext[x]
        /\ longer[l].start = ext[l].start
        /\ longer[l].count = ext[l].count + n
    BY <2>1 DEF Extent
  <2> HIDE DEF longer, l
  <2>5. ASSUME NEW b
        PROVE  b \in OwnedBy(longer) <=>
                 b \in OwnedBy(ext) \cup Run(After(ext), n)
    <3>1. b \in OwnedBy(longer) <=>
            \E x \in DOMAIN ext : b \in Run(longer[x].start, longer[x].count)
      BY <2>4, OwnedByDef
    <3>2. b \in OwnedBy(ext) <=>
            \E x \in DOMAIN ext : b \in Run(ext[x].start, ext[x].count)
      BY OwnedByDef
    <3> QED
      BY <2>1, <2>3, <2>4, <3>1, <3>2
  <2> QED
    BY <2>5
<1>3. OwnedBy(Append(ext, new)) = OwnedBy(ext) \cup Run(r, n)
  <2>1. /\ DOMAIN Append(ext, new) = DOMAIN ext \cup {l + 1}
        /\ \A x \in DOMAIN ext : Append(ext, new)[x] = ext[x]
        /\ Append(ext, new)[l + 1] = new
    OBVIOUS
  <2>2. new.start = r /\ new.count = n
    OBVIOUS
  <2> HIDE DEF new, l
  <2>3. ASSUME NEW b
        PROVE  b \in OwnedBy(Append(ext, new)) <=>
                 b \in OwnedBy(ext) \cup Run(r, n)
    BY <2>1, <2>2, OwnedByDef
  <2> QED
    BY <2>3
<1> QED
  BY <1>1, <1>2, <1>3 DEF Grown, AllocatedAt

LEMMA FlippedWithin ==
  ASSUME NEW bits, NEW R, NEW P, bits \subseteq R, \A p \in P : p[2] \in R
  PROVE  Flipped(bits, P) \subseteq R
BY DEF Flipped, FlipBits

LEMMA UpToPairs ==
  ASSUME NEW ext \in Seq(Extent), NEW k \in 0 .. (Len(ext) - 1)
  PROVE  UpTo(ext, k) \subseteq Pairs(ext)
<1> DEFINE first == SubSeq(ext, 1, k)
<1>1. /\ DOMAIN first \subseteq DOMAIN ext
      /\ \A x \in DOMAIN first : first[x] = ext[x]
  OBVIOUS
<1> HIDE DEF first
<1>2. Pairs(first) \subseteq Pairs(ext)
  BY <1>1 DEF Pairs
<1> QED
  BY <1>2 DEF UpTo, first

-----------------------------------------------------------------------------
(* The effect of each action on extents and bitmap.                        *)

LEMMA ExtentsOfNewInode ==
  ASSUME TypeOK, NEW i \in Ino, NEW mode \in {"dir", "file"}, NEW j \in Ino
  PROVE  WithInode(i, mode)[j].ext \in {itable[j].ext, <<>>}
<1>1. itable \in [Ino -> Inode]
  BY DEF TypeOK
<1>2. CASE j = i
  BY <1>1, <1>2 DEF WithInode, Created
<1>3. CASE j # i
  BY <1>1, <1>3 DEF WithInode
<1> QED
  BY <1>2, <1>3

LEMMA AddEntryEffect ==
  ASSUME TypeOK, NEW d \in Ino, NEW n \in Names, NEW i \in Ino,
         NEW mode \in {"dir", "file"}, AddEntry(d, n, i, mode)
  PROVE  Untouched
<1> DEFINE t == WithInode(i, mode)
<1>1. t \in TableType
  BY Types, CreatedType
<1>2. itable' = [t EXCEPT ![d].num_entries = @ + 1]
  BY DEF AddEntry
<1>3. ASSUME NEW j \in Ino PROVE itable'[j].ext = t[j].ext
  <2> HIDE DEF t
  <2> QED
    BY <1>1, <1>2 DEF TableType, Inode
<1>4. ExtentsKept(Ino)
  BY <1>3, ExtentsOfNewInode DEF ExtentsKept
<1> QED
  BY <1>4 DEF Untouched, AddEntry

LEMMA AddEntryNoSpaceEffect ==
  ASSUME TypeOK, NEW d \in Ino, NEW n \in Names, NEW i \in Ino,
         NEW mode \in {"dir", "file"}, AddEntryNoSpace(d, n, i, mode)
  PROVE  Untouched
BY ExtentsOfNewInode DEF AddEntryNoSpace, Untouched, ExtentsKept

\* Lengthening an extent takes a block that is occupied, hence one that lies
\* in the data region if all occupied ones do.
LEMMA AddEntryInNewBlockEffect ==
  ASSUME TypeOK, Inside, NEW d \in Ino, NEW n \in Names, NEW i \in Ino,
         NEW mode \in {"dir", "file"}, AddEntryInNewBlock(d, n, i, mode)
  PROVE  \E r \in Nat : Takes(d, WithInode(i, mode)[d].ext, r, 1)
<1> DEFINE t == WithInode(i, mode)
           old == t[d].ext
<1>1. PICK r \in 0 .. MaxIndex :
        LET ext == Grown(old, block_bits, r, 1)
            b == AllocatedAt(old, block_bits, r, 1)
        IN  /\ GetAvailableBlock(block_bits, free_blocks_count, 1, r)
            /\ LastExtent(ext).start \in Region
            /\ itable' = [t EXCEPT ![d].ext = ext, ![d].num_entries = @ + 1]
            /\ block_bits' = FlipBits(block_bits, {b})
  BY DEF AddEntryInNewBlock
<1> DEFINE ext == Grown(old, block_bits, r, 1)
           b == AllocatedAt(old, block_bits, r, 1)
<1>2. r \in Nat /\ 1 \in Nat
  BY <1>1, GetAvailableType, Types
<1>3. t \in TableType /\ old \in Seq(Extent)
  BY Types, CreatedType, InodeFields
<1>4. ext \in Seq(Extent) /\ b \in Nat
  BY <1>2, <1>3, GrownType
<1>5. old \in {itable[d].ext, <<>>}
  BY ExtentsOfNewInode
<1>6. /\ itable'[d].ext = ext
      /\ \A j \in Ino \ {d} : itable'[j].ext = t[j].ext
  <2>1. itable' = [t EXCEPT ![d].ext = ext, ![d].num_entries = @ + 1]
    BY <1>1
  <2> HIDE DEF t, ext
  <2> QED
    BY <1>3, <1>4, <2>1 DEF TableType, Inode
<1>7. ExtentsKept(Ino \ {d})
  BY <1>6, ExtentsOfNewInode DEF ExtentsKept
<1>8. Run(b, 1) = {b}
  BY <1>4 DEF Run
<1>9. b \in Region
  <2>1. CASE old # <<>> /\ Attachable(old, block_bits, 1)
    <3>1. b = After(old) /\ b \in block_bits
      BY <1>8, <2>1 DEF AllocatedAt, Attachable, FreeRun
    <3>2. fs = "up"
      BY DEF AddEntryInNewBlock, NewInode, NewPath
    <3> QED
      BY <3>1, <3>2 DEF Inside, Up
  <2>2. CASE old = <<>>
    <3>1. LastExtent(ext) = [start |-> r, count |-> 1] /\ b = r
      BY <2>2 DEF Grown, LastExtent, AllocatedAt
    <3> QED
      BY <1>1, <3>1
  <2>3. CASE old # <<>> /\ ~ Attachable(old, block_bits, 1)
    <3>1. ext = Append(old, [start |-> r, count |-> 1]) /\ b = r
      BY <2>3 DEF Grown, AllocatedAt
    <3>2. LastExtent(ext) = [start |-> r, count |-> 1]
      <4> HIDE DEF old
      <4> QED
        BY <1>3, <3>1 DEF LastExtent
    <3> QED
      BY <1>1, <3>1, <3>2
  <2> QED
    BY <2>1, <2>2, <2>3
<1> QED
  BY <1>1, <1>2, <1>5, <1>6, <1>7, <1>8, <1>9 DEF Takes

LEMMA TableExtents ==
  ASSUME NEW t \in TableType, NEW i \in Ino, NEW j \in Ino
  PROVE  /\ \A ext : [t EXCEPT ![i].ext = ext][j].ext
                       = (IF j = i THEN ext ELSE t[j].ext)
         /\ \A s : [t EXCEPT ![i].size = s][j].ext = t[j].ext
         /\ \A k : [t EXCEPT ![i].num_entries = k][j].ext = t[j].ext
<1>1. t[i] \in Inode
  BY DEF TableType
<1>2. /\ \A ext : [t[i] EXCEPT !.ext = ext].ext = ext
      /\ \A s : [t[i] EXCEPT !.size = s].ext = t[i].ext
      /\ \A k : [t[i] EXCEPT !.num_entries = k].ext = t[i].ext
  BY <1>1 DEF Inode
<1> QED
  BY <1>2 DEF TableType

LEMMA RemovedEffect ==
  ASSUME TypeOK, NEW d \in Ino, NEW i \in Ino, NEW freed, Removed(d, i, freed)
  PROVE  ExtentsKept(Ino) /\ itable'[i].ext = <<>>
<1> DEFINE t1 == [itable EXCEPT ![i].size = 0]
           t2 == [t1 EXCEPT ![i].ext = <<>>]
           t3 == [t2 EXCEPT ![i].num_entries = 0]
           t == [itable EXCEPT ![i].size = 0, ![i].ext = <<>>,
                               ![i].num_entries = 0]
           one == IF (IF i \in inode_bits THEN Naming(t[d].ext, i) ELSE {}) = {}
                  THEN 0 ELSE 1
<1>1. itable \in TableType /\ <<>> \in Seq(Extent) /\ 0 \in Nat /\ 0 \in Int
  BY Types
<1>2. itable' = [t EXCEPT ![d].num_entries = t[d].num_entries - one]
  BY DEF Removed
<1>3. t = t3
  BY <1>1 DEF TableType
<1> HIDE DEF t, one
<1>4. t1 \in TableType /\ \A j \in Ino : t1[j].ext = itable[j].ext
  <2>1. t1 \in TableType
    BY <1>1, TableTypes
  <2>2. ASSUME NEW j \in Ino PROVE t1[j].ext = itable[j].ext
    BY <1>1, TableExtents
  <2> QED
    BY <2>1, <2>2
<1> HIDE DEF t1
<1>5. /\ t2 \in TableType
      /\ \A j \in Ino : t2[j].ext = IF j = i THEN <<>> ELSE itable[j].ext
  <2>1. t2 \in TableType
    BY <1>1, <1>4, TableTypes
  <2>2. ASSUME NEW j \in Ino
        PROVE  t2[j].ext = IF j = i THEN <<>> ELSE itable[j].ext
    <3>1. t2[j].ext = IF j = i THEN <<>> ELSE t1[j].ext
      BY <1>4, TableExtents
    <3> QED
      BY <1>4, <3>1
  <2> QED
    BY <2>1, <2>2
<1> HIDE DEF t2
<1>6. t3 \in TableType /\ \A j \in Ino : t3[j].ext = t2[j].ext
  <2>1. t3 \in TableType
    BY <1>1, <1>5, TableTypes
  <2>2. ASSUME NEW j \in Ino PROVE t3[j].ext = t2[j].ext
    BY <1>5, TableExtents
  <2> QED
    BY <2>1, <2>2
<1> HIDE DEF t3
<1>7. \A j \in Ino : itable'[j].ext = t3[j].ext
  BY <1>2, <1>3, <1>6, TableExtents
<1> QED
  BY <1>5, <1>6, <1>7 DEF ExtentsKept

LEMMA RmdirEffect ==
  ASSUME TypeOK, NEW d \in Ino, NEW n \in Names, NEW i \in Ino, Rmdir(d, n, i)
  PROVE  Untouched
BY RemovedEffect DEF Rmdir, Untouched

LEMMA UnlinkEffect ==
  ASSUME TypeOK, NEW d \in Ino, NEW n \in Names, NEW i \in Ino, Unlink(d, n, i)
  PROVE  Frees(i, Pairs(itable[i].ext)) /\ itable'[i].ext = <<>>
BY RemovedEffect DEF Unlink, Frees

LEMMA UnlinkGivesUpEffect ==
  ASSUME TypeOK, NEW d \in Ino, NEW n \in Names, NEW i \in Ino,
         UnlinkGivesUp(d, n, i)
  PROVE  \E P \in SUBSET Pairs(itable[i].ext) : Frees(i, P)
<1>1. PICK k \in 0 .. (Len(itable[i].ext) - 1) :
        block_bits' = Flipped(block_bits, UpTo(itable[i].ext, k))
  BY DEF UnlinkGivesUp
<1>2. UpTo(itable[i].ext, k) \subseteq Pairs(itable[i].ext)
  BY UpToPairs, Types, InodeFields
<1>3. ExtentsKept(Ino)
  BY DEF UnlinkGivesUp, ExtentsKept
<1> QED
  BY <1>1, <1>2, <1>3 DEF Frees

LEMMA FillLastBlockEffect ==
  ASSUME TypeOK, NEW f \in Ino, NEW s, NEW c, FillLastBlock(f, s, c)
  PROVE  Untouched
<1>1. itable' = [itable EXCEPT ![f].size = s] /\ itable \in [Ino -> Inode]
  BY DEF FillLastBlock, TypeOK
<1>2. \A j \in Ino : itable'[j].ext = itable[j].ext
  BY <1>1 DEF Inode
<1> QED
  BY <1>2 DEF FillLastBlock, Untouched, ExtentsKept, bitmaps

\* zero_out_blocks walks over the whole run that was taken, and over more of
\* the extent when there is no partial block.
LEMMA ExtendEffect ==
  ASSUME TypeOK, NEW f \in Ino, NEW s \in Nat, NEW c, Extend(f, s, c)
  PROVE  \E r, n \in Nat : Takes(f, itable[f].ext, r, n) /\ n >= 1
<1> DEFINE m == Request(f, s)
           n == BlocksFor(m)
           old == itable[f].ext
<1>1. PICK r \in 0 .. MaxIndex :
        LET ext == Grown(old, block_bits, r, n)
            at == AllocatedAt(old, block_bits, r, n)
        IN  /\ GetAvailableBlock(block_bits, free_blocks_count, n, r)
            /\ ZeroedBlocks(ext, m) \subseteq Region
            /\ itable' = [itable EXCEPT ![f].ext = ext, ![f].size = s]
            /\ block_bits' = FlipBits(block_bits, Run(at, n))
  BY DEF Extend
<1> DEFINE ext == Grown(old, block_bits, r, n)
           at == AllocatedAt(old, block_bits, r, n)
           e == LastExtent(ext)
<1>2. n \in Nat /\ n >= 1
  <2>1. m \in Int /\ m > 0
    BY RequestType DEF Extend
  <2>2. Wanted(m) = n
    BY <2>1 DEF Wanted
  <2> HIDE DEF m, n
  <2> QED
    BY <2>1, <2>2, WantedType
<1>3. old \in Seq(Extent) /\ itable \in [Ino -> Inode]
  BY Types, InodeFields DEF TypeOK
<1>4. r \in Nat
  BY <1>1
<1>5. ext \in Seq(Extent) /\ at \in Nat
  BY <1>2, <1>3, <1>4, GrownType
<1>6. itable'[f].ext = ext /\ \A j \in Ino \ {f} : itable'[j].ext = itable[j].ext
  <2>1. itable' = [itable EXCEPT ![f].ext = ext, ![f].size = s]
    BY <1>1
  <2> HIDE DEF ext
  <2> QED
    BY <1>3, <2>1 DEF Inode
<1>7. e.count \in Nat /\ e.count >= n /\ e.start + e.count - n = at
  <2> DEFINE new == [start |-> r, count |-> n]
             l == Len(old)
  <2>1. CASE old = <<>>
    <3>1. e = new /\ at = r
      BY <2>1 DEF Grown, LastExtent, AllocatedAt
    <3> HIDE DEF n, e, at
    <3> QED
      BY <1>2, <1>4, <3>1
  <2>2. CASE old # <<>> /\ ~ Attachable(old, block_bits, n)
    <3>1. ext = Append(old, new) /\ at = r
      BY <2>2 DEF Grown, AllocatedAt
    <3>2. e = new
      <4> HIDE DEF old, n
      <4> QED
        BY <1>3, <3>1 DEF LastExtent
    <3> HIDE DEF n, e, at
    <3> QED
      BY <1>2, <1>4, <3>1, <3>2
  <2>3. CASE old # <<>> /\ Attachable(old, block_bits, n)
    <3>1. l \in DOMAIN old /\ old[l] \in Extent
      BY <1>3, <2>3
    <3>2. old[l].start \in Nat /\ old[l].count \in Nat
      BY <3>1 DEF Extent
    <3>3. at = old[l].start + old[l].count
      BY <2>3 DEF AllocatedAt, After, LastExtent
    <3>4. ext = [old EXCEPT ![l].count = @ + n]
      BY <2>3 DEF Grown
    <3>5. Len(ext) = l
      <4> HIDE DEF old, n
      <4> QED
        BY <1>3, <3>1, <3>4
    <3>6. e.start = old[l].start /\ e.count = old[l].count + n
      <4> HIDE DEF n, ext, old
      <4> QED
        BY <1>3, <3>1, <3>4, <3>5 DEF LastExtent, Extent
    <3> HIDE DEF n, e, at, l, old
    <3> QED
      BY <1>2, <3>2, <3>3, <3>6
  <2> QED
    BY <2>1, <2>2, <2>3
<1>8. Run(at, n) \subseteq Region
  <2>1. ZeroedBlocks(ext, m)
          = Run(at, IF m % BlockUnits = 0 THEN e.count ELSE n)
    BY <1>7 DEF ZeroedBlocks
  <2>2. Run(at, n) \subseteq Run(at, e.count)
    <3> HIDE DEF e, n, at
    <3> QED
      BY <1>2, <1>5, <1>7 DEF Run
  <2> QED
    BY <1>1, <2>1, <2>2
<1>9. ExtentsKept(Ino \ {f})
  BY <1>6 DEF ExtentsKept
<1>10. Takes(f, old, r, n)
  BY <1>1, <1>2, <1>4, <1>6, <1>8, <1>9 DEF Takes
<1> QED
  BY <1>2, <1>4, <1>10

LEMMA ShrinkEffect ==
  ASSUME TypeOK, NEW f \in Ino, NEW s, Shrink(f, s)
  PROVE  \E P \in SUBSET Pairs(itable[f].ext) :
           Frees(f, P) /\ (s = 0 => itable'[f].ext = <<>>)
<1> DEFINE cut == LastPairs(itable[f].ext,
                            BlocksFor(itable[f].size) - BlocksFor(s))
           ext == IF s = 0 THEN <<>> ELSE itable[f].ext
<1>1. cut \subseteq Pairs(itable[f].ext)
  BY DEF LastPairs
<1>2. /\ itable' = [itable EXCEPT ![f].size = s,
                       ![f].ext = IF s = 0 THEN <<>> ELSE @]
      /\ itable \in [Ino -> Inode]
  BY DEF Shrink, TypeOK
<1>3. itable'[f].ext = ext /\ \A j \in Ino \ {f} : itable'[j].ext = itable[j].ext
  BY <1>2 DEF Inode
<1>4. ExtentsKept(Ino)
  BY <1>3 DEF ExtentsKept
<1>5. block_bits' = Flipped(block_bits, cut)
  BY DEF Shrink
<1> QED
  BY <1>1, <1>3, <1>4, <1>5 DEF Frees

LEMMA WriteInPlaceEffect ==
  ASSUME NEW f, NEW s, NEW v, WriteInPlace(f, s, v)
  PROVE  Untouched
BY DEF WriteInPlace, Untouched, ExtentsKept, bitmaps

-----------------------------------------------------------------------------
(* Blocks stay inside the data region.                                     *)

LEMMA ExtentsInside ==
  ASSUME NEW S \in SUBSET Ino, ExtentsKept(S),
         \A i \in Ino : OwnedBy(itable[i].ext) \subseteq Region
  PROVE  \A j \in S : OwnedBy(itable'[j].ext) \subseteq Region
BY OwnedByEmpty DEF ExtentsKept

LEMMA UntouchedInside ==
  ASSUME Inside, Up, Untouched
  PROVE  Inside'
BY ExtentsInside DEF Inside, Untouched

LEMMA FreesInside ==
  ASSUME Inside, Up, NEW i \in Ino, NEW P, Frees(i, P)
  PROVE  Inside'
<1>1. \A p \in P : p[2] \in Region
  BY DEF Inside, Frees, OwnedBy
<1>2. block_bits' \subseteq Region
  BY <1>1, FlippedWithin DEF Inside, Frees
<1> QED
  BY <1>2, ExtentsInside DEF Inside, Frees

LEMMA TakesInside ==
  ASSUME TypeOK, Inside, Up, NEW d \in Ino, NEW old, NEW r, NEW n,
         Takes(d, old, r, n)
  PROVE  Inside'
<1> DEFINE run == Run(AllocatedAt(old, block_bits, r, n), n)
<1>1. old \in Seq(Extent) /\ OwnedBy(old) \subseteq Region
  <2>1. <<>> \in Seq(Extent) /\ itable[d].ext \in Seq(Extent)
    BY Types, InodeFields
  <2>2. CASE old = <<>>
    BY <2>1, <2>2, OwnedByEmpty
  <2>3. CASE old = itable[d].ext
    BY <2>1, <2>3 DEF Inside
  <2> QED
    BY <2>2, <2>3 DEF Takes
<1>2. OwnedBy(itable'[d].ext) = OwnedBy(old) \cup run
  BY <1>1, OwnedByGrown DEF Takes
<1>3. OwnedBy(itable'[d].ext) \subseteq Region
  BY <1>1, <1>2 DEF Takes
<1>4. \A j \in Ino \ {d} : OwnedBy(itable'[j].ext) \subseteq Region
  BY ExtentsInside DEF Takes, Inside
<1>5. block_bits' \subseteq Region
  BY DEF Takes, Inside, FlipBits
<1> QED
  BY <1>3, <1>4, <1>5 DEF Inside

LEMMA InitInside ==
  ASSUME Init
  PROVE  Inside
<1> DEFINE zero == <<[start |-> 0, count |-> 0]>>
<1>1. OwnedBy(zero) = {}
  <2>1. DOMAIN zero = {1} /\ zero[1].start = 0 /\ zero[1].count = 0
    OBVIOUS
  <2> HIDE DEF zero
  <2>2. ASSUME NEW b PROVE b \notin OwnedBy(zero)
    BY <2>1, OwnedByDef DEF Run
  <2> QED
    BY <2>2
<1>2. ASSUME NEW i \in Ino PROVE itable[i].ext \in {<<>>, zero}
  BY DEF Init, Created
<1> HIDE DEF zero
<1> QED
  BY <1>1, <1>2, OwnedByEmpty DEF Init, Inside

LEMMA StepInside ==
  ASSUME TypeOK, Inside, [Next]_vars
  PROVE  Inside'
<1> SUFFICES ASSUME Up' PROVE Inside'
  BY DEF Inside
<1>1. Dirs \subseteq Ino /\ Files \subseteq Ino /\ Sizes \subseteq Nat
  BY A1fsAssumption DEF Dirs, Files
<1>2. CASE \E d \in Dirs, n \in Names, i \in Ino, mode \in {"dir", "file"} :
             \/ AddEntry(d, n, i, mode)
             \/ AddEntryInNewBlock(d, n, i, mode)
             \/ AddEntryNoSpace(d, n, i, mode)
             \/ AddEntryFault(d, n, i, mode)
  <2>1. PICK d \in Dirs, n \in Names, i \in Ino, mode \in {"dir", "file"} :
             \/ AddEntry(d, n, i, mode)
             \/ AddEntryInNewBlock(d, n, i, mode)
             \/ AddEntryNoSpace(d, n, i, mode)
             \/ AddEntryFault(d, n, i, mode)
    BY <1>2
  <2>2. d \in Ino
    BY <1>1
  <2>3. CASE AddEntry(d, n, i, mode)
    BY <2>2, <2>3, AddEntryEffect, UntouchedInside DEF AddEntry, NewInode, NewPath, Up
  <2>4. CASE AddEntryInNewBlock(d, n, i, mode)
    BY <2>2, <2>4, AddEntryInNewBlockEffect, TakesInside
    DEF AddEntryInNewBlock, NewInode, NewPath, Up
  <2>5. CASE AddEntryNoSpace(d, n, i, mode)
    BY <2>2, <2>5, AddEntryNoSpaceEffect, UntouchedInside
    DEF AddEntryNoSpace, NewInode, NewPath, Up
  <2>6. CASE AddEntryFault(d, n, i, mode)
    BY <2>6 DEF AddEntryFault, Up
  <2> QED
    BY <2>1, <2>3, <2>4, <2>5, <2>6
<1>3. CASE \E d \in Dirs, n \in Names, i \in Ino :
             Rmdir(d, n, i) \/ Unlink(d, n, i) \/ UnlinkGivesUp(d, n, i)
  <2>1. PICK d \in Dirs, n \in Names, i \in Ino :
             Rmdir(d, n, i) \/ Unlink(d, n, i) \/ UnlinkGivesUp(d, n, i)
    BY <1>3
  <2>2. d \in Ino
    BY <1>1
  <2>3. CASE Rmdir(d, n, i)
    BY <2>2, <2>3, RmdirEffect, UntouchedInside DEF Rmdir, OldPath, Up
  <2>4. CASE Unlink(d, n, i)
    BY <2>2, <2>4, UnlinkEffect, FreesInside DEF Unlink, OldPath, Up
  <2>5. CASE UnlinkGivesUp(d, n, i)
    BY <2>2, <2>5, UnlinkGivesUpEffect, FreesInside
    DEF UnlinkGivesUp, OldPath, Up
  <2> QED
    BY <2>1, <2>3, <2>4, <2>5
<1>4. CASE \E f \in Files, s \in Sizes :
             \/ \E c \in Calls(s) : FillLastBlock(f, s, c) \/ Extend(f, s, c)
             \/ ExtendFault(f, s) \/ ExtendSpins(f, s) \/ Shrink(f, s)
             \/ \E v \in Payload : WriteInPlace(f, s, v)
  <2>1. PICK f \in Files, s \in Sizes :
             \/ \E c \in Calls(s) : FillLastBlock(f, s, c) \/ Extend(f, s, c)
             \/ ExtendFault(f, s) \/ ExtendSpins(f, s) \/ Shrink(f, s)
             \/ \E v \in Payload : WriteInPlace(f, s, v)
    BY <1>4
  <2>2. f \in Ino /\ s \in Nat
    BY <1>1
  <2>3. ASSUME NEW c \in Calls(s), FillLastBlock(f, s, c) PROVE Inside'
    BY <2>2, <2>3, FillLastBlockEffect, UntouchedInside
    DEF FillLastBlock, Grows, Up
  <2>4. ASSUME NEW c \in Calls(s), Extend(f, s, c) PROVE Inside'
    BY <2>2, <2>4, ExtendEffect, TakesInside DEF Extend, Grows, Up
  <2>5. CASE ExtendFault(f, s)
    BY <2>5 DEF ExtendFault, Up
  <2>6. CASE ExtendSpins(f, s)
    BY <2>6 DEF ExtendSpins, Up
  <2>7. CASE Shrink(f, s)
    BY <2>2, <2>7, ShrinkEffect, FreesInside DEF Shrink, Up
  <2>8. ASSUME NEW v \in Payload, WriteInPlace(f, s, v) PROVE Inside'
    BY <2>8, WriteInPlaceEffect, UntouchedInside DEF WriteInPlace, Up
  <2> QED
    BY <2>1, <2>3, <2>4, <2>5, <2>6, <2>7, <2>8
<1>5. CASE SpinStep
  BY <1>5 DEF SpinStep, SpinDeeper, SpinAllocates, SpinOverflows, Up
<1>6. CASE UNCHANGED vars
  BY <1>6 DEF vars, bitmaps, Inside, Up
<1> QED
  BY <1>2, <1>3, <1>4, <1>5, <1>6 DEF Next

LEMMA InsideImageFollows == ASSUME TypeOK, Inside PROVE InsideImage
BY DEF TypeOK, Inside, InsideImage, InUse

\* Until a call has gone wrong, no bit beyond the data region is set and no
\* extent of an inode in use reaches beyond it, whatever the size of the image
\* and however full it is (util.h:97-98).
THEOREM BlocksInsideImage == Spec => []InsideImage
<1>1. Init => Inside
  BY InitInside
<1>2. TypeOK /\ Inside /\ [Next]_vars => Inside'
  BY StepInside
<1>3. TypeOK /\ Inside => InsideImage
  BY InsideImageFollows
<1> QED
  BY <1>1, <1>2, <1>3, TypeCorrect, PTL DEF Spec

-----------------------------------------------------------------------------
(***************************************************************************)
(* Orderly use: no block ever has two owners.  ExclusiveBlocks speaks of   *)
(* the inodes in use; the induction is over all inodes, so that it needs   *)
(* nothing about which of them a path can reach.                           *)
(***************************************************************************)
Exclusive ==
  Up => \A i \in Ino :
    /\ Len(itable[i].ext) <= 1
    /\ OwnedBy(itable[i].ext) \subseteq block_bits
    /\ \A j \in Ino \ {i} :
         OwnedBy(itable[i].ext) \cap OwnedBy(itable[j].ext) = {}

-----------------------------------------------------------------------------
\* Orderly use is use.
LEMMA OrderlyIsUse == SpecOrderly => Spec
<1>1. NextOrderly => Next
  BY DEF NextOrderly, Next
<1> QED
  BY <1>1, PTL DEF SpecOrderly, Spec

\* Extents that are kept or dropped, over a bitmap that has not lost a bit of
\* those that are kept, stay exclusive.
LEMMA KeptExclusive ==
  ASSUME Exclusive, Up, ExtentsKept(Ino),
         \A j \in Ino : OwnedBy(itable'[j].ext) \subseteq block_bits'
  PROVE  Exclusive'
<1>1. ASSUME NEW j \in Ino
      PROVE  /\ Len(itable'[j].ext) <= 1
             /\ OwnedBy(itable'[j].ext) \subseteq OwnedBy(itable[j].ext)
  <2>1. CASE itable'[j].ext = itable[j].ext
    BY <2>1 DEF Exclusive
  <2>2. CASE itable'[j].ext = <<>>
    <3>1. Len(<<>>) = 0
      OBVIOUS
    <3> QED
      BY <2>2, <3>1, OwnedByEmpty
  <2> QED
    BY <2>1, <2>2 DEF ExtentsKept
<1> QED
  BY <1>1 DEF Exclusive

LEMMA UntouchedExclusive ==
  ASSUME Exclusive, Up, Untouched
  PROVE  Exclusive'
<1>1. \A j \in Ino : OwnedBy(itable'[j].ext) \subseteq block_bits'
  BY OwnedByEmpty DEF Exclusive, Untouched, ExtentsKept
<1> QED
  BY <1>1, KeptExclusive DEF Untouched

\* An inode that frees some of its blocks and drops its extents.
LEMMA FreesExclusive ==
  ASSUME Exclusive, Up, NEW i \in Ino, NEW P,
         Frees(i, P), itable'[i].ext = <<>>
  PROVE  Exclusive'
<1>1. \A p \in P : p[2] \in OwnedBy(itable[i].ext)
  BY DEF Frees, OwnedBy
<1>2. ASSUME NEW b \in block_bits, b \notin OwnedBy(itable[i].ext)
      PROVE  b \in block_bits'
  BY <1>1, <1>2 DEF Frees, Flipped, FlipBits
<1>3. ASSUME NEW j \in Ino PROVE OwnedBy(itable'[j].ext) \subseteq block_bits'
  <2>1. CASE itable'[j].ext = <<>>
    BY <2>1, OwnedByEmpty
  <2>2. CASE j # i /\ itable'[j].ext = itable[j].ext
    BY <1>2, <2>2 DEF Exclusive
  <2> QED
    BY <2>1, <2>2 DEF Frees, ExtentsKept
<1> QED
  BY <1>3, KeptExclusive DEF Frees

\* get_available_bit hands out clear bits, but for max_index, which is not in
\* the data region.
LEMMA AvailableIsFree ==
  ASSUME NEW bits, NEW free, NEW n \in Nat, n >= 1, NEW r \in Nat,
         GetAvailableBlock(bits, free, n, r), Run(r, n) \subseteq Region
  PROVE  Run(r, n) \cap bits = {}
<1>1. r \in Run(r, n)
  BY DEF Run
<1>2. r # MaxIndex
  BY <1>1, ConstantTypes DEF Region
<1> QED
  BY <1>2 DEF GetAvailableBlock, LowestRun, FreeRun

\* An inode without extents that takes a run of blocks.
LEMMA TakesExclusive ==
  ASSUME Exclusive, Up, NEW d \in Ino, NEW r, NEW n,
         Takes(d, <<>>, r, n), n >= 1
  PROVE  Exclusive'
<1>1. r \in Nat /\ n \in Nat /\ <<>> \in Seq(Extent)
  BY DEF Takes
<1>2. AllocatedAt(<<>>, block_bits, r, n) = r
  BY DEF AllocatedAt
<1>3. OwnedBy(itable'[d].ext) = Run(r, n)
  <2>1. itable'[d].ext = Grown(<<>>, block_bits, r, n)
    BY DEF Takes
  <2>2. OwnedBy(Grown(<<>>, block_bits, r, n))
          = OwnedBy(<<>>) \cup Run(AllocatedAt(<<>>, block_bits, r, n), n)
    BY <1>1, OwnedByGrown
  <2> QED
    BY <1>2, <2>1, <2>2, OwnedByEmpty
<1>4. Run(r, n) \cap block_bits = {}
  BY <1>1, <1>2, AvailableIsFree DEF Takes
<1>5. block_bits' = block_bits \cup Run(r, n)
  BY <1>2, <1>4 DEF Takes, FlipBits
<1>6. Len(itable'[d].ext) = 1
  <2>1. itable'[d].ext = <<[start |-> r, count |-> n]>>
    BY DEF Takes, Grown
  <2> QED
    BY <2>1
<1>7. ASSUME NEW j \in Ino \ {d}
      PROVE  /\ Len(itable'[j].ext) <= 1
             /\ OwnedBy(itable'[j].ext) \subseteq OwnedBy(itable[j].ext)
  <2>1. CASE itable'[j].ext = itable[j].ext
    BY <2>1 DEF Exclusive
  <2>2. CASE itable'[j].ext = <<>>
    <3>1. Len(<<>>) = 0
      OBVIOUS
    <3> QED
      BY <2>2, <3>1, OwnedByEmpty
  <2> QED
    BY <2>1, <2>2 DEF Takes, ExtentsKept
<1>8. ASSUME NEW j \in Ino \ {d}
      PROVE  /\ OwnedBy(itable'[j].ext) \subseteq block_bits
             /\ OwnedBy(itable'[j].ext) \cap Run(r, n) = {}
  BY <1>4, <1>7 DEF Exclusive
<1>9. ASSUME NEW i \in Ino
      PROVE  /\ Len(itable'[i].ext) <= 1
             /\ OwnedBy(itable'[i].ext) \subseteq block_bits'
  <2>1. CASE i = d
    <3>1. Len(itable'[d].ext) <= 1
      BY <1>6
    <3> QED
      BY <1>3, <1>5, <2>1, <3>1
  <2>2. CASE i # d
    BY <1>5, <1>7, <1>8, <2>2
  <2> QED
    BY <2>1, <2>2
<1>10. ASSUME NEW i \in Ino, NEW j \in Ino \ {i}
       PROVE  OwnedBy(itable'[i].ext) \cap OwnedBy(itable'[j].ext) = {}
  <2>1. CASE i = d
    BY <1>3, <1>8, <2>1
  <2>2. CASE j = d
    BY <1>3, <1>8, <2>2
  <2>3. CASE i # d /\ j # d
    BY <1>7, <2>3 DEF Exclusive
  <2> QED
    BY <2>1, <2>2, <2>3
<1> QED
  BY <1>9, <1>10 DEF Exclusive

-----------------------------------------------------------------------------
LEMMA InitExclusive ==
  ASSUME Init
  PROVE  Exclusive
<1> DEFINE zero == <<[start |-> 0, count |-> 0]>>
<1>1. OwnedBy(zero) = {}
  <2>1. DOMAIN zero = {1} /\ zero[1].start = 0 /\ zero[1].count = 0
    OBVIOUS
  <2> HIDE DEF zero
  <2>2. ASSUME NEW b PROVE b \notin OwnedBy(zero)
    BY <2>1, OwnedByDef DEF Run
  <2> QED
    BY <2>2
<1>2. Len(<<>>) <= 1 /\ Len(zero) <= 1
  OBVIOUS
<1>3. ASSUME NEW i \in Ino PROVE itable[i].ext \in {<<>>, zero}
  BY DEF Init, Created
<1> HIDE DEF zero
<1> QED
  BY <1>1, <1>2, <1>3, OwnedByEmpty DEF Exclusive

LEMMA StepExclusive ==
  ASSUME TypeOK, Inside, Exclusive, [NextOrderly]_vars
  PROVE  Exclusive'
<1> SUFFICES ASSUME Up' PROVE Exclusive'
  BY DEF Exclusive
<1>1. Dirs \subseteq Ino /\ Files \subseteq Ino /\ Sizes \subseteq Nat
  BY A1fsAssumption DEF Dirs, Files
<1>2. ASSUME NEW d \in Dirs, NEW n \in Names, NEW i \in Ino,
             NEW mode \in {"dir", "file"},
             AddEntry(d, n, i, mode) \/ AddEntryNoSpace(d, n, i, mode)
      PROVE  Exclusive'
  BY <1>1, <1>2, AddEntryEffect, AddEntryNoSpaceEffect, UntouchedExclusive
  DEF AddEntry, AddEntryNoSpace, NewInode, NewPath, Up
<1>3. ASSUME NEW d \in Dirs, NEW n \in Names, NEW i \in Ino,
             NEW mode \in {"dir", "file"},
             itable[d].ext = <<>>, AddEntryInNewBlock(d, n, i, mode)
      PROVE  Exclusive'
  <2>1. d \in Ino /\ WithInode(i, mode)[d].ext = <<>>
    BY <1>1, <1>3, ExtentsOfNewInode
  <2>2. PICK r \in Nat : Takes(d, <<>>, r, 1)
    BY <1>3, <2>1, AddEntryInNewBlockEffect
  <2>3. Up
    BY <1>3 DEF AddEntryInNewBlock, NewInode, NewPath, Up
  <2> QED
    BY <2>1, <2>2, <2>3, TakesExclusive
<1>4. ASSUME NEW d \in Dirs, NEW n \in Names, NEW i \in Ino,
             Rmdir(d, n, i) \/ Unlink(d, n, i)
      PROVE  Exclusive'
  <2>1. d \in Ino
    BY <1>1
  <2>2. CASE Rmdir(d, n, i)
    BY <2>1, <2>2, RmdirEffect, UntouchedExclusive DEF Rmdir, OldPath, Up
  <2>3. CASE Unlink(d, n, i)
    BY <2>1, <2>3, UnlinkEffect, FreesExclusive DEF Unlink, OldPath, Up
  <2> QED
    BY <1>4, <2>2, <2>3
<1>5. ASSUME NEW f \in Files, NEW s \in Sizes, NEW c \in Calls(s),
             itable[f].ext = <<>>, Extend(f, s, c)
      PROVE  Exclusive'
  <2>1. f \in Ino /\ s \in Nat
    BY <1>1
  <2>2. PICK r, n \in Nat : Takes(f, <<>>, r, n) /\ n >= 1
    BY <1>5, <2>1, ExtendEffect
  <2>3. Up
    BY <1>5 DEF Extend, Grows, Up
  <2> QED
    BY <2>1, <2>2, <2>3, TakesExclusive
<1>6. ASSUME NEW f \in Files, Shrink(f, 0) PROVE Exclusive'
  BY <1>1, <1>6, ShrinkEffect, FreesExclusive DEF Shrink, Up
<1>7. ASSUME NEW f \in Files, NEW s, NEW v, WriteInPlace(f, s, v)
      PROVE  Exclusive'
  BY <1>7, WriteInPlaceEffect, UntouchedExclusive DEF WriteInPlace, Up
<1>8. ASSUME UNCHANGED vars PROVE Exclusive'
  BY <1>8 DEF vars, bitmaps, Exclusive, Up
<1>9. ASSUME NEW d \in Dirs, NEW n \in Names, NEW i \in Ino,
             NEW mode \in {"dir", "file"}, AddEntryFault(d, n, i, mode)
      PROVE  Exclusive'
  BY <1>9 DEF AddEntryFault, Up
<1>10. ASSUME NEW f \in Files, NEW s \in Sizes,
              ExtendFault(f, s) \/ ExtendSpins(f, s)
       PROVE  Exclusive'
  BY <1>10 DEF ExtendFault, ExtendSpins, Up
<1> QED
  BY <1>2, <1>3, <1>4, <1>5, <1>6, <1>7, <1>8, <1>9, <1>10 DEF NextOrderly

\* With one extent, the blocks of an inode are counted once.
LEMMA OneExtent ==
  ASSUME NEW ext \in Seq(Extent), Len(ext) <= 1
  PROVE  Cardinality(Pairs(ext)) = Cardinality(OwnedBy(ext))
<1> DEFINE second == [p \in Pairs(ext) |-> p[2]]
<1>1. ASSUME NEW p \in Pairs(ext) PROVE p = <<1, p[2]>>
  <2>1. PICK x \in DOMAIN ext : p \in {x} \X Run(ext[x].start, ext[x].count)
    BY DEF Pairs
  <2>2. x = 1
    OBVIOUS
  <2> QED
    BY <2>1, <2>2
<1>2. second \in Bijection(Pairs(ext), OwnedBy(ext))
  <2>1. second \in Injection(Pairs(ext), OwnedBy(ext))
    BY <1>1 DEF Injection, IsInjective, OwnedBy
  <2>2. second \in Surjection(Pairs(ext), OwnedBy(ext))
    BY DEF Surjection, OwnedBy
  <2> QED
    BY <2>1, <2>2 DEF Bijection
<1> QED
  BY <1>2, PairsType, FS_Bijection DEF ExistsBijection

LEMMA ExclusiveFollows == ASSUME TypeOK, Exclusive PROVE ExclusiveBlocks
<1>1. inode_bits \subseteq Ino
  BY DEF TypeOK
<1>2. ASSUME NEW i \in Ino, Up
      PROVE  Cardinality(Pairs(itable[i].ext)) = Cardinality(OwnedBy(itable[i].ext))
  BY <1>2, OneExtent, Types, InodeFields DEF Exclusive
<1> QED
  BY <1>1, <1>2 DEF Exclusive, ExclusiveBlocks, InUse

\* In orderly use no block belongs to two inodes or twice to one, and every
\* block of an inode in use is marked, on an image of any size and whatever
\* blocks have been freed in between (util.h:69-131, a1fs_helper.c:252-286).
THEOREM BlocksExclusive == SpecOrderly => []ExclusiveBlocks
<1>1. Init => Inside /\ Exclusive
  BY InitInside, InitExclusive
<1>2. TypeOK /\ Inside /\ [Next]_vars => Inside'
  BY StepInside
<1>3. TypeOK /\ Inside /\ Exclusive /\ [NextOrderly]_vars => Exclusive'
  BY StepExclusive
<1>4. TypeOK /\ Exclusive => ExclusiveBlocks
  BY ExclusiveFollows
<1> QED
  BY <1>1, <1>2, <1>3, <1>4, OrderlyIsUse, TypeCorrect, PTL
  DEF SpecOrderly, Spec
=============================================================================

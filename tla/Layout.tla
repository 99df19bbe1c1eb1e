------------------------------- MODULE Layout -------------------------------
(***************************************************************************)
(* The arithmetic by which mkfs (mkfs.c) cuts an image of Total blocks     *)
(* into superblock, inode bitmap, block bitmap, inode table and data       *)
(* region, in this order.                                                  *)
(***************************************************************************)
EXTENDS Integers

CONSTANTS
  Total,          \* size / A1FS_BLOCK_SIZE: blocks in the image
  BitsPerBlock,   \* A1FS_BLOCK_SIZE * 8: 32768
  InodeSize,      \* sizeof(struct a1fs_inode): 256
  InodesPerBlock, \* A1FS_BLOCK_SIZE / sizeof(struct a1fs_inode): 16
  Byte            \* 256: the superblock's block numbers are 8 bits wide

\* map_file lets no empty image through.
ASSUME LayoutAssumption ==
  /\ Total \in Nat \ {0}
  /\ BitsPerBlock \in Nat \ {0}
  /\ InodeSize \in Nat \ {0}
  /\ InodesPerBlock \in Nat \ {0}
  /\ Byte \in Nat /\ Byte >= 2

CeilDiv(a, b) == (a \div b) + (IF a % b = 0 THEN 0 ELSE 1)

NumIbm(n) == CeilDiv(n, BitsPerBlock)

\* mkfs divides the number of inodes by the size of one.
NumInodeBlocks(n) == CeilDiv(n, InodeSize)

\* blocks_remaining when superblock, inode bitmap and inode table are placed.
Remaining(n) == Total - 1 - NumIbm(n) - NumInodeBlocks(n)

DbmEnough(n, d) ==
  LET q == (Remaining(n) - d) \div BitsPerBlock
  IN  d >= q + (IF q = 0 THEN 0 ELSE 1)

\* The loop tries 1, 2, ... blocks for the block bitmap.
NumDbm(n) ==
  CHOOSE d \in 1 .. Remaining(n) :
    DbmEnough(n, d) /\ \A e \in 1 .. (d - 1) : ~ DbmEnough(n, e)

NumData(n) == Remaining(n) - NumDbm(n)

\* The four tests of blocks_remaining.
SuperFits == Total - 1 > 0
IbmFits(n) == SuperFits /\ Total - 1 - NumIbm(n) > 0
TableFits(n) == IbmFits(n) /\ Remaining(n) > 0
Accepts(n) == TableFits(n) /\ NumData(n) > 0

\* The block numbers that go into the superblock.
Placed(n) ==
  [inode_bitmap |-> 1,
   block_bitmap |-> (1 + NumIbm(n)) % Byte,
   inode_table  |-> (1 + NumIbm(n) + NumDbm(n)) % Byte,
   first_data   |-> (1 + NumIbm(n) + NumDbm(n) + NumInodeBlocks(n)) % Byte]

-----------------------------------------------------------------------------
(* What a layout has to be, told from the block numbers p alone.           *)

\* The data region ends with the image and its blocks all have a bit in the
\* bitmap, the inodes have one in theirs, no region is empty or overlaps the
\* next one.
Sound(p, n) ==
  /\ 1 <= p.inode_bitmap
  /\ p.inode_bitmap < p.block_bitmap
  /\ n <= (p.block_bitmap - p.inode_bitmap) * BitsPerBlock
  /\ p.block_bitmap < p.inode_table
  /\ p.inode_table < p.first_data
  /\ p.first_data < Total
  /\ Total - p.first_data <= (p.inode_table - p.block_bitmap) * BitsPerBlock

\* The n inodes end before the data region.
TableHolds(p, n) ==
  p.inode_table + CeilDiv(n, InodesPerBlock) <= p.first_data
=============================================================================

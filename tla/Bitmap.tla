------------------------------- MODULE Bitmap -------------------------------
(***************************************************************************)
(* The data-block bitmap of an a1fs image and the three functions of       *)
(* util.h that read and write it.  A bitmap is the set of its 1 bits; bit  *)
(* b stands for the b-th block of the data region.                         *)
(***************************************************************************)
EXTENDS Integers

CONSTANT TotalBlocks    \* sb->size / A1FS_BLOCK_SIZE: blocks in the image

\* mkfs needs a block each for superblock, inode bitmap, block bitmap and
\* inode table, and refuses an image with no block left for the data region.
ASSUME TotalBlocksAssumption == TotalBlocks \in Nat /\ TotalBlocks >= 5

\* `max_index' of get_available_bit.  It counts every block of the image,
\* although the bits index only the blocks of the data region.
MaxIndex == TotalBlocks - 1

\* The n blocks from s on.
Run(s, n) == s .. (s + n - 1)

\* Mutant: numbers the bits from 1.
FlipBits_FromOne(bits, S) ==
  LET T == {b - 1 : b \in S}
  IN  (bits \ T) \cup (T \ bits)

\* set_bits flips with ^=, whatever the direction it was asked for.
FlipBits(bits, S) == (bits \ S) \cup (S \ bits)

\* Mutant: looks at one bit too few.
FreeRun_Short(bits, s, n) == Run(s, n - 1) \cap bits = {}

FreeRun(bits, s, n) == Run(s, n) \cap bits = {}

\* The scan stops at the lowest s that starts n clear bits below max_index.
LowestRun(bits, n, s) ==
  /\ s + n <= MaxIndex
  /\ FreeRun(bits, s, n)
  /\ \A t \in 0 .. (s - 1) : ~ FreeRun(bits, t, n)

(***************************************************************************)
(* get_available_bit(sb, bitmap, 1, n) returns r, when sb_free_blocks_count*)
(* is `free' and sb_first_empty_db is 0 (nothing ever stores to it).  For  *)
(* n = 1 the scan cannot fail: with every bit below max_index taken it     *)
(* returns max_index itself.  For any other n it reports failure also when *)
(* the run it found ends exactly at max_index.                             *)
(***************************************************************************)
GetAvailableBlock(bits, free, n, r) ==
  \/ free < n /\ r = -1
  \/ /\ free >= n
     /\ r \in Nat
     /\ LowestRun(bits, n, r)
     /\ n = 1 \/ r + n # MaxIndex
  \/ /\ free >= n
     /\ n # 1
     /\ r = -1
     /\ \A t \in 0 .. (MaxIndex - n - 1) : ~ FreeRun(bits, t, n)
  \/ /\ free >= n
     /\ n = 1
     /\ r = MaxIndex
     /\ 0 .. (MaxIndex - 1) \subseteq bits
=============================================================================

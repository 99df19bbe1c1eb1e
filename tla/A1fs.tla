-------------------------------- MODULE A1fs --------------------------------
(***************************************************************************)
(* The on-disk state of a mounted a1fs image and the FUSE operations that  *)
(* change it: mkdir, create, rmdir, unlink, truncate, write (a1fs.c), with *)
(* everything they call in a1fs_helper.c and util.h.                       *)
(*                                                                         *)
(* a1fs runs single-threaded (-s), so a handler that returns is one step.  *)
(* The state is the mapped image itself.  Sizes are counted in units of    *)
(* one directory entry (256 bytes); a block holds BlockUnits of them.  The *)
(* fields that are only reported are left out: links, i_mtime, the size of *)
(* a directory, sb_used_dirs_count, the size member of an extent (the last *)
(* steers only accesses at an offset other than 0).                        *)
(***************************************************************************)
EXTENDS Bitmap, Sequences, FiniteSets

CONSTANTS
  NInodes,      \* -i of mkfs
  DataBlocks,   \* blocks of the data region
  BlockUnits,   \* directory entries per block: 16
  MaxExtents,   \* extents an inode has room for: 12
  Names,        \* names a caller gives to a path's last component
  NoName,       \* the empty name
  Sizes,        \* file sizes that callers ask for
  Payload,      \* what the bytes of a write spell, read as a directory entry
  MaxFree       \* bound of the model on the drift of the free-block counter

Ino == 0 .. (NInodes - 1)
Region == 0 .. (DataBlocks - 1)
Slots == 0 .. (BlockUnits - 1)
Entry == [ino : -1 .. NInodes, name : Names \cup {NoName}]

ASSUME A1fsAssumption ==
  /\ NInodes \in Nat \ {0}
  /\ DataBlocks \in 1 .. (TotalBlocks - 4)
  /\ BlockUnits \in Nat \ {0}
  /\ MaxExtents \in Nat \ {0}
  /\ NoName \notin Names
  /\ Sizes \subseteq Nat
  /\ Payload \subseteq Entry
  /\ MaxFree \in Nat

VARIABLES
  inode_bits,         \* inode bitmap, the set of its 1 bits
  block_bits,         \* block bitmap, likewise
  free_inodes_count,  \* sb_free_inodes_count
  free_blocks_count,  \* sb_free_blocks_count
  itable,             \* inode table; `ext' is i_extent[0 .. last_used_extent]
  data,               \* the data region, each block read as directory entries
  fs,                 \* "up", "spinning" in make_data_blocks, or "undefined"
  job                 \* while spinning: the inode and the blocks asked for

bitmaps == <<inode_bits, block_bits>>
counters == <<free_inodes_count, free_blocks_count>>
vars == <<bitmaps, counters, itable, data, fs, job>>

Idle == [ino |-> 0, want |-> 0]
Blank == [ino |-> 0, name |-> NoName]       \* 256 zero bytes
Vacancy == [ino |-> -1, name |-> NoName]    \* an entry that rmdir has reset

Extent == [start : Nat, count : Nat]
Inode == [mode : {"none", "dir", "file"}, ext : Seq(Extent),
          size : Nat, num_entries : Int]

Created(mode) == [mode |-> mode, ext |-> <<>>, size |-> 0, num_entries |-> 0]

\* A zeroed image fresh from mkfs: every inode but the root's is all zeros.
Init ==
  /\ inode_bits = {0}
  /\ block_bits = {}
  /\ free_inodes_count = NInodes - 1
  /\ free_blocks_count = DataBlocks
  /\ itable = [i \in Ino |->
                 IF i = 0 THEN Created("dir")
                 ELSE [Created("none") EXCEPT
                         !.ext = <<[start |-> 0, count |-> 0]>>]]
  /\ data = [b \in Region |-> [k \in Slots |-> Blank]]
  /\ fs = "up"
  /\ job = Idle

-----------------------------------------------------------------------------
(* Extents.                                                                *)

\* Every block of an extent list, with the extent it is in.
Pairs(ext) ==
  UNION {{x} \X Run(ext[x].start, ext[x].count) : x \in DOMAIN ext}

OwnedBy(ext) == {p[2] : p \in Pairs(ext)}

\* The last m blocks of an extent list, taken from its end.
LastPairs(ext, m) ==
  LET Later(p, q) == q[1] > p[1] \/ (q[1] = p[1] /\ q[2] > p[2])
  IN  {p \in Pairs(ext) : Cardinality({q \in Pairs(ext) : Later(p, q)}) < m}

\* set_bits over a list of blocks: a block listed twice is flipped twice.
Flipped(bits, P) ==
  FlipBits(bits, {b \in {p[2] : p \in P} :
                    Cardinality({p \in P : p[2] = b}) % 2 = 1})

LastExtent(ext) == ext[Len(ext)]
After(ext) == LastExtent(ext).start + LastExtent(ext).count

\* attachable() answers 1 when one of the n blocks after the last extent is
\* OCCUPIED, and allocate_data_blks takes 1 for "we can add to the end".
Attachable(ext, bits, n) == ~ FreeRun(bits, After(ext), n)

\* The extents after allocate_data_blks was given the n blocks from r.
Grown(ext, bits, r, n) ==
  IF ext = <<>> THEN <<[start |-> r, count |-> n]>>
  ELSE IF Attachable(ext, bits, n)
       THEN [ext EXCEPT ![Len(ext)].count = @ + n]
       ELSE Append(ext, [start |-> r, count |-> n])

\* Mutant: the caller ignores the block that allocate_data_blks returns.
AllocatedAt_AsAsked(ext, bits, r, n) == r

\* ... and the block whose bit, with those of the n - 1 after it, is flipped.
AllocatedAt(ext, bits, r, n) ==
  IF ext # <<>> /\ Attachable(ext, bits, n) THEN After(ext) ELSE r

BlocksFor(s) == (s \div BlockUnits) + (IF s % BlockUnits = 0 THEN 0 ELSE 1)

-----------------------------------------------------------------------------
(* Directories.                                                            *)

\* The entries of a directory, as places <<extent, block, slot>>, which every
\* loop over a directory visits in this order.  (While the file system is up
\* no extent leaves the data region.)
Places(ext) ==
  {<<p[1], p[2], k>> : p \in {q \in Pairs(ext) : q[2] \in Region}, k \in Slots}

Before(p, q) ==
  \/ p[1] < q[1]
  \/ p[1] = q[1] /\ p[2] < q[2]
  \/ p[1] = q[1] /\ p[2] = q[2] /\ p[3] < q[3]

FirstOf(S) == CHOOSE p \in S : \A q \in S \ {p} : Before(p, q)

At(dat, p) == dat[p[2]][p[3]]
Named(ext, n) == {p \in Places(ext) : At(data, p).name = n}
Naming(ext, i) == {p \in Places(ext) : At(data, p).ino = i}
Vacant(ext, dat) == {p \in Places(ext) : At(dat, p).ino = -1}

\* inode_lookup: the number in the first entry with that name, in use or not.
Lookup(d, n) ==
  LET found == Named(itable[d].ext, n)
  IN  IF found = {} THEN -1 ELSE At(data, FirstOf(found)).ino

\* The directories that some path leads to: the least set that holds the root
\* and every directory found by name in one of its members.
Dirs ==
  LET found == {<<p, Lookup(p, n)>> : p \in Ino, n \in Names}
      sub == {l \in found : l[2] \in Ino /\ itable[l[2]].mode = "dir"}
  IN  {d \in Ino : \A S \in SUBSET Ino :
         0 \in S /\ (\A l \in sub : l[1] \in S => l[2] \in S) => d \in S}

\* What FUSE has checked by getattr when it calls a handler with the path of
\* name n in directory d: that it is free, or that it names this inode.
NewPath(d, n) == fs = "up" /\ Lookup(d, n) = -1
OldPath(d, n, i, mode) ==
  fs = "up" /\ itable[i].mode = mode /\ Lookup(d, n) = i

Files ==
  {f \in {Lookup(d, n) : d \in Dirs, n \in Names} \cap Ino :
     itable[f].mode = "file"}

-----------------------------------------------------------------------------
(* mkdir and create.                                                       *)

\* Mutant: takes any inode, in use or not, as with a wrong bit test.
TakeInode_Any(i) ==
  /\ free_inodes_count # 0
  /\ inode_bits' = FlipBits(inode_bits, {i})
  /\ free_inodes_count' = free_inodes_count - 1

TakeInode(i) ==
  /\ free_inodes_count # 0
  /\ i \notin inode_bits
  /\ 0 .. (i - 1) \subseteq inode_bits
  /\ inode_bits' = inode_bits \cup {i}
  /\ free_inodes_count' = free_inodes_count - 1

\* The steps a1fs_mkdir and a1fs_create share up to add_dentry.
NewInode(d, n, i) == TakeInode(i) /\ NewPath(d, n)
WithInode(i, mode) == [itable EXCEPT ![i] = Created(mode)]

\* Mutant: writes the inode's number into the last vacant entry.
Entered_Last(dat, ext, n, i) ==
  LET p == CHOOSE p \in Vacant(ext, dat) :
             \A q \in Vacant(ext, dat) \ {p} : Before(q, p)
  IN  [dat EXCEPT ![p[2]][p[3]] = [ino |-> i, name |-> n]]

Entered(dat, ext, n, i) ==
  LET p == FirstOf(Vacant(ext, dat))
  IN  [dat EXCEPT ![p[2]][p[3]] = [ino |-> i, name |-> n]]

\* add_dentry finds a vacant entry.
AddEntry(d, n, i, mode) ==
  /\ NewInode(d, n, i)
  /\ LET t == WithInode(i, mode)
     IN  /\ Vacant(t[d].ext, data) # {}
         /\ data' = Entered(data, t[d].ext, n, i)
         /\ itable' = [t EXCEPT ![d].num_entries = @ + 1]
  /\ UNCHANGED <<block_bits, free_blocks_count, fs, job>>

\* set_dirb_extent marks the entries vacant but keeps their names.
Vacated(dat, b) ==
  [dat EXCEPT ![b] = [k \in Slots |-> [@[k] EXCEPT !.ino = -1]]]

Full(ext) == Vacant(ext, data) = {}

\* make_dentry_block: one block for the directory.  What is vacated is the
\* first block of the last extent, even if the new block is a later one.
AddEntryInNewBlock(d, n, i, mode) ==
  /\ NewInode(d, n, i)
  /\ \E r \in 0 .. MaxIndex :
       LET t == WithInode(i, mode)
           ext == Grown(t[d].ext, block_bits, r, 1)
           b == AllocatedAt(t[d].ext, block_bits, r, 1)
           first == LastExtent(ext).start
       IN  /\ Full(t[d].ext)
           /\ GetAvailableBlock(block_bits, free_blocks_count, 1, r)
           /\ Len(ext) <= MaxExtents /\ first \in Region
           /\ data' = Entered(Vacated(data, first), ext, n, i)
           /\ itable' = [t EXCEPT ![d].ext = ext, ![d].num_entries = @ + 1]
           /\ block_bits' = FlipBits(block_bits, {b})
           /\ free_blocks_count' = free_blocks_count - 1
  /\ UNCHANGED <<fs, job>>

\* The counter says that no block is free: the call fails and keeps the inode.
AddEntryNoSpace(d, n, i, mode) ==
  /\ NewInode(d, n, i)
  /\ itable' = WithInode(i, mode)
  /\ Full(itable'[d].ext)
  /\ GetAvailableBlock(block_bits, free_blocks_count, 1, -1)
  /\ UNCHANGED <<block_bits, free_blocks_count, data, fs, job>>

\* The directory gets a block outside the image, or a 13th extent, which is
\* stored over last_used_extent and the members after it.
AddEntryFault(d, n, i, mode) ==
  /\ fs' = "undefined"
  /\ i \in Ino \ inode_bits /\ free_inodes_count # 0 /\ NewPath(d, n)
  /\ Full(itable[d].ext)
  /\ \E r \in 0 .. MaxIndex :
       LET ext == Grown(itable[d].ext, block_bits, r, 1)
       IN  /\ GetAvailableBlock(block_bits, free_blocks_count, 1, r)
           /\ Len(ext) > MaxExtents \/ LastExtent(ext).start \notin Region
  /\ UNCHANGED <<bitmaps, counters, itable, data, job>>

-----------------------------------------------------------------------------
(* rmdir and unlink.                                                       *)

\* Mutant: leaves the entry in the parent directory.
Removed_KeepsEntry(d, i, freed) ==
  /\ inode_bits' = inode_bits \ {i}
  /\ free_inodes_count' = free_inodes_count + 1
  /\ itable' = [itable EXCEPT ![i].size = 0, ![i].ext = <<>>]
  /\ free_blocks_count' = free_blocks_count + freed
  /\ free_blocks_count' <= MaxFree
  /\ UNCHANGED data

\* Mutant: vacates the entry but does not count it off.
Removed_KeepsCount(d, i, freed) ==
  LET p == FirstOf(Naming(itable[d].ext, i))
  IN  /\ inode_bits' = inode_bits \ {i}
      /\ free_inodes_count' = free_inodes_count + 1
      /\ itable' = [itable EXCEPT ![i].size = 0, ![i].ext = <<>>]
      /\ data' = [data EXCEPT ![p[2]][p[3]] = Vacancy]
      /\ free_blocks_count' = free_blocks_count + freed
      /\ free_blocks_count' <= MaxFree

\* Mutant: resets the number in the entry only.
Removed_KeepsName(d, i, freed) ==
  LET p == FirstOf(Naming(itable[d].ext, i))
  IN  /\ inode_bits' = inode_bits \ {i}
      /\ free_inodes_count' = free_inodes_count + 1
      /\ itable' = [itable EXCEPT ![i].size = 0, ![i].ext = <<>>,
                                  ![d].num_entries = @ - 1]
      /\ data' = [data EXCEPT ![p[2]][p[3]].ino = -1]
      /\ free_blocks_count' = free_blocks_count + freed + 1
      /\ free_blocks_count' <= MaxFree

\* The common end of the two: reset the inode, clear its bit, then vacate the
\* parent's first entry with that number and count one more block as free.
Removed(d, i, freed) ==
  LET t == [itable EXCEPT ![i].size = 0, ![i].ext = <<>>, ![i].num_entries = 0]
      used == i \in inode_bits
      found == IF used THEN Naming(t[d].ext, i) ELSE {}
      p == FirstOf(found)
      one == IF found = {} THEN 0 ELSE 1
  IN  /\ inode_bits' = inode_bits \ {i}
      /\ free_inodes_count' = free_inodes_count + (IF used THEN 1 ELSE 0)
      /\ itable' = [t EXCEPT ![d].num_entries = @ - one]
      /\ data' = IF found = {} THEN data
                 ELSE [data EXCEPT ![p[2]][p[3]] = Vacancy]
      /\ free_blocks_count' = free_blocks_count + freed + one
      /\ free_blocks_count' <= MaxFree

\* Mutant: takes a directory whatever it holds.
Rmdir_Any(d, n, i) ==
  /\ OldPath(d, n, i, "dir")
  /\ Removed(d, i, 0)
  /\ UNCHANGED <<block_bits, fs, job>>

\* The blocks of the directory keep their bits.
Rmdir(d, n, i) ==
  /\ OldPath(d, n, i, "dir")
  /\ itable[i].num_entries = 0
  /\ Removed(d, i, 0)
  /\ UNCHANGED <<block_bits, fs, job>>

\* unlink clears extent after extent, and gives up at the first one whose
\* start bit is not set by then.
UpTo(ext, k) == Pairs(SubSeq(ext, 1, k))
StartSet(ext, k) == ext[k].start \in Flipped(block_bits, UpTo(ext, k - 1))
Clears(ext, k) == \A j \in 1 .. k : StartSet(ext, j)

\* Mutant: clears the bits without counting the blocks as free.
Unlink_NotCounted(d, n, i) ==
  /\ OldPath(d, n, i, "file")
  /\ block_bits' = Flipped(block_bits, Pairs(itable[i].ext))
  /\ Removed(d, i, 0)
  /\ UNCHANGED <<fs, job>>

\* Mutant: counts the blocks as free without clearing the bits.
Unlink_KeepsBits(d, n, i) ==
  /\ OldPath(d, n, i, "file")
  /\ Removed(d, i, Cardinality(Pairs(itable[i].ext)))
  /\ UNCHANGED <<block_bits, fs, job>>

Unlink(d, n, i) ==
  LET all == Pairs(itable[i].ext)
  IN  /\ OldPath(d, n, i, "file")
      /\ Clears(itable[i].ext, Len(itable[i].ext))
      /\ block_bits' = Flipped(block_bits, all)
      /\ Removed(d, i, Cardinality(all))
      /\ UNCHANGED <<fs, job>>

UnlinkGivesUp(d, n, i) ==
  /\ OldPath(d, n, i, "file")
  /\ \E k \in 0 .. (Len(itable[i].ext) - 1) :
       LET part == UpTo(itable[i].ext, k)
       IN  /\ Clears(itable[i].ext, k) /\ ~ StartSet(itable[i].ext, k + 1)
           /\ block_bits' = Flipped(block_bits, part)
           /\ free_blocks_count' = free_blocks_count + Cardinality(part)
           /\ free_blocks_count' <= MaxFree
  /\ UNCHANGED <<inode_bits, free_inodes_count, itable, data, fs, job>>

-----------------------------------------------------------------------------
(* truncate and write.                                                     *)

\* What set the size: a truncate, or a write at offset 0 within one block.
Calls(s) ==
  {[units |-> 0, fill |-> Blank]} \cup
  {[units |-> s, fill |-> v] : v \in IF s <= BlockUnits THEN Payload ELSE {}}

Stored(dat, ext, c) ==
  [dat EXCEPT ![ext[1].start] =
     [k \in Slots |-> IF k < c.units THEN c.fill ELSE @[k]]]

\* bytes_til_full: a whole block when the size is a multiple of a block.
UntilFull(f) == BlockUnits - (itable[f].size % BlockUnits)

\* a1fs_truncate fails, and changes nothing, for a size equal to it.
Grows(f, s) ==
  /\ fs = "up"
  /\ s # itable[f].size
  /\ \/ itable[f].ext = <<>>
     \/ s > itable[f].size /\ s # UntilFull(f)

\* Cases "empty" and A hand the whole size to truncate_helper, case B zeroes
\* the end of the last block and hands over the rest, which may be negative.
FillsUp(f, s) == itable[f].ext # <<>> /\ s > UntilFull(f)

Request(f, s) ==
  IF FillsUp(f, s) THEN s - itable[f].size - UntilFull(f) ELSE s

\* Mutant: takes the last block of the extent for the one after it.
LastBlockZeroed_Next(f) ==
  [data EXCEPT ![After(itable[f].ext)] =
     [k \in Slots |->
        IF k >= itable[f].size % BlockUnits THEN Blank ELSE @[k]]]

LastBlockZeroed(f) ==
  [data EXCEPT ![After(itable[f].ext) - 1] =
     [k \in Slots |->
        IF k >= itable[f].size % BlockUnits THEN Blank ELSE @[k]]]

DataFor(f, s) == IF FillsUp(f, s) THEN LastBlockZeroed(f) ELSE data

\* That block is the one before the data region when a kill has left an extent
\* of no blocks at its start (see Crash); there the inode table ends.
EndInside(f, s) == FillsUp(f, s) => After(itable[f].ext) - 1 \in Region

Wanted(m) == IF m < 0 THEN 1 ELSE BlocksFor(m)

\* zero_out_blocks starts at the n-th last block.  Without a partial block it
\* does not stop after n blocks but after as many as the extent has.
ZeroedBlocks(ext, m) ==
  LET e == LastExtent(ext)
      n == BlocksFor(m)
  IN  Run(e.start + e.count - n, IF m % BlockUnits = 0 THEN e.count ELSE n)

\* Mutant: leaves in the blocks what their last owner wrote.
Zeroed_Not(dat, ext, m) == dat

Zeroed(dat, ext, m) ==
  [b \in Region |-> [k \in Slots |->
     IF /\ b \in ZeroedBlocks(ext, m)
        /\ \/ m % BlockUnits = 0
           \/ b # After(ext) - 1
           \/ k < m % BlockUnits
     THEN Blank ELSE dat[b][k]]]

FillLastBlock(f, s, c) ==
  /\ Grows(f, s) /\ EndInside(f, s) /\ FillsUp(f, s) /\ Request(f, s) = 0
  /\ itable' = [itable EXCEPT ![f].size = s]
  /\ data' = Stored(LastBlockZeroed(f), itable[f].ext, c)
  /\ UNCHANGED <<bitmaps, counters, fs, job>>

\* truncate_helper, when make_data_blocks succeeds at once.
Extend(f, s, c) ==
  LET m == Request(f, s)
      n == BlocksFor(m)
      old == itable[f].ext
  IN  /\ Grows(f, s) /\ EndInside(f, s) /\ m > 0
      /\ \E r \in 0 .. MaxIndex :
           LET ext == Grown(old, block_bits, r, n)
               at == AllocatedAt(old, block_bits, r, n)
           IN  /\ GetAvailableBlock(block_bits, free_blocks_count, n, r)
               /\ Len(ext) <= MaxExtents
               /\ ZeroedBlocks(ext, m) \subseteq Region
               /\ itable' = [itable EXCEPT ![f].ext = ext, ![f].size = s]
               /\ data' = Stored(Zeroed(DataFor(f, s), ext, m), ext, c)
               /\ block_bits' = FlipBits(block_bits, Run(at, n))
      /\ free_blocks_count' = free_blocks_count - n
      /\ UNCHANGED <<inode_bits, free_inodes_count, fs, job>>

\* A block outside the image, a 13th extent, or a negative length for memset.
ExtendFault(f, s) ==
  LET m == Request(f, s)
  IN  /\ Grows(f, s)
      /\ \/ ~ EndInside(f, s)
         \/ /\ m # 0
            /\ \E r \in 0 .. MaxIndex :
                 LET ext == Grown(itable[f].ext, block_bits, r, Wanted(m))
                 IN  /\ GetAvailableBlock(block_bits, free_blocks_count,
                                          Wanted(m), r)
                     /\ \/ m < 0
                        \/ Len(ext) > MaxExtents
                        \/ ~ (ZeroedBlocks(ext, m) \subseteq Region)
      /\ fs' = "undefined"
      /\ UNCHANGED <<bitmaps, counters, itable, data, job>>

\* No run of n blocks: make_data_blocks asks for n - 1 blocks over and over,
\* because the loop tests the outer blocks_created, which stays 0.
ExtendSpins(f, s) ==
  LET n == Wanted(Request(f, s))
  IN  /\ Grows(f, s) /\ EndInside(f, s) /\ Request(f, s) # 0
      /\ GetAvailableBlock(block_bits, free_blocks_count, n, -1)
      /\ data' = DataFor(f, s)
      /\ fs' = "spinning"
      /\ job' = [ino |-> f, want |-> n - 1]
      /\ UNCHANGED <<bitmaps, counters, itable>>

\* The inner call cannot be met either: one level deeper.
SpinDeeper ==
  /\ fs = "spinning"
  /\ GetAvailableBlock(block_bits, free_blocks_count, job.want, -1)
  /\ job' = [job EXCEPT !.want = @ - 1]
  /\ UNCHANGED <<bitmaps, counters, itable, data, fs>>

\* The inner call is met, and the loop asks for as many blocks again.
SpinAllocates ==
  LET old == itable[job.ino].ext
      n == job.want
  IN  /\ fs = "spinning"
      /\ \E r \in 0 .. MaxIndex :
           LET ext == Grown(old, block_bits, r, n)
               at == AllocatedAt(old, block_bits, r, n)
           IN  /\ GetAvailableBlock(block_bits, free_blocks_count, n, r)
               /\ Len(ext) <= MaxExtents
               /\ itable' = [itable EXCEPT ![job.ino].ext = ext]
               /\ block_bits' = FlipBits(block_bits, Run(at, n))
      /\ free_blocks_count' = free_blocks_count - n
      /\ UNCHANGED <<inode_bits, free_inodes_count, data, fs, job>>

\* A 13th extent is stored over last_used_extent and the members after it;
\* what the loop does from then on depends on what they have become.
SpinOverflows ==
  /\ fs = "spinning"
  /\ \E r \in 0 .. MaxIndex :
       /\ GetAvailableBlock(block_bits, free_blocks_count, job.want, r)
       /\ Len(Grown(itable[job.ino].ext, block_bits, r, job.want)) > MaxExtents
  /\ fs' = "undefined"
  /\ UNCHANGED <<bitmaps, counters, itable, data, job>>

SpinStep == SpinDeeper \/ SpinAllocates \/ SpinOverflows

\* Mutant: an emptied file keeps its extents.
Shrink_KeepsExtents(f, s) ==
  LET cut == Pairs(itable[f].ext)
  IN  /\ fs = "up" /\ s = 0 /\ itable[f].size > 0
      /\ block_bits' = Flipped(block_bits, cut)
      /\ free_blocks_count' = free_blocks_count + Cardinality(cut)
      /\ free_blocks_count' <= MaxFree
      /\ itable' = [itable EXCEPT ![f].size = 0]
      /\ UNCHANGED <<inode_bits, free_inodes_count, data, fs, job>>

\* Only the bits and the size change; the extents keep the blocks, unless the
\* file is emptied.
Shrink(f, s) ==
  LET cut == LastPairs(itable[f].ext,
                       BlocksFor(itable[f].size) - BlocksFor(s))
  IN  /\ fs = "up"
      /\ s < itable[f].size /\ itable[f].ext # <<>>
      /\ block_bits' = Flipped(block_bits, cut)
      /\ free_blocks_count' = free_blocks_count + Cardinality(cut)
      /\ free_blocks_count' <= MaxFree
      /\ itable' = [itable EXCEPT ![f].size = s,
                      ![f].ext = IF s = 0 THEN <<>> ELSE @]
      /\ UNCHANGED <<inode_bits, free_inodes_count, data, fs, job>>

WriteInPlace(f, s, v) ==
  /\ fs = "up"
  /\ s \in 1 .. BlockUnits /\ s <= itable[f].size
  /\ data' = Stored(data, itable[f].ext, [units |-> s, fill |-> v])
  /\ UNCHANGED <<bitmaps, counters, itable, fs, job>>

-----------------------------------------------------------------------------
Next ==
  \/ \E d \in Dirs, n \in Names, i \in Ino, mode \in {"dir", "file"} :
       \/ AddEntry(d, n, i, mode)
       \/ AddEntryInNewBlock(d, n, i, mode)
       \/ AddEntryNoSpace(d, n, i, mode)
       \/ AddEntryFault(d, n, i, mode)
  \/ \E d \in Dirs, n \in Names, i \in Ino :
       Rmdir(d, n, i) \/ Unlink(d, n, i) \/ UnlinkGivesUp(d, n, i)
  \/ \E f \in Files, s \in Sizes :
       \/ \E c \in Calls(s) : FillLastBlock(f, s, c) \/ Extend(f, s, c)
       \/ ExtendFault(f, s) \/ ExtendSpins(f, s) \/ Shrink(f, s)
       \/ \E v \in Payload : WriteInPlace(f, s, v)
  \/ SpinStep

Spec == Init /\ [][Next]_vars

\* The process keeps running while it is inside a call.
FairSpec == Spec /\ WF_vars(SpinStep)

(***************************************************************************)
(* Orderly use: a directory never outgrows its block, a file is given its  *)
(* size once, when it is empty, and loses it at once.  The defects of      *)
(* attachable and of a1fs_truncate on a file that has blocks then stay     *)
(* out of reach, and the file system keeps what it promises.  A truncate   *)
(* that finds no run for its blocks is the last call: it does not return,  *)
(* and what it does from then on (SpinStep) is left to Next.               *)
(***************************************************************************)
NextOrderly ==
  \/ \E d \in Dirs, n \in Names, i \in Ino, mode \in {"dir", "file"} :
       \/ AddEntry(d, n, i, mode)
       \/ /\ itable[d].ext = <<>>
          /\ \/ AddEntryInNewBlock(d, n, i, mode)
             \/ AddEntryNoSpace(d, n, i, mode)
             \/ AddEntryFault(d, n, i, mode)
  \/ \E d \in Dirs, n \in Names, i \in Ino : Rmdir(d, n, i) \/ Unlink(d, n, i)
  \/ \E f \in Files, s \in Sizes :
       \/ /\ itable[f].ext = <<>>
          /\ \/ ExtendFault(f, s) \/ ExtendSpins(f, s)
             \/ \E c \in Calls(s) : Extend(f, s, c)
       \/ s = 0 /\ Shrink(f, s)
       \/ \E v \in Payload : WriteInPlace(f, s, v)

SpecOrderly == Init /\ [][NextOrderly]_vars

-----------------------------------------------------------------------------
\* The types of the variables; the free-block counter never wraps below 0
\* (util.h:73 guards every set_bits that takes blocks).
TypeOK ==
  /\ inode_bits \in SUBSET Ino
  /\ block_bits \in SUBSET Nat
  /\ free_inodes_count \in Int
  /\ free_blocks_count \in Nat
  /\ itable \in [Ino -> Inode]
  /\ data \in [Region -> [Slots -> Entry]]
  /\ fs \in {"up", "spinning", "undefined"}
  /\ job \in [ino : Ino, want : Nat]

\* The inode counter and the inode bitmap agree after every call, failed ones
\* included (util.h:144-151: a flip and a +-1 that do not look at each other).
InodeAccounting == free_inodes_count = NInodes - Cardinality(inode_bits)

InUse == inode_bits
Up == fs = "up"

\* No block belongs to two extents, nor twice to one, and every block of an
\* inode in use is marked: first fit never hands out an owned block
\* (util.h:69-131, a1fs_helper.c:252-286).
ExclusiveBlocks ==
  Up => \A i \in InUse :
    LET mine == Pairs(itable[i].ext)
    IN  /\ OwnedBy(itable[i].ext) \subseteq block_bits
        /\ Cardinality(mine) = Cardinality(OwnedBy(itable[i].ext))
        /\ \A j \in InUse \ {i} :
             OwnedBy(itable[i].ext) \cap OwnedBy(itable[j].ext) = {}

\* An entry is live when its number is not -1.
Live(d) == {p \in Places(itable[d].ext) : At(data, p).ino # -1}
LiveDirs == {d \in InUse : itable[d].mode = "dir"}

\* No directory entry names a free inode or the root, and no inode has two
\* entries: rmdir and unlink reset the inode long before the entry
\* (a1fs.c:370 and 414, a1fs.c:547 and 591).
NoDangling ==
  Up => \A d, e \in LiveDirs : \A p \in Live(d), q \in Live(e) :
    /\ At(data, p).ino \in InUse \ {0}
    /\ <<d, p>> # <<e, q>> => At(data, p).ino # At(data, q).ino

\* num_entries, on which rmdir's ENOTEMPTY rests, counts the live entries
\* (a1fs.c:360, a1fs_helper.c:386, a1fs.c:421 and 598).
EntryCount ==
  Up => \A d \in LiveDirs : itable[d].num_entries = Cardinality(Live(d))

\* A live entry is found by its name although stale names of earlier owners
\* of the block stay in vacant entries and inode_lookup does not skip those
\* (a1fs_helper.c:56, 166).
Unshadowed ==
  Up => \A d \in LiveDirs : \A p \in Live(d) :
    Lookup(d, At(data, p).name) = At(data, p).ino

\* A file has exactly the blocks that its size needs.
SizeFits ==
  Up => \A i \in InUse : itable[i].mode = "file" =>
    Cardinality(Pairs(itable[i].ext)) = BlocksFor(itable[i].size)

\* The free counter never understates what the bitmap has left, so a call
\* fails for lack of blocks only when the bitmap has too few of them.
FreeNeverUnderstated ==
  Up => free_blocks_count >= DataBlocks - Cardinality(block_bits)

\* While no call has gone wrong, neither the bitmap nor an extent reaches
\* beyond the data region, although get_available_bit looks for free bits up
\* to the number of blocks of the whole image (util.h:97-98).
InsideImage ==
  Up => /\ block_bits \subseteq Region
        /\ \A i \in InUse : OwnedBy(itable[i].ext) \subseteq Region

\* A step that takes a live entry away frees the inode that it named: no call
\* loses another file's entry.
EntriesPersist ==
  [][Up' => \A d \in LiveDirs : \A p \in Live(d) :
       \/ At(data, p).ino \notin inode_bits'
       \/ /\ p \in Places(itable[d].ext)'
          /\ At(data, p)' = At(data, p)]_vars

\* A step changes the contents of the blocks of one inode at most.
OneWriter ==
  [][Up' => \A i, j \in InUse \cap inode_bits' :
       /\ \E b \in OwnedBy(itable[i].ext) \cap Region : data'[b] # data[b]
       /\ \E b \in OwnedBy(itable[j].ext) \cap Region : data'[b] # data[b]
       => i = j]_vars

\* Blocks that are marked although no inode in use has them.
Leaked == block_bits \ UNION {OwnedBy(itable[i].ext) : i \in InUse}

\* Blocks leak only when a directory is removed, exactly the blocks it had
\* (a1fs.c:370 drops the extents, no call clears their bits); an unlink or a
\* truncate gives back what the file had, and no call reuses what has leaked.
OnlyRmdirLeaks ==
  [][Up' =>
       LET dropped == {d \in LiveDirs : d \notin inode_bits'}
       IN  Leaked' = Leaked \cup UNION {OwnedBy(itable[d].ext) : d \in dropped}
    ]_vars

\* What readdir lists besides the names in use (a1fs.c:254 tests the name, not
\* the number) is text that a file left in a recycled block: no removed name
\* is listed again.
GhostsFromFiles ==
  Up => \A d \in LiveDirs : \A p \in Places(itable[d].ext) :
    At(data, p).ino = -1 =>
      At(data, p).name \in {v.name : v \in Payload} \cup {NoName}

\* The n-th block of an extent list, and the n-th unit of a file.
BlockAt(ext, n) ==
  CHOOSE b \in OwnedBy(ext) : \E p \in Pairs(ext) :
    /\ p[2] = b
    /\ Cardinality({q \in Pairs(ext) :
                      q[1] < p[1] \/ (q[1] = p[1] /\ q[2] < p[2])}) = n

UnitAt(t, dat, i, u) ==
  dat[BlockAt(t[i].ext, u \div BlockUnits)][u % BlockUnits]

\* A file that grows from a block filled in part over its end keeps what it
\* held and holds zeros (or what the same call wrote) behind that, provided the
\* blocks it gets were free (a1fs.c:733-776 and zero_out_blocks: the rest of
\* the old block, whole new blocks, part of the last one).
GrowthKeepsContents ==
  [][Up' => \A i \in InUse : LET old == itable[i] new == itable'[i] IN
       /\ new.size >= old.size + UntilFull(i)
       /\ old.size % BlockUnits # 0
       /\ Cardinality(OwnedBy(old.ext)) = BlocksFor(old.size)
       /\ Cardinality(OwnedBy(new.ext)) = BlocksFor(new.size)
       /\ (OwnedBy(new.ext) \ OwnedBy(old.ext)) \cap block_bits = {}
       => \/ \A u \in 0 .. (new.size - 1) :
               UnitAt(itable', data', i, u) =
                 IF u < old.size THEN UnitAt(itable, data, i, u) ELSE Blank
          \/ \E v \in Payload : \A u \in 0 .. (new.size - 1) :
               UnitAt(itable', data', i, u) = v]_vars

-----------------------------------------------------------------------------
\* "Case that yes, we can add to the end of the last extent"
\* (a1fs_helper.c:256): what a call adds to an inode was free before.
AddsFreeBlocks ==
  [][Up' => \A i \in InUse \cap inode_bits' :
       (OwnedBy(itable'[i].ext) \ OwnedBy(itable[i].ext)) \cap block_bits = {}]_vars

\* "ENOSPC  not enough free space in the file system" (a1fs.c:282): a call for
\* which there is no room fails, it does not leave the image.
StaysInImage == fs # "undefined"

\* "ENOSPC  not enough free space in the file system" (a1fs.c:658) and "the
\* total number of blocks successfully created, -1 otherwise"
\* (a1fs_helper.h:100): a truncate that finds no run for its blocks returns.
SpinReturns == fs = "spinning" ~> fs = "up"

\* "Number of data blocks we wish to end up with" (a1fs.c:788): a file that had
\* the blocks its size needs still has just those when it has shrunk.
ShrinksToDesired ==
  [][Up' => \A i \in InUse : LET old == itable[i] new == itable'[i] IN
       /\ old.mode = "file" /\ new.size < old.size
       /\ Cardinality(OwnedBy(old.ext)) = BlocksFor(old.size)
       => Cardinality(OwnedBy(new.ext)) = BlocksFor(new.size)]_vars

\* "Free blocks count" (a1fs.h:61): no more than the bitmap has left.
FreeNeverOverstated ==
  Up => free_blocks_count <= DataBlocks - Cardinality(block_bits)

\* "If the file is extended, the new uninitialized range at the end must be
\* filled with zeros" (a1fs.c:650): a file that had its blocks has blocks for
\* the range by which a truncate extends it, and they hold zeros there.
ExtendsWithZeros ==
  [][Up' => \A i \in InUse : LET old == itable[i] new == itable'[i] IN
       /\ old.mode = "file" /\ new.size > old.size
       /\ Cardinality(OwnedBy(old.ext)) = BlocksFor(old.size)
       => /\ Cardinality(OwnedBy(new.ext)) >= BlocksFor(new.size)
          /\ \A u \in old.size .. (new.size - 1) :
               UnitAt(itable', data', i, u) = Blank]_vars

\* "Zero out data blocks of some given extent." (a1fs_helper.h:116): giving a
\* file a size changes no block of another inode, unless the file was given
\* that block (which is for AddsFreeBlocks to say).
ClearsOwnBlocks ==
  [][Up' => \A f, i \in InUse \cap inode_bits' :
       itable'[f].size > itable[f].size /\ i # f =>
         \A b \in OwnedBy(itable[i].ext) \ OwnedBy(itable'[f].ext) :
           data'[b] = data[b]]_vars

\* "Errors: none" (a1fs.c:513): an unlink that fails has freed nothing.
UnlinkIsWhole ==
  [][\A d \in Dirs, n \in Names, i \in Ino :
       UnlinkGivesUp(d, n, i) => block_bits' = block_bits]_vars

=============================================================================

-------------------------------- MODULE Calls --------------------------------
(***************************************************************************)
(* The calls of a1fs as a caller sees them: what they return, and reads    *)
(* and writes at every offset within a block (a1fs.c).  It is the orderly  *)
(* use of A1fs (an inode has one extent at most), with the calls that fail *)
(* and with a write as the code does it: truncate first, then look for the *)
(* offset, then store.                                                     *)
(***************************************************************************)
EXTENDS A1fsNamespace

VARIABLES
  used,    \* i_extent[0].size, by which an offset is looked for
  answer,  \* what the last call returned; "none" inside a call
  todo     \* the part of a write that comes after its truncate

callvars == <<vars, used, answer, todo>>

Nothing == [ino |-> 0, lo |-> 0, hi |-> 0, fill |-> Blank]
NoFill == [units |-> 0, fill |-> Blank]

CallsInit == Init /\ used = [i \in Ino |-> 0] /\ answer = "none" /\ todo = Nothing

Answers(a) == answer' = a /\ UNCHANGED todo
Answer(a) == todo = Nothing /\ Answers(a)

\* "return -errno": no code here sets errno, so it is whatever the C library
\* left there, at first 0.
Fails == \E a \in {"0", "-errno"} : Answers(a)

\* A step out of memory, or a call that does not return: nothing is said of
\* what follows.
Astray == answer' = "none" /\ UNCHANGED <<used, todo>>

-----------------------------------------------------------------------------
\* mkdir and create.
Make(d, n, i, mode) ==
  /\ AddEntry(d, n, i, mode)
  /\ Answer("0") /\ UNCHANGED used

MakeInNewBlock(d, n, i, mode) ==
  /\ itable[d].ext = <<>> /\ AddEntryInNewBlock(d, n, i, mode)
  /\ Answer("0") /\ used' = [used EXCEPT ![d] = 0]

MakeNoSpace(d, n, i, mode) ==
  /\ AddEntryNoSpace(d, n, i, mode)
  /\ todo = Nothing /\ Fails /\ UNCHANGED used

MakeFault(d, n, i, mode) ==
  /\ itable[d].ext = <<>> /\ AddEntryFault(d, n, i, mode)
  /\ todo = Nothing /\ Astray

MakeNoInode(d, n) ==
  /\ NewPath(d, n)
  /\ free_inodes_count = 0 \/ Ino \subseteq inode_bits
  /\ Answer("-ENOSPC") /\ UNCHANGED <<vars, used>>

\* rmdir and unlink answer 0 when they come to an entry with the number.
Vacates(d, i) == i \in inode_bits /\ Naming(itable'[d].ext, i) # {}

Remove(d, n, i) ==
  /\ Rmdir(d, n, i) \/ Unlink(d, n, i)
  /\ todo = Nothing /\ UNCHANGED used
  /\ IF Vacates(d, i) THEN Answers("0") ELSE Fails

RemoveRefused(d, n, i) ==
  /\ OldPath(d, n, i, "dir") /\ itable[i].num_entries > 0
  /\ Answer("-ENOTEMPTY") /\ UNCHANGED <<vars, used>>

-----------------------------------------------------------------------------
\* truncate.

\* Mutant: a new extent keeps the size of the one that was there.
UsedAfter_Stale(f, m) ==
  used[f] + (IF m % BlockUnits = 0 THEN - BlockUnits * BlocksFor(m)
             ELSE 2 * (m % BlockUnits) - BlockUnits * (BlocksFor(m) - 1))

\* The size of a new extent for m units: zeroing takes a block off for every
\* full block it clears and adds the rest twice.
UsedAfter(f, m) ==
  IF m % BlockUnits = 0 THEN - BlockUnits * BlocksFor(m)
  ELSE 2 * (m % BlockUnits) - BlockUnits * (BlocksFor(m) - 1)

FirstSize(f, s) ==
  /\ itable[f].ext = <<>>
  /\ Extend(f, s, NoFill)
  /\ used' = [used EXCEPT ![f] = UsedAfter(f, s)]

FirstSizeFault(f, s) == itable[f].ext = <<>> /\ ExtendFault(f, s)
FirstSizeSpins(f, s) == itable[f].ext = <<>> /\ ExtendSpins(f, s)

\* A growth to the size bytes_til_full falls through both cases.
GrowthRefused(f, s) ==
  /\ fs = "up" /\ UNCHANGED <<vars, used>>
  /\ itable[f].ext # <<>> /\ s > itable[f].size /\ s = UntilFull(f)

Truncate(f, s) ==
  \/ FirstSize(f, s) /\ Answer("0")
  \/ FirstSizeFault(f, s) /\ todo = Nothing /\ Astray
  \/ FirstSizeSpins(f, s) /\ todo = Nothing /\ Astray
  \/ s = 0 /\ Shrink(f, s) /\ Answer("0") /\ UNCHANGED used
  \/ GrowthRefused(f, s) /\ Answer("-1")

-----------------------------------------------------------------------------
(* read and write of the units lo .. hi - 1, which lie within one block.   *)

WithinBlock(lo, hi) == lo < hi /\ lo \div BlockUnits = (hi - 1) \div BlockUnits

\* find_offset_extent stays with the first extent.
Found(f, lo) == lo = 0 \/ lo <= used[f]

\* Otherwise it moves the pointer to the offset instead of the offset, and
\* goes on with what lies there: a number below 1 makes it fail, any other one
\* leads it past the extents that the inode has.
NotFound(f, lo) ==
  /\ ~ Found(f, lo)
  /\ \/ answer' \in {"0", "-errno"} /\ UNCHANGED vars
     \/ /\ answer' = "none" /\ fs' = "undefined"
        /\ UNCHANGED <<bitmaps, counters, itable, data, job>>
  /\ UNCHANGED used

\* Mutant: adds the offset to an address that has it already.
StoredAt_Twice(f, lo, hi, v) ==
  LET q == lo \div BlockUnits
  IN  [data EXCEPT ![itable[f].ext[1].start + q] =
         [k \in Slots |->
            IF 2 * lo <= k + q * BlockUnits /\ k + q * BlockUnits < lo + hi
            THEN v ELSE @[k]]]

StoredAt(f, lo, hi, v) ==
  LET q == lo \div BlockUnits
  IN  [data EXCEPT ![itable[f].ext[1].start + q] =
         [k \in Slots |->
            IF lo <= k + q * BlockUnits /\ k + q * BlockUnits < hi THEN v
            ELSE @[k]]]

Store(f, lo, hi, v) ==
  /\ data' = StoredAt(f, lo, hi, v)
  /\ UNCHANGED <<bitmaps, counters, itable, fs, job, used>>

Write(f, lo, hi, v) ==
  /\ fs = "up" /\ WithinBlock(lo, hi) /\ hi <= itable[f].size
  /\ todo = Nothing
  /\ \/ Found(f, lo) /\ Store(f, lo, hi, v) /\ Answers("size")
     \/ NotFound(f, lo) /\ UNCHANGED todo

\* A write over the end of the file has it truncated to its own end.
WriteGrows(f, lo, hi, v) ==
  /\ WithinBlock(lo, hi) /\ hi > itable[f].size
  /\ todo = Nothing
  /\ \/ /\ FirstSize(f, hi)
        /\ todo' = [ino |-> f, lo |-> lo, hi |-> hi, fill |-> v]
        /\ answer' = "none"
     \/ FirstSizeFault(f, hi) /\ Astray
     \/ FirstSizeSpins(f, hi) /\ Astray
     \/ GrowthRefused(f, hi) /\ Answers("-ENOSPC")

WriteRest ==
  LET f == todo.ino lo == todo.lo
  IN  /\ todo # Nothing /\ fs = "up"
      /\ todo' = Nothing
      /\ \/ /\ Found(f, lo) /\ Store(f, lo, todo.hi, todo.fill)
            /\ answer' = "size"
         \/ NotFound(f, lo)

\* Beyond the blocks of the only extent the loop takes what lies behind it in
\* the inode for more extents.  It may come to one that is long enough, and
\* answer as if it had read the file, or leave the inode.
ReadPastExtents(f, lo) ==
  /\ Found(f, lo)
  /\ itable[f].ext # <<>> => lo >= BlockUnits * itable[f].ext[1].count
  /\ answer' = "none" /\ fs' = "undefined"
  /\ UNCHANGED <<bitmaps, counters, itable, data, job, used, todo>>

\* The end of the file is looked at for offsets behind it only, and nothing
\* cuts what is asked for: "size" stands for all of it.
Read(f, lo) ==
  /\ fs = "up" /\ todo = Nothing
  /\ \/ lo > itable[f].size /\ Answers("0") /\ UNCHANGED <<vars, used>>
     \/ /\ lo <= itable[f].size
        /\ \/ Found(f, lo) /\ Answers("size") /\ UNCHANGED <<vars, used>>
           \/ ReadPastExtents(f, lo)
           \/ NotFound(f, lo) /\ UNCHANGED todo

-----------------------------------------------------------------------------
CallsNext ==
  \/ \E d \in Dirs, n \in Names :
       \/ MakeNoInode(d, n)
       \/ \E i \in {Lookup(d, n)} \cap Ino : Remove(d, n, i) \/ RemoveRefused(d, n, i)
       \/ /\ NewPath(d, n)
          /\ \E i \in Ino \ inode_bits, mode \in {"dir", "file"} :
            \/ Make(d, n, i, mode) \/ MakeInNewBlock(d, n, i, mode)
            \/ MakeNoSpace(d, n, i, mode) \/ MakeFault(d, n, i, mode)
  \/ \E f \in Files, s \in Sizes :
       \/ Truncate(f, s)
       \/ \E lo \in 0 .. (s - 1), v \in Payload :
            Write(f, lo, s, v) \/ WriteGrows(f, lo, s, v)
  \/ \E f \in Files : \E lo \in 0 .. (itable[f].size + 1) : Read(f, lo)
  \/ WriteRest

CallsSpec == CallsInit /\ [][CallsNext]_callvars

-----------------------------------------------------------------------------
\* The types of the variables that calls add.
CallsTypeOK ==
  /\ TypeOK
  /\ used \in [Ino -> Int]
  /\ answer \in {"none", "0", "size", "-ENOSPC", "-ENOTEMPTY", "-1", "-errno"}
  /\ todo = Nothing \/ todo.ino \in inode_bits

\* Every offset of a file that does not fill a block is found, whatever the
\* inode's first extent was used for before (a1fs_helper.c:140, 520, 566, 631);
\* in a file of whole blocks it is offset 0 only.
SmallOffsetsFound ==
  Up => \A f \in Files :
    itable[f].size < BlockUnits =>
      \A lo \in 0 .. (itable[f].size - 1) : Found(f, lo)

\* Inodes in use that no entry names.
Lost == inode_bits \ Nodes

\* An inode is lost only to a mkdir or create that finds no block free for its
\* entry (a1fs.c:330, 497), one with each, and nothing brings it back.
LostOnlyWhenFull ==
  [][\/ Lost' = Lost
     \/ /\ free_blocks_count = 0
        /\ \E i \in Ino \ inode_bits : Lost' = Lost \cup {i}]_callvars

\* A write that says it wrote has done so, and the units before it that never
\* were written are zero, not what the block held before (a1fs.c:937, 981-1030).
WritesLand ==
  [][\A f \in Ino :
       todo # Nothing /\ f = todo.ino /\ answer' = "size" =>
         \A u \in 0 .. (todo.hi - 1) :
           Units(f)'[u] = IF u < todo.lo THEN Blank ELSE todo.fill]_callvars

-----------------------------------------------------------------------------
\* "0 on success; -errno on error" (a1fs.c:286, 452): a mkdir or create that
\* answers 0 and took an inode has given it a name.
SuccessHasName == [][answer' = "0" => Lost' \subseteq Lost]_callvars

\* "Errors: none" (a1fs.c:855): a read within the file succeeds.
ReadsSucceed ==
  [][\A f \in Files, lo \in Sizes :
       lo < itable[f].size /\ Read(f, lo) => answer' = "size"]_callvars

\* "exactly the number of bytes requested except on EOF (end of file)"
\* (a1fs.c:847): a read at the end of a file finds nothing there.
ReadsEnd ==
  [][\A f \in Files, lo \in Sizes :
       lo >= itable[f].size /\ lo # 0 /\ Read(f, lo) => answer' = "0"]_callvars

\* "ENOSPC  not enough free space in the file system." (a1fs.c:945): a call
\* answers so when no inode or no block is left.
EnospcIsTrue ==
  [][answer' = "-ENOSPC" => free_inodes_count = 0 \/ free_blocks_count = 0
    ]_callvars
=============================================================================

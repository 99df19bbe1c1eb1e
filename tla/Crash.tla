------------------------------- MODULE Crash -------------------------------
(***************************************************************************)
(* What a killed process leaves behind.  The image is a shared mapping     *)
(* (map.c), so every store of a call is in it at once and stays there when *)
(* the process is killed before the next one; there is no journal, and the *)
(* process that is started again checks the magic number only              *)
(* (fs_ctx.c:34).                                                          *)
(*                                                                         *)
(* A call is here the sequence of its stores, in the order of the source.  *)
(* Nothing else looks at the image while a call runs, so a kill is a step  *)
(* to the image after some of them.  The use is the orderly one of A1fs;   *)
(* once the process was killed, any other call may come, such as the one   *)
(* that was cut short, tried again: then it and those after it run to      *)
(* their end.  Writes are left out, and a name is stored at once.          *)
(***************************************************************************)
EXTENDS A1fs

CONSTANTS
  MaxKills,    \* bound of the model on how often the process is killed ...
  MaxBefore    \* ... and on how often before a call that is not an orderly one

ASSUME CrashAssumption ==
  /\ MaxKills \in Nat /\ MaxBefore \in Nat
  /\ Payload = {}    \* no writes

VARIABLES
  first,   \* i_extent[0] of every inode, in use or left from earlier
  kills,   \* how often the process was killed inside a call
  cut      \* the kinds of calls that it was killed in; "any" when other
           \* calls than the orderly ones have followed

crashvars == <<vars, first, kills, cut>>

CrashInit ==
  /\ Init
  /\ first = [i \in Ino |-> [start |-> 0, count |-> 0]]
  /\ kills = 0
  /\ cut = {}

-----------------------------------------------------------------------------
(* Images and stores.  A store is a place, as a path into the image, with  *)
(* the value that it gets.                                                 *)

Image ==
  [inode_bits |-> inode_bits, block_bits |-> block_bits,
   free_inodes_count |-> free_inodes_count,
   free_blocks_count |-> free_blocks_count,
   itable |-> itable, data |-> data]

Put(img, store) ==
  LET at == store[1] value == store[2]
  IN  CASE Len(at) = 1 -> [img EXCEPT ![at[1]] = value]
        [] Len(at) = 2 -> [img EXCEPT ![at[1]][at[2]] = value]
        [] Len(at) = 3 -> [img EXCEPT ![at[1]][at[2]][at[3]] = value]

\* What becomes of an image after each number of these stores.
Images(img, stores) ==
  LET after[k \in 0 .. Len(stores)] ==
        IF k = 0 THEN img ELSE Put(after[k - 1], stores[k])
  IN  after

\* Bound of the model, not a test in the code: a call that leaves an image with
\* an extent outside the data region is the last one.
Sound(img) ==
  \A i \in img.inode_bits : OwnedBy(img.itable[i].ext) \subseteq Region

Becomes(img) ==
  /\ inode_bits' = img.inode_bits
  /\ block_bits' = img.block_bits
  /\ free_inodes_count' = img.free_inodes_count
  /\ free_blocks_count' = img.free_blocks_count
  /\ free_blocks_count' <= MaxFree
  /\ itable' = img.itable
  /\ data' = img.data
  /\ fs' = IF Sound(img) THEN "up" ELSE "undefined"
  /\ first' = [i \in Ino |-> IF img.itable[i].ext = <<>> THEN first[i]
                             ELSE img.itable[i].ext[1]]
  /\ UNCHANGED job

\* A call either makes all of its stores or is killed after some of them.
Call(kind, stores) ==
  /\ fs = "up" /\ "any" \notin cut
  /\ \/ /\ Becomes(Images(Image, stores)[Len(stores)])
        /\ UNCHANGED <<kills, cut>>
     \/ /\ kills < MaxKills
        /\ \E k \in 1 .. (Len(stores) - 1) : Becomes(Images(Image, stores)[k])
        /\ kills' = kills + 1
        /\ cut' = cut \cup {kind}

-----------------------------------------------------------------------------
(* The parts of calls.                                                     *)

\* Mutant: counts once, after the last bit.
Flips_CountOnce(blocks, by) ==
  [k \in 1 .. Len(blocks) |->
     << <<"block_bits">>,
        FlipBits(block_bits, {blocks[j] : j \in 1 .. k}) >>]
  \o << << <<"free_blocks_count">>, free_blocks_count + by * Len(blocks) >> >>

\* set_bits over these blocks: every bit is followed by its count.
Flips(blocks, by) ==
  [n \in 1 .. (2 * Len(blocks)) |->
     LET k == (n + 1) \div 2
     IN  IF n % 2 = 1
         THEN << <<"block_bits">>,
                 FlipBits(block_bits, {blocks[j] : j \in 1 .. k}) >>
         ELSE << <<"free_blocks_count">>, free_blocks_count + by * k >>]

BlocksOf(e) == [k \in 1 .. e.count |-> e.start + k - 1]

\* The first extent of an inode: last_used_extent comes before its members.
FirstExtent(i, r, n) ==
  << << <<"itable", i, "ext">>, <<first[i]>> >>,
     << <<"itable", i, "ext">>, << [first[i] EXCEPT !.start = r] >> >>,
     << <<"itable", i, "ext">>, << [start |-> r, count |-> n] >> >> >>

TakenInode(i, mode) ==
  << << <<"inode_bits">>, inode_bits \cup {i} >>,
     << <<"free_inodes_count">>, free_inodes_count - 1 >>,
     << <<"itable", i, "mode">>, mode >>,
     << <<"itable", i, "size">>, 0 >>,
     << <<"itable", i, "ext">>, <<>> >>,
     << <<"itable", i, "num_entries">>, 0 >> >>

\* Mutant: counts the entry before it is there.
EntryStores_CountFirst(d, before, b, k, n, i) ==
  << << <<"itable", d, "num_entries">>, before + 1 >>,
     << <<"data", b, k>>, [ino |-> -1, name |-> n] >>,
     << <<"data", b, k>>, [ino |-> i, name |-> n] >> >>

\* The entry: its name, its number, the count of the directory.
EntryStores(d, before, b, k, n, i) ==
  << << <<"data", b, k>>, [ino |-> -1, name |-> n] >>,
     << <<"data", b, k>>, [ino |-> i, name |-> n] >>,
     << <<"itable", d, "num_entries">>, before + 1 >> >>

Marked(b) ==
  [k \in 1 .. BlockUnits |->
     << <<"data", b, k - 1>>, [data[b][k - 1] EXCEPT !.ino = -1] >>]

\* Mutant: keeps the extents.
ResetInode_KeepsExtents(i) ==
  << << <<"itable", i, "size">>, 0 >>,
     << <<"itable", i, "num_entries">>, 0 >> >>

ResetInode(i) ==
  << << <<"itable", i, "size">>, 0 >>,
     << <<"itable", i, "ext">>, <<>> >>,
     << <<"itable", i, "num_entries">>, 0 >> >>

\* Mutant: flips the bit of the inode without looking at it.
Leave_Unchecked(d, i, freed) ==
  LET found == Naming(itable[d].ext, i)
      p == FirstOf(found)
  IN  << << <<"inode_bits">>, FlipBits(inode_bits, {i}) >>,
         << <<"free_inodes_count">>, free_inodes_count + 1 >> >>
      \o IF found = {} THEN <<>>
         ELSE << << <<"data", p[2], p[3]>>, Vacancy >>,
                 << <<"itable", d, "num_entries">>, itable[d].num_entries - 1 >>,
                 << <<"free_blocks_count">>, free_blocks_count + freed + 1 >> >>

\* The end of rmdir and unlink, when `freed' blocks have been counted: the bit
\* of the inode, then the entry of the parent.
Leave(d, i, freed) ==
  LET ext == IF d = i THEN <<>> ELSE itable[d].ext
      entries == IF d = i THEN 0 ELSE itable[d].num_entries
      found == Naming(ext, i)
      p == FirstOf(found)
  IN  IF i \notin inode_bits THEN <<>>
      ELSE << << <<"inode_bits">>, inode_bits \ {i} >>,
              << <<"free_inodes_count">>, free_inodes_count + 1 >> >>
           \o IF found = {} THEN <<>>
              ELSE << << <<"data", p[2], p[3]>>,
                         [At(data, p) EXCEPT !.ino = -1] >>,
                      << <<"data", p[2], p[3]>>, Vacancy >>,
                      << <<"itable", d, "num_entries">>, entries - 1 >>,
                      << <<"free_blocks_count">>,
                         free_blocks_count + freed + 1 >> >>

\* zero_out_blocks over a file's first blocks.
Zeroing(r, s) ==
  [k \in 1 .. BlocksFor(s) |->
     << <<"data", r + k - 1>>,
        [u \in Slots |-> IF (k - 1) * BlockUnits + u < s THEN Blank
                         ELSE data[r + k - 1][u]] >>]

-----------------------------------------------------------------------------
(* The calls.                                                              *)

MakeStored(d, n, i, mode) ==
  /\ NewPath(d, n) /\ free_inodes_count # 0
  /\ i \notin inode_bits /\ 0 .. (i - 1) \subseteq inode_bits
  /\ LET t == WithInode(i, mode)
         ext == t[d].ext
         Entered2(b, k) == EntryStores(d, t[d].num_entries, b, k, n, i)
     IN  \/ /\ Vacant(ext, data) # {}
            /\ LET p == FirstOf(Vacant(ext, data))
               IN  Call("entry", TakenInode(i, mode) \o Entered2(p[2], p[3]))
         \/ /\ ext = <<>>
            /\ \E r \in Region :
                 /\ GetAvailableBlock(block_bits, free_blocks_count, 1, r)
                 /\ Call("block",
                         TakenInode(i, mode) \o FirstExtent(d, r, 1)
                           \o Marked(r) \o Flips(<<r>>, -1) \o Entered2(r, 0))
         \/ /\ ext = <<>>
            /\ GetAvailableBlock(block_bits, free_blocks_count, 1, -1)
            /\ Call("entry", TakenInode(i, mode))

RmdirStored(d, n, i) ==
  /\ OldPath(d, n, i, "dir")
  /\ itable[i].num_entries = 0
  /\ Call("rmdir", ResetInode(i) \o Leave(d, i, 0))

UnlinkStored(d, n, i) ==
  LET ext == itable[i].ext
      blocks == IF ext = <<>> THEN <<>> ELSE BlocksOf(ext[1])
  IN  /\ OldPath(d, n, i, "file")
      /\ Clears(ext, Len(ext))
      /\ Call("unlink",
              Flips(blocks, 1) \o ResetInode(i) \o Leave(d, i, Len(blocks)))

\* truncate of a file without blocks ...
GrowStored(f, s) ==
  LET n == BlocksFor(s)
  IN  /\ itable[f].ext = <<>> /\ s > 0 /\ s # itable[f].size
      /\ \E r \in Region :
           /\ GetAvailableBlock(block_bits, free_blocks_count, n, r)
           /\ Run(r, n) \subseteq Region
           /\ Call("grow",
                   FirstExtent(f, r, n)
                     \o Flips(BlocksOf([start |-> r, count |-> n]), -1)
                     \o Zeroing(r, s)
                     \o << << <<"itable", f, "size">>, s >> >>)

\* ... and of one that has blocks, to 0, which frees them from the last on.
ClearStored(f) ==
  LET e == itable[f].ext[1]
      m == BlocksFor(itable[f].size)
      last == [k \in 1 .. (IF m < e.count THEN m ELSE e.count) |->
                 e.start + e.count - k]
  IN  /\ 0 \in Sizes /\ itable[f].ext # <<>> /\ itable[f].size > 0
      /\ Call("clear",
              Flips(last, 1)
                \o << << <<"itable", f, "ext">>, <<>> >>,
                      << <<"itable", f, "size">>, 0 >> >>)

StoredCall ==
  \/ \E d \in Dirs, n \in Names, i \in Ino :
       \/ \E mode \in {"dir", "file"} : MakeStored(d, n, i, mode)
       \/ RmdirStored(d, n, i) \/ UnlinkStored(d, n, i)
  \/ \E f \in Files :
       ClearStored(f) \/ \E s \in Sizes : GrowStored(f, s)

\* An orderly call after which nothing is said of the image: it leaves it, or
\* does not return.
Ends ==
  /\ "any" \notin cut
  /\ \/ \E d \in Dirs, n \in Names, i \in Ino :
          itable[d].ext = <<>> /\ AddEntryFault(d, n, i, "file")
     \/ \E f \in Files, s \in Sizes :
          itable[f].ext = <<>> /\ (ExtendFault(f, s) \/ ExtendSpins(f, s))
  /\ UNCHANGED <<first, kills, cut>>

\* truncate to 0 of the file that a kill inside such a call has left with its
\* size and no extent: make_data_blocks is asked for 0 blocks, get_available_bit
\* finds them at 0, and the file gets an extent of none.
EmptyAgain(f) ==
  /\ fs = "up" /\ 0 \in Sizes
  /\ itable[f].ext = <<>> /\ itable[f].size > 0
  /\ itable' = [itable EXCEPT ![f].ext = << [start |-> 0, count |-> 0] >>,
                              ![f].size = 0]
  /\ UNCHANGED <<bitmaps, counters, data, fs, job>>

NextOrEmpty == Next \/ \E f \in Files : EmptyAgain(f)

\* After a kill: any call of A1fs, and on the image that it leaves any other.
AnyCall ==
  /\ kills \in 1 .. MaxBefore
  /\ NextOrEmpty
  /\ cut' = cut \cup {"any"}
  /\ UNCHANGED <<first, kills>>

CrashNext == StoredCall \/ Ends \/ AnyCall

CrashSpec == CrashInit /\ [][CrashNext]_crashvars

-----------------------------------------------------------------------------
\* The stores of a call that is not killed add up to what A1fs says of it,
\* whatever was killed before it: its actions are the calls of the code seen
\* whole, and orderly ones until the first kill (a1fs.c:288-611, 676-690,
\* 799-833).
WholeCallsAgree ==
  [][kills' = kills /\ "any" \notin cut'
       => IF kills = 0 THEN NextOrderly ELSE Next]_vars

\* However often calls were killed and whatever call was made since, the inode
\* counter is off by one at most for every kill: a kill comes between a bit
\* and its count once, and rmdir and unlink look at the bit before they flip it
\* again (util.h:144-151, a1fs.c:375, 552).
InodeDrift ==
  free_inodes_count - (NInodes - Cardinality(inode_bits)) \in -kills .. kills

\* The free-block counter understates what the bitmap has left by one at most
\* for every kill, as long as the use is orderly otherwise, so kills cost a
\* later call one block each of those that are left (util.h:155-172: set_bits
\* counts after every bit).  It is the retry of the truncate that was cut short
\* that ends this: it may be given an occupied block (a1fs_helper.c:256).
FreeDrift ==
  Up /\ "any" \notin cut =>
    free_blocks_count >= DataBlocks - Cardinality(block_bits) - kills

\* Kills inside a mkdir or create that needs no new block never make a name
\* lead astray: the inode and its bit are stored before the entry, the name
\* before the number, and the count comes last, so it is a count that falls
\* short, by one for a kill (a1fs.c:304-330, a1fs_helper.c:375-386).
NamesSurvive ==
  cut \subseteq {"entry"} =>
    /\ NoDangling /\ Unshadowed
    /\ Up => \A d \in LiveDirs :
         Cardinality(Live(d)) - itable[d].num_entries \in 0 .. kills

\* Kills inside rmdir, or inside a mkdir or create that needs no new block,
\* never make two owners of a block, even by way of the entry that is left when
\* its inode is free already (a1fs.c:369-414).
BlocksSurvive == cut \subseteq {"entry", "rmdir"} => ExclusiveBlocks
=============================================================================

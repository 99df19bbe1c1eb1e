-------------------------------- MODULE Mkfs --------------------------------
(***************************************************************************)
(* The life of an image file: mkfs (mkfs.c) formats it, in the order of    *)
(* its stores and with what each failure leaves behind; a mount (map.c,    *)
(* fs_ctx.c) takes any image whose magic number is there; calls fill it.   *)
(* Both programs work on a shared mapping: a process killed on the way     *)
(* leaves what it has stored.  One program at a time has the image.        *)
(***************************************************************************)
EXTENDS Layout, FiniteSets

CONSTANTS
  Counts,   \* arguments of -i
  Noise,    \* what sb_free_blocks_count may be in a file never formatted
  NoiseBits \* the bits that may be set there

ASSUME MkfsAssumption ==
  /\ Counts \subseteq Nat \ {0}
  /\ Noise \subseteq Int
  /\ NoiseBits \subseteq Nat

\* Inode numbers and data blocks that some layout has.
Numbers == UNION {0 .. (n - 1) : n \in Counts}
Blocks == 0 .. (Total - 1)

VARIABLES
  magic,      \* sb->magic = A1FS_MAGIC
  place,      \* the superblock's block numbers
  counts,     \* the superblock's counters, and its size in blocks
  inode_bits, block_bits,   \* the bitmaps, as sets of 1 bits
  dirs,       \* the numbers whose inode has the mode of a directory
  pc,         \* where mkfs is, "mounted", or "idle"
  opts,       \* options of the mkfs that runs or ran last
  result      \* what became of it

disk == <<magic, place, counts, inode_bits, block_bits, dirs>>
vars == <<disk, pc, opts, result>>

Options == [n : Counts, force : BOOLEAN, zero : BOOLEAN]
NoPlace ==
  [inode_bitmap |-> 0, block_bitmap |-> 0, inode_table |-> 0, first_data |-> 0]
NoCounts ==
  [size |-> 0, inodes |-> 0, free_inodes |-> 0, free_blocks |-> 0, total |-> 0]

\* Any file whose first bytes are not the magic number, zeros among them.
Init ==
  /\ magic = FALSE
  /\ place = NoPlace
  /\ counts \in {[NoCounts EXCEPT !.free_blocks = v] : v \in Noise}
  /\ inode_bits \in SUBSET (NoiseBits \cap Numbers)
  /\ block_bits \in SUBSET (NoiseBits \cap Blocks)
  /\ dirs = {}
  /\ pc = "idle"
  /\ opts \in [n : Counts, force : {FALSE}, zero : {FALSE}]
  /\ result = "none"

Ends(r) == pc' = "idle" /\ result' = r /\ UNCHANGED opts
At(a, b) == pc = a /\ pc' = b /\ UNCHANGED <<opts, result>>

\* Mutant: asks for -f in no case.
Begin_NeverAsks(o) ==
  /\ pc = "idle"
  /\ opts' = o
  /\ pc' = IF o.zero THEN "wipe" ELSE "format"
  /\ result' = "running"
  /\ UNCHANGED disk

\* main() up to the memset: without -f a file system is left alone.
Begin(o) ==
  /\ pc = "idle"
  /\ opts' = o
  /\ IF magic /\ ~ o.force
     THEN pc' = "idle" /\ result' = "exists"
     ELSE pc' = (IF o.zero THEN "wipe" ELSE "format") /\ result' = "running"
  /\ UNCHANGED disk

\* memset of the whole image, from its first block on.
WipeSuperblock ==
  /\ At("wipe", "wiping")
  /\ magic' = FALSE /\ place' = NoPlace /\ counts' = NoCounts
  /\ UNCHANGED <<inode_bits, block_bits, dirs>>

\* Mutant: clears the superblock only.
WipeRest_Not == At("wiping", "format") /\ UNCHANGED disk

WipeRest ==
  /\ At("wiping", "format")
  /\ inode_bits' = {} /\ block_bits' = {} /\ dirs' = {}
  /\ UNCHANGED <<magic, place, counts>>

\* Mutant: mkfs() formats whatever is there.
IsPresent_Never == FALSE

\* mkfs() starts with a second test, which does not know of -f.
IsPresent == magic
Refuse == pc = "format" /\ IsPresent /\ Ends("refused") /\ UNCHANGED disk

\* Mutant: the root's inode is not counted.
Counted_NoRoot(n) == [counts EXCEPT !.inodes = n - 1, !.free_inodes = n - 1]

\* The inode counts are stored before it is known whether there is room.
Counted(n) == [counts EXCEPT !.inodes = n, !.free_inodes = n]

LayOutFails ==
  /\ pc = "format" /\ ~ IsPresent /\ ~ Accepts(opts.n)
  /\ Ends("no room")
  /\ counts' = IF SuperFits THEN Counted(opts.n) ELSE counts
  /\ place' = IF IbmFits(opts.n) THEN [place EXCEPT !.inode_bitmap = 1] ELSE place
  /\ UNCHANGED <<magic, inode_bits, block_bits, dirs>>

LayOut ==
  /\ At("format", "root")
  /\ ~ IsPresent /\ Accepts(opts.n)
  /\ counts' = Counted(opts.n)
  /\ place' = Placed(opts.n)
  /\ UNCHANGED <<magic, inode_bits, block_bits, dirs>>

\* get_available_bit for the root: the block counter, not yet set, must not be
\* below the -1 that mkfs passes for the number of blocks.
RootFails ==
  /\ pc = "root"
  /\ counts.free_blocks < -1 \/ 0 .. (opts.n - 1) \subseteq inode_bits
  /\ Ends("no root")
  /\ UNCHANGED disk

MakeRoot ==
  /\ At("root", "magic")
  /\ counts.free_blocks >= -1
  /\ \E r \in 0 .. (opts.n - 1) :
       /\ r \notin inode_bits /\ 0 .. (r - 1) \subseteq inode_bits
       /\ inode_bits' = inode_bits \cup {r}
       /\ dirs' = dirs \cup {r}
  /\ counts' = [counts EXCEPT !.free_inodes = @ - 1]
  /\ UNCHANGED <<magic, place, block_bits>>

StoreMagic ==
  /\ At("magic", "finish")
  /\ magic' = TRUE
  /\ UNCHANGED <<place, counts, inode_bits, block_bits, dirs>>

Finish ==
  /\ pc = "finish"
  /\ counts' = [counts EXCEPT !.size = Total, !.free_blocks = NumData(opts.n),
                              !.total = (Total - place.first_data) % Byte]
  /\ Ends("formatted")
  /\ UNCHANGED <<magic, place, inode_bits, block_bits, dirs>>

\* The process that has the image is killed, or unmounts it.
Stop ==
  /\ pc # "idle"
  /\ Ends(IF pc = "mounted" THEN result ELSE "killed")
  /\ UNCHANGED disk

\* fs_ctx_init looks at the magic number only.
Mount ==
  /\ pc = "idle" /\ magic
  /\ pc' = "mounted"
  /\ UNCHANGED <<disk, opts, result>>

\* What calls do to the bitmaps: create and mkdir take the lowest free inode
\* and, when the directory is full, the lowest free block.
Use ==
  /\ pc = "mounted"
  /\ counts.free_inodes # 0 /\ counts.free_blocks >= -1
  /\ \E i \in 0 .. (counts.inodes - 1) :
       /\ i \notin inode_bits /\ 0 .. (i - 1) \subseteq inode_bits
       /\ inode_bits' = inode_bits \cup {i}
       /\ dirs' = dirs \cup {i} \/ dirs' = dirs \ {i}
  /\ \/ /\ counts' = [counts EXCEPT !.free_inodes = @ - 1]
        /\ UNCHANGED block_bits
     \/ \E b \in Blocks :
          /\ counts.free_blocks >= 1
          /\ b \notin block_bits /\ 0 .. (b - 1) \subseteq block_bits
          /\ block_bits' = block_bits \cup {b}
          /\ counts' = [counts EXCEPT !.free_inodes = @ - 1, !.free_blocks = @ - 1]
  /\ result' = "used"
  /\ UNCHANGED <<magic, place, pc, opts>>

Formatting ==
  \/ WipeSuperblock \/ WipeRest \/ Refuse \/ LayOutFails \/ LayOut
  \/ RootFails \/ MakeRoot \/ StoreMagic \/ Finish

Next ==
  \/ \E o \in Options : Begin(o)
  \/ Formatting
  \/ Stop \/ Mount \/ Use

Spec == Init /\ [][Next]_vars

-----------------------------------------------------------------------------
\* Numbers fit into their members: the block numbers into 8 bits.
TypeOK ==
  /\ magic \in BOOLEAN
  /\ place \in [inode_bitmap : 0 .. (Byte - 1), block_bitmap : 0 .. (Byte - 1),
                inode_table : 0 .. (Byte - 1), first_data : 0 .. (Byte - 1)]
  /\ counts \in [size : {0, Total}, inodes : Counts \cup {0}, free_inodes : Int,
                 free_blocks : Int, total : 0 .. (Byte - 1)]
  /\ inode_bits \in SUBSET Numbers
  /\ block_bits \in SUBSET Blocks
  /\ dirs \in SUBSET Numbers
  /\ pc \in {"idle", "wipe", "wiping", "format", "root", "magic", "finish",
             "mounted"}
  /\ opts \in Options
  /\ result \in {"none", "exists", "running", "refused", "no room", "no root",
                 "formatted", "killed", "used"}

\* An image that mounts has a layout fit for it, whatever runs of mkfs failed
\* or were killed on it before: place and number of inodes are stored before
\* the magic number, and never over one (mkfs.c:127, 148-209, 243).
MountsSound == magic => Sound(place, counts.inodes)

\* A successful mkfs -z leaves what A1fs starts from: nothing in use but inode
\* 0, a directory, and counters that say so (mkfs.c:211-247, 279).
FreshImage ==
  result = "formatted" /\ opts.zero =>
    /\ inode_bits = {0} /\ dirs = {0} /\ block_bits = {}
    /\ counts.free_inodes = opts.n - 1
    /\ counts.free_blocks = Total - place.first_data

\* A file system is lost only to a mkfs that was told both to overwrite it and
\* to zero the image (mkfs.c:274, 279).
LostOnlyByForce == [][magic /\ ~ magic' => opts.force /\ opts.zero]_vars

-----------------------------------------------------------------------------
\* "inode table ... must also occupy an integral number of blocks" (a1fs.h:32)
\* and "Calculate number of inode blocks" (mkfs.c:168): the inodes of an image
\* that mounts end before its data region.
TableEnds == magic => TableHolds(place, counts.inodes)

\* "Check if the image already has an initialized superblock" (fs_ctx.c:34):
\* what is mounted has been given its size.
MountsInitialized == pc = "mounted" => counts.size = Total

\* "-f  force format - overwrite existing a1fs file system" (mkfs.c:61): with
\* it no file system that is there stands in the way.
ForceOverwrites == result = "refused" => ~ opts.force

\* "Total data block counts" (a1fs.h:57): as many as the data region has.
TotalsTrue ==
  result = "formatted" => counts.total = Total - place.first_data

=============================================================================

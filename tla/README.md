# A verification development for a1fs

a1fs is a small extent-based file system on FUSE (`src/a1b`): `mkfs.a1fs`
formats an image file, `a1fs` maps the image into memory and serves file-system
calls from it. This directory holds TLA+ modules that model its on-disk state
and the calls that change it, TLC configurations that check them on small
images, and theorems that TLAPS proves for images of every size.

## 1. The system

| Component | Source | State | Operations |
|---|---|---|---|
| Bitmaps | `util.h` | inode bitmap, block bitmap, two free counters in the superblock | `get_available_bit`, `set_bits`, `check_bit_usage` |
| Inode table, extents | `util.h`, `a1fs_helper.c` | per inode: mode, size, `i_extent[12]`, `last_used_extent`, `num_entries` | `create_inode`, `attachable`, `allocate_data_blks`, `make_data_blocks` |
| Directories | `a1fs_helper.c`, `a1fs.c` | blocks of 16 entries (number, name); number -1 is vacant | `inode_lookup`, `add_dentry`, `make_dentry_block`; `mkdir`, `create`, `rmdir`, `unlink` |
| File size | `a1fs.c`, `a1fs_helper.c` | size, extents, block contents | `truncate`, `truncate_helper`, `zero_out_blocks` |
| Read, write | `a1fs.c`, `a1fs_helper.c` | block contents | `read`, `write`, `find_offset_extent` |
| Path walk | `a1fs_helper.c` | none | `get_inode_num` |
| Reporting | `a1fs.c` | modification times | `statfs`, `getattr`, `readdir`, `utimens` |
| mkfs | `mkfs.c` | the image it lays out | `mkfs`, options `-i -f -z` |
| Mount context, mapping, options | `fs_ctx.c`, `map.c`, `options.c` | pointers into the image | `fs_ctx_init`, `map_file`, `a1fs_opt_parse` |

Everything the handlers share is the mapped image: they communicate through
the bitmaps, the inode table and the data region, and have no other state.
`options.c:78` forces single-threaded FUSE, so a handler runs alone from start
to end; two things break the picture of a handler as one step:
`make_data_blocks` has a loop that does not end, and a process killed inside a
call leaves its stores in the shared mapping.

What is hard in this code is therefore long sequences of legal calls and not
interleaving: bitmap, counters, extents, sizes and directory entries are
separate copies of the same facts, updated by separate stores that trust each
other (`set_bits` flips without looking, `rmdir` believes `num_entries`,
`allocate_data_blks` believes `attachable`). What makes each component correct:

* bitmaps: the scan returns a first fit or fails; the counters agree with the
  bitmaps;
* extents: a block belongs to one inode, is marked, and lies in the data region;
  a file has the blocks its size needs;
* directories: live entries name inodes in use, one each; `num_entries` counts
  them; a live entry is found by its name; no call loses another file's entry;
* calls: each returns; a call that cannot be met fails without damage.

`PROJECT.json` lists the hazards line by line with the properties that answer
to them.

## 2. Modules

| Module | Models |
|---|---|
| `Bitmap` | The block bitmap as a set of 1 bits, `set_bits` (`FlipBits`), and `get_available_bit` as a relation (`GetAvailableBlock`) between bitmap, counter, request and result |
| `FirstFit` | The loop of `get_available_bit`, one iteration a step, for arbitrary inputs |
| `A1fs` | The image and the six calls that change it, with everything they call |
| `Namespace` | What the calls promise: a tree of names, and files that hold what was written to them, zeros elsewhere. No blocks, bitmaps or counters |
| `A1fsNamespace` | The refinement mapping from the image of `A1fs` to `Namespace` |
| `Calls` | Orderly use of `A1fs` with the calls that fail, with answers, and with reads and writes at every offset; a growing write is two steps, its truncate and its stores |
| `Crash` | The calls store by store, a kill between any two stores, a remount that repairs nothing, and any call of `A1fs` on what the kill left |
| `Layout` | The arithmetic by which mkfs cuts the image into regions |
| `Mkfs` | The life of an image file: mkfs in the order of its stores, its failures, kills, mounts, use |
| `PathWalk` | `get_inode_num`, one path component a step, over arbitrary directories |
| `FirstFitProofs`, `A1fsProofs`, `DirectoryProofs`, `CallsProofs`, `CrashProofs`, `NamespaceProofs`, `MkfsProofs`, `PathWalkProofs` | The theorems of section 5 |
| `MCA1fs`, `MCCalls`, `MCCrash`, `MCMkfs`, `MCPathWalk` | Values for the constants |

`A1fs` uses `GetAvailableBlock` of `Bitmap` for each allocation, and
`FirstFitProofs` is the reason it may. `Calls` and `Crash` extend `A1fs` and
use its actions or their parts; the property `WholeCallsAgree` of `Crash` says
that its lists of stores add up to the actions of `A1fs`. `Init` of `A1fs` is
what `Mkfs` shows of `mkfs -z` (`FreshImage`), and `Lookup` of `A1fs`, which
takes the parent and the last name, is what `PathWalk` shows of a path whose
prefixes exist.

Operators named `<definition>_<change>` are mutated copies of the definition
that follows them: plausible bugs, none of them used by a specification. For
every property of every passing run one of them, put in the place of its
definition, makes TLC report the property violated (`mutants` in
`PROJECT.json`).

### State

`inode_bits` and `block_bits` are the bitmaps, the counters are the
superblock's, `itable` the inode table and `data` the contents of the data
region. `ext` of an inode is `i_extent[0 .. last_used_extent]`, so an empty
sequence is `last_used_extent == -1`. An inode that mkfs has only zeroed has
`last_used_extent == 0`, hence one extent of no block. `data[b][k]` is the k-th
256-byte slot of block b read as a directory entry. Files are made of the same
slots: a write stores what its bytes spell when they are read as an entry
(`Payload`), which matters because a directory gets recycled blocks without
having them cleared.

`fs` is `"up"`; `"spinning"` inside the loop of `make_data_blocks`, with `job`
the inode and the number of blocks it asks for; or `"undefined"` after a store
outside the image, over the members after `i_extent[12]`, or a `memset` with a
negative length. Nothing follows `"undefined"`, which is why the runs do not
check deadlock; properties about the image are stated for `fs = "up"`.

### Actions

| Call | Actions | Code |
|---|---|---|
| `mkdir`, `create` | `AddEntry` (a vacant entry exists), `AddEntryInNewBlock`, `AddEntryNoSpace` (fails, the inode stays taken), `AddEntryFault` | `a1fs.c:288-336, 454-503`, `a1fs_helper.c:291-398` |
| `rmdir` | `Rmdir` | `a1fs.c:352-433` |
| `unlink` | `Unlink`, `UnlinkGivesUp` (an extent's first bit is clear) | `a1fs.c:518-611` |
| `truncate`, and `write` beyond the end | `Extend`, `FillLastBlock`, `Shrink`, `ExtendFault`, `ExtendSpins` | `a1fs.c:664-841`, `a1fs_helper.c:400-586` |
| the loop of `make_data_blocks` | `SpinDeeper`, `SpinAllocates`, `SpinOverflows` | `a1fs_helper.c:400-439` |
| `write` within the file | `WriteInPlace` | `a1fs.c:955-1030` |

FUSE calls a handler only after `getattr` has resolved the path; `Dirs`,
`NewPath` and `OldPath` state what it has then checked. In `A1fs` a call that
fails without a change (no inode left, `ENOTEMPTY`, the growth to a size equal
to `bytes_til_full`) is no step. `SpecOrderly` is `Spec` without the calls that
reach the defects of `attachable` and of `truncate` on a file that has blocks:
directories stay within their block, a file gets its size once and loses it at
once. It shows that the remaining code is right. A `truncate` of an empty file
for which no run of blocks exists is in it (`ExtendSpins`) as the last call: it
never returns, and what it does from then on is left to `Next`.

`Calls` is that orderly use again. Its actions are those of `A1fs` with an
answer (`Make`, `MakeNoSpace`, `Remove`, `Truncate`, ...), and those that only
answer (`MakeNoInode`, `RemoveRefused`, `GrowthRefused`, `Read`). `Fails` is
`return -errno` where no code has set `errno`: 0 or not. `used` is
`i_extent[0].size`, from which `find_offset_extent` tells whether the first
extent has an offset (`Found`); when it does not, the code moves a pointer and
continues with whatever number lies there (`NotFound`: it fails, or it leaves the
extents of the inode, which is the state `"undefined"`). `WriteGrows` and
`WriteRest` are the two halves of a write over the end of the file. `Read` is a
read at one offset, the end of the file and one behind it included: behind the
end it answers 0, at the end it goes on to the lookup, and the size asked for is
never cut, so the answer `"size"` is all of it. When the lookup finds an offset
that the extent's blocks do not have, or the inode has no extent, the loop takes
what follows in the inode for extents (`ReadPastExtents`).

`Crash` writes a call as the sequence of its stores in the order of the source
(`MakeStored`, `RmdirStored`, `UnlinkStored`, `GrowStored`, `ClearStored`). No
other process looks at the image while a call runs, so a kill is a step to the
image after some of the stores (`Call`); mounting it again checks the magic
number and changes nothing. `first` keeps what `i_extent[0]` held, because
`last_used_extent` is stored before it and shows the old value for a moment.
`Ends` is an orderly call that leaves the image or does not return.

A kill can leave an image on which the call that was cut short, tried again, is
no orderly one: `truncate` killed while it grew a file leaves it with an extent
and size 0, and `truncate` tried again takes the path for files that have blocks,
where `attachable` may give it an occupied block, clear its bit and count it
down. `AnyCall` is every call of `A1fs`, orderly or not, and `EmptyAgain`, the
`truncate` to 0 of a file that a kill has left with its size and no extent. After
it `cut` holds `"any"`, further calls are calls of `A1fs` too, and kills end.

`Mkfs` is one action per group of stores of `mkfs.c` (`WipeSuperblock`,
`WipeRest`, `LayOut`, `MakeRoot`, `StoreMagic`, `Finish`), one per exit
(`Refuse`, `LayOutFails`, `RootFails`), and `Stop`, which is a kill at any of
them. `PathWalk` has one action per component of the path.

## 3. Abstractions and bounds

* One unit of size is one directory entry. A block has 16 of them in the code
  and `BlockUnits` (1 to 4) in the runs; an inode has 12 extents in the code
  and `MaxExtents` (1 or 2) in the runs. All arithmetic of `truncate` is in
  blocks and rests, so 4 units tell apart an empty block, a full one and two
  different rests. `Calls` has 3, and sizes on both sides of a block.
* `TotalBlocks` is 7 and `DataBlocks` 3: four blocks of metadata, as in the
  smallest image. The distance between the two matters, as bits from 3 to 6
  are what `get_available_bit` hands out by mistake. Three blocks suffice for
  two owners with a hole between them.
* `NInodes` is 3 or 4 and there are two names, one of which can be used in two
  directories: a directory in the root with a file in it, and one more of each.
* `MaxFree` bounds how far the free-block counter drifts above the bitmap, in
  the guards of `Removed`, `UnlinkGivesUp` and `Shrink`, and of every step of
  `Crash`. Where it is 4 or 5 it is above `DataBlocks`, so those runs reach
  states where the space check of `util.h:73` no longer protects.
* `Sizes` are the sizes callers ask for. Over arbitrary use they stay few: in
  `files` two sizes within a block and one above it; in `spin`, whose blocks
  hold one unit, nothing and whole blocks. The others take sizes up to and above a block; `crash` takes
  nothing and one above.
* `Payload` is what a write stores: text (represented by `NInodes`, no number of
  an inode, in `orderly` under a name that is also a file's) and zeros. Bytes
  that spell a number of an inode of the image are not modelled. `crash`
  and `spin` have no writes.
* `MaxKills` is 2 in `crash`: one kill to leave an image that no call leaves,
  another in calls that work on it. `MaxBefore` bounds how many kills may come
  before a call that is not orderly: one, as no property but `InodeDrift` says
  anything of what follows such a call.
* `calls` explores states that differ only in the last answer once (`MCView`): no
  guard and no property looks at an answer before a step.
* Names are model values: comparing and copying them is all the code does, so
  they are interchangeable, and the runs whose properties are invariants or
  action properties use that symmetry where `Payload` names none of them. No
  run with a liveness property does.
* `Mkfs`: 7 blocks, 2 bits to a block of a bitmap, an `InodeSize` of 4, two
  inodes to a block, and 1, 4 or 5 inodes: one inode fits a block, 4 do not
  though mkfs thinks so, and 5 leave no room.
  `Byte` is 8, more than any number of a block, as in an image of up to 256
  blocks. `Noise` is what a file that was never formatted holds in place of the
  block counter, on both sides of the -1 that is compared with it. `MCLarge.cfg`
  has 12 blocks, more than `Byte`.
* `PathWalk`: three inodes and paths of up to three components over two names.
* The regions of the image do not overlap in `A1fs`, which mkfs gives for up to
  16 inodes; with more they do (run `table`).
* A run of `Crash` ends with an image that has an extent outside the data region
  (`Sound`): that is a bound of the model, the code has no such test.

In `Crash` besides: kills inside calls that are not orderly and after them,
inside the request loop of `make_data_blocks`, inside a call that leaves the data
region, and inside writes are left out; there are no writes (`Payload = {}`); a
name is stored at once; the stores are those of the source in its order, which
the C standard does not promise of a killed process but an unoptimised build
gives.

Fairness: `FairSpec` of `FirstFit`, of `A1fs` (run `spin`) and of `PathWalk` says
that the one thread, once inside a loop, keeps running (`WF` of the next
iteration); `-s` of `options.c:78` makes it the only one, and nothing in the
loops waits. No fairness is assumed of callers.

Only `mkfs` is checked for deadlock. The others may stop: `FirstFit` and `PathWalk`
when they have returned, `A1fs`, `Calls` and `Crash` after a store out of bounds
and at the bounds on counters and kills. That loops do not stop early is what
the liveness properties say.

## 4. Runs

Passing:

| Run | Question | What it shows |
|---|---|---|
| `firstfit` | Does the scan compute what the model of the file system uses? | `ScanCorrect` for all inputs at 6 blocks, and it ends (`ScanReturns`) |
| `orderly` | Is the file system right in orderly use? | `ExclusiveBlocks`, `NoDangling`, `EntryCount`, `Unshadowed`, `SizeFits`, `FreeNeverUnderstated`, `GhostsFromFiles`; as action properties `EntriesPersist`, `OneWriter`, `OnlyRmdirLeaks` |
| `files` | What survives arbitrary truncates and writes? | `TypeOK`, `InodeAccounting`, `InsideImage` until a call has gone wrong; a file that grows over the end of a partly filled block keeps its contents (`GrowthKeepsContents`) |
| `calls` | Do callers get what was promised? | `ImplementsNamespace`: the image implements the tree of names and contents, failing calls included; an inode is lost only when no block is free (`LostOnlyWhenFull`); a write that says it wrote has written, over zeros (`WritesLand`); which offsets are found (`SmallOffsetsFound`) |
| `crash` | What can a kill do? | The inode counter drifts by one for each kill, whatever call follows (`InodeDrift`), the block counter as long as the calls are orderly (`FreeDrift`); kills in a `mkdir` or `create` without a new block leave every name right (`NamesSurvive`); kills in those and in `rmdir` leave blocks with one owner (`BlocksSurvive`); on every image that a kill has left, the stores of a call add up to the call, and to one of orderly use until the first kill (`WholeCallsAgree`) |
| `mkfs` | What can be mounted? | Only images with a sound layout (`MountsSound`); a fresh image is empty (`FreshImage`); a file system is lost only to `-f -z` (`LostOnlyByForce`) |
| `path_walk` | What does a path resolve to? | What it stands for, if only its last component is missing (`WalkResolves`), and the walk ends (`WalkReturns`) |

`Unshadowed` deserves a word: stale names do stay in vacant entries and
`inode_lookup` does not skip them; it holds because `add_dentry` takes the first
vacant entry, and because FUSE does not create a name whose stale entry makes
`inode_lookup` answer -1 without overwriting the first such entry.

The kinds of calls that `NamesSurvive` and `BlocksSurvive` leave out do break
them. A kill inside `rmdir` or `unlink`, between freeing the inode and vacating
the entry, leaves an entry that names the next owner of the number. A kill
inside the allocation of a first extent leaves the extent of an earlier owner,
or blocks whose bits are clear; and `unlink` and `truncate` clear bits before
they drop the extents. In time a kill inside `truncate` harms names as well: the
file that it leaves with an earlier owner's extent is unlinked, which clears
the bits of a block that may be a directory's by now, and the next owner of that
block zeroes it. It takes a growth over two blocks and an `unlink` after the kill
(`Sizes` of `crash` has such a growth).

Violations, each a disagreement of the code with what is written in it:

| Run | Claim | What the code does |
|---|---|---|
| `attach` | `a1fs_helper.c:256` (`AddsFreeBlocks`) | extends an extent when the next block is occupied |
| `outside` | `a1fs.c:658` (`StaysInImage`) | hands out blocks past the end of the image |
| `spin` | `a1fs.c:658`, `a1fs_helper.h:100` (`SpinReturns`) | a `truncate` that finds no run for its blocks asks for ever, up to the 13th extent, which is stored over other members |
| `read` | `a1fs.c:855` (`ReadsSucceed`) | does not find offsets, so a read inside a file fails |
| `table` | `mkfs.c:168` (`TableEnds`) | the table of more inodes than a block holds runs into the data region |

In `spin` the counterexample ends in the state after the 13th extent: that is the
only way on that the loop has as long as the model speaks of it. From then on
`last_used_indirect` is no longer -1, and whether the loop goes on or the
process dies is undefined; nothing makes it return.

The `read` run comes to the pointer arithmetic of `find_offset_extent`, in a file
of one block and a rest (4 units in blocks of 3). The sizes kept in extents make
it worse: after `truncate` to n blocks and a rest r the extent's size is 2r less
n blocks, -1 in the run, so no offset in a second block is ever found; after
`truncate` to whole blocks, which the sizes of the run do not have, it is minus
the number of bytes cleared, and no offset but 0 is found. `SmallOffsetsFound` says what remains: every offset
of a file smaller than a block.

Configurations beside those runs show further disagreements, one each. They are
run by hand (`tlc -config MCShrink.cfg MCA1fs`, and so on); TLC finds each
property violated within seconds.

| Configuration | Claim | What the code does |
|---|---|---|
| `MCShrink.cfg` of `MCA1fs` | `a1fs.c:788` (`ShrinksToDesired`) | a file shrunk to a part keeps the blocks whose bits were cleared |
| `MCCredit.cfg` of `MCA1fs` | `a1fs.h:61` (`FreeNeverOverstated`) | removing an entry counts a block as free that stays in use |
| `MCExtend.cfg` of `MCA1fs` | `a1fs.c:650` (`ExtendsWithZeros`) | a file of whole blocks grows by one block too few, and its last block is cleared |
| `MCNegative.cfg` of `MCA1fs` | `a1fs.c:649` (`StaysInImage`) | a growth within the last block clears a negative number of bytes |
| `MCEntries.cfg` of `MCA1fs` | `a1fs_helper.c:209` (`EntriesPersist`) | a directory that gets a second block next to its first loses the entries of the first |
| `MCPast.cfg` of `MCA1fs` | `a1fs_helper.h:116` (`ClearsOwnBlocks`) | clears a block behind a lengthened extent |
| `MCUnlink.cfg` of `MCA1fs` | `a1fs.c:513` (`UnlinkIsWhole`) | frees the first extent, gives up at the second and keeps the file |
| `MCAnswers.cfg` of `MCCalls` | `a1fs.c:286` (`SuccessHasName`) | a `mkdir` or `create` without a free block keeps the inode and may answer 0 |
| `MCReadEnd.cfg` of `MCCalls` | `a1fs.c:847` (`ReadsEnd`) | a read at the end of a file answers the number of bytes asked for |
| `MCEnospc.cfg` of `MCCalls` | `a1fs.c:945` (`EnospcIsTrue`) | a growth to a size equal to `bytes_til_full` is refused for lack of space while there is space |
| `MCHalf.cfg` of `MCMkfs` | `fs_ctx.c:34` (`MountsInitialized`) | a mkfs killed after the magic number leaves an image that mounts without size and counters |
| `MCForce.cfg` of `MCMkfs` | `mkfs.c:61` (`ForceOverwrites`) | `-f` without `-z` refuses an image that has a file system |
| `MCLarge.cfg` of `MCMkfs` | `a1fs.h:57` (`TotalsTrue`) | the number of data blocks is stored in 8 bits |
| `MCMissing.cfg` of `MCPathWalk` | `a1fs.c:152` (`MissingIsMissing`) | a path with a missing component in the middle resolves as if it were not there |

One more disagreement is visible in a definition only: without `-z`
mkfs keeps the old bitmaps under new counters (`Finish`).

## 5. Proofs

Assumed: the bounds on the constants stated in the modules' ASSUMEs (an image with
its four metadata blocks, at least one inode, one unit a block and one extent
an inode; for `Mkfs` a non-empty image and positive sizes; for `PathWalk` an
inode 0). Where a theorem needs more it says so.

* `FirstFitProofs!ScanInvariant`: `[]ScanCorrect` for every size of
  image (`ScanTypeCorrect` is the types). `ScanCorrect` speaks of the end of the
  loop only, so the proof carries what the loop knows: `avail .. i - 1` is the
  run of `count` clear bits just before `i`, and no run long enough starts below
  `avail`.
* `A1fsProofs!TypeCorrect`: `[]TypeOK`, which is inductive. One lemma for each
  action, on lemmas about what the operators return (`Grown`, `Pairs`,
  `Flipped`, ...). Two facts are not plain typing: the counter stays a natural
  number because `get_available_bit` answers only within it, and the recursion
  of `make_data_blocks` never goes below a request for no block, because such a
  request is always met.
* `A1fsProofs!InodesAccountedFor`: `[]InodeAccounting`, inductive together with
  `TypeOK`. The lemmas are stated as a balance that a step keeps (`AccountKept`),
  so that `CrashProofs` may use them on images where it is not 0.
* `A1fsProofs!BlocksInsideImage`: `Spec => []InsideImage`. As far as blocks go
  every action is one of three effects: `Untouched`, `Frees` (flips bits of
  blocks of one inode) and `Takes` (grows one inode by a run). The invariant is
  `Inside`: `InsideImage` with all inodes in place of those in use, because a
  call may reach an inode that the bitmap calls unused. The step that
  needs it is lengthening an extent: `attachable` asks for an occupied block,
  and an occupied block lies in the data region by induction. A run handed out
  past the end is the other case; clearing it faults, as `ZeroedBlocks` covers
  the run that was taken, and the state is then no longer `"up"`.
* `A1fsProofs!BlocksExclusive`: `SpecOrderly => []ExclusiveBlocks`. The
  invariant is `Exclusive`, again over all inodes, with at most one extent each;
  so the proof needs nothing about which inodes a path can reach. An inode that
  takes blocks has none before, so lengthening does not occur; what it takes is
  clear, as the only occupied block `get_available_bit` hands out, `max_index`,
  is outside the data region, which `Inside` excludes. An inode that
  frees blocks frees all it has. `OrderlyIsUse` (`SpecOrderly => Spec`) carries
  `TypeOK` and `Inside` over.

### Directories and files in orderly use

`DirectoryProofs` proves of `SpecOrderly` the invariants `NothingDangles`,
`EntriesAreCounted`, `NamesAreFound`, `SizesAlwaysFit`, `FreeBlocksCounted` and
`GhostsAreText`, and the action properties `EntriesAlwaysPersist`,
`OneWriterOnly` and `LeaksOnlyByRmdir`, all from one inductive invariant: `Tidy`,
on top of `TypeOK`, `Inside` and `Exclusive`. None of its parts is inductive
without the others:

* that the directory a call works on is in use rests on the entries
  (`RootInUse`, `EntriesInUse`), as `Dirs` is what entries lead to;
* that removing an inode leaves no entry behind needs `OneEntryEach`, and that
  its entry is found, and not a stale one of its name, needs `EntriesFirst`:
  `NamesAreFound` is the weaker statement that the lookup meets the right number;
* `ShortBy(0)`, exact counts, makes ENOTEMPTY right, and with it that `rmdir` drops no live
  entries;
* that a write stays out of directories, and that `unlink` frees all that it
  took, rests on `SizesFit` and `Exclusive`;
* that a directory's new block spells no live-looking name rests on `FreeText`:
  a block that a directory can get, or give back, holds text only.

Whether a place comes first among several is a minimum over an order
(`Before`); that one exists is proved by the well-foundedness of the strict
subset order on finite sets, not by induction on a cardinality. As far as
entries go every action is one of four effects: an entry is made (`Enters`), an
inode loses its name (`Removes`), one inode's content changes (`Changes`), or an
inode is taken without a name (`Unnamed`).

### The refinement

`CallsProofs!OrderlyUseIsANamespace` proves `SpecOrderly => ImplementsNamespace`
step by step: `Enters` is `Make`, `Removes` is `Remove`, `Changes` is `Resize` or
`Write`, and `Unnamed` and every step out of `"up"` stutter. What makes it work is
`Tidy` in the state before and after: the nodes of the mapping are exactly the
named inodes, a new name was not there before, and the units of every file but
one are untouched. The arithmetic is in `UnitBlock` and its companions: unit `u`
of a file is slot `u % BlockUnits` of block `u \div BlockUnits` of its one extent.
`NamesInUseFormATree` then carries `NamespaceProofs!NamesFormATree` over to the
image: its theorem is instantiated with the mapping.

The same module proves the calls: `CallsTypeCorrect`, `OffsetsFound`,
`InodesLostOnlyWhenFull`, `WritesAlwaysLand` and `CallsAreANamespace`. A step of
`CallsSpec` is one of seven kinds (it makes a name, takes an inode without one,
drops a name, empties a file, gives a file its size, stores within one block, or
changes nothing of the image), and each keeps `Tidy`, including the store at an
offset, which is no step of `A1fs`. Two invariants are needed besides:
`SizesKnown` (by what an offset is looked for, once the file has a size) and
`Pending` (in the middle of a growing write the file has its new size, is zero,
and lies in one block), without which the second half could miss.

### Kills

`CrashProofs!InodesDriftByKills` and `BlocksDriftByKills`: for every number of
kills, and every length of the calls' lists of stores, the inode counter is off
by `kills` at most, and in orderly use the free-block counter understates by
`kills` at most. The invariant is `Always`: the types and the bound on inodes
(`Near`), and, until there is a call that is not orderly, the bound on blocks as
well (`Drifted`, with `CrashTypes`). For the calls that are not orderly, `Near` is
the balance of `A1fsProofs` (`AccountKept`), as they take and free an inode with
its count in one step. The bound on blocks is not claimed after them: the retry of
a killed `truncate` can break it. An orderly call is the list of its stores, so
most of the proof is about lists:

* `Images` is a recursive function; that it has a value is proved from the
  well-foundedness of `<` on the naturals (`Along`, `ImagesUnfold`), and what a
  list does to an image follows store by store.
* A list *settles* (`Settles`) if, wherever it is cut, the inode counter has
  moved against its bitmap by one at most, and the block counter has lost one at
  most, and if neither has lost anything at the end. Lists that settle, one after
  the other, settle (`SettlesJoin`).
* Stores of other members are quiet; `set_bits` settles because every bit is
  followed by its count; taking and freeing an inode settle because they look at
  the bit first. So every list of a call settles, a kill adds one, and a whole
  call nothing.

`CrashProofs!WholeCallsAlwaysAgree` ties `Crash` to `A1fs`: the image after the
last store of a call that is not killed is the one that the action of `A1fs`
leaves. For each list there is a lemma about its last image (`TakenFinal`,
`EntryFinal`, `FlipsFinal`, `ResetImage`, `LeaveFinal`, `ZeroingFinal`, ...),
whatever its length, and for each call one that puts them together (`AddWhole`,
`UnlinkWhole`, `GrowWhole`, ...). `A1fs` computes from the image as it was
what the code reads along the way; the proof is where it is seen that the
stores in between do not change what is read later: the entry that `Leave`
looks for after the inode was reset, the places of a directory that has just
been created. The invariant (`Standing`, until there is a call that is not
orderly: `Followed`) needs `Running`, that a process which runs has no
extent that leaves the image, and, for the images without kills, `Orderly`: only
there is the directory of a call known to be in use.

`CrashProofs!BlocksAlwaysSurvive` rests on it. Whole calls are the effects of
`A1fsProofs` (`WholeExclusive`), on images too whose names no longer are a tree,
which is why `Exclusive` was stated over all inodes. The lists of the kills that
the property allows consist of stores that flip no block's bit and give no inode
another extent than none (`Mild`), so a kill is `Untouched` wherever it comes.

`CrashProofs!NamesAlwaysSurvive` carries what names and contents rest on (`Steady`:
`WellNamed`, `Contents` and the blocks) past kills. The lemmas of `DirectoryProofs`
are stated over `Steady`, which leaves out the two parts of `Tidy` that such a kill
breaks: that counts are exact, and that a vacant entry of a directory holds text,
as the name of the killed call is left in one. Counts become `ShortBy(kills)`.
`KillBegins` looks at every image of the list: up to the name the inode is taken
and bare, and no name leads to it (`Begins`); with the number in place it is the
entry of the whole call without its count (`Joins`). `Begins` needs `FreeBare`,
that a free inode has neither blocks nor size nor entries, because a kill before
the inode's members are set leaves those of its last owner. A directory whose
count falls short may be removed with names still in it; these then lead nowhere,
and their inodes are lost, which is why the counts are no part of `Steady`.

### Paths and images

* `NamespaceProofs!NamesFormATree`: in `Namespace` every node has one name and
  is below the root, stated without paths: every set of nodes without the root
  has a name that leads into it from outside (`Rooted`). A new node is the end
  of its own name; removing a node that holds no names takes none away that
  lead into a set without it.
* `MkfsProofs!ImageTyped`, `LayoutsSound`: whatever runs of mkfs failed or were
  killed, types are kept; an image that mounts, of up to 256 blocks, has
  disjoint, non-empty regions with a bit for each inode and block, but not
  necessarily an inode table that fits its region (run `table`). The invariant says which part
  of a layout is stored at which step, and that the magic number comes after
  all of the block numbers. The lemmas are about the arithmetic; the loop that
  looks for the size of the block bitmap is a CHOOSE of the least number,
  which exists because the whole rest of the image would do (`NumDbmEnough`,
  by the well-foundedness of `<` on the naturals).
* `MkfsProofs!LossNeedsForce`: needs `Willing`, that a run of mkfs that has
  got past its checks with a file system in place was given `-f` and `-z`.
* `MkfsProofs!FormattedIsFresh`: `Fresh` says for every step of a run with `-z` how
  far the image is empty and filled; up to 256 blocks, as beyond them the count of
  data blocks wraps.
* `PathWalkProofs!WalkCorrect`: for paths of every length. The invariant relates
  each step to every resolution of the path whose prefixes exist;
  `WalkTypeCorrect` is the types.

Each invariant was first checked as an invariant of a run: `Tidy` on the constants
of `orderly`, `NamesStand` on those of `crash`, `SizesKnown` and `Pending` on those of `calls`.

Only model-checked:

* the liveness properties (`ScanReturns`, `WalkReturns`): liveness is out of
  TLAPS's reach;
* the violations, which are traces;
* `GrowthKeepsContents`, a statement about files of several extents in arbitrary
  use, whose lists of extents are as long as `MaxExtents`. Beyond `files` it was
  checked with two units a block, four blocks and sizes of 1, 3 and 5.

## 6. Not modelled, and the plan

Left to prove is `GrowthKeepsContents`: that a truncate which grows a file keeps
its old blocks in their order, in use that leaves several extents in a file. It
needs an invariant on the order of extents and on blocks with two owners.

Not modelled:

* `links`, `sb_used_dirs_count`, the reported size of a directory and
  modification times: they are reported to callers, and no call decides by them.
* The indirect branch of `attachable`: `last_used_indirect` is -1 in every inode
  that a call works on, until a 13th extent is stored over it, where `A1fs` ends.
* Reads and writes over more than one block, which `a1fs.c:938` excludes, and at
  other offsets than 0 in files of several extents, where `find_offset_extent`
  leads to unspecified memory at once.
* Images of more than 256 blocks and of more than 16 inodes, except in the
  arithmetic of `Layout`: their regions overlap.
* Option parsing, the I/O errors of `map.c`, and `testing.c`.

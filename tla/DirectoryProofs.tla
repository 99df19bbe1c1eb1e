-------------------------- MODULE DirectoryProofs ---------------------------
(***************************************************************************)
(* Orderly use: what the directories say is true.  Every live entry names  *)
(* an inode in use, by one name that lookup finds, and rmdir's count is    *)
(* right; a file has the blocks of its size; the free-block counter never  *)
(* falls short; what readdir lists besides is text of a file.              *)
(***************************************************************************)
EXTENDS A1fsProofs, WellFoundedInduction

-----------------------------------------------------------------------------
(* Places, and the first one of a set of them.                             *)

Spots == {1} \X Region \X Slots

LEMMA SpotsType ==
  /\ IsFiniteSet(Spots)
  /\ \A p \in Spots : /\ p = <<1, p[2], p[3]>>
                      /\ p[2] \in Region /\ p[2] \in Nat
                      /\ p[3] \in Slots /\ p[3] \in Nat
<1>1. IsFiniteSet({1}) /\ IsFiniteSet(Region) /\ IsFiniteSet(Slots)
  <2>1. 0 \in Int /\ DataBlocks - 1 \in Int /\ BlockUnits - 1 \in Int
    BY A1fsAssumption, ConstantTypes
  <2> QED
    BY <2>1, FS_Singleton, FS_Interval DEF Region, Slots
<1>2. IsFiniteSet(Region \X Slots)
  BY <1>1, FS_Product
<1>3. IsFiniteSet({1} \X (Region \X Slots))
  BY <1>1, <1>2, FS_Product
<1> DEFINE pack == [q \in {1} \X (Region \X Slots) |-> <<q[1], q[2][1], q[2][2]>>]
<1>4. pack \in Surjection({1} \X (Region \X Slots), Spots)
  <2>1. \A q \in {1} \X (Region \X Slots) : pack[q] \in Spots
    BY DEF Spots
  <2>2. ASSUME NEW p \in Spots
        PROVE  \E q \in {1} \X (Region \X Slots) : pack[q] = p
    <3>1. <<p[1], <<p[2], p[3]>> >> \in {1} \X (Region \X Slots)
      BY DEF Spots
    <3>2. pack[<<p[1], <<p[2], p[3]>> >>] = p
      BY <3>1 DEF Spots
    <3> QED
      BY <3>1, <3>2
  <2> QED
    BY <2>1, <2>2 DEF Surjection
<1>5. IsFiniteSet(Spots)
  BY <1>3, <1>4, FS_Surjection
<1> QED
  BY <1>5 DEF Spots, Region, Slots

LEMMA PlaceIs ==
  ASSUME NEW ext \in Seq(Extent), Len(ext) <= 1, NEW p
  PROVE  p \in Places(ext) <=>
           \E b \in OwnedBy(ext) \cap Region, k \in Slots : p = <<1, b, k>>
<1>1. ASSUME NEW q \in Pairs(ext) PROVE q = <<1, q[2]>> /\ q[2] \in OwnedBy(ext)
  <2>1. PICK x \in DOMAIN ext : q \in {x} \X Run(ext[x].start, ext[x].count)
    BY DEF Pairs
  <2>2. x = 1
    OBVIOUS
  <2> QED
    BY <2>1, <2>2 DEF OwnedBy
<1>2. ASSUME NEW b \in OwnedBy(ext) PROVE <<1, b>> \in Pairs(ext)
  BY <1>1, <1>2 DEF OwnedBy
<1>3. ASSUME NEW b \in OwnedBy(ext) \cap Region, NEW k \in Slots
      PROVE  <<1, b, k>> \in Places(ext)
  <2>1. <<1, b>> \in Pairs(ext) /\ <<1, b>>[2] \in Region
    BY <1>2
  <2>2. <<1, b, k>> = << <<1, b>>[1], <<1, b>>[2], k>>
    OBVIOUS
  <2> QED
    BY <2>1, <2>2 DEF Places
<1>4. ASSUME p \in Places(ext)
      PROVE  \E b \in OwnedBy(ext) \cap Region, k \in Slots : p = <<1, b, k>>
  <2>1. PICK q \in Pairs(ext), k \in Slots : q[2] \in Region /\ p = <<q[1], q[2], k>>
    BY <1>4 DEF Places
  <2> QED
    BY <1>1, <2>1
<1> QED
  BY <1>3, <1>4

LEMMA PlacesAreSpots ==
  ASSUME NEW ext \in Seq(Extent), Len(ext) <= 1
  PROVE  /\ Places(ext) \subseteq Spots
         /\ \A p \in Places(ext) : p[2] \in OwnedBy(ext)
         /\ \A p \in Spots : p[2] \in OwnedBy(ext) => p \in Places(ext)
<1>1. ASSUME NEW p \in Places(ext) PROVE p \in Spots /\ p[2] \in OwnedBy(ext)
  BY PlaceIs DEF Spots
<1>2. ASSUME NEW p \in Spots, p[2] \in OwnedBy(ext) PROVE p \in Places(ext)
  BY <1>2, PlaceIs, SpotsType
<1> QED
  BY <1>1, <1>2

LEMMA NoPlaces == Places(<<>>) = {}
BY OwnedByEmpty DEF Places

\* Of two places one comes before the other, and never the other way round.
LEMMA BeforeOrders ==
  ASSUME NEW p \in Spots, NEW q \in Spots
  PROVE  /\ p # q => Before(p, q) \/ Before(q, p)
         /\ ~ (Before(p, q) /\ Before(q, p))
         /\ ~ Before(p, p)
         /\ \A r \in Spots : Before(p, q) /\ Before(q, r) => Before(p, r)
BY SpotsType DEF Before

LEMMA FirstOfUnique ==
  ASSUME NEW S \in SUBSET Spots, NEW p \in S, \A q \in S \ {p} : Before(p, q)
  PROVE  FirstOf(S) = p
<1>1. \A r \in S : (\A q \in S \ {r} : Before(r, q)) => r = p
  BY BeforeOrders
<1> QED
  BY <1>1 DEF FirstOf

\* The set of places before a place grows along them, so one of these sets is
\* smallest.
LEMMA FirstOfExists ==
  ASSUME NEW S \in SUBSET Spots, S # {}
  PROVE  /\ FirstOf(S) \in S
         /\ \A q \in S \ {FirstOf(S)} : Before(FirstOf(S), q)
<1> DEFINE Below(p) == {q \in S : Before(q, p)}
           T == {Below(p) : p \in S}
<1>1. T \subseteq FiniteSubsetsOf(S) /\ T # {}
  <2>1. IsFiniteSet(S)
    BY SpotsType, FS_Subset
  <2>2. ASSUME NEW p \in S PROVE Below(p) \in FiniteSubsetsOf(S)
    <3>1. Below(p) \in SUBSET S
      OBVIOUS
    <3> QED
      BY <2>1, <3>1, FS_Subset DEF FiniteSubsetsOf
  <2> QED
    BY <2>2
<1>2. IsWellFoundedOn(StrictSubsetOrdering(S), FiniteSubsetsOf(S))
  BY FS_StrictSubsetOrderingWellFounded
<1>3. PICK U \in T : \A V \in T : <<V, U>> \notin StrictSubsetOrdering(S)
  <2> HIDE DEF T
  <2> QED
    BY <1>1, <1>2, WFMin
<1>4. PICK p \in S : U = Below(p)
  BY <1>3
<1>5. ASSUME NEW q \in S, Before(q, p) PROVE FALSE
  <2>1. Below(q) \subseteq Below(p) /\ q \in Below(p) /\ q \notin Below(q)
    BY <1>5, BeforeOrders
  <2>2. <<Below(q), Below(p)>> \in StrictSubsetOrdering(S)
    BY <2>1 DEF StrictSubsetOrdering
  <2> QED
    BY <1>3, <1>4, <2>2
<1>6. \A q \in S \ {p} : Before(p, q)
  BY <1>5, BeforeOrders
<1> QED
  BY <1>6, FirstOfUnique

-----------------------------------------------------------------------------
(* The inductive invariant.  Its parts speak of each other's objects: that *)
(* a directory on a path is in use rests on the entries, that a write      *)
(* stays out of the directories on the sizes, and these on the modes.      *)

RootInUse == 0 \in inode_bits /\ itable[0].mode = "dir"

EntriesInUse ==
  \A d \in LiveDirs : \A p \in Live(d) :
    At(data, p).name \in Names /\ At(data, p).ino \in inode_bits \ {0, d}

OneEntryEach ==
  \A d, e \in LiveDirs : \A p \in Live(d), q \in Live(e) :
    At(data, p).ino = At(data, q).ino => d = e /\ p = q

\* A live entry comes before every other one with its name, in use or not.
EntriesFirst ==
  \A d \in LiveDirs : \A p \in Live(d), q \in Places(itable[d].ext) :
    q # p /\ At(data, q).name = At(data, p).name => Before(p, q)

\* No directory counts more entries than it has, nor fewer by more than k.
ShortBy(k) ==
  \A d \in LiveDirs : Cardinality(Live(d)) - itable[d].num_entries \in 0 .. k

SizesFit ==
  \A i \in Ino : itable[i].mode = "file" =>
    Cardinality(Pairs(itable[i].ext)) = BlocksFor(itable[i].size)

Text == {v.name : v \in Payload} \cup {NoName}

VacantText ==
  \A d \in LiveDirs : \A p \in Places(itable[d].ext) :
    At(data, p).ino = -1 => At(data, p).name \in Text

\* A block that a directory can get, or give back, spells no name but text.
OfFiles == UNION {OwnedBy(itable[f].ext) :
                    f \in {i \in inode_bits : itable[i].mode = "file"}}
FreeText ==
  \A b \in Region : b \notin block_bits \/ b \in OfFiles =>
    \A k \in Slots : data[b][k].name \in Text

WellNamed == RootInUse /\ EntriesInUse /\ OneEntryEach /\ EntriesFirst

Contents == SizesFit /\ FreeText

FreeEnough == free_blocks_count >= DataBlocks - Cardinality(block_bits)

\* What the names and the contents rest on.  It does not take the counts to be
\* right, nor vacant entries to be text, so it outlives a call that is killed
\* while it adds an entry.
Steady == TypeOK /\ Inside /\ Exclusive /\ Up /\ WellNamed /\ Contents

\* What orderly use keeps besides, where no call is killed.
Exact == ShortBy(0) /\ VacantText /\ FreeEnough

Tidy == Up => WellNamed /\ Contents /\ Exact

-----------------------------------------------------------------------------
(* Directories and the places of their entries.                            *)

LEMMA ExtentFacts ==
  ASSUME Steady, NEW i \in Ino
  PROVE  /\ itable[i] \in Inode
         /\ itable[i].ext \in Seq(Extent) /\ Len(itable[i].ext) <= 1
         /\ OwnedBy(itable[i].ext) \subseteq Region
         /\ OwnedBy(itable[i].ext) \subseteq block_bits
         /\ Places(itable[i].ext) \subseteq Spots
         /\ \A p \in Places(itable[i].ext) : p[2] \in OwnedBy(itable[i].ext)
<1>1. /\ itable[i] \in Inode
      /\ itable[i].ext \in Seq(Extent) /\ Len(itable[i].ext) <= 1
  BY Types, InodeFields DEF Steady, Exclusive, TableType
<1> QED
  BY <1>1, PlacesAreSpots DEF Steady, Exclusive, Inside

LEMMA DirsAreInodes ==
  ASSUME TypeOK
  PROVE  LiveDirs \subseteq inode_bits /\ inode_bits \subseteq Ino
BY DEF TypeOK, LiveDirs, InUse

\* Entries of different directories are in different blocks.
LEMMA Apart ==
  ASSUME Steady, NEW d \in Ino, NEW e \in Ino \ {d},
         NEW p \in Places(itable[d].ext), NEW q \in Places(itable[e].ext)
  PROVE  p[2] # q[2] /\ p # q
<1>1. p[2] \in OwnedBy(itable[d].ext) /\ q[2] \in OwnedBy(itable[e].ext)
  BY ExtentFacts
<1> QED
  BY <1>1 DEF Steady, Exclusive

LEMMA LiveSpots ==
  ASSUME Steady, NEW d \in LiveDirs
  PROVE  /\ d \in Ino /\ Live(d) \subseteq Places(itable[d].ext)
         /\ Live(d) \subseteq Spots
         /\ IsFiniteSet(Live(d)) /\ Cardinality(Live(d)) \in Nat
<1>1. d \in Ino
  BY DirsAreInodes DEF Steady
<1>2. Live(d) \subseteq Places(itable[d].ext) /\ Live(d) \subseteq Spots
  BY <1>1, ExtentFacts DEF Live
<1>3. IsFiniteSet(Live(d)) /\ Cardinality(Live(d)) \in Nat
  BY <1>2, SpotsType, FS_Subset, FS_CardinalityType
<1> QED
  BY <1>1, <1>2, <1>3

LEMMA ShortfallOf ==
  ASSUME Steady, NEW k \in Nat, ShortBy(k), NEW d \in LiveDirs
  PROVE  /\ Cardinality(Live(d)) \in Nat /\ itable[d].num_entries \in Int
         /\ itable[d].num_entries <= Cardinality(Live(d))
         /\ Cardinality(Live(d)) <= itable[d].num_entries + k
<1>1. Cardinality(Live(d)) \in Nat /\ itable[d].num_entries \in Int
  BY LiveSpots, Types, InodeFields DEF Steady
<1>2. Cardinality(Live(d)) - itable[d].num_entries \in 0 .. k
  BY DEF ShortBy
<1> QED
  BY <1>1, <1>2

\* lookup finds what is live, and nothing else.
LEMMA LookupFinds ==
  ASSUME Steady, NEW d \in LiveDirs, NEW p \in Live(d)
  PROVE  Lookup(d, At(data, p).name) = At(data, p).ino
<1> DEFINE n == At(data, p).name
<1>1. Named(itable[d].ext, n) \subseteq Spots /\ p \in Named(itable[d].ext, n)
  BY LiveSpots, ExtentFacts DEF Named, Live
<1>2. ASSUME NEW q \in Named(itable[d].ext, n) \ {p} PROVE Before(p, q)
  BY <1>2 DEF Named, Steady, WellNamed, EntriesFirst
<1>3. FirstOf(Named(itable[d].ext, n)) = p
  BY <1>1, <1>2, FirstOfUnique
<1> QED
  BY <1>1, <1>3 DEF Lookup

LEMMA LookupIsLive ==
  ASSUME Steady, NEW d \in LiveDirs, NEW n, Lookup(d, n) # -1
  PROVE  \E p \in Live(d) : At(data, p).name = n /\ At(data, p).ino = Lookup(d, n)
<1> DEFINE S == Named(itable[d].ext, n)
<1>1. S \in SUBSET Spots /\ S # {}
  BY LiveSpots, ExtentFacts DEF Named, Lookup
<1>2. FirstOf(S) \in S
  BY <1>1, FirstOfExists
<1>3. At(data, FirstOf(S)).ino = Lookup(d, n)
  BY <1>1 DEF Lookup
<1> QED
  BY <1>2, <1>3 DEF Named, Live

LEMMA LookupFails ==
  ASSUME Steady, NEW d \in LiveDirs, NEW n, Lookup(d, n) = -1,
         NEW p \in Live(d)
  PROVE  At(data, p).name # n
BY LookupFinds DEF Live

\* Every directory that a path leads to is in use.
LEMMA DirsLive ==
  ASSUME Steady
  PROVE  Dirs \subseteq LiveDirs
<1> DEFINE found == {<<p, Lookup(p, n)>> : p \in Ino, n \in Names}
           sub == {l \in found : l[2] \in Ino /\ itable[l[2]].mode = "dir"}
<1>1. 0 \in LiveDirs /\ LiveDirs \in SUBSET Ino
  BY DirsAreInodes DEF Steady, WellNamed, RootInUse, LiveDirs, InUse
<1>2. ASSUME NEW l \in sub, l[1] \in LiveDirs PROVE l[2] \in LiveDirs
  <2>1. PICK p \in Ino, n \in Names : l = <<p, Lookup(p, n)>>
    OBVIOUS
  <2>2. p \in LiveDirs /\ l[2] = Lookup(p, n) /\ l[2] \in Ino
        /\ itable[l[2]].mode = "dir"
    BY <1>2, <2>1
  <2>3. Lookup(p, n) # -1
    BY <2>2 DEF Ino
  <2>4. PICK q \in Live(p) : At(data, q).ino = l[2]
    BY <2>2, <2>3, LookupIsLive
  <2>5. l[2] \in inode_bits
    BY <2>2, <2>4 DEF Steady, WellNamed, EntriesInUse
  <2> QED
    BY <2>2, <2>5 DEF LiveDirs, InUse
<1>3. ASSUME NEW d \in Dirs PROVE d \in LiveDirs
  BY <1>1, <1>2 DEF Dirs
<1> QED
  BY <1>3

LEMMA FilesLive ==
  ASSUME Steady, NEW f \in Files
  PROVE  f \in Ino /\ f \in inode_bits /\ itable[f].mode = "file"
<1>1. PICK d \in Dirs, n \in Names : f = Lookup(d, n) /\ f \in Ino
  BY DEF Files
<1>2. d \in LiveDirs /\ Lookup(d, n) # -1
  BY <1>1, DirsLive DEF Ino
<1>3. PICK p \in Live(d) : At(data, p).ino = f
  BY <1>1, <1>2, LookupIsLive
<1> QED
  BY <1>1, <1>2, <1>3 DEF Files, Steady, WellNamed, EntriesInUse

\* One entry is written.
WithEntry(dat, p, v) == [dat EXCEPT ![p[2]][p[3]] = v]

LEMMA PutAt ==
  ASSUME NEW dat \in DataType, NEW p \in Spots, NEW v
  PROVE  /\ At(WithEntry(dat, p, v), p) = v
         /\ \A q \in Spots \ {p} : At(WithEntry(dat, p, v), q) = At(dat, q)
         /\ \A b \in Region \ {p[2]} : WithEntry(dat, p, v)[b] = dat[b]
<1> DEFINE new == [dat EXCEPT ![p[2]][p[3]] = v]
<1>1. p[2] \in Region /\ p[3] \in Slots /\ dat[p[2]] \in [Slots -> Entry]
  BY SpotsType DEF DataType
<1>2. /\ \A b \in Region \ {p[2]} : new[b] = dat[b]
      /\ new[p[2]] = [dat[p[2]] EXCEPT ![p[3]] = v]
  BY <1>1 DEF DataType
<1>3. new[p[2]][p[3]] = v
  BY <1>1, <1>2
<1>4. ASSUME NEW q \in Spots \ {p} PROVE new[q[2]][q[3]] = dat[q[2]][q[3]]
  <2>1. q[2] \in Region /\ q[3] \in Slots /\ (q[2] # p[2] \/ q[3] # p[3])
    BY SpotsType
  <2> QED
    BY <1>1, <1>2, <2>1
<1> QED
  BY <1>2, <1>3, <1>4 DEF At, WithEntry

-----------------------------------------------------------------------------
(* What the calls do, seen from the directories: an inode gets an entry,   *)
(* or is taken without one, an entry and its inode go away, or a file      *)
(* changes.                                                                *)

SameEntries(e) ==
  /\ itable'[e] = itable[e]
  /\ \A q \in Places(itable[e].ext) : At(data', q) = At(data, q)

\* ... the entry may be there before it is counted ...
Joins(d, n, i, mode, p) ==
  LET old == Places(itable[d].ext)
      new == Places(itable'[d].ext)
  IN  /\ i \in Ino \ inode_bits /\ i # d
      /\ inode_bits' = inode_bits \cup {i}
      /\ itable'[i] = Created(mode)
      /\ \A e \in Ino \ {d, i} : itable'[e] = itable[e]
      /\ itable'[d].mode = itable[d].mode
      /\ \A e \in LiveDirs \ {d} : \A q \in Places(itable[e].ext) :
           At(data', q) = At(data, q)
      /\ old = {} \/ itable'[d].ext = itable[d].ext
      /\ p \in new /\ p \notin Live(d)
      /\ At(data', p) = [ino |-> i, name |-> n]
      /\ \A q \in new \ {p} :
           \/ q \in old /\ At(data', q) = At(data, q)
           \/ old = {} /\ At(data', q).ino = -1 /\ At(data', q).name \in Text
      /\ \A q \in new \ {p} : At(data', q).ino = -1 => Before(p, q)

Enters(d, n, i, mode, p) ==
  /\ Joins(d, n, i, mode, p)
  /\ itable'[d].num_entries = itable[d].num_entries + 1

Unnamed(i, mode) ==
  /\ i \in Ino \ inode_bits
  /\ inode_bits' = inode_bits \cup {i}
  /\ itable'[i] = Created(mode)
  /\ \A e \in Ino \ {i} : itable'[e] = itable[e]
  /\ data' = data

Removes(d, i, p) ==
  /\ i \in inode_bits \ {0} /\ i # d
  /\ p \in Live(d) /\ At(data, p).ino = i
  /\ inode_bits' = inode_bits \ {i}
  /\ itable'[i].ext = <<>> /\ itable'[i].size = 0 /\ itable'[i].num_entries = 0
  /\ itable'[i].mode = itable[i].mode
  /\ \A e \in Ino \ {d, i} : itable'[e] = itable[e]
  /\ itable'[d] = [itable[d] EXCEPT !.num_entries = @ - 1]
  /\ data' = WithEntry(data, p, Vacancy)

Changes(f) ==
  /\ f \in inode_bits /\ itable[f].mode = "file" /\ itable'[f].mode = "file"
  /\ inode_bits' = inode_bits
  /\ \A e \in Ino \ {f} : itable'[e] = itable[e]
  /\ \A b \in Region : data'[b] # data[b] =>
       /\ b \notin block_bits \/ b \in OwnedBy(itable[f].ext)
       /\ b \in OwnedBy(itable'[f].ext)
       /\ \A k \in Slots : data'[b][k].name \in Text

LEMMA SameLive ==
  ASSUME Steady, NEW e \in LiveDirs, SameEntries(e), e \in inode_bits'
  PROVE  /\ e \in LiveDirs' /\ Live(e)' = Live(e)
         /\ Places(itable[e].ext)' = Places(itable[e].ext)
         /\ itable'[e].num_entries = itable[e].num_entries
BY DEF SameEntries, Live, LiveDirs, InUse

LEMMA CreatedIsEmpty ==
  ASSUME NEW i, NEW mode, itable'[i] = Created(mode)
  PROVE  Live(i)' = {} /\ itable'[i].num_entries = 0
         /\ Places(itable'[i].ext) = {} /\ itable'[i].mode = mode
BY NoPlaces DEF Live, Created

\* If every directory is a new empty one or has the entries that it had.
LEMMA EntriesKept ==
  ASSUME Steady, RootInUse',
         \A e \in LiveDirs' :
           \/ e \in LiveDirs /\ SameEntries(e)
           \/ Live(e)' = {} /\ itable'[e].num_entries = 0,
         \A e \in LiveDirs : \A p \in Live(e) : At(data, p).ino \in inode_bits'
  PROVE  WellNamed' /\ \A k \in Nat : ShortBy(k) => ShortBy(k)'
<1>1. ASSUME NEW e \in LiveDirs', NEW p \in Live(e)'
      PROVE  /\ e \in LiveDirs /\ SameEntries(e) /\ p \in Live(e)
             /\ At(data', p) = At(data, p)
  <2>1. e \in LiveDirs /\ SameEntries(e)
    OBVIOUS
  <2>2. e \in inode_bits'
    BY DEF LiveDirs, InUse
  <2>3. p \in Live(e) /\ Live(e) \subseteq Places(itable[e].ext)
    BY <2>1, <2>2, SameLive, LiveSpots
  <2> QED
    BY <2>1, <2>3 DEF SameEntries
<1>2. EntriesInUse'
  BY <1>1 DEF EntriesInUse, Steady, WellNamed
<1>3. OneEntryEach'
  BY <1>1 DEF OneEntryEach, Steady, WellNamed
<1>4. EntriesFirst'
  <2> SUFFICES ASSUME NEW d \in LiveDirs', NEW p \in Live(d)',
                      NEW q \in Places(itable'[d].ext),
                      q # p, At(data', q).name = At(data', p).name
               PROVE  Before(p, q)
    BY DEF EntriesFirst
  <2>1. /\ d \in LiveDirs /\ SameEntries(d) /\ p \in Live(d)
        /\ At(data', p) = At(data, p)
    BY <1>1
  <2>2. q \in Places(itable[d].ext) /\ At(data', q) = At(data, q)
    BY <2>1 DEF SameEntries
  <2> QED
    BY <2>1, <2>2 DEF EntriesFirst, Steady, WellNamed
<1>5. ASSUME NEW k \in Nat, ShortBy(k) PROVE ShortBy(k)'
  <2>1. ASSUME NEW e \in LiveDirs'
        PROVE  Cardinality(Live(e)') - itable'[e].num_entries \in 0 .. k
    <3>1. CASE e \in LiveDirs /\ SameEntries(e)
      <4>1. e \in inode_bits'
        BY DEF LiveDirs, InUse
      <4> QED
        BY <1>5, <3>1, <4>1, SameLive DEF ShortBy
    <3>2. CASE Live(e)' = {} /\ itable'[e].num_entries = 0
      BY <3>2, FS_EmptySet
    <3> QED
      BY <3>1, <3>2
  <2> QED
    BY <2>1 DEF ShortBy
<1> QED
  BY <1>2, <1>3, <1>4, <1>5 DEF WellNamed

LEMMA UnnamedDirectories ==
  ASSUME Steady, NEW i, NEW mode, Unnamed(i, mode)
  PROVE  WellNamed' /\ \A k \in Nat : ShortBy(k) => ShortBy(k)'
<1>1. RootInUse'
  BY ConstantTypes DEF RootInUse, Unnamed, Steady, WellNamed
<1>2. ASSUME NEW e \in LiveDirs'
      PROVE  \/ e \in LiveDirs /\ SameEntries(e)
             \/ Live(e)' = {} /\ itable'[e].num_entries = 0
  <2>1. CASE e = i
    BY <2>1, CreatedIsEmpty DEF Unnamed
  <2>2. CASE e # i
    BY <2>2, DirsAreInodes DEF Unnamed, SameEntries, LiveDirs, InUse, Steady
  <2> QED
    BY <2>1, <2>2
<1> QED
  BY <1>1, <1>2, EntriesKept
  DEF Unnamed, Steady, WellNamed, EntriesInUse

LEMMA ChangesEntries ==
  ASSUME Steady, NEW f, Changes(f), NEW e \in LiveDirs
  PROVE  SameEntries(e) /\ e # f
<1>1. e # f /\ e \in Ino /\ f \in Ino
  BY DirsAreInodes DEF Changes, LiveDirs, Steady
<1>2. ASSUME NEW q \in Places(itable[e].ext) PROVE data'[q[2]] = data[q[2]]
  <2>1. q[2] \in OwnedBy(itable[e].ext) /\ q[2] \in Region /\ q[2] \in block_bits
    BY <1>1, ExtentFacts
  <2>2. q[2] \notin OwnedBy(itable[f].ext)
    BY <1>1, <2>1 DEF Steady, Exclusive
  <2> QED
    BY <2>1, <2>2 DEF Changes
<1> QED
  BY <1>1, <1>2 DEF Changes, SameEntries, At

LEMMA ChangesDirectories ==
  ASSUME Steady, NEW f, Changes(f)
  PROVE  WellNamed' /\ \A k \in Nat : ShortBy(k) => ShortBy(k)'
<1>1. LiveDirs' \subseteq LiveDirs
  BY DirsAreInodes DEF Changes, LiveDirs, InUse, Steady
<1>2. 0 \in LiveDirs
  BY DEF Steady, WellNamed, RootInUse, LiveDirs, InUse
<1>3. RootInUse'
  BY <1>2, ChangesEntries
  DEF SameEntries, RootInUse, Changes, Steady, WellNamed
<1> QED
  BY <1>1, <1>3, ChangesEntries, EntriesKept
  DEF Changes, Steady, WellNamed, EntriesInUse

LEMMA JoinsOthers ==
  ASSUME Steady, NEW d \in LiveDirs, NEW n, NEW i, NEW mode, NEW p,
         Joins(d, n, i, mode, p)
  PROVE  /\ d \in LiveDirs'
         /\ \A e \in LiveDirs' \ {d} :
              \/ e \in LiveDirs /\ SameEntries(e) /\ Live(e)' = Live(e)
              \/ e = i /\ Live(e)' = {} /\ itable'[e].num_entries = 0
         /\ \A e \in LiveDirs \ {d} : e \in LiveDirs' /\ SameEntries(e)
         /\ i \notin LiveDirs
<1>1. d \in LiveDirs' /\ i \notin LiveDirs
  BY DEF Joins, LiveDirs, InUse
<1>2. ASSUME NEW e \in LiveDirs \ {d} PROVE e \in LiveDirs' /\ SameEntries(e)
  BY DirsAreInodes DEF Steady, Joins, LiveDirs, InUse, SameEntries
<1>3. ASSUME NEW e \in LiveDirs' \ {d}
      PROVE  \/ e \in LiveDirs /\ SameEntries(e) /\ Live(e)' = Live(e)
             \/ e = i /\ Live(e)' = {} /\ itable'[e].num_entries = 0
  <2>1. CASE e = i
    BY <2>1, CreatedIsEmpty DEF Joins
  <2>2. CASE e # i
    <3>1. e \in LiveDirs /\ e \in inode_bits'
      BY <2>2, DirsAreInodes DEF Steady, Joins, LiveDirs, InUse
    <3> QED
      BY <1>2, <3>1, SameLive
  <2> QED
    BY <2>1, <2>2
<1> QED
  BY <1>1, <1>2, <1>3

\* The directory has its old entries and the new one.
LEMMA JoinsLive ==
  ASSUME Steady, NEW d \in LiveDirs, NEW n \in Names, NEW i, NEW mode, NEW p,
         Joins(d, n, i, mode, p)
  PROVE  /\ Live(d)' = Live(d) \cup {p}
         /\ \A q \in Live(d) : q # p /\ At(data', q) = At(data, q)
<1>1. i # -1
  BY DEF Joins, Ino
<1>2. p \in Live(d)'
  BY <1>1 DEF Joins, Live
<1>3. ASSUME NEW q \in Live(d)
      PROVE  q \in Live(d)' /\ q # p /\ At(data', q) = At(data, q)
  <2>1. q \in Places(itable[d].ext) /\ q # p
    BY LiveSpots DEF Joins
  <2>2. q \in Places(itable'[d].ext)
    BY <2>1 DEF Joins
  <2>3. At(data', q) = At(data, q)
    BY <2>1, <2>2 DEF Joins
  <2> QED
    BY <2>1, <2>2, <2>3 DEF Live
<1>4. ASSUME NEW q \in Live(d)', q # p PROVE q \in Live(d)
  BY <1>4 DEF Joins, Live
<1> QED
  BY <1>2, <1>3, <1>4

LEMMA JoinsDirectories ==
  ASSUME Steady, NEW d \in LiveDirs, NEW n \in Names, NEW i, NEW mode, NEW p,
         Joins(d, n, i, mode, p), Lookup(d, n) = -1
  PROVE  /\ WellNamed'
         /\ \A c \in 0 .. 1 :
              itable'[d].num_entries = itable[d].num_entries + 1 - c =>
                \A k \in Nat : ShortBy(k) => ShortBy(k + c)'
<1>1. WellNamed
  BY DEF Steady
<1>2. RootInUse'
  <2>1. itable'[0].mode = itable[0].mode
    BY <1>1, ConstantTypes DEF Joins, WellNamed, RootInUse
  <2> QED
    BY <1>1, <2>1 DEF Joins, RootInUse, WellNamed
\* Where an entry of the new state comes from.
<1>3. ASSUME NEW e \in LiveDirs', NEW q \in Live(e)'
      PROVE  \/ e \in LiveDirs /\ q \in Live(e) /\ At(data', q) = At(data, q)
             \/ e = d /\ q = p /\ At(data', q) = [ino |-> i, name |-> n]
  <2>1. CASE e = d
    BY <2>1, JoinsLive DEF Joins
  <2>2. CASE e # d
    <3>1. e \in LiveDirs /\ SameEntries(e) /\ q \in Live(e)
      BY <2>2, JoinsOthers
    <3>2. q \in Places(itable[e].ext)
      BY <3>1, LiveSpots
    <3> QED
      BY <3>1, <3>2 DEF SameEntries
  <2> QED
    BY <2>1, <2>2
<1>4. \A e \in LiveDirs : \A q \in Live(e) : At(data, q).ino \in inode_bits
  BY <1>1 DEF WellNamed, EntriesInUse
<1>5. EntriesInUse'
  <2>1. i \in inode_bits' \ {0, d} /\ inode_bits \subseteq inode_bits'
    BY <1>1 DEF Joins, WellNamed, RootInUse
  <2> QED
    BY <1>1, <1>3, <2>1 DEF WellNamed, EntriesInUse
<1>6. OneEntryEach'
  <2> SUFFICES ASSUME NEW e \in LiveDirs', NEW f \in LiveDirs',
                      NEW q \in Live(e)', NEW r \in Live(f)',
                      At(data', q).ino = At(data', r).ino
               PROVE  e = f /\ q = r
    BY DEF OneEntryEach
  <2>1. CASE e \in LiveDirs /\ q \in Live(e) /\ At(data', q) = At(data, q)
    <3>1. At(data', r).ino # i
      BY <1>4, <2>1 DEF Joins
    <3>2. f \in LiveDirs /\ r \in Live(f) /\ At(data', r) = At(data, r)
      BY <1>3, <3>1
    <3> QED
      BY <1>1, <2>1, <3>2 DEF WellNamed, OneEntryEach
  <2>2. CASE e = d /\ q = p /\ At(data', q) = [ino |-> i, name |-> n]
    <3>1. At(data', r).ino = i
      BY <2>2
    <3>2. ~ (f \in LiveDirs /\ r \in Live(f) /\ At(data', r) = At(data, r))
      BY <1>4, <3>1 DEF Joins
    <3> QED
      BY <1>3, <2>2, <3>2
  <2> QED
    BY <1>3, <2>1, <2>2
<1>7. EntriesFirst'
  <2> SUFFICES ASSUME NEW e \in LiveDirs', NEW q \in Live(e)',
                      NEW r \in Places(itable'[e].ext),
                      r # q, At(data', r).name = At(data', q).name
               PROVE  Before(q, r)
    BY DEF EntriesFirst
  <2>1. CASE e # d
    <3>1. e \in LiveDirs /\ SameEntries(e) /\ q \in Live(e)
      BY <2>1, JoinsOthers
    <3>2. q \in Places(itable[e].ext) /\ r \in Places(itable[e].ext)
      BY <3>1, LiveSpots DEF SameEntries
    <3> QED
      BY <1>1, <3>1, <3>2 DEF SameEntries, WellNamed, EntriesFirst
  <2>2. CASE e = d /\ q = p
    <3>1. At(data', r).name = n
      BY <2>2 DEF Joins
    <3>2. CASE At(data', r).ino = -1
      BY <2>2, <3>2 DEF Joins
    <3>3. CASE At(data', r).ino # -1
      <4>1. r \in Live(d) /\ At(data', r) = At(data, r)
        BY <2>2, <3>3, JoinsLive DEF Live
      <4> QED
        BY <3>1, <4>1, LookupFails
    <3> QED
      BY <3>2, <3>3
  <2>3. CASE e = d /\ q # p
    <3>1. q \in Live(d) /\ At(data', q) = At(data, q)
      BY <2>3, JoinsLive
    <3>2. q \in Places(itable[d].ext)
      BY <3>1, LiveSpots
    <3>3. r # p
      BY <3>1, LookupFails DEF Joins
    <3>4. r \in Places(itable[d].ext) /\ At(data', r) = At(data, r)
      BY <2>3, <3>2, <3>3 DEF Joins
    <3> QED
      BY <1>1, <3>1, <3>4 DEF WellNamed, EntriesFirst
  <2> QED
    BY <2>1, <2>2, <2>3
<1>8. ASSUME NEW c \in 0 .. 1, NEW k \in Nat, ShortBy(k),
             itable'[d].num_entries = itable[d].num_entries + 1 - c
      PROVE  ShortBy(k + c)'
  <2> SUFFICES ASSUME NEW e \in LiveDirs'
               PROVE  /\ Cardinality(Live(e)') - itable'[e].num_entries \in Int
                      /\ 0 <= Cardinality(Live(e)') - itable'[e].num_entries
                      /\ Cardinality(Live(e)') - itable'[e].num_entries <= k + c
    BY DEF ShortBy
  <2>1. CASE e = d
    <3>1. Cardinality(Live(d) \cup {p}) = Cardinality(Live(d)) + 1
      BY LiveSpots, FS_AddElement DEF Joins
    <3>2. /\ Cardinality(Live(d)) \in Nat /\ itable[d].num_entries \in Int
          /\ itable[d].num_entries <= Cardinality(Live(d))
          /\ Cardinality(Live(d)) <= itable[d].num_entries + k
      BY <1>8, ShortfallOf
    <3>3. Live(d)' = Live(d) \cup {p}
      BY JoinsLive
    <3> QED
      BY <1>8, <2>1, <3>1, <3>2, <3>3
  <2>2. CASE e # d
    <3>1. CASE e \in LiveDirs /\ SameEntries(e) /\ Live(e)' = Live(e)
      <4>1. /\ Cardinality(Live(e)) \in Nat /\ itable[e].num_entries \in Int
            /\ itable[e].num_entries <= Cardinality(Live(e))
            /\ Cardinality(Live(e)) <= itable[e].num_entries + k
        BY <1>8, <3>1, ShortfallOf
      <4> QED
        BY <3>1, <4>1 DEF SameEntries
    <3>2. CASE Live(e)' = {} /\ itable'[e].num_entries = 0
      BY <3>2, FS_EmptySet
    <3> QED
      BY <2>2, <3>1, <3>2, JoinsOthers
  <2> QED
    BY <2>1, <2>2
<1> QED
  BY <1>2, <1>5, <1>6, <1>7, <1>8 DEF WellNamed

LEMMA EntersDirectories ==
  ASSUME Steady, NEW d \in LiveDirs, NEW n \in Names, NEW i, NEW mode, NEW p,
         Enters(d, n, i, mode, p), Lookup(d, n) = -1
  PROVE  WellNamed' /\ \A k \in Nat : ShortBy(k) => ShortBy(k)'
<1>1. d \in Ino /\ itable[d].num_entries \in Int
  BY LiveSpots, Types, InodeFields DEF Steady
<1>2. itable'[d].num_entries = itable[d].num_entries + 1 - 0
  BY <1>1 DEF Enters
<1>3. \A k \in Nat : k + 0 = k
  OBVIOUS
<1> QED
  BY <1>2, <1>3, JoinsDirectories DEF Enters

LEMMA RemovesOthers ==
  ASSUME Steady, NEW d \in LiveDirs, NEW i, NEW p, Removes(d, i, p)
  PROVE  /\ LiveDirs' = LiveDirs \ {i}
         /\ \A e \in LiveDirs \ {d, i} : SameEntries(e) /\ Live(e)' = Live(e)
         /\ Places(itable'[d].ext) = Places(itable[d].ext)
         /\ \A q \in Places(itable[d].ext) :
              At(data', q) = IF q = p THEN Vacancy ELSE At(data, q)
         /\ Live(d)' = Live(d) \ {p}
<1>1. d \in Ino /\ LiveDirs \subseteq Ino /\ p \in Spots /\ itable[d] \in Inode
      /\ p \in Places(itable[d].ext)
  BY DirsAreInodes, LiveSpots, ExtentFacts DEF Removes, Steady
<1>2. itable'[d].ext = itable[d].ext /\ itable'[d].mode = itable[d].mode
  BY <1>1 DEF Removes, Inode
<1>3. LiveDirs' = LiveDirs \ {i}
  <2>1. inode_bits' = inode_bits \ {i} /\ inode_bits \subseteq Ino
    BY DirsAreInodes DEF Removes, Steady
  <2>2. \A e \in Ino \ {i} : itable'[e].mode = itable[e].mode
    BY <1>2 DEF Removes
  <2> QED
    BY <2>1, <2>2 DEF LiveDirs, InUse
<1>4. ASSUME NEW q \in Spots
      PROVE  At(data', q) = IF q = p THEN Vacancy ELSE At(data, q)
  <2>1. data \in DataType /\ data' = WithEntry(data, p, Vacancy)
    BY Types DEF Removes, Steady
  <2> QED
    BY <1>1, <2>1, PutAt
<1>5. \A q \in Places(itable[d].ext) :
        At(data', q) = IF q = p THEN Vacancy ELSE At(data, q)
  BY <1>1, <1>4, ExtentFacts
<1>6. ASSUME NEW e \in LiveDirs \ {d, i} PROVE SameEntries(e) /\ Live(e)' = Live(e)
  <2>1. e \in Ino \ {d} /\ e \in inode_bits'
    BY <1>1, <1>3 DEF LiveDirs, InUse
  <2>2. \A q \in Places(itable[e].ext) : q # p /\ q \in Spots
    BY <1>1, <2>1, Apart, ExtentFacts
  <2>3. SameEntries(e)
    BY <1>4, <2>1, <2>2 DEF Removes, SameEntries
  <2> QED
    BY <2>1, <2>3, SameLive
<1>7. Live(d)' = Live(d) \ {p}
  <2>1. Vacancy.ino = -1
    BY DEF Vacancy
  <2> QED
    BY <1>2, <1>5, <2>1 DEF Live
<1> QED
  BY <1>2, <1>3, <1>5, <1>6, <1>7

LEMMA RemovesDirectories ==
  ASSUME Steady, NEW d \in LiveDirs, NEW i, NEW p, Removes(d, i, p)
  PROVE  WellNamed' /\ \A k \in Nat : ShortBy(k) => ShortBy(k)'
<1>1. WellNamed /\ d \in Ino
  BY LiveSpots DEF Steady
<1>2. RootInUse'
  <2>1. 0 \in LiveDirs /\ 0 # i
    BY <1>1 DEF WellNamed, RootInUse, LiveDirs, InUse, Removes
  <2>2. 0 \in LiveDirs'
    BY <2>1, RemovesOthers
  <2> QED
    BY <2>2 DEF LiveDirs, InUse, RootInUse
<1>3. ASSUME NEW e \in LiveDirs', NEW q \in Live(e)'
      PROVE  /\ e \in LiveDirs /\ q \in Live(e) /\ At(data', q) = At(data, q)
             /\ <<e, q>> # <<d, p>>
  <2>1. CASE e = d
    <3>1. q \in Live(d) /\ q # p /\ q \in Places(itable[d].ext)
      BY <2>1, RemovesOthers, LiveSpots
    <3> QED
      BY <2>1, <3>1, RemovesOthers
  <2>2. CASE e # d
    <3>1. e \in LiveDirs /\ SameEntries(e) /\ q \in Live(e)
      BY <2>2, RemovesOthers
    <3>2. q \in Places(itable[e].ext)
      BY <3>1, LiveSpots
    <3> QED
      BY <2>2, <3>1, <3>2 DEF SameEntries
  <2> QED
    BY <2>1, <2>2
<1>4. EntriesInUse'
  <2> SUFFICES ASSUME NEW e \in LiveDirs', NEW q \in Live(e)'
               PROVE  /\ At(data', q).name \in Names
                      /\ At(data', q).ino \in inode_bits' \ {0, e}
    BY DEF EntriesInUse
  <2>1. e \in LiveDirs /\ q \in Live(e) /\ At(data', q) = At(data, q)
        /\ <<e, q>> # <<d, p>>
    BY <1>3
  <2>2. At(data, q).ino # i
    BY <1>1, <2>1 DEF WellNamed, OneEntryEach, Removes
  <2> QED
    BY <1>1, <2>1, <2>2 DEF WellNamed, EntriesInUse, Removes
<1>5. OneEntryEach'
  BY <1>1, <1>3 DEF WellNamed, OneEntryEach
<1>6. EntriesFirst'
  <2> SUFFICES ASSUME NEW e \in LiveDirs', NEW q \in Live(e)',
                      NEW r \in Places(itable'[e].ext),
                      r # q, At(data', r).name = At(data', q).name
               PROVE  Before(q, r)
    BY DEF EntriesFirst
  <2>1. e \in LiveDirs /\ q \in Live(e) /\ At(data', q) = At(data, q)
    BY <1>3
  <2>2. r \in Places(itable[e].ext) /\ At(data', r) = At(data, r)
    <3>1. CASE e = d
      <4>1. r # p
        <5>1. NoName \notin Names /\ Vacancy.name = NoName
          BY A1fsAssumption DEF Vacancy
        <5>2. At(data, q).name \in Names
          BY <1>1, <2>1 DEF WellNamed, EntriesInUse
        <5>3. p \in Places(itable[d].ext)
          BY LiveSpots DEF Removes
        <5> QED
          BY <2>1, <5>1, <5>2, <5>3, RemovesOthers
      <4> QED
        BY <3>1, <4>1, RemovesOthers
    <3>2. CASE e # d
      BY <3>2, RemovesOthers DEF SameEntries
    <3> QED
      BY <3>1, <3>2
  <2> QED
    BY <1>1, <2>1, <2>2 DEF WellNamed, EntriesFirst
<1>7. ASSUME NEW k \in Nat, ShortBy(k) PROVE ShortBy(k)'
  <2> SUFFICES ASSUME NEW e \in LiveDirs'
               PROVE  Cardinality(Live(e)') - itable'[e].num_entries \in 0 .. k
    BY DEF ShortBy
  <2>1. CASE e = d
    <3>1. Cardinality(Live(d) \ {p}) = Cardinality(Live(d)) - 1
      BY LiveSpots, FS_RemoveElement DEF Removes
    <3>2. /\ Cardinality(Live(d)) \in Nat /\ itable[d].num_entries \in Int
          /\ itable[d].num_entries <= Cardinality(Live(d))
          /\ Cardinality(Live(d)) <= itable[d].num_entries + k
      BY <1>7, ShortfallOf
    <3>3. itable'[d].num_entries = itable[d].num_entries - 1
      BY <1>1, ExtentFacts DEF Removes, Inode
    <3>4. Live(d)' = Live(d) \ {p}
      BY RemovesOthers
    <3> QED
      BY <2>1, <3>1, <3>2, <3>3, <3>4
  <2>2. CASE e # d
    <3>1. e \in LiveDirs /\ SameEntries(e) /\ Live(e)' = Live(e)
      BY <2>2, RemovesOthers
    <3> QED
      BY <1>7, <3>1 DEF SameEntries, ShortBy
  <2> QED
    BY <2>1, <2>2
<1> QED
  BY <1>2, <1>4, <1>5, <1>6, <1>7 DEF WellNamed

-----------------------------------------------------------------------------
(* The blocks in these effects.                                            *)

EntersBlocks(d) ==
  LET new == OwnedBy(itable'[d].ext) \ OwnedBy(itable[d].ext)
  IN  /\ new \cap block_bits = {}
      /\ block_bits' = block_bits \cup new
      /\ \A b \in Region : data'[b] # data[b] => b \in OwnedBy(itable'[d].ext)

\* What rmdir takes away stays marked.
RemovesBlocks(i) ==
  block_bits' =
    IF itable[i].mode = "dir" THEN block_bits
    ELSE block_bits \ OwnedBy(itable[i].ext)

ChangesBlocks(f) ==
  LET old == OwnedBy(itable[f].ext)
      new == OwnedBy(itable'[f].ext)
  IN  /\ (new \ old) \cap block_bits = {}
      /\ block_bits' = (block_bits \ old) \cup new
      /\ Cardinality(Pairs(itable'[f].ext)) = BlocksFor(itable'[f].size)

LEMMA NoSize == Cardinality(Pairs(<<>>)) = BlocksFor(0)
<1>1. BlockUnits \in Nat \ {0}
  BY A1fsAssumption
<1>2. 0 \div BlockUnits = 0 /\ 0 % BlockUnits = 0
  BY <1>1
<1> QED
  BY <1>2, OwnedByEmpty, FS_EmptySet DEF BlocksFor

\* Names outside the text are only ever written into a directory in use.
LEMMA FreeTextKept ==
  ASSUME Steady, Exclusive', TypeOK', Up',
         block_bits \ block_bits' \subseteq OfFiles,
         OfFiles' \cap block_bits \subseteq OfFiles,
         \A b \in Region : data'[b] # data[b] =>
           \/ \A k \in Slots : data'[b][k].name \in Text
           \/ \E d \in LiveDirs' : b \in OwnedBy(itable'[d].ext)
  PROVE  FreeText'
<1> SUFFICES ASSUME NEW b \in Region, b \notin block_bits' \/ b \in OfFiles'
             PROVE  \A k \in Slots : data'[b][k].name \in Text
  BY DEF FreeText, Text
<1>1. ASSUME NEW d \in LiveDirs' PROVE b \notin OwnedBy(itable'[d].ext)
  <2>1. d \in inode_bits' /\ d \in Ino /\ itable'[d].mode = "dir"
    BY DEF LiveDirs, InUse, TypeOK
  <2>2. OwnedBy(itable'[d].ext) \subseteq block_bits'
    BY <2>1 DEF Exclusive
  <2>3. CASE b \in OfFiles'
    <3>1. PICK f \in inode_bits' : itable'[f].mode = "file"
                                   /\ b \in OwnedBy(itable'[f].ext)
      BY <2>3 DEF OfFiles
    <3>2. f \in Ino \ {d}
      BY <2>1, <3>1 DEF TypeOK
    <3> QED
      BY <2>1, <3>1, <3>2 DEF Exclusive
  <2> QED
    BY <2>2, <2>3
<1>2. b \notin block_bits \/ b \in OfFiles
  OBVIOUS
<1>3. CASE data'[b] = data[b]
  BY <1>2, <1>3 DEF Steady, Contents, FreeText
<1> QED
  BY <1>1, <1>3

LEMMA VacantTextKept ==
  ASSUME Steady, VacantText,
         \A e \in LiveDirs' :
           \/ e \in LiveDirs /\ SameEntries(e)
           \/ \A q \in Places(itable'[e].ext) :
                At(data', q).ino = -1 => At(data', q).name \in Text
  PROVE  VacantText'
<1> SUFFICES ASSUME NEW e \in LiveDirs', NEW q \in Places(itable'[e].ext),
                    At(data', q).ino = -1
             PROVE  At(data', q).name \in Text
  BY DEF VacantText, Text
<1>1. CASE e \in LiveDirs /\ SameEntries(e)
  <2>1. q \in Places(itable[e].ext) /\ At(data', q) = At(data, q)
    BY <1>1 DEF SameEntries
  <2> QED
    BY <1>1, <2>1 DEF VacantText
<1> QED
  BY <1>1

LEMMA JoinsContents ==
  ASSUME Steady, Exclusive', TypeOK', Up',
         NEW d \in LiveDirs, NEW n \in Names, NEW i, NEW mode, NEW p,
         Joins(d, n, i, mode, p), EntersBlocks(d)
  PROVE  Contents' /\ (VacantText => VacantText')
<1>1. d \in Ino /\ d \in LiveDirs' /\ itable'[d].mode = "dir"
  BY LiveSpots, JoinsOthers DEF LiveDirs
<1>2. ASSUME VacantText PROVE VacantText'
  <2>1. ASSUME NEW q \in Places(itable'[d].ext), At(data', q).ino = -1
        PROVE  At(data', q).name \in Text
    <3>1. q # p
      BY <2>1 DEF Joins, Ino
    <3>2. CASE q \in Places(itable[d].ext) /\ At(data', q) = At(data, q)
      BY <1>2, <2>1, <3>2 DEF VacantText
    <3> QED
      BY <2>1, <3>1, <3>2 DEF Joins
  <2>2. ASSUME NEW e \in LiveDirs' \ {d}
        PROVE  \/ e \in LiveDirs /\ SameEntries(e)
               \/ Places(itable'[e].ext) = {}
    BY JoinsOthers, CreatedIsEmpty DEF Joins
  <2> QED
    BY <1>2, <2>1, <2>2, VacantTextKept
<1>3. SizesFit'
  <2>1. itable'[i].ext = <<>> /\ itable'[i].size = 0
    BY DEF Joins, Created
  <2> QED
    BY <1>1, <2>1, NoSize DEF Joins, SizesFit, Steady, Contents
<1>4. FreeText'
  <2>1. OfFiles' \subseteq OfFiles
    <3> SUFFICES ASSUME NEW f \in inode_bits', itable'[f].mode = "file",
                        NEW b \in OwnedBy(itable'[f].ext)
                 PROVE  b \in OfFiles
      BY DEF OfFiles
    <3>1. f # d
      BY <1>1
    <3>2. f # i
      BY OwnedByEmpty DEF Joins, Created
    <3>3. f \in inode_bits /\ f \in Ino /\ itable'[f] = itable[f]
      BY <3>1, <3>2 DEF Joins, Steady, TypeOK
    <3> QED
      BY <3>3 DEF OfFiles
  <2> QED
    BY <1>1, <2>1, FreeTextKept DEF EntersBlocks
<1> QED
  BY <1>2, <1>3, <1>4 DEF Contents

LEMMA UnnamedContents ==
  ASSUME Steady, Exclusive', TypeOK', Up', NEW i, NEW mode,
         Unnamed(i, mode), block_bits' = block_bits
  PROVE  Contents' /\ (VacantText => VacantText')
<1>1. ASSUME VacantText PROVE VacantText'
  <2>1. ASSUME NEW e \in LiveDirs'
        PROVE  \/ e \in LiveDirs /\ SameEntries(e)
               \/ Places(itable'[e].ext) = {}
    <3>1. CASE e = i
      BY <3>1, CreatedIsEmpty DEF Unnamed
    <3>2. CASE e # i
      BY <3>2, DirsAreInodes DEF Unnamed, SameEntries, LiveDirs, InUse, Steady
    <3> QED
      BY <3>1, <3>2
  <2> QED
    BY <1>1, <2>1, VacantTextKept
<1>2. itable'[i].ext = <<>> /\ itable'[i].size = 0
  BY DEF Unnamed, Created
<1>3. SizesFit'
  BY <1>2, NoSize DEF Unnamed, SizesFit, Steady, Contents
<1>4. FreeText'
  <2>1. OfFiles' \subseteq OfFiles
    <3> SUFFICES ASSUME NEW f \in inode_bits', itable'[f].mode = "file",
                        NEW b \in OwnedBy(itable'[f].ext)
                 PROVE  b \in OfFiles
      BY DEF OfFiles
    <3>1. f # i
      BY <1>2, OwnedByEmpty
    <3>2. f \in inode_bits /\ f \in Ino /\ itable'[f] = itable[f]
      BY <3>1 DEF Unnamed, Steady, TypeOK
    <3> QED
      BY <3>2 DEF OfFiles
  <2> QED
    BY <2>1, FreeTextKept DEF Unnamed
<1> QED
  BY <1>1, <1>3, <1>4 DEF Contents

LEMMA RemovesContents ==
  ASSUME Steady, Exclusive', TypeOK', Up',
         NEW d \in LiveDirs, NEW i, NEW p, Removes(d, i, p), RemovesBlocks(i),
         itable[i].mode \in {"dir", "file"}
  PROVE  Contents' /\ (VacantText => VacantText')
<1>1. d \in Ino /\ p \in Spots /\ itable[d] \in Inode /\ itable[d].mode = "dir"
  BY LiveSpots, ExtentFacts DEF Removes, LiveDirs
<1>2. itable'[d].ext = itable[d].ext /\ itable'[d].mode = "dir"
  BY <1>1 DEF Removes, Inode
<1>3. ASSUME VacantText PROVE VacantText'
  <2>1. Vacancy.name \in Text
    BY DEF Vacancy, Text
  <2>2. ASSUME NEW q \in Places(itable'[d].ext), At(data', q).ino = -1
        PROVE  At(data', q).name \in Text
    <3>1. q \in Places(itable[d].ext)
      BY <1>2
    <3> QED
      BY <1>3, <2>1, <2>2, <3>1, RemovesOthers
      DEF VacantText
  <2>3. ASSUME NEW e \in LiveDirs' \ {d} PROVE e \in LiveDirs /\ SameEntries(e)
    BY RemovesOthers
  <2> QED
    BY <1>3, <2>2, <2>3, VacantTextKept
<1>4. SizesFit'
  BY <1>2, NoSize DEF Removes, SizesFit, Steady, Contents
<1>5. FreeText'
  <2>1. OfFiles' \subseteq OfFiles
    <3> SUFFICES ASSUME NEW f \in inode_bits', itable'[f].mode = "file",
                        NEW b \in OwnedBy(itable'[f].ext)
                 PROVE  b \in OfFiles
      BY DEF OfFiles
    <3>1. f # i /\ f # d
      BY <1>2 DEF Removes
    <3>2. f \in inode_bits /\ f \in Ino /\ itable'[f] = itable[f]
      BY <3>1 DEF Removes, Steady, TypeOK
    <3> QED
      BY <3>2 DEF OfFiles
  <2>2. block_bits \ block_bits' \subseteq OfFiles
    BY DEF RemovesBlocks, OfFiles, Removes
  <2>3. ASSUME NEW b \in Region, data'[b] # data[b]
        PROVE  \E e \in LiveDirs' : b \in OwnedBy(itable'[e].ext)
    <3>1. b = p[2]
      BY <1>1, <2>3, PutAt, Types DEF Removes, Steady
    <3>2. b \in OwnedBy(itable[d].ext)
      BY <1>1, <3>1, LiveSpots, ExtentFacts DEF Removes
    <3>3. d \in LiveDirs'
      BY RemovesOthers DEF Removes
    <3> QED
      BY <1>2, <3>2, <3>3
  <2> QED
    BY <2>1, <2>2, <2>3, FreeTextKept
<1> QED
  BY <1>3, <1>4, <1>5 DEF Contents

LEMMA ChangesContents ==
  ASSUME Steady, Exclusive', TypeOK', Up', NEW f, Changes(f), ChangesBlocks(f)
  PROVE  Contents' /\ (VacantText => VacantText')
<1>1. LiveDirs' \subseteq LiveDirs
  BY DirsAreInodes DEF Changes, LiveDirs, InUse, Steady
<1>2. ASSUME VacantText PROVE VacantText'
  BY <1>1, <1>2, ChangesEntries, VacantTextKept
<1>3. SizesFit'
  BY DEF Changes, ChangesBlocks, SizesFit, Steady, Contents
<1>4. FreeText'
  <2>1. OfFiles' \subseteq OfFiles \cup OwnedBy(itable'[f].ext)
    <3> SUFFICES ASSUME NEW g \in inode_bits', itable'[g].mode = "file", g # f,
                        NEW b \in OwnedBy(itable'[g].ext)
                 PROVE  b \in OfFiles
      BY DEF OfFiles
    <3>1. g \in inode_bits /\ g \in Ino /\ itable'[g] = itable[g]
      BY DEF Changes, Steady, TypeOK
    <3> QED
      BY <3>1 DEF OfFiles
  <2>2. OwnedBy(itable[f].ext) \subseteq OfFiles
    BY DEF OfFiles, Changes
  <2> QED
    BY <2>1, <2>2, FreeTextKept DEF Changes, ChangesBlocks
<1> QED
  BY <1>2, <1>3, <1>4 DEF Contents

-----------------------------------------------------------------------------
(* The effects of the actions.  What a step adds to the free-block counter *)
(* is at least what it takes from the bitmap.                              *)

Counted ==
  free_blocks_count' + Cardinality(block_bits')
    >= free_blocks_count + Cardinality(block_bits)

LEMMA BitsCounted ==
  ASSUME block_bits \subseteq Region
  PROVE  /\ IsFiniteSet(block_bits) /\ Cardinality(block_bits) \in Nat
         /\ IsFiniteSet(Region) /\ Cardinality(Region) = DataBlocks
<1>1. 0 \in Int /\ DataBlocks - 1 \in Int /\ DataBlocks \in Nat /\ DataBlocks >= 1
  BY A1fsAssumption, ConstantTypes
<1>2. IsFiniteSet(Region) /\ Cardinality(Region) = DataBlocks
  BY <1>1, FS_Interval DEF Region
<1> QED
  BY <1>2, FS_Subset, FS_CardinalityType

\* A set of n new blocks is marked, and the counter goes down by n.
LEMMA TakenCounted ==
  ASSUME Steady, NEW S, IsFiniteSet(S), S \cap block_bits = {},
         block_bits' = block_bits \cup S,
         free_blocks_count' = free_blocks_count - Cardinality(S)
  PROVE  Counted
<1>1. IsFiniteSet(block_bits) /\ Cardinality(block_bits) \in Nat
  BY BitsCounted DEF Steady, Inside
<1>2. Cardinality(S) \in Nat /\ free_blocks_count \in Nat
  BY FS_CardinalityType DEF Steady, TypeOK
<1>3. Cardinality(block_bits \cap S) = 0
  <2>1. block_bits \cap S = {}
    OBVIOUS
  <2> QED
    BY <2>1, FS_EmptySet
<1>4. Cardinality(block_bits') = Cardinality(block_bits) + Cardinality(S)
  BY <1>1, <1>2, <1>3, FS_Union
<1> QED
  BY <1>1, <1>2, <1>4 DEF Counted

\* The blocks S lose their bits, and the counter goes up by as many at least.
LEMMA GivenCounted ==
  ASSUME Steady, NEW S, S \subseteq block_bits, NEW more \in Nat,
         block_bits' = block_bits \ S,
         free_blocks_count' = free_blocks_count + Cardinality(S) + more
  PROVE  Counted
<1>1. IsFiniteSet(block_bits) /\ Cardinality(block_bits) \in Nat
  BY BitsCounted DEF Steady, Inside
<1>2. IsFiniteSet(S) /\ Cardinality(S) \in Nat /\ free_blocks_count \in Nat
  BY <1>1, FS_Subset, FS_CardinalityType DEF Steady, TypeOK
<1>3. Cardinality(block_bits') = Cardinality(block_bits) - Cardinality(S)
  <2>1. block_bits \cap S = S
    OBVIOUS
  <2>2. Cardinality(block_bits \ S)
          = Cardinality(block_bits) - Cardinality(block_bits \cap S)
    BY <1>1, FS_Difference
  <2> QED
    BY <2>1, <2>2
<1> QED
  BY <1>1, <1>2, <1>3 DEF Counted

Counting(t, d) == [t EXCEPT ![d].num_entries = @ + 1]
WithExtents(t, d, ext) == [t EXCEPT ![d].ext = ext]

LEMMA NewInodeTable ==
  ASSUME Steady, NEW d \in LiveDirs, NEW i \in Ino \ inode_bits,
         NEW mode \in {"dir", "file"}, NEW ext \in Seq(Extent), NEW t,
         t = WithInode(i, mode) \/ t = WithExtents(WithInode(i, mode), d, ext),
         itable' = Counting(t, d)
  PROVE  /\ d \in Ino \ {i} /\ WithInode(i, mode)[d] = itable[d]
         /\ itable'[i] = Created(mode)
         /\ \A e \in Ino \ {d, i} : itable'[e] = itable[e]
         /\ itable'[d].mode = itable[d].mode
         /\ itable'[d].ext =
              IF t = WithInode(i, mode) THEN itable[d].ext ELSE ext
         /\ itable'[d].num_entries = itable[d].num_entries + 1
<1>1. d \in Ino \ {i} /\ itable \in [Ino -> Inode] /\ itable[d] \in Inode
  BY LiveSpots DEF LiveDirs, InUse, Steady, TypeOK
<1>2. /\ WithInode(i, mode) \in TableType /\ WithInode(i, mode)[d] = itable[d]
      /\ WithInode(i, mode)[i] = Created(mode)
      /\ \A e \in Ino \ {i} : WithInode(i, mode)[e] = itable[e]
  BY <1>1, CreatedType DEF WithInode, TableType
<1>3. /\ t \in TableType
      /\ \A e \in Ino \ {d} : t[e] = WithInode(i, mode)[e]
      /\ t[d].mode = itable[d].mode /\ t[d].num_entries = itable[d].num_entries
      /\ t[d].ext = IF t = WithInode(i, mode) THEN itable[d].ext ELSE ext
  <2>1. CASE t = WithInode(i, mode)
    BY <1>2, <2>1
  <2>2. CASE t = WithExtents(WithInode(i, mode), d, ext) /\ t # WithInode(i, mode)
    BY <1>1, <1>2, <2>2 DEF TableType, Inode, WithExtents
  <2> QED
    BY <2>1, <2>2
<1>4. /\ \A e \in Ino \ {d} : itable'[e] = t[e]
      /\ itable'[d] = [t[d] EXCEPT !.num_entries = @ + 1]
  BY <1>1, <1>3 DEF TableType, Counting
<1>5. t[d] \in Inode
  BY <1>1, <1>3 DEF TableType
<1>6. /\ itable'[d].mode = t[d].mode /\ itable'[d].ext = t[d].ext
      /\ itable'[d].num_entries = t[d].num_entries + 1
  BY <1>4, <1>5 DEF Inode
<1> QED
  BY <1>1, <1>2, <1>3, <1>4, <1>6

\* The entry is in the first vacant place, and may be counted or not.
LEMMA PlaceJoins ==
  ASSUME Steady, NEW d \in LiveDirs, NEW n \in Names, NEW i \in Ino \ inode_bits,
         NEW mode, NEW p, p = FirstOf(Vacant(itable[d].ext, data)),
         Vacant(itable[d].ext, data) # {},
         inode_bits' = inode_bits \cup {i}, block_bits' = block_bits,
         itable'[i] = Created(mode),
         \A e \in Ino \ {d, i} : itable'[e] = itable[e],
         itable'[d].mode = itable[d].mode, itable'[d].ext = itable[d].ext,
         data' = WithEntry(data, p, [ino |-> i, name |-> n])
  PROVE  Joins(d, n, i, mode, p) /\ EntersBlocks(d)
<1> DEFINE V == Vacant(itable[d].ext, data)
           v == [ino |-> i, name |-> n]
<1>1. d \in Ino \ {i}
  BY LiveSpots DEF LiveDirs, InUse
<1>2. V \in SUBSET Spots /\ V \subseteq Places(itable[d].ext)
  BY <1>1, ExtentFacts DEF Vacant
<1>3. p \in V /\ \A q \in V \ {p} : Before(p, q)
  BY <1>2, FirstOfExists
<1>4. p \in Spots /\ p \in Places(itable[d].ext) /\ At(data, p).ino = -1
  BY <1>2, <1>3 DEF Vacant
<1> HIDE DEF v
<1>5. /\ At(data', p) = v
      /\ \A q \in Spots \ {p} : At(data', q) = At(data, q)
      /\ \A b \in Region \ {p[2]} : data'[b] = data[b]
  BY <1>4, PutAt, Types DEF Steady, v
<1>6. /\ Places(itable'[d].ext) = Places(itable[d].ext)
      /\ Places(itable[d].ext) \subseteq Spots
  BY <1>1, ExtentFacts
<1>7. ASSUME NEW e \in LiveDirs \ {d}, NEW q \in Places(itable[e].ext)
      PROVE  At(data', q) = At(data, q)
  <2>1. e \in Ino \ {d} /\ q \in Spots
    BY LiveSpots, ExtentFacts
  <2> QED
    BY <1>1, <1>4, <1>5, <2>1, Apart
<1>8. \A q \in Places(itable[d].ext) \ {p} :
        /\ At(data', q) = At(data, q)
        /\ At(data', q).ino = -1 => Before(p, q)
  BY <1>3, <1>5, <1>6 DEF Vacant
<1>9. Joins(d, n, i, mode, p)
  <2>1. p \notin Live(d)
    BY <1>4 DEF Live
  <2> QED
    BY <1>1, <1>4, <1>5, <1>6, <1>7, <1>8, <2>1 DEF Joins, v
<1>10. EntersBlocks(d)
  <2>1. p[2] \in OwnedBy(itable'[d].ext)
    BY <1>1, <1>4, ExtentFacts
  <2> QED
    BY <1>5, <2>1 DEF EntersBlocks
<1> QED
  BY <1>9, <1>10

LEMMA AddEntryDoes ==
  ASSUME Steady, NEW d \in LiveDirs, NEW n \in Names, NEW i \in Ino,
         NEW mode \in {"dir", "file"}, AddEntry(d, n, i, mode)
  PROVE  \E p : Enters(d, n, i, mode, p) /\ EntersBlocks(d) /\ Counted
<1> DEFINE t == WithInode(i, mode)
           p == FirstOf(Vacant(itable[d].ext, data))
           v == [ino |-> i, name |-> n]
<1>1. i \in Ino \ inode_bits /\ inode_bits' = inode_bits \cup {i}
  BY DEF AddEntry, NewInode, TakeInode
<1>2. itable' = Counting(t, d)
  BY DEF AddEntry, Counting
<1>3. /\ d \in Ino \ {i} /\ t[d] = itable[d]
      /\ itable'[i] = Created(mode)
      /\ \A e \in Ino \ {d, i} : itable'[e] = itable[e]
      /\ itable'[d].mode = itable[d].mode
      /\ itable'[d].ext = itable[d].ext
      /\ itable'[d].num_entries = itable[d].num_entries + 1
  <2>1. itable[d].ext \in Seq(Extent)
    BY LiveSpots, ExtentFacts
  <2>2. itable' = Counting(WithInode(i, mode), d)
    BY <1>2
  <2> QED
    BY <1>1, <2>1, <2>2, NewInodeTable
<1> HIDE DEF t
<1>4. Vacant(itable[d].ext, data) # {} /\ data' = WithEntry(data, p, v)
  <2>1. data' = Entered(data, t[d].ext, n, i) /\ Vacant(t[d].ext, data) # {}
    BY DEF AddEntry, t
  <2> QED
    BY <1>3, <2>1 DEF Entered, WithEntry
<1>5. block_bits' = block_bits /\ free_blocks_count' = free_blocks_count
  BY DEF AddEntry
<1>6. Joins(d, n, i, mode, p) /\ EntersBlocks(d)
  BY <1>1, <1>3, <1>4, <1>5, PlaceJoins
<1>7. Counted
  <2>1. Cardinality(block_bits) \in Nat /\ free_blocks_count \in Nat
    BY BitsCounted DEF Steady, Inside, TypeOK
  <2> QED
    BY <1>5, <2>1 DEF Counted
<1> QED
  BY <1>3, <1>6, <1>7 DEF Enters

\* The block that a directory without one gets: free before, and its entries
\* are vacant but keep their names.
LEMMA AddEntryInNewBlockDoes ==
  ASSUME Steady, NEW d \in LiveDirs, NEW n \in Names, NEW i \in Ino,
         NEW mode \in {"dir", "file"},
         itable[d].ext = <<>>, AddEntryInNewBlock(d, n, i, mode)
  PROVE  \E p : Enters(d, n, i, mode, p) /\ EntersBlocks(d) /\ Counted
<1> DEFINE t == WithInode(i, mode)
           v == [ino |-> i, name |-> n]
<1>1. i \in Ino \ inode_bits /\ inode_bits' = inode_bits \cup {i}
  BY DEF AddEntryInNewBlock, NewInode, TakeInode
<1>2. d \in Ino \ {i} /\ t[d].ext = <<>>
  BY <1>1, LiveSpots DEF Steady, TypeOK, WithInode, LiveDirs, InUse
<1>3. PICK r \in 0 .. MaxIndex :
       LET ext == Grown(<<>>, block_bits, r, 1)
           b == AllocatedAt(<<>>, block_bits, r, 1)
           first == LastExtent(ext).start
       IN  /\ GetAvailableBlock(block_bits, free_blocks_count, 1, r)
           /\ first \in Region
           /\ data' = Entered(Vacated(data, first), ext, n, i)
           /\ itable' = Counting(WithExtents(t, d, ext), d)
           /\ block_bits' = FlipBits(block_bits, {b})
           /\ free_blocks_count' = free_blocks_count - 1
  <2>1. WithInode(i, mode) \in TableType
    BY CreatedType, Types DEF Steady
  <2>2. \A ext : [WithInode(i, mode) EXCEPT ![d].ext = ext, ![d].num_entries = @ + 1]
                   = Counting(WithExtents(WithInode(i, mode), d, ext), d)
    BY <1>2, <2>1 DEF TableType, Counting, WithExtents
  <2> QED
    BY <1>2, <2>2 DEF AddEntryInNewBlock
<1> DEFINE ext == Grown(<<>>, block_bits, r, 1)
           dat == Vacated(data, r)
           V == Vacant(ext, dat)
           p == FirstOf(V)
<1>4. /\ ext = <<[start |-> r, count |-> 1]>>
      /\ AllocatedAt(<<>>, block_bits, r, 1) = r
      /\ LastExtent(ext).start = r
  BY DEF Grown, AllocatedAt, LastExtent
<1> HIDE DEF t, ext
<1>5. ext \in Seq(Extent) /\ Len(ext) <= 1 /\ OwnedBy(ext) = {r}
  <2>1. [start |-> r, count |-> 1] \in Extent
    BY DEF Extent
  <2>2. ext \in Seq(Extent) /\ Len(ext) <= 1
    BY <1>4, <2>1
  <2>3. DOMAIN ext = {1} /\ ext[1].start = r /\ ext[1].count = 1
    BY <1>4
  <2>4. Run(r, 1) = {r}
    BY DEF Run
  <2>5. ASSUME NEW b PROVE b \in OwnedBy(ext) <=> b \in {r}
    BY <2>3, <2>4, OwnedByDef
  <2> QED
    BY <2>2, <2>5
<1>6. /\ d \in Ino \ {i}
      /\ itable'[i] = Created(mode)
      /\ \A e \in Ino \ {d, i} : itable'[e] = itable[e]
      /\ itable'[d].mode = itable[d].mode
      /\ itable'[d].ext = ext
      /\ itable'[d].num_entries = itable[d].num_entries + 1
  <2> DEFINE u == WithExtents(t, d, ext)
  <2>1. itable' = Counting(u, d) /\ u = WithExtents(WithInode(i, mode), d, ext)
    BY <1>3, <1>4 DEF t, ext
  <2>2. u[d].ext = ext /\ WithInode(i, mode)[d].ext = <<>> /\ ext # <<>>
    <3>1. t \in TableType /\ t = WithInode(i, mode)
      BY CreatedType, Types DEF t, Steady
    <3> QED
      BY <1>2, <1>4, <3>1 DEF TableType, WithExtents, Inode
  <2>3. u # WithInode(i, mode)
    BY <2>2
  <2> HIDE DEF u
  <2> QED
    BY <1>1, <1>5, <2>1, <2>3, NewInodeTable
<1>7. r \notin block_bits /\ block_bits' = block_bits \cup {r}
  <2>1. Run(r, 1) = {r} /\ r \in Region
    BY <1>3, <1>4 DEF Run, ext
  <2>2. GetAvailableBlock(block_bits, free_blocks_count, 1, r) /\ r \in Nat
    BY <1>3
  <2>3. Run(r, 1) \cap block_bits = {}
    BY <2>1, <2>2, AvailableIsFree
  <2>4. block_bits' = FlipBits(block_bits, {r})
    BY <1>3, <1>4
  <2> QED
    BY <2>1, <2>3, <2>4 DEF FlipBits
<1> r \in Region /\ r \in Nat
  BY <1>3, <1>4 DEF ext
<1>8. /\ dat \in DataType
      /\ \A b \in Region \ {r} : dat[b] = data[b]
      /\ \A k \in Slots : dat[r][k].ino = -1 /\ dat[r][k].name \in Text
  <2>1. data \in DataType
    BY Types DEF Steady
  <2>2. dat \in DataType
    BY <2>1, VacatedType
  <2>3. \A b \in Region \ {r} : dat[b] = data[b]
    BY <2>1 DEF Vacated, DataType
  <2>4. ASSUME NEW k \in Slots PROVE dat[r][k].ino = -1 /\ dat[r][k].name \in Text
    <3>1. dat[r][k] = [data[r][k] EXCEPT !.ino = -1]
      BY <2>1 DEF Vacated, DataType
    <3>2. data[r][k] \in Entry
      BY <2>1 DEF DataType
    <3>3. data[r][k].name \in Text
      BY <1>7 DEF Steady, Contents, FreeText
    <3> QED
      BY <3>1, <3>2, <3>3 DEF Entry
  <2> QED
    BY <2>2, <2>3, <2>4
<1> HIDE DEF dat
<1>9. Places(ext) \subseteq Spots /\ \A q \in Places(ext) : q[2] = r
  BY <1>5, PlacesAreSpots
<1>10. \A q \in Places(ext) : At(dat, q).ino = -1 /\ At(dat, q).name \in Text
  BY <1>8, <1>9, SpotsType DEF At
<1>11. V = Places(ext)
  BY <1>10 DEF Vacant
<1>12. Places(ext) # {}
  <2>1. 0 \in Slots
    BY A1fsAssumption DEF Slots
  <2>2. <<1, r, 0>> \in Places(ext)
    BY <1>5, <2>1, PlaceIs
  <2> QED
    BY <2>2
<1>13. p \in Places(ext) /\ \A q \in Places(ext) \ {p} : Before(p, q)
  BY <1>9, <1>11, <1>12, FirstOfExists
<1>14. data' = WithEntry(dat, p, v)
  BY <1>3, <1>4 DEF Entered, WithEntry, ext, dat
<1> HIDE DEF p, v
<1>15. p \in Spots /\ p[2] = r
  BY <1>9, <1>13
<1>16. /\ At(data', p) = v
       /\ \A q \in Spots \ {p} : At(data', q) = At(dat, q)
       /\ \A b \in Region \ {r} : data'[b] = data[b]
  BY <1>8, <1>14, <1>15, PutAt
<1>17. ASSUME NEW e \in LiveDirs \ {d}, NEW q \in Places(itable[e].ext)
       PROVE  At(data', q) = At(data, q)
  <2>1. e \in Ino \ {d} /\ q[2] \in OwnedBy(itable[e].ext)
    BY LiveSpots, ExtentFacts
  <2>2. q[2] \in Region \ {r}
    BY <1>7, <2>1, ExtentFacts
  <2> QED
    BY <1>16, <2>2 DEF At
<1>18. \A q \in Places(ext) \ {p} :
         /\ At(data', q).ino = -1 /\ At(data', q).name \in Text
         /\ Before(p, q)
  <2>1. ASSUME NEW q \in Places(ext) \ {p} PROVE At(data', q) = At(dat, q)
    BY <1>9, <1>16, <2>1
  <2> QED
    BY <1>10, <1>13, <2>1
<1>19. Places(itable[d].ext) = {} /\ Live(d) = {}
  BY NoPlaces DEF Live
<1>20. Enters(d, n, i, mode, p)
  BY <1>1, <1>6, <1>13, <1>16, <1>17, <1>18, <1>19 DEF Enters, Joins, v
<1>21. EntersBlocks(d)
  BY <1>5, <1>6, <1>7, <1>16, OwnedByEmpty DEF EntersBlocks
<1>22. Counted
  <2>1. IsFiniteSet({r}) /\ Cardinality({r}) = 1
    BY FS_Singleton
  <2> QED
    BY <1>3, <1>7, <2>1, TakenCounted
<1> QED
  BY <1>20, <1>21, <1>22

LEMMA AddEntryNoSpaceDoes ==
  ASSUME Steady, NEW d \in LiveDirs, NEW n \in Names, NEW i \in Ino,
         NEW mode \in {"dir", "file"}, AddEntryNoSpace(d, n, i, mode)
  PROVE  Unnamed(i, mode) /\ block_bits' = block_bits /\ Counted
<1>1. Unnamed(i, mode)
  BY DEF AddEntryNoSpace, NewInode, TakeInode, WithInode, Unnamed, Steady, TypeOK
<1>2. block_bits' = block_bits /\ free_blocks_count' = free_blocks_count
  BY DEF AddEntryNoSpace
<1>3. Cardinality(block_bits) \in Nat /\ free_blocks_count \in Nat
  BY BitsCounted DEF Steady, Inside, TypeOK
<1> QED
  BY <1>1, <1>2, <1>3 DEF Counted

\* All the blocks of an inode with one extent lose their bits.
LEMMA FlippedAll ==
  ASSUME NEW bits, NEW ext \in Seq(Extent), Len(ext) <= 1,
         OwnedBy(ext) \subseteq bits
  PROVE  Flipped(bits, Pairs(ext)) = bits \ OwnedBy(ext)
<1>1. ASSUME NEW p \in Pairs(ext) PROVE p = <<1, p[2]>>
  <2>1. PICK x \in DOMAIN ext : p \in {x} \X Run(ext[x].start, ext[x].count)
    BY DEF Pairs
  <2>2. x = 1
    OBVIOUS
  <2> QED
    BY <2>1, <2>2
<1>2. ASSUME NEW b \in OwnedBy(ext)
      PROVE  Cardinality({p \in Pairs(ext) : p[2] = b}) % 2 = 1
  <2>1. {p \in Pairs(ext) : p[2] = b} = {<<1, b>>}
    BY <1>1 DEF OwnedBy
  <2>2. Cardinality({<<1, b>>}) = 1
    BY FS_Singleton
  <2>3. Cardinality({p \in Pairs(ext) : p[2] = b}) = 1
    BY <2>1, <2>2
  <2>4. 1 % 2 = 1
    OBVIOUS
  <2> QED
    BY <2>3, <2>4
<1>3. OwnedBy(ext) = {p[2] : p \in Pairs(ext)}
  BY DEF OwnedBy
<1> QED
  BY <1>2, <1>3 DEF Flipped, FlipBits

Reset(t, i) == [t EXCEPT ![i].size = 0, ![i].ext = <<>>, ![i].num_entries = 0]
Recounted(t, d, k) == [t EXCEPT ![d].num_entries = k]

LEMMA RemovedTable ==
  ASSUME NEW t \in TableType, NEW i \in Ino, NEW d \in Ino \ {i}, NEW k
  PROVE  LET u == Recounted(Reset(t, i), d, k)
         IN  /\ Reset(t, i)[d] = t[d]
             /\ \A e \in Ino \ {d, i} : u[e] = t[e]
             /\ u[i].mode = t[i].mode /\ u[i].size = 0 /\ u[i].ext = <<>>
             /\ u[i].num_entries = 0
             /\ u[d] = [t[d] EXCEPT !.num_entries = k]
BY DEF TableType, Inode, Reset, Recounted

\* What rmdir and unlink have in common.
LEMMA RemovedDoes ==
  ASSUME Steady, NEW d \in LiveDirs, NEW n \in Names, NEW i \in Ino,
         NEW freed \in Nat, Lookup(d, n) = i, Removed(d, i, freed)
  PROVE  /\ free_blocks_count' = free_blocks_count + freed + 1
         /\ i \in inode_bits \ {0}
         /\ \E p : At(data, p).name = n /\ Removes(d, i, p)
<1> DEFINE found == Naming(itable[d].ext, i)
<1>1. i # -1
  BY DEF Ino
<1>2. d \in Ino /\ itable \in TableType
  BY LiveSpots, Types DEF Steady
<1>3. PICK p \in Live(d) : At(data, p).name = n /\ At(data, p).ino = i
  BY <1>1, LookupIsLive
<1>4. i \in inode_bits \ {0, d}
  BY <1>3 DEF Steady, WellNamed, EntriesInUse
<1>5. \A k : LET u == Recounted(Reset(itable, i), d, k)
            IN  /\ Reset(itable, i)[d] = itable[d]
                /\ \A e \in Ino \ {d, i} : u[e] = itable[e]
                /\ u[i].mode = itable[i].mode /\ u[i].size = 0 /\ u[i].ext = <<>>
                /\ u[i].num_entries = 0
                /\ u[d] = [itable[d] EXCEPT !.num_entries = k]
  BY <1>2, <1>4, RemovedTable
<1>6. found = {p}
  <2>1. p \in Places(itable[d].ext)
    BY LiveSpots
  <2>2. ASSUME NEW q \in found PROVE q = p
    <3>1. q \in Live(d) /\ At(data, q).ino = i
      BY <1>1 DEF Live, Naming
    <3> QED
      BY <1>3, <3>1 DEF Steady, WellNamed, OneEntryEach
  <2> QED
    BY <1>3, <2>1, <2>2 DEF Naming
<1>7. FirstOf({p}) = p
  BY LiveSpots, FirstOfUnique
<1>8. /\ inode_bits' = inode_bits \ {i}
      /\ itable' = Recounted(Reset(itable, i), d, itable[d].num_entries - 1)
      /\ data' = WithEntry(data, p, Vacancy)
      /\ free_blocks_count' = free_blocks_count + freed + 1
  <2> DEFINE t == Reset(itable, i)
             all == IF i \in inode_bits THEN Naming(t[d].ext, i) ELSE {}
  <2>1. t[d] = itable[d]
    BY <1>5
  <2>2. all = {p}
    BY <1>4, <1>6, <2>1
  <2>3. /\ inode_bits' = inode_bits \ {i}
        /\ itable' = Recounted(t, d, t[d].num_entries - (IF all = {} THEN 0 ELSE 1))
        /\ data' = IF all = {} THEN data ELSE WithEntry(data, FirstOf(all), Vacancy)
        /\ free_blocks_count' = free_blocks_count + freed + (IF all = {} THEN 0 ELSE 1)
    BY DEF Removed, Reset, Recounted, WithEntry
  <2>4. {p} # {}
    OBVIOUS
  <2> HIDE DEF t, all
  <2> QED
    BY <1>7, <2>1, <2>2, <2>3, <2>4 DEF t
<1>9. /\ \A e \in Ino \ {d, i} : itable'[e] = itable[e]
      /\ itable'[i].mode = itable[i].mode
      /\ itable'[i].size = 0 /\ itable'[i].ext = <<>>
      /\ itable'[i].num_entries = 0
      /\ itable'[d] = [itable[d] EXCEPT !.num_entries = @ - 1]
  BY <1>5, <1>8
<1>10. Removes(d, i, p)
  BY <1>3, <1>4, <1>8, <1>9 DEF Removes
<1> QED
  BY <1>3, <1>4, <1>8, <1>10

LEMMA RmdirDoes ==
  ASSUME Steady, NEW d \in LiveDirs, NEW n \in Names, NEW i \in Ino,
         Rmdir(d, n, i)
  PROVE  /\ \E p : At(data, p).name = n /\ Removes(d, i, p)
         /\ RemovesBlocks(i) /\ Counted /\ itable[i].mode = "dir"
         /\ ShortBy(0) => Live(i) = {}
<1>1. Lookup(d, n) = i /\ itable[i].mode = "dir" /\ itable[i].num_entries = 0
  BY DEF Rmdir, OldPath
<1>2. /\ free_blocks_count' = free_blocks_count + 0 + 1
      /\ \E p : At(data, p).name = n /\ Removes(d, i, p)
  <2>1. Removed(d, i, 0) /\ 0 \in Nat
    BY DEF Rmdir
  <2> QED
    BY <1>1, <2>1, RemovedDoes
<1>3. ASSUME ShortBy(0) PROVE Live(i) = {}
  <2>1. i \in LiveDirs
    BY <1>1, <1>2 DEF Removes, LiveDirs, InUse
  <2>2. Cardinality(Live(i)) - 0 \in 0 .. 0
    BY <1>1, <1>3, <2>1 DEF ShortBy
  <2>3. Cardinality(Live(i)) = 0 /\ IsFiniteSet(Live(i))
    BY <2>1, <2>2, LiveSpots
  <2> QED
    BY <2>3, FS_EmptySet
<1>4. block_bits' = block_bits
  BY DEF Rmdir
<1>5. Counted
  <2>1. Cardinality(block_bits) \in Nat /\ free_blocks_count \in Nat
    BY BitsCounted DEF Steady, Inside, TypeOK
  <2> QED
    BY <1>2, <1>4, <2>1 DEF Counted
<1> QED
  BY <1>1, <1>2, <1>3, <1>4, <1>5 DEF RemovesBlocks

LEMMA UnlinkDoes ==
  ASSUME Steady, NEW d \in LiveDirs, NEW n \in Names, NEW i \in Ino,
         Unlink(d, n, i)
  PROVE  /\ \E p : At(data, p).name = n /\ Removes(d, i, p)
         /\ RemovesBlocks(i) /\ Counted /\ itable[i].mode = "file"
         /\ i \notin LiveDirs
<1> DEFINE ext == itable[i].ext
<1>1. Lookup(d, n) = i /\ itable[i].mode = "file"
  BY DEF Unlink, OldPath
<1>2. i \notin LiveDirs
  BY <1>1 DEF LiveDirs
<1>3. /\ ext \in Seq(Extent) /\ Len(ext) <= 1 /\ OwnedBy(ext) \subseteq block_bits
      /\ Cardinality(Pairs(ext)) \in Nat
      /\ Cardinality(Pairs(ext)) = Cardinality(OwnedBy(ext))
  BY ExtentFacts, PairsType, OneExtent
<1>4. block_bits' = block_bits \ OwnedBy(ext)
  BY <1>3, FlippedAll DEF Unlink
<1>5. /\ free_blocks_count' = free_blocks_count + Cardinality(Pairs(ext)) + 1
      /\ \E q : At(data, q).name = n /\ Removes(d, i, q)
  BY <1>1, <1>3, RemovedDoes DEF Unlink
<1>6. Counted
  <2>1. 1 \in Nat
    OBVIOUS
  <2> QED
    BY <1>3, <1>4, <1>5, <2>1, GivenCounted
<1> QED
  BY <1>1, <1>2, <1>4, <1>5, <1>6 DEF RemovesBlocks

\* truncate_helper for a file without blocks: one run of free blocks, all of
\* them zeroed.
LEMMA ExtendIs ==
  ASSUME Steady, NEW f \in Ino, NEW s \in Nat, NEW c,
         itable[f].ext = <<>>, Extend(f, s, c)
  PROVE  \E r \in Nat : LET n == BlocksFor(s)
                            ext == <<[start |-> r, count |-> n]>>
         IN  /\ s > 0 /\ n \in Nat /\ n >= 1
             /\ Run(r, n) \subseteq Region /\ Run(r, n) \cap block_bits = {}
             /\ ZeroedBlocks(ext, s) = Run(r, n)
             /\ itable' = [itable EXCEPT ![f].ext = ext, ![f].size = s]
             /\ data' = Stored(Zeroed(data, ext, s), ext, c)
             /\ block_bits' = block_bits \cup Run(r, n)
             /\ free_blocks_count' = free_blocks_count - n
<1> DEFINE n == BlocksFor(s)
<1>1. Request(f, s) = s /\ DataFor(f, s) = data
  BY DEF Request, DataFor, FillsUp
<1>2. s > 0 /\ free_blocks_count' = free_blocks_count - n
  BY <1>1 DEF Extend
<1>3. n \in Nat /\ n >= 1
  <2>1. s \in Int /\ s # 0 /\ Wanted(s) = n
    BY <1>2 DEF Wanted
  <2> QED
    BY <2>1, WantedType
<1> HIDE DEF n
<1>4. PICK r \in 0 .. MaxIndex :
           LET ext == Grown(<<>>, block_bits, r, n)
               at == AllocatedAt(<<>>, block_bits, r, n)
           IN  /\ GetAvailableBlock(block_bits, free_blocks_count, n, r)
               /\ ZeroedBlocks(ext, s) \subseteq Region
               /\ itable' = [itable EXCEPT ![f].ext = ext, ![f].size = s]
               /\ data' = Stored(Zeroed(data, ext, s), ext, c)
               /\ block_bits' = FlipBits(block_bits, Run(at, n))
  BY <1>1 DEF Extend, n
<1> DEFINE ext == <<[start |-> r, count |-> n]>>
<1>5. Grown(<<>>, block_bits, r, n) = ext /\ AllocatedAt(<<>>, block_bits, r, n) = r
  BY DEF Grown, AllocatedAt
<1>6. LastExtent(ext).start = r /\ LastExtent(ext).count = n
  BY DEF LastExtent
<1> HIDE DEF ext
<1>7. /\ GetAvailableBlock(block_bits, free_blocks_count, n, r)
      /\ ZeroedBlocks(ext, s) \subseteq Region
      /\ itable' = [itable EXCEPT ![f].ext = ext, ![f].size = s]
      /\ data' = Stored(Zeroed(data, ext, s), ext, c)
      /\ block_bits' = FlipBits(block_bits, Run(r, n))
  BY <1>4, <1>5
<1>8. r \in Nat
  OBVIOUS
<1>9. ZeroedBlocks(ext, s) = Run(r, n)
  <2>1. r + n - n = r
    BY <1>3, <1>8
  <2> QED
    BY <1>6, <2>1 DEF ZeroedBlocks, n
<1>10. Run(r, n) \cap block_bits = {}
  BY <1>3, <1>7, <1>8, <1>9, AvailableIsFree
<1>11. block_bits' = block_bits \cup Run(r, n)
  BY <1>7, <1>10 DEF FlipBits
<1> QED
  BY <1>2, <1>3, <1>7, <1>8, <1>9, <1>10, <1>11 DEF n, ext

LEMMA OneRun ==
  ASSUME NEW r \in Nat, NEW n \in Nat, n >= 1
  PROVE  LET ext == <<[start |-> r, count |-> n]>>
         IN  /\ ext \in Seq(Extent) /\ Len(ext) = 1
             /\ ext[1].start = r /\ ext[1].count = n
             /\ OwnedBy(ext) = Run(r, n) /\ r \in Run(r, n)
             /\ Cardinality(Pairs(ext)) = n /\ After(ext) = r + n
             /\ IsFiniteSet(Run(r, n)) /\ Cardinality(Run(r, n)) = n
<1> DEFINE ext == <<[start |-> r, count |-> n]>>
<1>1. [start |-> r, count |-> n] \in Extent
  BY DEF Extent
<1>2. /\ ext \in Seq(Extent) /\ Len(ext) = 1 /\ DOMAIN ext = {1}
      /\ ext[1].start = r /\ ext[1].count = n
  BY <1>1
<1> HIDE DEF ext
<1>3. OwnedBy(ext) = Run(r, n)
  <2>1. ASSUME NEW b PROVE b \in OwnedBy(ext) <=> b \in Run(r, n)
    BY <1>2, OwnedByDef
  <2> QED
    BY <2>1
<1>4. r \in Run(r, n)
  BY DEF Run
<1>5. IsFiniteSet(Run(r, n)) /\ Cardinality(Run(r, n)) = n
  <2>1. r \in Int /\ r + n - 1 \in Int /\ r <= r + n - 1
    OBVIOUS
  <2> QED
    BY <2>1, FS_Interval DEF Run
<1>6. Cardinality(Pairs(ext)) = n
  <2>1. Len(ext) <= 1
    BY <1>2
  <2> QED
    BY <1>2, <1>3, <1>5, <2>1, OneExtent
<1>7. After(ext) = r + n
  BY <1>2 DEF After, LastExtent
<1> QED
  BY <1>2, <1>3, <1>4, <1>5, <1>6, <1>7 DEF ext

LEMMA StoredIn ==
  ASSUME NEW dat \in DataType, NEW ext, NEW c, ext[1].start \in Region
  PROVE  /\ \A b \in Region \ {ext[1].start} : Stored(dat, ext, c)[b] = dat[b]
         /\ \A b \in Region : \A k \in Slots :
              Stored(dat, ext, c)[b][k] =
                IF b = ext[1].start /\ k < c.units THEN c.fill ELSE dat[b][k]
BY DEF Stored, DataType

LEMMA ZeroedAt ==
  ASSUME NEW dat \in DataType, NEW ext, NEW m
  PROVE  /\ \A b \in Region \ ZeroedBlocks(ext, m) : Zeroed(dat, ext, m)[b] = dat[b]
         /\ \A b \in Region : \A k \in Slots :
              Zeroed(dat, ext, m)[b][k] =
                IF /\ b \in ZeroedBlocks(ext, m)
                   /\ \/ m % BlockUnits = 0
                      \/ b # After(ext) - 1
                      \/ k < m % BlockUnits
                THEN Blank ELSE dat[b][k]
BY DEF Zeroed, DataType

LEMMA FillIsText ==
  ASSUME NEW s, NEW c \in Calls(s)
  PROVE  c.fill.name \in Text /\ Blank.name \in Text
<1>1. Blank.name \in Text
  BY DEF Blank, Text
<1>2. ASSUME NEW v \in Payload PROVE v.name \in Text
  BY DEF Text
<1>3. c.fill = Blank \/ c.fill \in Payload
  BY DEF Calls
<1> QED
  BY <1>1, <1>2, <1>3

\* The inode table after a file has got other extents, or another size.
Resized(t, f, ext, s) == [t EXCEPT ![f].ext = ext, ![f].size = s]

LEMMA FileTable ==
  ASSUME NEW t \in TableType, NEW f \in Ino, NEW ext, NEW s
  PROVE  LET u == Resized(t, f, ext, s)
         IN  /\ u[f].ext = ext /\ u[f].size = s /\ u[f].mode = t[f].mode
             /\ u[f].num_entries = t[f].num_entries
             /\ \A e \in Ino \ {f} : u[e] = t[e]
BY DEF TableType, Inode, Resized

LEMMA ExtendDoes ==
  ASSUME Steady, NEW f \in Files, NEW s \in Nat, NEW c \in Calls(s),
         itable[f].ext = <<>>, Extend(f, s, c)
  PROVE  Changes(f) /\ ChangesBlocks(f) /\ Counted
<1> DEFINE n == BlocksFor(s)
<1>1. f \in Ino /\ f \in inode_bits /\ itable[f].mode = "file"
  BY FilesLive
<1>2. PICK r \in Nat : LET ext == <<[start |-> r, count |-> n]>>
         IN  /\ s > 0 /\ n \in Nat /\ n >= 1
             /\ Run(r, n) \subseteq Region /\ Run(r, n) \cap block_bits = {}
             /\ ZeroedBlocks(ext, s) = Run(r, n)
             /\ itable' = [itable EXCEPT ![f].ext = ext, ![f].size = s]
             /\ data' = Stored(Zeroed(data, ext, s), ext, c)
             /\ block_bits' = block_bits \cup Run(r, n)
             /\ free_blocks_count' = free_blocks_count - n
  BY <1>1, ExtendIs
<1> DEFINE ext == <<[start |-> r, count |-> n]>>
           zeroed == Zeroed(data, ext, s)
<1> HIDE DEF n
<1>3. /\ ext[1].start = r /\ OwnedBy(ext) = Run(r, n) /\ r \in Run(r, n)
      /\ Cardinality(Pairs(ext)) = n
      /\ IsFiniteSet(Run(r, n)) /\ Cardinality(Run(r, n)) = n
  BY <1>2, OneRun
<1> HIDE DEF ext
<1>4. /\ s > 0 /\ n \in Nat /\ n >= 1
      /\ Run(r, n) \subseteq Region /\ Run(r, n) \cap block_bits = {}
      /\ ZeroedBlocks(ext, s) = Run(r, n)
      /\ itable' = Resized(itable, f, ext, s)
      /\ data' = Stored(zeroed, ext, c)
      /\ block_bits' = block_bits \cup Run(r, n)
      /\ free_blocks_count' = free_blocks_count - n
  BY <1>2 DEF ext, Resized
<1>5. /\ itable'[f].ext = ext /\ itable'[f].size = s /\ itable'[f].mode = "file"
      /\ \A e \in Ino \ {f} : itable'[e] = itable[e]
  <2>1. itable \in TableType
    BY Types DEF Steady
  <2> QED
    BY <1>1, <1>4, <2>1, FileTable
<1>6. data \in DataType /\ zeroed \in DataType
  BY Types, ZeroedType DEF Steady
<1>7. \A b \in Region : zeroed[b] # data[b] => b \in Run(r, n)
  BY <1>4, <1>6, ZeroedAt
<1>8. ASSUME NEW b \in Region, NEW k \in Slots
      PROVE  zeroed[b][k] = Blank \/ zeroed[b][k] = data[b][k]
  BY <1>6, ZeroedAt
<1> HIDE DEF zeroed
<1>9. \A b \in Region : data'[b] # data[b] => b \in Run(r, n)
  BY <1>3, <1>4, <1>6, <1>7, StoredIn
<1>10. ASSUME NEW b \in Run(r, n), NEW k \in Slots
       PROVE  data'[b][k].name \in Text
  <2>1. b \in Region /\ b \notin block_bits
    BY <1>4
  <2>2. data[b][k].name \in Text
    BY <2>1 DEF Steady, Contents, FreeText
  <2>3. data'[b][k] = c.fill \/ data'[b][k] = zeroed[b][k]
    BY <1>3, <1>4, <1>6, <2>1, StoredIn
  <2> QED
    BY <1>8, <2>1, <2>2, <2>3, FillIsText
<1>11. inode_bits' = inode_bits
  BY DEF Extend
<1>12. Changes(f)
  BY <1>1, <1>3, <1>4, <1>5, <1>9, <1>10, <1>11 DEF Changes
<1>13. ChangesBlocks(f)
  <2>1. OwnedBy(itable[f].ext) = {}
    BY OwnedByEmpty
  <2> QED
    BY <1>3, <1>4, <1>5, <2>1 DEF ChangesBlocks, n
<1>14. Counted
  BY <1>3, <1>4, TakenCounted
<1> QED
  BY <1>12, <1>13, <1>14

LEMMA OnlyExtent ==
  ASSUME NEW ext \in Seq(Extent), Len(ext) <= 1, ext # <<>>
  PROVE  Len(ext) = 1 /\ ext[1] \in Extent
<1>1. Len(ext) \in Nat \ {0}
  BY EmptySeq
<1>2. Len(ext) = 1
  BY <1>1
<1> QED
  BY <1>2

\* A file has blocks as soon as it has a size.
LEMMA SizedHasBlocks ==
  ASSUME Steady, NEW f \in Ino, itable[f].mode = "file", itable[f].size >= 1
  PROVE  /\ itable[f].ext # <<>> /\ Len(itable[f].ext) = 1
         /\ itable[f].ext[1].start \in OwnedBy(itable[f].ext)
         /\ itable[f].ext[1].start \in Nat
         /\ itable[f].ext[1].count = BlocksFor(itable[f].size)
         /\ BlocksFor(itable[f].size) \in Nat /\ BlocksFor(itable[f].size) >= 1
         /\ itable[f].ext = <<[start |-> itable[f].ext[1].start,
                               count |-> itable[f].ext[1].count]>>
<1> DEFINE ext == itable[f].ext
           n == BlocksFor(itable[f].size)
<1>1. ext \in Seq(Extent) /\ Len(ext) <= 1 /\ itable[f].size \in Nat
  BY ExtentFacts, InodeFields, Types DEF Steady
<1>2. n \in Nat /\ n >= 1
  <2>1. Wanted(itable[f].size) = n /\ itable[f].size # 0 /\ itable[f].size \in Int
    BY <1>1 DEF Wanted
  <2> QED
    BY <2>1, WantedType
<1>3. Cardinality(Pairs(ext)) = n
  BY DEF Steady, Contents, SizesFit
<1>4. ext # <<>> /\ Pairs(ext) # {}
  <2>1. Pairs(ext) # {}
    BY <1>2, <1>3, FS_EmptySet
  <2> QED
    BY <2>1, OwnedByEmpty
<1> HIDE DEF ext, n
<1>5. Len(ext) = 1 /\ ext[1] \in Extent
  BY <1>1, <1>4, OnlyExtent
<1>6. ext[1].start \in Nat /\ ext[1].count \in Nat
      /\ ext[1] = [start |-> ext[1].start, count |-> ext[1].count]
  BY <1>5 DEF Extent
<1>7. ext = <<[start |-> ext[1].start, count |-> ext[1].count]>>
  BY <1>1, <1>5, <1>6
<1>8. ext[1].count >= 1
  <2>1. PICK p \in Pairs(ext) : TRUE
    BY <1>4
  <2>2. PICK x \in DOMAIN ext : p \in {x} \X Run(ext[x].start, ext[x].count)
    BY <2>1 DEF Pairs
  <2>3. x = 1
    BY <1>1, <1>5, <2>2
  <2>4. p[2] \in Run(ext[1].start, ext[1].count)
    BY <2>2, <2>3
  <2> QED
    BY <1>6, <2>4 DEF Run
<1>9. ext[1].start \in OwnedBy(ext) /\ Cardinality(Pairs(ext)) = ext[1].count
  BY <1>6, <1>7, <1>8, OneRun
<1> QED
  BY <1>2, <1>3, <1>4, <1>5, <1>6, <1>7, <1>9 DEF ext, n

LEMMA ShrinkDoes ==
  ASSUME Steady, NEW f \in Files, Shrink(f, 0)
  PROVE  Changes(f) /\ ChangesBlocks(f) /\ Counted
         /\ itable'[f].size = 0 /\ data' = data
<1> DEFINE ext == itable[f].ext
           cut == LastPairs(ext, BlocksFor(itable[f].size) - BlocksFor(0))
<1>1. f \in Ino /\ f \in inode_bits /\ itable[f].mode = "file"
  BY FilesLive
<1>2. /\ ext \in Seq(Extent) /\ Len(ext) <= 1 /\ OwnedBy(ext) \subseteq block_bits
      /\ IsFiniteSet(Pairs(ext)) /\ Cardinality(Pairs(ext)) \in Nat
      /\ Cardinality(Pairs(ext)) = Cardinality(OwnedBy(ext))
  BY <1>1, ExtentFacts, PairsType, OneExtent
<1>3. BlocksFor(itable[f].size) - BlocksFor(0) = Cardinality(Pairs(ext))
  <2>1. Cardinality(Pairs(ext)) = BlocksFor(itable[f].size)
    BY <1>1 DEF Steady, Contents, SizesFit
  <2>2. BlocksFor(0) = 0
    BY NoSize, OwnedByEmpty, FS_EmptySet
  <2> QED
    BY <1>2, <2>1, <2>2
<1>4. cut = Pairs(ext)
  <2> DEFINE Later(p, q) == q[1] > p[1] \/ (q[1] = p[1] /\ q[2] > p[2])
             After_(p) == {q \in Pairs(ext) : Later(p, q)}
  <2>1. ASSUME NEW p \in Pairs(ext)
        PROVE  Cardinality(After_(p)) < Cardinality(Pairs(ext))
    <3>1. After_(p) \subseteq Pairs(ext) \ {p}
      <4>1. p[1] \in Nat /\ p[2] \in Nat
        <5>1. PICK x \in DOMAIN ext : p \in {x} \X Run(ext[x].start, ext[x].count)
          BY DEF Pairs
        <5>2. DOMAIN ext \subseteq Nat
          BY <1>2
        <5> QED
          BY <1>2, <5>1, <5>2, PairsType
      <4>2. ~ Later(p, p)
        BY <4>1
      <4> QED
        BY <4>2
    <3>2. Cardinality(Pairs(ext) \ {p}) = Cardinality(Pairs(ext)) - 1
      BY <1>2, FS_RemoveElement
    <3>3. IsFiniteSet(Pairs(ext) \ {p})
      BY <1>2, FS_RemoveElement
    <3>4. /\ Cardinality(After_(p)) <= Cardinality(Pairs(ext) \ {p})
          /\ Cardinality(After_(p)) \in Nat
      <4> HIDE DEF After_
      <4> QED
        BY <3>1, <3>3, FS_Subset, FS_CardinalityType
    <3> QED
      BY <1>2, <3>2, <3>4
  <2>2. cut = {p \in Pairs(ext) : Cardinality(After_(p)) < Cardinality(Pairs(ext))}
    BY <1>3 DEF LastPairs
  <2> HIDE DEF After_
  <2> QED
    BY <2>1, <2>2
<1> HIDE DEF cut
<1>5. /\ block_bits' = Flipped(block_bits, cut)
      /\ free_blocks_count' = free_blocks_count + Cardinality(cut)
      /\ itable' = Resized(itable, f, <<>>, 0)
      /\ inode_bits' = inode_bits /\ data' = data
  <2>1. itable' = [itable EXCEPT ![f].size = 0, ![f].ext = <<>>]
    BY DEF Shrink
  <2>2. itable \in TableType
    BY Types DEF Steady
  <2> QED
    BY <1>1, <2>1, <2>2 DEF Shrink, cut, Resized, TableType, Inode
<1>6. block_bits' = block_bits \ OwnedBy(ext)
  BY <1>2, <1>4, <1>5, FlippedAll
<1>7. /\ itable'[f].ext = <<>> /\ itable'[f].size = 0 /\ itable'[f].mode = "file"
      /\ \A e \in Ino \ {f} : itable'[e] = itable[e]
  <2>1. itable \in TableType
    BY Types DEF Steady
  <2> QED
    BY <1>1, <1>5, <2>1, FileTable
<1>8. Changes(f)
  BY <1>1, <1>5, <1>7 DEF Changes
<1>9. ChangesBlocks(f)
  BY <1>6, <1>7, NoSize, OwnedByEmpty DEF ChangesBlocks
<1>10. Counted
  <2>1. free_blocks_count \in Nat
    BY DEF Steady, TypeOK
  <2>2. free_blocks_count' = free_blocks_count + Cardinality(OwnedBy(ext)) + 0
    BY <1>2, <1>4, <1>5, <2>1
  <2> QED
    BY <1>2, <1>6, <2>2, GivenCounted
<1> QED
  BY <1>5, <1>7, <1>8, <1>9, <1>10

LEMMA WriteInPlaceDoes ==
  ASSUME Steady, NEW f \in Files, NEW s \in Nat, NEW v \in Payload,
         WriteInPlace(f, s, v)
  PROVE  Changes(f) /\ ChangesBlocks(f) /\ Counted
<1> DEFINE ext == itable[f].ext
           c == [units |-> s, fill |-> v]
<1>1. f \in Ino /\ f \in inode_bits /\ itable[f].mode = "file"
  BY FilesLive
<1>2. itable[f].size >= 1
  <2>1. itable[f].size \in Nat
    BY <1>1, InodeFields, Types DEF Steady
  <2> QED
    BY <2>1, A1fsAssumption DEF WriteInPlace
<1>3. ext[1].start \in OwnedBy(ext) /\ ext[1].start \in Region
      /\ OwnedBy(ext) \subseteq block_bits
  BY <1>1, <1>2, SizedHasBlocks, ExtentFacts
<1>4. data \in DataType /\ data' = Stored(data, ext, c)
  BY Types DEF Steady, WriteInPlace
<1>5. /\ itable' = itable /\ inode_bits' = inode_bits
      /\ block_bits' = block_bits /\ free_blocks_count' = free_blocks_count
  BY DEF WriteInPlace, bitmaps, counters
<1>6. \A b \in Region : data'[b] # data[b] => b = ext[1].start
  BY <1>3, <1>4, StoredIn
<1>7. ASSUME NEW k \in Slots PROVE data'[ext[1].start][k].name \in Text
  <2>1. data'[ext[1].start][k] \in {v, data[ext[1].start][k]}
    BY <1>3, <1>4, StoredIn
  <2>2. ext[1].start \in OfFiles
    BY <1>1, <1>3 DEF OfFiles
  <2>3. data[ext[1].start][k].name \in Text
    BY <1>3, <2>2 DEF Steady, Contents, FreeText
  <2>4. v.name \in Text
    BY DEF Text
  <2> QED
    BY <2>1, <2>3, <2>4
<1>8. Changes(f)
  BY <1>1, <1>3, <1>5, <1>6, <1>7 DEF Changes
<1>9. ChangesBlocks(f)
  <2>1. Cardinality(Pairs(ext)) = BlocksFor(itable[f].size)
    BY <1>1 DEF Steady, Contents, SizesFit
  <2> QED
    BY <1>3, <1>5, <2>1 DEF ChangesBlocks
<1>10. Counted
  <2>1. Cardinality(block_bits) \in Nat /\ free_blocks_count \in Nat
    BY BitsCounted DEF Steady, Inside, TypeOK
  <2> QED
    BY <1>5, <2>1 DEF Counted
<1> QED
  BY <1>8, <1>9, <1>10

-----------------------------------------------------------------------------
(* The invariant is inductive.                                             *)

LEMMA OrderlyNeedsUp == NextOrderly => Up
<1>1. \A d, n, i, mode :
        \/ AddEntry(d, n, i, mode) \/ AddEntryInNewBlock(d, n, i, mode)
        \/ AddEntryNoSpace(d, n, i, mode) \/ AddEntryFault(d, n, i, mode)
        => Up
  BY DEF AddEntry, AddEntryInNewBlock, AddEntryNoSpace, AddEntryFault, NewInode,
         NewPath, Up
<1>2. \A d, n, i : Rmdir(d, n, i) \/ Unlink(d, n, i) => Up
  BY DEF Rmdir, Unlink, OldPath, Up
<1>3. \A f, s, c : Extend(f, s, c) \/ ExtendFault(f, s) \/ ExtendSpins(f, s) => Up
  BY DEF Extend, ExtendFault, ExtendSpins, Grows, Up
<1>4. \A f, s, v : Shrink(f, s) \/ WriteInPlace(f, s, v) => Up
  BY DEF Shrink, WriteInPlace, Up
<1> QED
  BY <1>1, <1>2, <1>3, <1>4 DEF NextOrderly

\* Every orderly step that does not go wrong has one of the four effects.
LEMMA OrderlyEffects ==
  ASSUME Steady, NextOrderly, Up'
  PROVE  /\ Counted
         /\ \/ \E d \in LiveDirs, n \in Names, i \in Ino,
                  mode \in {"dir", "file"} :
                 /\ Lookup(d, n) = -1 /\ EntersBlocks(d)
                 /\ \E p : Enters(d, n, i, mode, p)
            \/ \E i \in Ino, mode \in {"dir", "file"} :
                 Unnamed(i, mode) /\ block_bits' = block_bits
            \/ \E d \in LiveDirs, i \in Ino :
                 /\ itable[i].mode \in {"dir", "file"} /\ RemovesBlocks(i)
                 /\ ShortBy(0) /\ i \in LiveDirs => Live(i) = {}
                 /\ \E p : Removes(d, i, p)
            \/ \E f \in Ino : Changes(f) /\ ChangesBlocks(f)
<1>1. Dirs \subseteq LiveDirs /\ Files \subseteq Ino /\ Sizes \subseteq Nat
  BY DirsLive, A1fsAssumption DEF Files
<1>2. ASSUME NEW d \in Dirs, NEW n \in Names, NEW i \in Ino,
             NEW mode \in {"dir", "file"},
             \/ AddEntry(d, n, i, mode)
             \/ itable[d].ext = <<>> /\ AddEntryInNewBlock(d, n, i, mode)
      PROVE  /\ Counted /\ Lookup(d, n) = -1 /\ EntersBlocks(d)
             /\ \E p : Enters(d, n, i, mode, p)
  <2>1. Lookup(d, n) = -1
    BY <1>2 DEF AddEntry, AddEntryInNewBlock, NewInode, NewPath
  <2> QED
    BY <1>1, <1>2, <2>1, AddEntryDoes, AddEntryInNewBlockDoes
<1>3. ASSUME NEW d \in Dirs, NEW n \in Names, NEW i \in Ino,
             NEW mode \in {"dir", "file"}, AddEntryNoSpace(d, n, i, mode)
      PROVE  Counted /\ Unnamed(i, mode) /\ block_bits' = block_bits
  BY <1>1, <1>3, AddEntryNoSpaceDoes
<1>4. ASSUME NEW d \in Dirs, NEW n \in Names, NEW i \in Ino,
             Rmdir(d, n, i) \/ Unlink(d, n, i)
      PROVE  /\ Counted /\ RemovesBlocks(i)
             /\ itable[i].mode \in {"dir", "file"}
             /\ ShortBy(0) /\ i \in LiveDirs => Live(i) = {}
             /\ \E p : Removes(d, i, p)
  <2>1. CASE Rmdir(d, n, i)
    BY <1>1, <2>1, RmdirDoes
  <2>2. CASE Unlink(d, n, i)
    BY <1>1, <2>2, UnlinkDoes
  <2> QED
    BY <1>4, <2>1, <2>2
<1>5. ASSUME NEW f \in Files, NEW s \in Sizes, NEW c \in Calls(s),
             itable[f].ext = <<>>, Extend(f, s, c)
      PROVE  Counted /\ Changes(f) /\ ChangesBlocks(f)
  BY <1>1, <1>5, ExtendDoes
<1>6. ASSUME NEW f \in Files, Shrink(f, 0)
      PROVE  Counted /\ Changes(f) /\ ChangesBlocks(f)
  BY <1>6, ShrinkDoes
<1>7. ASSUME NEW f \in Files, NEW s \in Sizes, NEW v \in Payload,
             WriteInPlace(f, s, v)
      PROVE  Counted /\ Changes(f) /\ ChangesBlocks(f)
  BY <1>1, <1>7, WriteInPlaceDoes
<1>8. ASSUME NEW d \in Dirs, NEW n \in Names, NEW i \in Ino,
             NEW mode \in {"dir", "file"}, AddEntryFault(d, n, i, mode)
      PROVE  FALSE
  BY <1>8 DEF AddEntryFault, Up
<1>9. ASSUME NEW f \in Files, NEW s \in Sizes,
             ExtendFault(f, s) \/ ExtendSpins(f, s)
      PROVE  FALSE
  BY <1>9 DEF ExtendFault, ExtendSpins, Up
<1> QED
  BY <1>1, <1>2, <1>3, <1>4, <1>5, <1>6, <1>7, <1>8, <1>9 DEF NextOrderly

LEMMA InitTidy == ASSUME Init PROVE Tidy
<1>1. /\ inode_bits = {0} /\ block_bits = {} /\ free_blocks_count = DataBlocks
      /\ itable[0] = Created("dir") /\ \A i \in Ino \ {0} : itable[i].mode = "none"
      /\ data = [b \in Region |-> [k \in Slots |-> Blank]]
  BY ConstantTypes DEF Init, Created
<1>2. LiveDirs = {0} /\ itable[0].num_entries = 0 /\ itable[0].mode = "dir"
  BY <1>1 DEF LiveDirs, InUse, Created
<1>3. Places(itable[0].ext) = {} /\ Live(0) = {}
  BY <1>1, NoPlaces DEF Created, Live
<1>4. WellNamed /\ ShortBy(0)
  <2>1. Cardinality(Live(0)) - itable[0].num_entries = 0
    BY <1>2, <1>3, FS_EmptySet
  <2>2. ShortBy(0)
    BY <1>2, <2>1 DEF ShortBy
  <2> QED
    BY <1>1, <1>2, <1>3, <2>2
    DEF WellNamed, RootInUse, EntriesInUse, OneEntryEach, EntriesFirst
<1>5. Contents /\ VacantText
  <2>1. SizesFit
    BY <1>1, <1>2 DEF SizesFit
  <2>2. FreeText
    BY <1>1 DEF FreeText, Blank, Text
  <2> QED
    BY <1>2, <1>3, <2>1, <2>2 DEF Contents, VacantText
<1>6. FreeEnough
  <2>1. Cardinality({}) = 0 /\ DataBlocks \in Nat
    BY FS_EmptySet, ConstantTypes
  <2> QED
    BY <1>1, <2>1 DEF FreeEnough
<1> QED
  BY <1>4, <1>5, <1>6 DEF Tidy, Exact

LEMMA EnoughKept ==
  ASSUME Steady, FreeEnough, Counted, TypeOK', Inside', Up'
  PROVE  FreeEnough'
<1>1. Cardinality(block_bits) \in Nat
  BY BitsCounted DEF Steady, Inside
<1>2. Cardinality(block_bits') \in Nat
  <2>1. block_bits' \subseteq Region
    BY DEF Inside
  <2>2. IsFiniteSet(Region)
    BY BitsCounted DEF Steady, Inside
  <2> QED
    BY <2>1, <2>2, FS_Subset, FS_CardinalityType
<1>3. /\ free_blocks_count \in Nat /\ free_blocks_count' \in Nat
      /\ DataBlocks \in Nat
  BY ConstantTypes DEF TypeOK, Steady
<1> QED
  BY <1>1, <1>2, <1>3 DEF Counted, FreeEnough

LEMMA StepTidy ==
  ASSUME TypeOK, TypeOK', Inside, Inside', Exclusive, Exclusive', Tidy,
         [NextOrderly]_vars
  PROVE  Tidy'
<1>1. CASE UNCHANGED vars
  <2>1. /\ LiveDirs' = LiveDirs /\ \A d : Live(d)' = Live(d)
        /\ ShortBy(0) => ShortBy(0)'
    BY <1>1 DEF vars, bitmaps, ShortBy, LiveDirs, InUse, Live, At
  <2> QED
    BY <1>1, <2>1
    DEF vars, bitmaps, counters, Tidy, Up, WellNamed, RootInUse, EntriesInUse,
        OneEntryEach, EntriesFirst, Exact, Contents, SizesFit,
        VacantText, FreeText, OfFiles, FreeEnough, At
<1>2. CASE NextOrderly
  <2> SUFFICES ASSUME Up' PROVE WellNamed' /\ Contents' /\ Exact'
    BY DEF Tidy
  <2>1. Steady /\ Exact
    BY <1>2, OrderlyNeedsUp DEF Steady, Tidy
  <2>2. FreeEnough'
    BY <1>2, <2>1, OrderlyEffects, EnoughKept DEF Exact
  <2>3. 0 \in Nat /\ ShortBy(0) /\ VacantText
    BY <2>1 DEF Exact
  <2>4. ASSUME NEW d \in LiveDirs, NEW n \in Names, NEW i \in Ino,
               NEW mode \in {"dir", "file"}, NEW p,
               Lookup(d, n) = -1, EntersBlocks(d), Enters(d, n, i, mode, p)
        PROVE  WellNamed' /\ Contents' /\ ShortBy(0)' /\ VacantText'
    BY <2>1, <2>3, <2>4, EntersDirectories, JoinsContents DEF Enters
  <2>5. ASSUME NEW i \in Ino, NEW mode, Unnamed(i, mode), block_bits' = block_bits
        PROVE  WellNamed' /\ Contents' /\ ShortBy(0)' /\ VacantText'
    BY <2>1, <2>3, <2>5, UnnamedDirectories, UnnamedContents
  <2>6. ASSUME NEW d \in LiveDirs, NEW i \in Ino, NEW p, Removes(d, i, p),
               itable[i].mode \in {"dir", "file"}, RemovesBlocks(i)
        PROVE  WellNamed' /\ Contents' /\ ShortBy(0)' /\ VacantText'
    BY <2>1, <2>3, <2>6, RemovesDirectories, RemovesContents
  <2>7. ASSUME NEW f \in Ino, Changes(f), ChangesBlocks(f)
        PROVE  WellNamed' /\ Contents' /\ ShortBy(0)' /\ VacantText'
    BY <2>1, <2>3, <2>7, ChangesDirectories, ChangesContents
  <2> QED
    BY <1>2, <2>1, <2>2, <2>4, <2>5, <2>6, <2>7, OrderlyEffects DEF Exact
<1> QED
  BY <1>1, <1>2

\* What holds in every state of orderly use.
Orderly == TypeOK /\ Inside /\ Exclusive /\ Tidy

LEMMA OrderlyKept ==
  ASSUME Orderly, [NextOrderly]_vars
  PROVE  Orderly'
<1>1. [Next]_vars
  BY DEF NextOrderly, Next
<1> QED
  BY <1>1, StepTypes, StepInside, StepExclusive, StepTidy DEF Orderly

LEMMA OrderlyInvariant == SpecOrderly => []Orderly
<1>1. Init => Orderly
  BY InitTypes, InitInside, InitExclusive, InitTidy DEF Orderly
<1>2. Orderly /\ [NextOrderly]_vars => Orderly'
  BY OrderlyKept
<1> QED
  BY <1>1, <1>2, PTL DEF SpecOrderly

-----------------------------------------------------------------------------
(* The properties.                                                         *)

LEMMA TidyFollows ==
  ASSUME Orderly
  PROVE  /\ NoDangling /\ EntryCount /\ Unshadowed /\ SizeFits
         /\ FreeNeverUnderstated /\ GhostsFromFiles
<1> SUFFICES ASSUME Up
             PROVE  /\ NoDangling /\ EntryCount /\ Unshadowed /\ SizeFits
                    /\ FreeNeverUnderstated /\ GhostsFromFiles
  BY DEF NoDangling, EntryCount, Unshadowed, SizeFits, FreeNeverUnderstated,
         GhostsFromFiles
<1>1. Steady /\ WellNamed /\ Contents /\ Exact
  BY DEF Orderly, Steady, Tidy
<1>2. NoDangling
  <2> SUFFICES ASSUME NEW d \in LiveDirs, NEW e \in LiveDirs,
                      NEW p \in Live(d), NEW q \in Live(e)
               PROVE  /\ At(data, p).ino \in InUse \ {0}
                      /\ <<d, p>> # <<e, q>> => At(data, p).ino # At(data, q).ino
    BY DEF NoDangling
  <2> QED
    BY <1>1 DEF WellNamed, EntriesInUse, OneEntryEach, InUse
<1>3. EntryCount
  <2>1. ASSUME NEW d \in LiveDirs PROVE itable[d].num_entries = Cardinality(Live(d))
    <3>1. 0 \in Nat /\ ShortBy(0)
      BY <1>1 DEF Exact
    <3>2. /\ Cardinality(Live(d)) \in Nat /\ itable[d].num_entries \in Int
          /\ itable[d].num_entries <= Cardinality(Live(d))
          /\ Cardinality(Live(d)) <= itable[d].num_entries + 0
      BY <1>1, <3>1, ShortfallOf
    <3> QED
      BY <3>2
  <2> QED
    BY <2>1 DEF EntryCount
<1>4. Unshadowed
  BY <1>1, LookupFinds DEF Unshadowed
<1>5. SizeFits
  BY <1>1 DEF Contents, SizesFit, SizeFits, InUse, Steady, TypeOK
<1>6. FreeNeverUnderstated
  BY <1>1 DEF Exact, FreeEnough, FreeNeverUnderstated
<1>7. GhostsFromFiles
  BY <1>1 DEF Exact, VacantText, GhostsFromFiles, Text
<1> QED
  BY <1>2, <1>3, <1>4, <1>5, <1>6, <1>7

\* In orderly use no entry names a free inode or the root and no inode has two
\* entries, although rmdir and unlink reset the inode long before the entry
\* (a1fs.c:370 and 414, 547 and 591).
THEOREM NothingDangles == SpecOrderly => []NoDangling
<1>1. Orderly => NoDangling
  BY TidyFollows
<1> QED
  BY <1>1, OrderlyInvariant, PTL

\* In orderly use num_entries, on which ENOTEMPTY rests, counts the entries
\* (a1fs.c:360, 421, 598, a1fs_helper.c:386).
THEOREM EntriesAreCounted == SpecOrderly => []EntryCount
<1>1. Orderly => EntryCount
  BY TidyFollows
<1> QED
  BY <1>1, OrderlyInvariant, PTL

\* In orderly use lookup finds every entry by its name, although it does not
\* skip the stale names that vacant entries keep (a1fs_helper.c:56, 166).
THEOREM NamesAreFound == SpecOrderly => []Unshadowed
<1>1. Orderly => Unshadowed
  BY TidyFollows
<1> QED
  BY <1>1, OrderlyInvariant, PTL

\* In orderly use a file has as many blocks as its size needs, over all the
\* ways in which it gets and loses them.
THEOREM SizesAlwaysFit == SpecOrderly => []SizeFits
<1>1. Orderly => SizeFits
  BY TidyFollows
<1> QED
  BY <1>1, OrderlyInvariant, PTL

\* In orderly use the free-block counter never falls short of the bitmap,
\* although a removal adds a block too many to it (a1fs.c:424, 600).
THEOREM FreeBlocksCounted == SpecOrderly => []FreeNeverUnderstated
<1>1. Orderly => FreeNeverUnderstated
  BY TidyFollows
<1> QED
  BY <1>1, OrderlyInvariant, PTL

\* In orderly use readdir lists besides the names in use only text that a file
\* has left in a block, never a name that was removed (a1fs.c:254).
THEOREM GhostsAreText == SpecOrderly => []GhostsFromFiles
<1>1. Orderly => GhostsFromFiles
  BY TidyFollows
<1> QED
  BY <1>1, OrderlyInvariant, PTL

-----------------------------------------------------------------------------
(* What a step may never do.                                               *)

LEMMA EntriesStay ==
  ASSUME Steady, ShortBy(0), NextOrderly, Up',
         NEW e \in LiveDirs, NEW q \in Live(e), At(data, q).ino \in inode_bits'
  PROVE  q \in Places(itable'[e].ext) /\ At(data', q) = At(data, q)
<1>1. q \in Places(itable[e].ext)
  BY LiveSpots
<1>2. CASE SameEntries(e)
  BY <1>1, <1>2 DEF SameEntries
<1>3. ASSUME NEW d \in LiveDirs, NEW n \in Names, NEW i, NEW mode, NEW p,
             Enters(d, n, i, mode, p)
      PROVE  q \in Places(itable'[e].ext) /\ At(data', q) = At(data, q)
  <2>1. CASE e = d
    <3>1. q \in Live(d)' /\ At(data', q) = At(data, q)
      BY <1>3, <2>1, JoinsLive DEF Enters
    <3> QED
      BY <2>1, <3>1 DEF Live
  <2>2. CASE e # d
    BY <1>2, <1>3, <2>2, JoinsOthers DEF Enters
  <2> QED
    BY <2>1, <2>2
<1>4. ASSUME NEW i, NEW mode, Unnamed(i, mode) PROVE SameEntries(e)
  BY <1>4, DirsAreInodes DEF Unnamed, SameEntries, LiveDirs, InUse, Steady
<1>5. ASSUME NEW d \in LiveDirs, NEW i, NEW p, Removes(d, i, p),
             i \in LiveDirs => Live(i) = {}
      PROVE  q \in Places(itable'[e].ext) /\ At(data', q) = At(data, q)
  <2>1. CASE e = d
    <3>1. q # p
      BY <1>5 DEF Removes
    <3> QED
      BY <1>1, <1>5, <2>1, <3>1, RemovesOthers
  <2>2. CASE e # d
    <3>1. e # i
      BY <1>5
    <3> QED
      BY <1>2, <1>5, <2>2, <3>1, RemovesOthers
  <2> QED
    BY <2>1, <2>2
<1>6. ASSUME NEW f, Changes(f) PROVE SameEntries(e)
  BY <1>6, ChangesEntries
<1> QED
  BY <1>2, <1>3, <1>4, <1>5, <1>6, OrderlyEffects

\* Of the inodes that stay in use only one can have a block that is written.
LEMMA WriterIsOne ==
  ASSUME Steady, TypeOK', Exclusive', NextOrderly, Up'
  PROVE  \E g : \A i \in inode_bits \cap inode_bits' : \A b \in Region :
           b \in OwnedBy(itable[i].ext) /\ data'[b] # data[b] => i = g
<1> DEFINE Only(g) ==
      \A i \in inode_bits \cap inode_bits' : \A b \in Region :
           b \in OwnedBy(itable[i].ext) /\ data'[b] # data[b] => i = g
<1>1. inode_bits \subseteq Ino
  BY DEF Steady, TypeOK
<1>2. ASSUME NEW g \in Ino,
             \A b \in Region : data'[b] # data[b] => b \in OwnedBy(itable'[g].ext),
             \A i \in (inode_bits \cap inode_bits') \ {g} : itable'[i] = itable[i]
      PROVE  Only(g)
  <2> SUFFICES ASSUME NEW i \in inode_bits \cap inode_bits', NEW b \in Region,
                      b \in OwnedBy(itable[i].ext), data'[b] # data[b], i # g
               PROVE  FALSE
    OBVIOUS
  <2>1. b \in OwnedBy(itable'[g].ext) /\ b \in OwnedBy(itable'[i].ext)
    BY <1>2
  <2> QED
    BY <1>1, <2>1 DEF Exclusive
<1>3. ASSUME NEW d \in LiveDirs, NEW n, NEW i, NEW mode, NEW p,
             Enters(d, n, i, mode, p), EntersBlocks(d)
      PROVE  Only(d)
  <2>1. d \in Ino
    BY LiveSpots
  <2>2. \A e \in (inode_bits \cap inode_bits') \ {d} : itable'[e] = itable[e]
    BY <1>1, <1>3 DEF Enters, Joins
  <2> QED
    BY <1>2, <1>3, <2>1, <2>2 DEF EntersBlocks
<1>4. ASSUME NEW i, NEW mode, Unnamed(i, mode) PROVE Only(0)
  BY <1>4 DEF Unnamed
<1>5. ASSUME NEW d \in LiveDirs, NEW i, NEW p, Removes(d, i, p) PROVE Only(d)
  <2>1. d \in Ino /\ p \in Spots /\ p[2] \in OwnedBy(itable[d].ext)
        /\ itable[d] \in Inode
    BY <1>5, LiveSpots, ExtentFacts DEF Removes
  <2>2. itable'[d].ext = itable[d].ext
    BY <1>5, <2>1 DEF Removes, Inode
  <2>3. \A b \in Region : data'[b] # data[b] => b = p[2]
    BY <1>5, <2>1, PutAt, Types DEF Removes, Steady
  <2>4. \A e \in (inode_bits \cap inode_bits') \ {d} : itable'[e] = itable[e]
    BY <1>1, <1>5 DEF Removes
  <2> QED
    BY <1>2, <2>1, <2>2, <2>3, <2>4
<1>6. ASSUME NEW f \in Ino, Changes(f) PROVE Only(f)
  BY <1>1, <1>2, <1>6 DEF Changes
<1> QED
  BY <1>3, <1>4, <1>5, <1>6, OrderlyEffects

LEMMA LeaksByRmdir ==
  ASSUME Steady, NextOrderly, Up'
  PROVE  LET dropped == {d \in LiveDirs : d \notin inode_bits'}
         IN  Leaked' = Leaked \cup UNION {OwnedBy(itable[d].ext) : d \in dropped}
<1> DEFINE Owned(j) == OwnedBy(itable[j].ext)
           dropped == {d \in LiveDirs : d \notin inode_bits'}
<1>1. /\ inode_bits \subseteq Ino /\ LiveDirs \subseteq inode_bits
      /\ \A j \in Ino : Owned(j) \subseteq block_bits
      /\ \A j \in Ino : \A k \in Ino \ {j} : Owned(j) \cap Owned(k) = {}
  BY DirsAreInodes DEF Steady, TypeOK, Exclusive
<1>2. ASSUME NEW b
      PROVE  /\ b \in Leaked <=>
                  b \in block_bits /\ \A j \in inode_bits : b \notin Owned(j)
             /\ b \in Leaked' <=>
                  b \in block_bits' /\ \A j \in inode_bits' : b \notin Owned(j)'
  BY DEF Leaked, InUse
<1>3. ASSUME NEW d \in LiveDirs, NEW n, NEW i, NEW mode, NEW p,
             Enters(d, n, i, mode, p), EntersBlocks(d)
      PROVE  Leaked' = Leaked /\ dropped = {}
  <2> DEFINE new == Owned(d)' \ Owned(d)
  <2>1. d \in Ino /\ d \in inode_bits /\ d # i /\ i \notin inode_bits
        /\ inode_bits' = inode_bits \cup {i}
    BY <1>1, <1>3 DEF Enters, Joins
  <2>2. Owned(i)' = {} /\ \A j \in inode_bits \ {d} : Owned(j)' = Owned(j)
    BY <1>1, <1>3, OwnedByEmpty DEF Enters, Joins, Created
  <2>3. Owned(d)' = Owned(d) \cup new
    <3>1. itable'[d].ext = itable[d].ext \/ Places(itable[d].ext) = {}
      BY <1>3 DEF Enters, Joins
    <3>2. ASSUME Places(itable[d].ext) = {} PROVE Owned(d) = {}
      <4>1. 0 \in Slots
        BY A1fsAssumption DEF Slots
      <4>2. ASSUME NEW b \in Owned(d) PROVE FALSE
        <5>1. /\ itable[d].ext \in Seq(Extent) /\ Len(itable[d].ext) <= 1
              /\ b \in OwnedBy(itable[d].ext) \cap Region
          BY <2>1, ExtentFacts
        <5>2. <<1, b, 0>> \in Places(itable[d].ext)
          BY <4>1, <5>1, PlaceIs
        <5> QED
          BY <3>2, <5>2
      <4> QED
        BY <4>2
    <3> QED
      BY <3>1, <3>2
  <2>4. new \cap block_bits = {} /\ block_bits' = block_bits \cup new
    BY <1>3 DEF EntersBlocks
  <2>5. dropped = {}
    BY <1>1, <2>1
  <2> HIDE DEF Owned, new
  <2>6. ASSUME NEW b PROVE b \in Leaked' <=> b \in Leaked
    <3>1. CASE b \in new
      BY <1>2, <2>1, <2>3, <2>4, <3>1
    <3>2. CASE b \notin new
      BY <1>2, <2>1, <2>2, <2>3, <2>4, <3>2
    <3> QED
      BY <3>1, <3>2
  <2> QED
    BY <2>5, <2>6
<1>4. ASSUME NEW i, NEW mode, Unnamed(i, mode), block_bits' = block_bits
      PROVE  Leaked' = Leaked /\ dropped = {}
  <2>1. Owned(i)' = {} /\ \A j \in inode_bits : Owned(j)' = Owned(j)
    BY <1>1, <1>4, OwnedByEmpty DEF Unnamed, Created
  <2>2. inode_bits' = inode_bits \cup {i}
    BY <1>4 DEF Unnamed
  <2>3. dropped = {}
    BY <1>1, <2>2
  <2> HIDE DEF Owned
  <2> QED
    BY <1>2, <1>4, <2>1, <2>2, <2>3
<1>5. ASSUME NEW d \in LiveDirs, NEW i \in Ino, NEW p, Removes(d, i, p),
             itable[i].mode \in {"dir", "file"}, RemovesBlocks(i)
      PROVE  Leaked' = Leaked \cup UNION {Owned(j) : j \in dropped}
  <2>1. d \in Ino /\ itable[d] \in Inode
    BY LiveSpots, ExtentFacts
  <2>2. \A j \in inode_bits' : Owned(j)' = Owned(j)
    <3>1. itable'[d].ext = itable[d].ext
      BY <1>5, <2>1 DEF Removes, Inode
    <3> QED
      BY <1>1, <1>5, <3>1 DEF Removes
  <2>3. i \in inode_bits /\ inode_bits' = inode_bits \ {i}
    BY <1>5 DEF Removes
  <2>4. CASE itable[i].mode = "dir"
    <3>1. dropped = {i} /\ block_bits' = block_bits
      BY <1>1, <1>5, <2>3, <2>4 DEF LiveDirs, InUse, RemovesBlocks
    <3> HIDE DEF Owned, dropped
    <3>2. ASSUME NEW b PROVE b \in Leaked' <=> b \in Leaked \/ b \in Owned(i)
      BY <1>1, <1>2, <2>2, <2>3, <3>1
    <3> QED
      BY <3>1, <3>2
  <2>5. CASE itable[i].mode = "file"
    <3>1. dropped = {} /\ block_bits' = block_bits \ Owned(i)
      BY <1>1, <1>5, <2>3, <2>5 DEF LiveDirs, InUse, RemovesBlocks
    <3> HIDE DEF Owned, dropped
    <3>2. ASSUME NEW b PROVE b \in Leaked' <=> b \in Leaked
      BY <1>1, <1>2, <2>2, <2>3, <3>1
    <3> QED
      BY <3>1, <3>2
  <2> QED
    BY <1>5, <2>4, <2>5
<1>6. ASSUME NEW f \in Ino, Changes(f), ChangesBlocks(f)
      PROVE  Leaked' = Leaked /\ dropped = {}
  <2>1. f \in inode_bits /\ inode_bits' = inode_bits
        /\ \A j \in inode_bits \ {f} : Owned(j)' = Owned(j)
    BY <1>1, <1>6 DEF Changes
  <2>2. /\ (Owned(f)' \ Owned(f)) \cap block_bits = {}
        /\ block_bits' = (block_bits \ Owned(f)) \cup Owned(f)'
    BY <1>6 DEF ChangesBlocks
  <2>3. dropped = {}
    BY <1>1, <2>1
  <2> HIDE DEF Owned
  <2>4. ASSUME NEW b PROVE b \in Leaked' <=> b \in Leaked
    BY <1>1, <1>2, <2>1, <2>2
  <2> QED
    BY <2>3, <2>4
<1> QED
  BY <1>3, <1>4, <1>5, <1>6, OrderlyEffects

\* In orderly use a step that takes an entry away frees the inode that it
\* named: no call loses another file's entry.
THEOREM EntriesAlwaysPersist == SpecOrderly => EntriesPersist
<1>1. Orderly /\ [NextOrderly]_vars =>
        [Up' => \A d \in LiveDirs : \A p \in Live(d) :
           \/ At(data, p).ino \notin inode_bits'
           \/ /\ p \in Places(itable[d].ext)'
              /\ At(data, p)' = At(data, p)]_vars
  <2> SUFFICES ASSUME Orderly, NextOrderly, Up',
                      NEW d \in LiveDirs, NEW p \in Live(d),
                      At(data, p).ino \in inode_bits'
               PROVE  p \in Places(itable[d].ext)' /\ At(data, p)' = At(data, p)
    OBVIOUS
  <2>1. Steady /\ ShortBy(0)
    BY OrderlyNeedsUp DEF Steady, Orderly, Tidy, Exact
  <2>2. p \in Places(itable'[d].ext) /\ At(data', p) = At(data, p)
    BY <2>1, EntriesStay
  <2> QED
    BY <2>2
<1> QED
  BY <1>1, OrderlyInvariant, PTL DEF SpecOrderly, EntriesPersist

\* In orderly use a step writes into the blocks of one inode at most.
THEOREM OneWriterOnly == SpecOrderly => OneWriter
<1>1. Orderly /\ Orderly' /\ [NextOrderly]_vars =>
        [Up' => \A i, j \in InUse \cap inode_bits' :
           /\ \E b \in OwnedBy(itable[i].ext) \cap Region : data'[b] # data[b]
           /\ \E b \in OwnedBy(itable[j].ext) \cap Region : data'[b] # data[b]
           => i = j]_vars
  <2> SUFFICES ASSUME Orderly, Orderly', NextOrderly, Up',
                      NEW i \in InUse \cap inode_bits',
                      NEW j \in InUse \cap inode_bits',
                      \E b \in OwnedBy(itable[i].ext) \cap Region :
                        data'[b] # data[b],
                      \E b \in OwnedBy(itable[j].ext) \cap Region :
                        data'[b] # data[b]
               PROVE  i = j
    OBVIOUS
  <2>1. Steady /\ TypeOK' /\ Exclusive'
    BY OrderlyNeedsUp DEF Steady, Orderly, Tidy
  <2>2. PICK g : \A k \in inode_bits \cap inode_bits' : \A b \in Region :
           b \in OwnedBy(itable[k].ext) /\ data'[b] # data[b] => k = g
    BY <2>1, WriterIsOne
  <2> QED
    BY <2>2 DEF InUse
<1> QED
  BY <1>1, OrderlyInvariant, PTL DEF SpecOrderly, OneWriter

\* In orderly use blocks leak only when a directory is removed, exactly those
\* it had, and nothing that has leaked is used again (a1fs.c:370).
THEOREM LeaksOnlyByRmdir == SpecOrderly => OnlyRmdirLeaks
<1>1. Orderly /\ [NextOrderly]_vars =>
        [Up' =>
           LET dropped == {d \in LiveDirs : d \notin inode_bits'}
           IN  Leaked' = Leaked \cup UNION {OwnedBy(itable[d].ext) : d \in dropped}
        ]_vars
  <2> SUFFICES ASSUME Orderly, NextOrderly, Up'
               PROVE  LET dropped == {d \in LiveDirs : d \notin inode_bits'}
                      IN  Leaked' = Leaked \cup
                            UNION {OwnedBy(itable[d].ext) : d \in dropped}
    OBVIOUS
  <2>1. Steady
    BY OrderlyNeedsUp DEF Steady, Orderly, Tidy
  <2> QED
    BY <2>1, LeaksByRmdir
<1> QED
  BY <1>1, OrderlyInvariant, PTL DEF SpecOrderly, OnlyRmdirLeaks
=============================================================================

----------------------------- MODULE CallsProofs -----------------------------
(***************************************************************************)
(* What orderly use and the calls of a1fs come to for a caller.  Orderly   *)
(* use implements Namespace: every step of the image makes a name with its *)
(* node, takes one away with it, changes the content of one file, or is no *)
(* step for a caller.  A step of Calls is a step of orderly use, or takes  *)
(* an inode without a name, or stores within one block of a file, or       *)
(* changes nothing of the image.                                           *)
(***************************************************************************)
EXTENDS DirectoryProofs, Calls

-----------------------------------------------------------------------------
(* The names of an image.                                                  *)

EntryOf(d, v) == [dir |-> d, name |-> v.name, node |-> v.ino]

LEMMA NameIs ==
  ASSUME NEW e
  PROVE  /\ e \in NamesInUse <=>
              \E d \in LiveDirs : \E p \in Live(d) : e = EntryOf(d, At(data, p))
         /\ e \in NamesInUse' <=>
              \E d \in LiveDirs' : \E p \in Live(d)' : e = EntryOf(d, At(data', p))
BY DEF NamesInUse, EntryOf

LEMMA NodeIs ==
  ASSUME NEW i
  PROVE  /\ i \in Nodes <=>
              i = 0 \/ \E d \in LiveDirs : \E p \in Live(d) : i = At(data, p).ino
         /\ i \in Nodes' <=>
              i = 0 \/ \E d \in LiveDirs' : \E p \in Live(d)' : i = At(data', p).ino
<1>1. \A d, v : EntryOf(d, v).node = v.ino
  BY DEF EntryOf
<1> QED
  BY <1>1, NameIs DEF Nodes

LEMMA NodesInUse ==
  ASSUME Steady
  PROVE  Nodes \subseteq inode_bits /\ Nodes \subseteq Ino /\ 0 \in Nodes
<1>1. inode_bits \subseteq Ino /\ 0 \in inode_bits
  BY DirsAreInodes DEF Steady, WellNamed, RootInUse
<1>2. ASSUME NEW i \in Nodes PROVE i \in inode_bits
  BY <1>1, NodeIs DEF Steady, WellNamed, EntriesInUse
<1> QED
  BY <1>1, <1>2, NodeIs

\* Every directory and every file that a path leads to is a node.
LEMMA DirsAreNodes ==
  ASSUME Steady
  PROVE  Dirs \subseteq Nodes
<1> DEFINE found == {<<p, Lookup(p, n)>> : p \in Ino, n \in Names}
           sub == {l \in found : l[2] \in Ino /\ itable[l[2]].mode = "dir"}
           S == Nodes \cap LiveDirs
<1>1. 0 \in S /\ S \in SUBSET Ino
  BY NodesInUse
  DEF Steady, WellNamed, RootInUse, LiveDirs, InUse
<1>2. ASSUME NEW l \in sub, l[1] \in S PROVE l[2] \in S
  <2>1. PICK p \in Ino, n \in Names : l = <<p, Lookup(p, n)>>
    OBVIOUS
  <2>2. p \in LiveDirs /\ l[2] = Lookup(p, n) /\ l[2] \in Ino
        /\ itable[l[2]].mode = "dir"
    BY <1>2, <2>1
  <2>3. Lookup(p, n) # -1
    BY <2>2 DEF Ino
  <2>4. PICK q \in Live(p) : At(data, q).ino = l[2]
    BY <2>2, <2>3, LookupIsLive
  <2>5. l[2] \in Nodes
    BY <2>2, <2>4, NodeIs
  <2> QED
    BY <2>2, <2>5, NodesInUse DEF LiveDirs, InUse
<1> HIDE DEF S
<1>3. ASSUME NEW d \in Dirs PROVE d \in S
  BY <1>1, <1>2 DEF Dirs
<1> QED
  BY <1>3 DEF S

FileNodes == {i \in Nodes : itable[i].mode = "file"}

LEMMA FilesAreNodes ==
  ASSUME Steady, NEW f \in Files
  PROVE  f \in FileNodes
<1>1. PICK d \in Dirs, n \in Names : f = Lookup(d, n) /\ f \in Ino
  BY DEF Files
<1>2. d \in LiveDirs /\ Lookup(d, n) # -1
  BY <1>1, DirsLive DEF Ino
<1>3. PICK p \in Live(d) : At(data, p).ino = f
  BY <1>1, <1>2, LookupIsLive
<1>4. f \in Nodes
  BY <1>2, <1>3, NodeIs
<1> QED
  BY <1>4, FilesLive DEF FileNodes

\* The names stay when the entries do.
LEMMA NamesKept ==
  ASSUME LiveDirs' = LiveDirs,
         \A e \in LiveDirs : Live(e)' = Live(e)
           /\ \A q \in Live(e) : At(data', q) = At(data, q)
  PROVE  NamesInUse' = NamesInUse /\ Nodes' = Nodes
<1>1. ASSUME NEW e PROVE e \in NamesInUse' <=> e \in NamesInUse
  BY NameIs
<1> QED
  BY <1>1 DEF Nodes

-----------------------------------------------------------------------------
(* The contents of files.                                                  *)

\* A unit below the size is in one of the blocks that the size needs; in the
\* last one, if that is filled in part, below where it ends.
LEMMA UnitBlock ==
  ASSUME NEW s \in Nat, NEW u \in 0 .. (s - 1)
  PROVE  /\ u \div BlockUnits \in Nat /\ u % BlockUnits \in Slots
         /\ BlocksFor(s) \in Nat /\ u \div BlockUnits < BlocksFor(s)
         /\ s % BlockUnits # 0 /\ u \div BlockUnits = BlocksFor(s) - 1
              => u % BlockUnits < s % BlockUnits
         /\ u < BlockUnits <=> u \div BlockUnits = 0
         /\ u < BlockUnits => u % BlockUnits = u
<1> DEFINE B == BlockUnits
           q == s \div B
           r == s % B
           x == u \div B
           y == u % B
<1>1. B \in Nat \ {0} /\ u \in Nat /\ u < s
  BY A1fsAssumption
<1>2. q \in Nat /\ r \in 0 .. (B - 1) /\ s = B * q + r
  BY <1>1, Quotient
<1>3. x \in Nat /\ y \in 0 .. (B - 1) /\ u = B * x + y
  BY <1>1, Quotient
<1>4. BlocksFor(s) = q + (IF r = 0 THEN 0 ELSE 1)
  BY DEF BlocksFor
<1>5. y \in Slots
  BY <1>3 DEF Slots
<1> HIDE DEF B, q, r, x, y
<1>6. x <= q
  <2> SUFFICES ASSUME q + 1 <= x PROVE FALSE
    BY <1>2, <1>3
  <2>1. B * (q + 1) <= B * x
    BY <1>1, <1>2, <1>3, Times
  <2>2. B * (q + 1) = B * q + B
    BY <1>1, <1>2
  <2>3. B * q \in Nat /\ B * x \in Nat
    BY <1>1, <1>2, <1>3
  <2> HIDE DEF B
  <2> QED
    BY <1>1, <1>2, <1>3, <2>1, <2>2, <2>3
<1>7. x = q => y < r
  BY <1>1, <1>2, <1>3
<1>8. u < B <=> x = 0
  <2>1. x >= 1 => B * 1 <= B * x
    BY <1>1, <1>3, Times
  <2>2. B * 1 = B /\ B * 0 = 0 /\ B * x \in Nat
    BY <1>1, <1>3
  <2> QED
    BY <1>1, <1>3, <2>1, <2>2
<1>9. u < B => y = u
  <2>1. B * 0 = 0
    BY <1>1
  <2> QED
    BY <1>1, <1>3, <1>8, <2>1
<1>10. x < BlocksFor(s) /\ (r # 0 /\ x = BlocksFor(s) - 1 => y < r)
       /\ BlocksFor(s) \in Nat
  BY <1>2, <1>3, <1>4, <1>6, <1>7
<1> QED
  BY <1>3, <1>5, <1>8, <1>9, <1>10 DEF B, q, r, x, y

\* The block that holds a unit of a file belongs to the file.
LEMMA UnitInside ==
  ASSUME Steady, NEW f \in Ino, itable[f].mode = "file",
         NEW u \in 0 .. (itable[f].size - 1)
  PROVE  /\ itable[f].ext[1].start + (u \div BlockUnits) \in OwnedBy(itable[f].ext)
         /\ itable[f].ext[1].start + (u \div BlockUnits) \in Region
         /\ u % BlockUnits \in Slots
<1> DEFINE s == itable[f].size
           r == itable[f].ext[1].start
           n == BlocksFor(s)
           x == u \div BlockUnits
<1>1. s \in Nat /\ s >= 1
  BY InodeFields, Types DEF Steady
<1>2. /\ r \in Nat /\ n \in Nat /\ n >= 1
      /\ itable[f].ext = <<[start |-> r, count |-> n]>>
  BY <1>1, SizedHasBlocks
<1>3. x \in Nat /\ x < n /\ u % BlockUnits \in Slots
  BY <1>1, UnitBlock
<1>4. OwnedBy(itable[f].ext) = Run(r, n)
  <2> HIDE DEF r, n
  <2> QED
    BY <1>2, OneRun
<1>5. r + x \in Run(r, n)
  <2> HIDE DEF r, n, x
  <2> QED
    BY <1>2, <1>3 DEF Run
<1> QED
  BY <1>3, <1>4, <1>5, ExtentFacts

\* What a file holds changes only with its inode or in its blocks.
LEMMA UnitsKept ==
  ASSUME Steady, NEW f \in Ino, itable[f].mode = "file", itable'[f] = itable[f],
         \A b \in OwnedBy(itable[f].ext) : data'[b] = data[b]
  PROVE  Units(f)' = Units(f)
<1>1. \A u \in 0 .. (itable[f].size - 1) :
        data'[itable[f].ext[1].start + (u \div BlockUnits)] =
        data[itable[f].ext[1].start + (u \div BlockUnits)]
  BY UnitInside
<1> QED
  BY <1>1 DEF Units

LEMMA NoUnits ==
  ASSUME NEW i, itable'[i].size = 0
  PROVE  Units(i)' = [u \in {} |-> Blank]
<1>1. 0 .. (0 - 1) = {}
  OBVIOUS
<1> QED
  BY <1>1 DEF Units

\* The units of a file that has just got its blocks.
LEMMA ExtendUnits ==
  ASSUME Steady, NEW f \in Files, NEW s \in Nat, NEW c \in Calls(s),
         itable[f].ext = <<>>, Extend(f, s, c)
  PROVE  /\ Units(f)' = [u \in 0 .. (s - 1) |-> c.fill]
         /\ c = [units |-> 0, fill |-> Blank]
            \/ \E v \in Payload : c.fill = v
<1> DEFINE n == BlocksFor(s)
<1>1. f \in Ino /\ f \in inode_bits /\ itable[f].mode = "file"
  BY FilesLive
<1>2. PICK r \in Nat : LET ext == <<[start |-> r, count |-> n]>>
         IN  /\ s > 0 /\ n \in Nat /\ n >= 1
             /\ Run(r, n) \subseteq Region
             /\ ZeroedBlocks(ext, s) = Run(r, n)
             /\ itable' = [itable EXCEPT ![f].ext = ext, ![f].size = s]
             /\ data' = Stored(Zeroed(data, ext, s), ext, c)
  BY <1>1, ExtendIs
<1> DEFINE ext == <<[start |-> r, count |-> n]>>
           zeroed == Zeroed(data, ext, s)
<1> HIDE DEF n
<1>3. ext[1].start = r /\ r \in Run(r, n) /\ After(ext) = r + n
  BY <1>2, OneRun
<1> HIDE DEF ext
<1>4. /\ s > 0 /\ n \in Nat /\ n >= 1 /\ Run(r, n) \subseteq Region
      /\ ZeroedBlocks(ext, s) = Run(r, n)
      /\ itable' = Resized(itable, f, ext, s)
      /\ data' = Stored(zeroed, ext, c)
  BY <1>2 DEF ext, Resized
<1>5. itable'[f].ext = ext /\ itable'[f].size = s
  <2>1. itable \in TableType
    BY Types DEF Steady
  <2> QED
    BY <1>1, <1>4, <2>1, FileTable
<1>6. zeroed \in DataType /\ data \in DataType
  BY Types, ZeroedType DEF Steady
<1> HIDE DEF zeroed
<1>7. \A b \in Region : \A k \in Slots :
        data'[b][k] = IF b = r /\ k < c.units THEN c.fill ELSE zeroed[b][k]
  BY <1>3, <1>4, <1>6, StoredIn
<1>8. ASSUME NEW u \in 0 .. (s - 1)
      PROVE  data'[r + (u \div BlockUnits)][u % BlockUnits] = c.fill
  <2> DEFINE x == u \div BlockUnits
             y == u % BlockUnits
  <2>1. /\ x \in Nat /\ y \in Slots /\ x < n
        /\ s % BlockUnits # 0 /\ x = n - 1 => y < s % BlockUnits
        /\ u < BlockUnits <=> x = 0
        /\ u < BlockUnits => y = u
    BY UnitBlock DEF n
  <2> HIDE DEF x, y
  <2>2. r + x \in Run(r, n) /\ r + x \in Region
    BY <1>4, <2>1 DEF Run
  <2>3. r + x = After(ext) - 1 => x = n - 1
    BY <1>3, <1>4, <2>1
  <2>4. zeroed[r + x][y] = Blank
    BY <1>4, <1>6, <2>1, <2>2, <2>3, ZeroedAt DEF zeroed
  <2>5. data'[r + x][y] =
          IF r + x = r /\ y < c.units THEN c.fill ELSE Blank
    BY <1>7, <2>1, <2>2, <2>4
  <2>6. CASE c = [units |-> 0, fill |-> Blank]
    <3>1. c.units = 0 /\ c.fill = Blank /\ ~ (y < 0)
      BY <2>1, <2>6 DEF Slots
    <3> QED
      BY <2>5, <3>1 DEF x, y
  <2>7. CASE c.units = s /\ s <= BlockUnits
    <3>1. u \in Nat /\ u < s /\ BlockUnits \in Nat
      BY A1fsAssumption
    <3>2. x = 0 /\ y = u
      BY <2>1, <2>7, <3>1
    <3>3. r + x = r
      BY <3>2
    <3> QED
      BY <2>5, <2>7, <3>1, <3>2, <3>3 DEF x, y
  <2>8. c = [units |-> 0, fill |-> Blank] \/ (c.units = s /\ s <= BlockUnits)
    BY DEF Calls
  <2> QED
    BY <2>6, <2>7, <2>8 DEF x, y
<1>9. Units(f)' = [u \in 0 .. (s - 1) |-> c.fill]
  BY <1>3, <1>5, <1>8 DEF Units
<1> QED
  BY <1>9 DEF Calls

\* The units of a file after a write in its first block.
LEMMA WriteUnits ==
  ASSUME Steady, NEW f \in Files, NEW s \in Nat, NEW v \in Payload,
         WriteInPlace(f, s, v)
  PROVE  /\ Units(f)' = [u \in 0 .. (itable[f].size - 1) |->
                           IF u < s THEN v ELSE Units(f)[u]]
         /\ s <= itable[f].size /\ itable[f].size \in Nat
<1> DEFINE ext == itable[f].ext
           r == ext[1].start
           c == [units |-> s, fill |-> v]
<1>1. f \in Ino /\ itable[f].mode = "file" /\ itable[f].size \in Nat
  BY FilesLive, InodeFields, Types DEF Steady
<1>2. s \in 1 .. BlockUnits /\ s <= itable[f].size /\ BlockUnits \in Nat
  BY A1fsAssumption DEF WriteInPlace
<1>3. r \in Region /\ r \in Nat
  <2>1. itable[f].size >= 1
    BY <1>1, <1>2
  <2>2. r \in OwnedBy(ext) /\ r \in Nat
    BY <1>1, <2>1, SizedHasBlocks
  <2> QED
    BY <1>1, <2>2, ExtentFacts
<1>4. data \in DataType /\ data' = Stored(data, ext, c) /\ itable' = itable
  BY Types DEF Steady, WriteInPlace
<1>5. \A b \in Region : \A k \in Slots :
        data'[b][k] = IF b = r /\ k < s THEN v ELSE data[b][k]
  <2>1. c.units = s /\ c.fill = v
    OBVIOUS
  <2> QED
    BY <1>3, <1>4, <2>1, StoredIn
<1>6. ASSUME NEW u \in 0 .. (itable[f].size - 1)
      PROVE  data'[r + (u \div BlockUnits)][u % BlockUnits] =
               IF u < s THEN v ELSE data[r + (u \div BlockUnits)][u % BlockUnits]
  <2> DEFINE x == u \div BlockUnits
             y == u % BlockUnits
  <2>1. /\ x \in Nat /\ y \in Slots
        /\ u < BlockUnits <=> x = 0
        /\ u < BlockUnits => y = u
    BY <1>1, UnitBlock
  <2>2. r + x \in Region
    BY <1>1, UnitInside
  <2> HIDE DEF x, y, r
  <2>3. u \in Nat /\ (r + x = r <=> x = 0)
    BY <1>3, <2>1
  <2>4. (r + x = r /\ y < s) <=> u < s
    <3>1. CASE u < BlockUnits
      BY <2>1, <2>3, <3>1
    <3>2. CASE ~ (u < BlockUnits)
      BY <1>2, <2>1, <2>3, <3>2
    <3> QED
      BY <3>1, <3>2
  <2> QED
    BY <1>5, <2>1, <2>2, <2>4 DEF x, y
<1>7. \A u \in 0 .. (itable[f].size - 1) :
        Units(f)[u] = data[r + (u \div BlockUnits)][u % BlockUnits]
  BY DEF Units
<1>8. Units(f)' = [u \in 0 .. (itable[f].size - 1) |->
                     IF u < s THEN v ELSE Units(f)[u]]
  <2>1. Units(f)' = [u \in 0 .. (itable[f].size - 1) |->
                       data'[r + (u \div BlockUnits)][u % BlockUnits]]
    BY <1>4 DEF Units
  <2> QED
    BY <1>6, <1>7, <2>1
<1> QED
  BY <1>1, <1>2, <1>8

-----------------------------------------------------------------------------
(* What each effect is for the names and the contents.                     *)

LEMMA EntersNames ==
  ASSUME Steady, NEW d \in LiveDirs, NEW n \in Names, NEW i, NEW mode, NEW p,
         Enters(d, n, i, mode, p)
  PROVE  /\ NamesInUse' = NamesInUse \cup {[dir |-> d, name |-> n, node |-> i]}
         /\ Nodes' = Nodes \cup {i}
         /\ i \in Ino \ Nodes
<1> DEFINE new == [dir |-> d, name |-> n, node |-> i]
<1>1. At(data', p) = [ino |-> i, name |-> n] /\ EntryOf(d, At(data', p)) = new
  BY DEF Enters, Joins, EntryOf
<1>2. Live(d)' = Live(d) \cup {p} /\ \A q \in Live(d) : At(data', q) = At(data, q)
  BY JoinsLive DEF Enters
<1>3. d \in LiveDirs'
  BY JoinsOthers DEF Enters
<1>4. ASSUME NEW e \in LiveDirs \ {d}
      PROVE  e \in LiveDirs' /\ Live(e)' = Live(e)
             /\ \A q \in Live(e) : At(data', q) = At(data, q)
  <2>1. e \in LiveDirs' /\ SameEntries(e)
    BY JoinsOthers DEF Enters
  <2>2. e \in inode_bits'
    BY <2>1 DEF LiveDirs, InUse
  <2>3. Live(e)' = Live(e) /\ Live(e) \subseteq Places(itable[e].ext)
    BY <2>1, <2>2, SameLive, LiveSpots
  <2> QED
    BY <2>1, <2>3 DEF SameEntries
<1>5. ASSUME NEW e \in LiveDirs', e # d, Live(e)' # {}
      PROVE  e \in LiveDirs
  BY <1>5, JoinsOthers DEF Enters
<1> HIDE DEF new
<1>6. ASSUME NEW e PROVE e \in NamesInUse' <=> e \in NamesInUse \/ e = new
  <2>1. ASSUME e \in NamesInUse' PROVE e \in NamesInUse \/ e = new
    <3>1. PICK g \in LiveDirs' : \E q \in Live(g)' : e = EntryOf(g, At(data', q))
      BY <2>1, NameIs
    <3>2. PICK q \in Live(g)' : e = EntryOf(g, At(data', q))
      BY <3>1
    <3>3. CASE g = d
      BY <1>1, <1>2, <3>2, <3>3, NameIs
    <3>4. CASE g # d
      <4>1. g \in LiveDirs \ {d} /\ q \in Live(g) /\ At(data', q) = At(data, q)
        BY <1>4, <1>5, <3>2, <3>4
      <4> QED
        BY <3>2, <4>1, NameIs
    <3> QED
      BY <3>3, <3>4
  <2>2. ASSUME e \in NamesInUse PROVE e \in NamesInUse'
    <3>1. PICK g \in LiveDirs : \E q \in Live(g) : e = EntryOf(g, At(data, q))
      BY <2>2, NameIs
    <3>2. PICK q \in Live(g) : e = EntryOf(g, At(data, q))
      BY <3>1
    <3>3. g \in LiveDirs' /\ q \in Live(g)' /\ At(data', q) = At(data, q)
      BY <1>2, <1>3, <1>4
    <3> QED
      BY <3>2, <3>3, NameIs
  <2>3. new \in NamesInUse'
    BY <1>1, <1>2, <1>3, NameIs
  <2> QED
    BY <2>1, <2>2, <2>3
<1>7. NamesInUse' = NamesInUse \cup {new}
  BY <1>6
<1>8. new.node = i
  BY DEF new
<1>9. Nodes' = Nodes \cup {i}
  BY <1>7, <1>8 DEF Nodes
<1>10. i \in Ino \ Nodes
  BY NodesInUse DEF Enters, Joins
<1> QED
  BY <1>7, <1>9, <1>10 DEF new

LEMMA EntersUnits ==
  ASSUME Steady, NEW d \in LiveDirs, NEW n \in Names, NEW i, NEW mode, NEW p,
         Enters(d, n, i, mode, p), EntersBlocks(d), NEW f \in FileNodes
  PROVE  Units(f)' = Units(f) /\ itable'[f] = itable[f]
<1>1. f \in Ino /\ f \in inode_bits /\ itable[f].mode = "file"
      /\ d \in Ino /\ f # d /\ f # i
  BY NodesInUse, DirsAreInodes DEF FileNodes, LiveDirs, Enters, Joins, Steady
<1>2. itable'[f] = itable[f]
  BY <1>1 DEF Enters, Joins
<1>3. ASSUME NEW b \in OwnedBy(itable[f].ext) PROVE data'[b] = data[b]
  <2>1. b \in Region /\ b \in block_bits
    BY <1>1, ExtentFacts
  <2>2. b \notin OwnedBy(itable[d].ext)
    BY <1>1 DEF Steady, Exclusive
  <2> QED
    BY <2>1, <2>2 DEF EntersBlocks
<1> QED
  BY <1>1, <1>2, <1>3, UnitsKept

LEMMA RemovesNames ==
  ASSUME Steady, NEW d \in LiveDirs, NEW i, NEW p, Removes(d, i, p),
         i \in LiveDirs => Live(i) = {}
  PROVE  /\ EntryOf(d, At(data, p)) \in NamesInUse
         /\ NamesInUse' = NamesInUse \ {EntryOf(d, At(data, p))}
         /\ Nodes' = Nodes \ {i}
         /\ i \in Nodes \ {0}
         /\ \A e \in NamesInUse : e.dir # i
<1> DEFINE old == EntryOf(d, At(data, p))
<1>1. p \in Live(d) /\ At(data, p).ino = i /\ i # d /\ i # 0
  BY DEF Removes
<1>2. /\ LiveDirs' = LiveDirs \ {i}
      /\ Live(d)' = Live(d) \ {p}
      /\ \A q \in Live(d) \ {p} : At(data', q) = At(data, q)
  BY RemovesOthers, LiveSpots
<1>3. ASSUME NEW e \in LiveDirs \ {d, i}
      PROVE  Live(e)' = Live(e) /\ \A q \in Live(e) : At(data', q) = At(data, q)
  <2>1. SameEntries(e) /\ Live(e)' = Live(e)
    BY RemovesOthers
  <2> QED
    BY <2>1, LiveSpots DEF SameEntries
<1>4. i \in LiveDirs => Live(i) = {}
  OBVIOUS
<1>5. ASSUME NEW g \in LiveDirs, NEW q \in Live(g), At(data, q).ino = i
      PROVE  g = d /\ q = p
  BY <1>1, <1>5 DEF Steady, WellNamed, OneEntryEach
<1>6. \A g, v : EntryOf(g, v).dir = g /\ EntryOf(g, v).node = v.ino
  BY DEF EntryOf
<1>7. old.node = i /\ old \in NamesInUse
  BY <1>1, <1>6, NameIs
<1> HIDE DEF old
<1>8. ASSUME NEW e PROVE e \in NamesInUse' <=> e \in NamesInUse /\ e # old
  <2>1. ASSUME e \in NamesInUse' PROVE e \in NamesInUse /\ e # old
    <3>1. PICK g \in LiveDirs' : \E q \in Live(g)' : e = EntryOf(g, At(data', q))
      BY <2>1, NameIs
    <3>2. PICK q \in Live(g)' : e = EntryOf(g, At(data', q))
      BY <3>1
    <3>3. g \in LiveDirs /\ g # i
      BY <1>2
    <3>4. q \in Live(g) /\ At(data', q) = At(data, q) /\ ~ (g = d /\ q = p)
      <4>1. CASE g = d
        BY <1>2, <3>2, <4>1
      <4>2. CASE g # d
        BY <1>3, <3>2, <3>3, <4>2
      <4> QED
        BY <4>1, <4>2
    <3>5. e.node # i
      BY <1>5, <1>6, <3>2, <3>3, <3>4
    <3> QED
      BY <1>7, <3>2, <3>3, <3>4, <3>5, NameIs
  <2>2. ASSUME e \in NamesInUse, e # old PROVE e \in NamesInUse'
    <3>1. PICK g \in LiveDirs : \E q \in Live(g) : e = EntryOf(g, At(data, q))
      BY <2>2, NameIs
    <3>2. PICK q \in Live(g) : e = EntryOf(g, At(data, q))
      BY <3>1
    <3>3. ~ (g = d /\ q = p) /\ g # i
      BY <1>4, <2>2, <3>2 DEF old
    <3>4. g \in LiveDirs' /\ q \in Live(g)' /\ At(data', q) = At(data, q)
      BY <1>2, <1>3, <3>3
    <3> QED
      BY <3>2, <3>4, NameIs
  <2> QED
    BY <2>1, <2>2
<1>9. NamesInUse' = NamesInUse \ {old}
  BY <1>8
<1>10. \A e \in NamesInUse : e.dir # i /\ (e.node = i => e = old)
  <2> SUFFICES ASSUME NEW e \in NamesInUse
               PROVE  e.dir # i /\ (e.node = i => e = old)
    OBVIOUS
  <2>1. PICK g \in LiveDirs : \E q \in Live(g) : e = EntryOf(g, At(data, q))
    BY NameIs
  <2>2. PICK q \in Live(g) : e = EntryOf(g, At(data, q))
    BY <2>1
  <2> QED
    BY <1>4, <1>5, <1>6, <2>2 DEF old
<1>11. Nodes' = Nodes \ {i} /\ i \in Nodes \ {0}
  BY <1>1, <1>7, <1>9, <1>10 DEF Nodes
<1> QED
  BY <1>7, <1>9, <1>10, <1>11 DEF old

LEMMA RemovesUnits ==
  ASSUME Steady, NEW d \in LiveDirs, NEW i, NEW p, Removes(d, i, p),
         NEW f \in FileNodes \ {i}
  PROVE  Units(f)' = Units(f)
<1>1. f \in Ino /\ f \in inode_bits /\ itable[f].mode = "file"
      /\ d \in Ino /\ f # d
  BY NodesInUse, DirsAreInodes DEF FileNodes, LiveDirs, Steady
<1>2. itable'[f] = itable[f]
  BY <1>1 DEF Removes
<1>3. p \in Spots /\ p \in Places(itable[d].ext) /\ p[2] \in OwnedBy(itable[d].ext)
  BY <1>1, LiveSpots, ExtentFacts DEF Removes
<1>4. ASSUME NEW b \in OwnedBy(itable[f].ext) PROVE data'[b] = data[b]
  <2>1. b \in Region
    BY <1>1, ExtentFacts
  <2>2. b # p[2]
    BY <1>1, <1>3 DEF Steady, Exclusive
  <2>3. data \in DataType /\ data' = WithEntry(data, p, Vacancy)
    BY Types DEF Removes, Steady
  <2> QED
    BY <1>3, <2>1, <2>2, <2>3, PutAt
<1> QED
  BY <1>1, <1>2, <1>4, UnitsKept

LEMMA ChangesNames ==
  ASSUME Steady, NEW f, Changes(f)
  PROVE  NamesInUse' = NamesInUse /\ Nodes' = Nodes
<1>1. LiveDirs' = LiveDirs
  BY DirsAreInodes DEF Changes, LiveDirs, InUse, Steady
<1>2. ASSUME NEW e \in LiveDirs
      PROVE  Live(e)' = Live(e) /\ \A q \in Live(e) : At(data', q) = At(data, q)
  <2>1. SameEntries(e) /\ e \in inode_bits'
    BY ChangesEntries DEF Changes, LiveDirs, InUse
  <2> QED
    BY <2>1, SameLive, LiveSpots DEF SameEntries
<1> QED
  BY <1>1, <1>2, NamesKept

LEMMA ChangesUnits ==
  ASSUME Steady, NEW f, Changes(f), NEW g \in FileNodes \ {f}
  PROVE  Units(g)' = Units(g)
<1>1. g \in Ino /\ itable[g].mode = "file" /\ f \in Ino /\ f # g
      /\ f \in inode_bits /\ g \in inode_bits
  BY NodesInUse, DirsAreInodes DEF FileNodes, Changes, Steady
<1>2. itable'[g] = itable[g]
  BY <1>1 DEF Changes
<1>3. ASSUME NEW b \in OwnedBy(itable[g].ext) PROVE data'[b] = data[b]
  <2>1. b \in Region /\ b \in block_bits
    BY <1>1, ExtentFacts
  <2>2. b \notin OwnedBy(itable[f].ext)
    BY <1>1 DEF Steady, Exclusive
  <2> QED
    BY <2>1, <2>2 DEF Changes
<1> QED
  BY <1>1, <1>2, <1>3, UnitsKept

-----------------------------------------------------------------------------
(* Every step of the image as a step of the name space.                    *)

LEMMA EntersIsMake ==
  ASSUME Steady, NEW d \in Dirs, NEW n \in Names, NEW i \in Ino,
         NEW mode \in {"dir", "file"}, NEW p,
         Enters(d, n, i, mode, p), EntersBlocks(d), Lookup(d, n) = -1
  PROVE  NS!Next
<1>1. d \in LiveDirs /\ d \in Nodes /\ itable[d].mode = "dir"
  BY DirsLive, DirsAreNodes DEF LiveDirs
<1>2. /\ NamesInUse' = NamesInUse \cup {[dir |-> d, name |-> n, node |-> i]}
      /\ Nodes' = Nodes \cup {i}
      /\ i \in Ino \ Nodes
  BY <1>1, EntersNames
<1>3. ASSUME NEW e \in NamesInUse PROVE ~ (e.dir = d /\ e.name = n)
  <2>1. PICK g \in LiveDirs : \E q \in Live(g) : e = EntryOf(g, At(data, q))
    BY NameIs
  <2>2. PICK q \in Live(g) : e = EntryOf(g, At(data, q))
    BY <2>1
  <2>3. e.dir = g /\ e.name = At(data, q).name
    BY <2>2 DEF EntryOf
  <2> QED
    BY <2>2, <2>3, LookupFails
<1>4. itable'[i] = Created(mode)
  BY DEF Enters, Joins
<1>5. itable'[i].mode = mode /\ itable'[i].size = 0
  BY <1>4 DEF Created
<1>6. \A j \in Nodes : itable'[j].mode = itable[j].mode
  BY <1>2, NodesInUse DEF Enters, Joins
<1>7. \A f \in FileNodes : Units(f)' = Units(f)
  BY <1>1, EntersUnits
<1>8. Units(i)' = [u \in {} |-> Blank]
  BY <1>5, NoUnits
<1>9. NS!Make(d, n, i, mode)
  <2>1. [j \in Nodes' |-> itable'[j].mode] =
        [j \in Nodes \cup {i} |-> IF j = i THEN mode ELSE itable[j].mode]
    BY <1>2, <1>5, <1>6
  <2>2. FileNodes' = IF mode = "dir" THEN FileNodes ELSE FileNodes \cup {i}
    BY <1>2, <1>5, <1>6 DEF FileNodes
  <2>3. [j \in FileNodes' |-> Units(j)'] =
          IF mode = "dir" THEN [j \in FileNodes |-> Units(j)]
          ELSE [j \in FileNodes \cup {i} |->
                  IF j = i THEN [u \in {} |-> Blank] ELSE Units(j)]
    BY <1>2, <1>7, <1>8, <2>2 DEF FileNodes
  <2> QED
    BY <1>1, <1>2, <1>3, <2>1, <2>3 DEF NS!Make, FileNodes
<1> QED
  BY <1>1, <1>2, <1>9 DEF NS!Next

LEMMA RemovesIsRemove ==
  ASSUME Steady, NEW d \in LiveDirs, NEW i, NEW p, Removes(d, i, p),
         i \in LiveDirs => Live(i) = {}
  PROVE  NS!Next
<1>0. PICK e : e = EntryOf(d, At(data, p))
  OBVIOUS
<1>1. /\ e \in NamesInUse /\ NamesInUse' = NamesInUse \ {e}
      /\ Nodes' = Nodes \ {i}
      /\ \A f \in NamesInUse : f.dir # i
  BY <1>0, RemovesNames
<1>2. e = [dir |-> e.dir, name |-> e.name, node |-> e.node] /\ e.node = i
  BY <1>0 DEF EntryOf, Removes
<1>3. \A j \in Nodes \ {i} : itable'[j].mode = itable[j].mode
  <2>1. itable[d] \in Inode /\ d \in Ino
    BY ExtentFacts, DirsAreInodes DEF Steady
  <2>2. itable'[d].mode = itable[d].mode
    BY <2>1 DEF Removes, Inode
  <2> QED
    BY <2>2, NodesInUse DEF Removes
<1>4. \A f \in FileNodes \ {i} : Units(f)' = Units(f)
  BY RemovesUnits
<1>5. FileNodes' = FileNodes \ {i}
  BY <1>1, <1>3 DEF FileNodes
<1>6. NS!Remove(e.dir, e.name, e.node)
  <2>1. [j \in Nodes' |-> itable'[j].mode] = [j \in Nodes \ {i} |-> itable[j].mode]
    BY <1>1, <1>3
  <2>2. [j \in FileNodes' |-> Units(j)'] = [j \in FileNodes \ {i} |-> Units(j)]
    BY <1>4, <1>5
  <2> QED
    BY <1>1, <1>2, <2>1, <2>2 DEF NS!Remove, FileNodes
<1>7. \E g \in NamesInUse : NS!Remove(g.dir, g.name, g.node)
  BY <1>1, <1>6
<1> QED
  BY <1>7 DEF NS!Next

\* A file has changed: the names are the same, and the contents of others.
LEMMA ChangesSeen ==
  ASSUME Steady, NEW f \in FileNodes, Changes(f)
  PROVE  /\ NamesInUse' = NamesInUse /\ Nodes' = Nodes
         /\ [j \in Nodes' |-> itable'[j].mode] = [j \in Nodes |-> itable[j].mode]
         /\ FileNodes' = FileNodes
         /\ [j \in FileNodes' |-> Units(j)'] =
              [[j \in FileNodes |-> Units(j)] EXCEPT ![f] = Units(f)']
<1>1. NamesInUse' = NamesInUse /\ Nodes' = Nodes
  BY ChangesNames
<1>2. \A j \in Nodes : itable'[j].mode = itable[j].mode
  BY NodesInUse DEF Changes
<1>3. FileNodes' = FileNodes
  BY <1>1, <1>2 DEF FileNodes
<1>4. \A g \in FileNodes \ {f} : Units(g)' = Units(g)
  BY ChangesUnits
<1> QED
  BY <1>1, <1>2, <1>3, <1>4

LEMMA ShrinkIsResize ==
  ASSUME Steady, NEW f \in Files, 0 \in Sizes, Shrink(f, 0)
  PROVE  NS!Next
<1>1. Changes(f) /\ itable'[f].size = 0
  BY ShrinkDoes
<1>2. Units(f)' = [u \in {} |-> Blank]
  BY <1>1, NoUnits
<1>3. f \in FileNodes
  BY FilesAreNodes
<1>4. NS!Resize(f, 0)
  <2>1. 0 .. (0 - 1) = {}
    OBVIOUS
  <2>2. Units(f)' = [u \in 0 .. (0 - 1) |->
                       IF u \in DOMAIN Units(f) THEN Units(f)[u] ELSE Blank]
    BY <1>2, <2>1
  <2> QED
    BY <1>1, <1>3, <2>2, ChangesSeen DEF NS!Resize, FileNodes
<1> QED
  BY <1>1, <1>3, <1>4, ChangesSeen DEF NS!Next, FileNodes

LEMMA ExtendIsResizeOrWrite ==
  ASSUME Steady, NEW f \in Files, NEW s \in Sizes, NEW c \in Calls(s),
         itable[f].ext = <<>>, Extend(f, s, c)
  PROVE  NS!Next
<1>1. s \in Nat /\ f \in Ino /\ itable[f].mode = "file"
  BY A1fsAssumption, FilesLive
<1>2. Changes(f)
  BY <1>1, ExtendDoes
<1>3. /\ Units(f)' = [u \in 0 .. (s - 1) |-> c.fill]
      /\ c = [units |-> 0, fill |-> Blank] \/ \E v \in Payload : c.fill = v
  BY <1>1, ExtendUnits
<1>4. DOMAIN Units(f) = {}
  <2>1. itable[f].size \in Nat
    BY <1>1, InodeFields, Types DEF Steady
  <2>2. ~ (itable[f].size >= 1)
    BY <1>1, SizedHasBlocks
  <2>3. itable[f].size = 0
    BY <2>1, <2>2
  <2> QED
    BY <2>3 DEF Units
<1>5. f \in FileNodes
  BY FilesAreNodes
<1>6. CASE c = [units |-> 0, fill |-> Blank]
  <2>1. Units(f)' = [u \in 0 .. (s - 1) |->
                       IF u \in DOMAIN Units(f) THEN Units(f)[u] ELSE Blank]
    BY <1>3, <1>4, <1>6
  <2>2. NS!Resize(f, s)
    BY <1>2, <1>5, <2>1, ChangesSeen DEF NS!Resize, FileNodes
  <2> QED
    BY <1>2, <1>5, <2>2, ChangesSeen DEF NS!Next, FileNodes
<1>7. ASSUME NEW v \in Payload, c.fill = v PROVE NS!Next
  <2>1. Units(f)' = [u \in DOMAIN Units(f) \cup 0 .. (s - 1) |->
          IF u \in 0 .. (s - 1) THEN v
          ELSE IF u \in DOMAIN Units(f) THEN Units(f)[u] ELSE Blank]
    BY <1>3, <1>4, <1>7
  <2>2. NS!Write(f, 0, s, v)
    BY <1>2, <1>5, <2>1, ChangesSeen DEF NS!Write, FileNodes
  <2>3. 0 \in 0 .. s
    BY <1>1
  <2> QED
    BY <1>2, <1>5, <2>2, <2>3, ChangesSeen DEF NS!Next, FileNodes
<1> QED
  BY <1>3, <1>6, <1>7

LEMMA WriteInPlaceIsWrite ==
  ASSUME Steady, NEW f \in Files, NEW s \in Sizes, NEW v \in Payload,
         WriteInPlace(f, s, v)
  PROVE  NS!Next
<1>1. s \in Nat
  BY A1fsAssumption
<1>2. Changes(f)
  BY <1>1, WriteInPlaceDoes
<1>3. /\ Units(f)' = [u \in 0 .. (itable[f].size - 1) |->
                        IF u < s THEN v ELSE Units(f)[u]]
      /\ s <= itable[f].size /\ itable[f].size \in Nat
  BY <1>1, WriteUnits
<1>4. DOMAIN Units(f) = 0 .. (itable[f].size - 1)
  BY DEF Units
<1>5. f \in FileNodes
  BY FilesAreNodes
<1>6. Units(f)' = [u \in DOMAIN Units(f) \cup 0 .. (s - 1) |->
          IF u \in 0 .. (s - 1) THEN v
          ELSE IF u \in DOMAIN Units(f) THEN Units(f)[u] ELSE Blank]
  <2>1. DOMAIN Units(f) \cup 0 .. (s - 1) = 0 .. (itable[f].size - 1)
    BY <1>1, <1>3, <1>4
  <2>2. \A u \in 0 .. (itable[f].size - 1) :
          (u < s <=> u \in 0 .. (s - 1)) /\ u \in DOMAIN Units(f)
    BY <1>1, <1>3, <1>4
  <2> QED
    BY <1>3, <2>1, <2>2
<1>7. NS!Write(f, 0, s, v)
  BY <1>2, <1>5, <1>6, ChangesSeen DEF NS!Write, FileNodes
<1>8. 0 \in 0 .. s
  BY <1>1
<1> QED
  BY <1>2, <1>5, <1>7, <1>8, ChangesSeen DEF NS!Next, FileNodes

\* An inode without a name, and a call that goes wrong, are not seen.
LEMMA UnnamedIsUnseen ==
  ASSUME Steady, NEW i, NEW mode, Unnamed(i, mode)
  PROVE  UNCHANGED NS!vars
<1>1. i \notin Nodes /\ \A j \in Nodes : itable'[j] = itable[j]
  BY NodesInUse DEF Unnamed
<1>2. ASSUME NEW e \in LiveDirs
      PROVE  e \in LiveDirs' /\ Live(e)' = Live(e)
             /\ \A q \in Live(e) : At(data', q) = At(data, q)
  <2>1. SameEntries(e) /\ e \in inode_bits'
    BY DirsAreInodes DEF Unnamed, SameEntries, LiveDirs, InUse, Steady
  <2> QED
    BY <2>1, SameLive, LiveSpots DEF SameEntries
<1>3. ASSUME NEW e \in LiveDirs', Live(e)' # {} PROVE e \in LiveDirs
  <2>1. CASE e = i
    BY <1>3, <2>1, CreatedIsEmpty DEF Unnamed
  <2>2. CASE e # i
    BY <2>2, DirsAreInodes DEF Unnamed, LiveDirs, InUse, Steady
  <2> QED
    BY <2>1, <2>2
<1>4. ASSUME NEW e PROVE e \in NamesInUse' <=> e \in NamesInUse
  BY <1>2, <1>3, NameIs
<1>5. NamesInUse' = NamesInUse /\ Nodes' = Nodes
  BY <1>4 DEF Nodes
<1>6. FileNodes' = FileNodes
  BY <1>1, <1>5 DEF FileNodes
<1>7. ASSUME NEW f \in FileNodes PROVE Units(f)' = Units(f)
  BY <1>1 DEF Unnamed, FileNodes, Units
<1>8. [j \in Nodes' |-> itable'[j].mode] = [j \in Nodes |-> itable[j].mode]
  BY <1>1, <1>5
<1>9. [j \in FileNodes' |-> Units(j)'] = [j \in FileNodes |-> Units(j)]
  BY <1>6, <1>7
<1> QED
  BY <1>5, <1>8, <1>9 DEF NS!vars, FileNodes

LEMMA SameImageIsUnseen ==
  ASSUME UNCHANGED <<inode_bits, itable, data>>
  PROVE  UNCHANGED NS!vars
<1>1. NamesInUse' = NamesInUse
  BY DEF NamesInUse, LiveDirs, InUse, Live, At
<1>2. Nodes' = Nodes
  BY <1>1 DEF Nodes
<1>3. \A f : Units(f)' = Units(f)
  BY DEF Units
<1> QED
  BY <1>1, <1>2, <1>3 DEF NS!vars

\* Where no count falls short rmdir's check is right: it takes empty ones only.
LEMMA DroppedIsEmpty ==
  ASSUME Steady, ShortBy(0), NEW d \in LiveDirs, NEW n \in Names, NEW i \in Ino,
         Rmdir(d, n, i) \/ Unlink(d, n, i)
  PROVE  \E p : Removes(d, i, p) /\ (i \in LiveDirs => Live(i) = {})
<1>1. CASE Rmdir(d, n, i)
  BY <1>1, RmdirDoes
<1>2. CASE Unlink(d, n, i)
  BY <1>2, UnlinkDoes
<1> QED
  BY <1>1, <1>2

LEMMA OrderlyStep ==
  ASSUME Orderly, NextOrderly
  PROVE  [NS!Next]_(NS!vars)
<1>1. Steady /\ ShortBy(0) /\ Dirs \subseteq LiveDirs /\ Sizes \subseteq Nat
  BY OrderlyNeedsUp, DirsLive, A1fsAssumption DEF Steady, Orderly, Tidy, Exact
<1>2. ASSUME NEW d \in Dirs, NEW n \in Names, NEW i \in Ino,
             NEW mode \in {"dir", "file"},
             \/ AddEntry(d, n, i, mode)
             \/ itable[d].ext = <<>> /\ AddEntryInNewBlock(d, n, i, mode)
      PROVE  NS!Next
  <2>1. Lookup(d, n) = -1
    BY <1>2 DEF AddEntry, AddEntryInNewBlock, NewInode, NewPath
  <2>2. EntersBlocks(d) /\ \E p : Enters(d, n, i, mode, p)
    BY <1>1, <1>2, AddEntryDoes, AddEntryInNewBlockDoes
  <2> QED
    BY <1>1, <2>1, <2>2, EntersIsMake
<1>3. ASSUME NEW d \in Dirs, NEW n \in Names, NEW i \in Ino,
             NEW mode \in {"dir", "file"}, AddEntryNoSpace(d, n, i, mode)
      PROVE  UNCHANGED NS!vars
  <2>1. Unnamed(i, mode)
    BY <1>1, <1>3, AddEntryNoSpaceDoes
  <2> QED
    BY <1>1, <2>1, UnnamedIsUnseen
<1>4. ASSUME NEW d \in Dirs, NEW n \in Names, NEW i \in Ino,
             NEW mode \in {"dir", "file"}, AddEntryFault(d, n, i, mode)
      PROVE  UNCHANGED NS!vars
  BY <1>4, SameImageIsUnseen DEF AddEntryFault, bitmaps
<1>5. ASSUME NEW d \in Dirs, NEW n \in Names, NEW i \in Ino,
             Rmdir(d, n, i) \/ Unlink(d, n, i)
      PROVE  NS!Next
  <2>1. PICK p : Removes(d, i, p) /\ (i \in LiveDirs => Live(i) = {})
    BY <1>1, <1>5, DroppedIsEmpty
  <2> QED
    BY <1>1, <2>1, RemovesIsRemove
<1>6. ASSUME NEW f \in Files, NEW s \in Sizes, NEW c \in Calls(s),
             itable[f].ext = <<>>, Extend(f, s, c)
      PROVE  NS!Next
  BY <1>1, <1>6, ExtendIsResizeOrWrite
<1>7. ASSUME NEW f \in Files, NEW s \in Sizes, itable[f].ext = <<>>,
             ExtendFault(f, s) \/ ExtendSpins(f, s)
      PROVE  UNCHANGED NS!vars
  BY <1>7, SameImageIsUnseen
  DEF ExtendFault, ExtendSpins, DataFor, FillsUp, bitmaps
<1>8. ASSUME NEW f \in Files, NEW s \in Sizes, s = 0, Shrink(f, s)
      PROVE  NS!Next
  BY <1>1, <1>8, ShrinkIsResize
<1>9. ASSUME NEW f \in Files, NEW s \in Sizes, NEW v \in Payload,
             WriteInPlace(f, s, v)
      PROVE  NS!Next
  BY <1>1, <1>9, WriteInPlaceIsWrite
<1> QED
  BY <1>2, <1>3, <1>4, <1>5, <1>6, <1>7, <1>8, <1>9 DEF NextOrderly

LEMMA InitIsInit ==
  ASSUME Init
  PROVE  NS!Init
<1>1. inode_bits = {0} /\ itable[0] = Created("dir")
  BY ConstantTypes DEF Init, Created
<1>2. LiveDirs = {0} /\ itable[0].mode = "dir" /\ itable[0].ext = <<>>
  BY <1>1 DEF LiveDirs, InUse, Created
<1>3. Live(0) = {}
  BY <1>2, NoPlaces DEF Live
<1>4. NamesInUse = {}
  BY <1>2, <1>3, NameIs
<1>5. Nodes = {0}
  BY <1>4 DEF Nodes
<1> QED
  BY <1>2, <1>4, <1>5 DEF NS!Init

\* Orderly use implements the name space: whatever the calls, the caller sees
\* a tree of names and files that hold what was written, zeros elsewhere.
THEOREM OrderlyUseIsANamespace == SpecOrderly => ImplementsNamespace
<1>1. Init => NS!Init
  BY InitIsInit
<1>2. Orderly /\ [NextOrderly]_vars => [NS!Next]_(NS!vars)
  <2>1. CASE UNCHANGED vars
    <3>1. UNCHANGED <<inode_bits, itable, data>>
      BY <2>1 DEF vars, bitmaps
    <3> QED
      BY <3>1, SameImageIsUnseen
  <2>2. ASSUME Orderly, NextOrderly PROVE [NS!Next]_(NS!vars)
    BY <2>2, OrderlyStep
  <2> QED
    BY <2>1, <2>2
<1> QED
  BY <1>1, <1>2, OrderlyInvariant, PTL
  DEF SpecOrderly, ImplementsNamespace, NS!Spec

-----------------------------------------------------------------------------
(* What is known of every name space holds for the image.                  *)

Seen == INSTANCE NamespaceProofs WITH
  Node <- Ino, Root <- 0, Lengths <- Sizes, Values <- Payload, Zero <- Blank,
  kind <- [i \in Nodes |-> itable[i].mode],
  entries <- NamesInUse,
  content <- [i \in {j \in Nodes : itable[j].mode = "file"} |-> Units(i)]

\* In orderly use the names of the image form a tree: every node has one name,
\* in a directory, and no directory is cut off from the root (a1fs.c:360).
THEOREM NamesInUseFormATree ==
  SpecOrderly => [](Seen!TypeOK /\ Seen!OneName /\ Seen!Rooted)
<1>1. Seen!NamespaceAssumption
  BY A1fsAssumption, ConstantTypes DEF Seen!NamespaceAssumption
<1>2. NS!Init => Seen!Init
  BY DEF NS!Init, Seen!Init
<1>3. [NS!Next]_(NS!vars) => [Seen!Next]_(Seen!vars)
  BY DEF NS!Next, NS!vars, NS!Make, NS!Remove, NS!Resize, NS!Write,
         Seen!Next, Seen!vars, Seen!Make, Seen!Remove, Seen!Resize, Seen!Write
<1>4. SpecOrderly => NS!Init /\ [][NS!Next]_(NS!vars)
  BY OrderlyUseIsANamespace DEF ImplementsNamespace, NS!Spec
<1>5. Seen!Spec => [](Seen!TypeOK /\ Seen!OneName /\ Seen!Rooted)
  BY <1>1, Seen!NamesFormATree
<1> QED
  BY <1>2, <1>3, <1>4, <1>5, PTL DEF Seen!Spec

-----------------------------------------------------------------------------
(* The calls.  What is known between two steps of them.                    *)

\* By what an offset is looked for is known once the file has a size.
SizesKnown ==
  \A i \in Ino : itable[i].mode = "file" /\ itable[i].size >= 1 =>
    used[i] = UsedAfter(i, itable[i].size)

\* Inside a write that has grown its file: the file has the size, is zero, and
\* no other call has come in between.
Pending ==
  todo # Nothing =>
    /\ Up /\ todo.ino \in FileNodes
    /\ todo.lo \in Nat /\ todo.hi \in Sizes /\ todo.fill \in Payload
    /\ WithinBlock(todo.lo, todo.hi)
    /\ itable[todo.ino].size = todo.hi
    /\ Units(todo.ino) = [u \in 0 .. (todo.hi - 1) |-> Blank]

CallsInv == Orderly /\ CallsTypeOK /\ SizesKnown /\ Pending

-----------------------------------------------------------------------------
(* A store within one block.                                               *)

LEMMA QuotientGrows ==
  ASSUME NEW a \in Nat, NEW b \in Nat, NEW c \in Nat \ {0}, a <= b
  PROVE  a \div c <= b \div c
<1> DEFINE x == a \div c
           y == b \div c
<1>1. x \in Nat /\ y \in Nat /\ c * x <= a /\ b < c * y + c
  BY Quotient
<1> HIDE DEF x, y
<1> SUFFICES ASSUME y + 1 <= x PROVE FALSE
  BY <1>1 DEF x, y
<1>2. c * (y + 1) <= c * x
  BY <1>1, Times
<1>3. c * (y + 1) = c * y + c
  BY <1>1
<1>4. c * x \in Nat /\ c * y \in Nat
  BY <1>1
<1> QED
  BY <1>1, <1>2, <1>3, <1>4

\* A unit of the file is written if it is one of lo .. hi - 1.
LEMMA UnitWritten ==
  ASSUME NEW lo \in Nat, NEW hi \in Nat, WithinBlock(lo, hi), NEW u \in Nat
  PROVE  LET q == lo \div BlockUnits
             y == u % BlockUnits
         IN  (/\ u \div BlockUnits = q
              /\ lo <= y + q * BlockUnits /\ y + q * BlockUnits < hi)
             <=> u \in lo .. (hi - 1)
<1> DEFINE B == BlockUnits
           q == lo \div B
           x == u \div B
           y == u % B
<1>1. B \in Nat \ {0} /\ lo < hi /\ q = (hi - 1) \div B
  BY A1fsAssumption DEF WithinBlock
<1>2. q \in Nat /\ x \in Nat /\ y \in Nat /\ u = B * x + y
  <2>1. q \in Nat
    BY <1>1, Quotient
  <2>2. x \in Nat /\ y \in 0 .. (B - 1) /\ u = B * x + y
    BY <1>1, Quotient
  <2> QED
    BY <1>1, <2>1, <2>2
<1>3. ASSUME u \in lo .. (hi - 1) PROVE x = q
  <2>1. lo <= u /\ u <= hi - 1 /\ hi - 1 \in Nat
    BY <1>1, <1>3
  <2>2. q <= x /\ x <= q
    BY <1>1, <2>1, QuotientGrows
  <2> QED
    BY <1>2, <2>2
<1> HIDE DEF B, q, x, y
<1>4. ASSUME x = q PROVE u = y + q * B
  <2>1. B * q = q * B /\ B * q \in Nat
    BY <1>1, <1>2
  <2> QED
    BY <1>2, <1>4, <2>1
<1>5. (x = q /\ lo <= y + q * B /\ y + q * B < hi) <=> u \in lo .. (hi - 1)
  BY <1>3, <1>4
<1> QED
  BY <1>5 DEF B, q, x, y

LEMMA StoreDoes ==
  ASSUME Steady, NEW f \in FileNodes, NEW lo \in Nat, NEW hi \in Nat,
         NEW v \in Payload, WithinBlock(lo, hi), hi <= itable[f].size,
         Store(f, lo, hi, v)
  PROVE  /\ Changes(f) /\ ChangesBlocks(f) /\ Counted /\ data' \in DataType
         /\ Units(f)' = [u \in 0 .. (itable[f].size - 1) |->
                           IF u \in lo .. (hi - 1) THEN v ELSE Units(f)[u]]
<1> DEFINE ext == itable[f].ext
           r == ext[1].start
           q == lo \div BlockUnits
           b == r + q
           In(k) == lo <= k + q * BlockUnits /\ k + q * BlockUnits < hi
           new == [k \in Slots |-> IF In(k) THEN v ELSE data[b][k]]
<1>1. f \in Ino /\ f \in inode_bits /\ itable[f].mode = "file"
      /\ itable[f].size \in Nat
  BY NodesInUse, InodeFields, Types DEF FileNodes, Steady
<1>2. lo < hi /\ lo \in 0 .. (itable[f].size - 1)
  BY <1>1 DEF WithinBlock
<1>3. b \in OwnedBy(ext) /\ b \in Region /\ OwnedBy(ext) \subseteq block_bits
  BY <1>1, <1>2, UnitInside, ExtentFacts
<1>4. data \in DataType /\ v \in Entry
  BY Types, A1fsAssumption DEF Steady
<1>5. /\ itable' = itable /\ inode_bits' = inode_bits
      /\ block_bits' = block_bits /\ free_blocks_count' = free_blocks_count
      /\ data' = [data EXCEPT ![b] = new]
  BY DEF Store, StoredAt, bitmaps, counters
<1>6. new \in [Slots -> Entry]
  <2>1. data[b] \in [Slots -> Entry]
    BY <1>3, <1>4 DEF DataType
  <2> HIDE DEF b, In
  <2> QED
    BY <1>4, <2>1
<1>7. /\ data' \in DataType
      /\ \A c \in Region \ {b} : data'[c] = data[c]
      /\ data'[b] = new
  <2> HIDE DEF b, new
  <2> QED
    BY <1>3, <1>4, <1>5, <1>6 DEF DataType
<1>8. \A k \in Slots : data'[b][k] = IF In(k) THEN v ELSE data[b][k]
  BY <1>7
<1> HIDE DEF new
<1>9. ASSUME NEW k \in Slots PROVE data'[b][k].name \in Text
  <2>1. data[b][k].name \in Text
    <3>1. b \in OfFiles
      BY <1>1, <1>3 DEF OfFiles
    <3> QED
      BY <1>3, <3>1 DEF Steady, Contents, FreeText
  <2>2. v.name \in Text
    BY DEF Text
  <2>3. data'[b][k] = v \/ data'[b][k] = data[b][k]
    BY <1>8
  <2> QED
    BY <2>1, <2>2, <2>3
<1>10. Changes(f)
  <2> HIDE DEF b
  <2> QED
    BY <1>1, <1>3, <1>5, <1>7, <1>9 DEF Changes
<1>11. ChangesBlocks(f)
  <2>1. Cardinality(Pairs(ext)) = BlocksFor(itable[f].size)
    BY <1>1 DEF Steady, Contents, SizesFit
  <2> QED
    BY <1>3, <1>5, <2>1 DEF ChangesBlocks
<1>12. Counted
  <2>1. Cardinality(block_bits) \in Nat /\ free_blocks_count \in Nat
    BY BitsCounted DEF Steady, Inside, TypeOK
  <2> QED
    BY <1>5, <2>1 DEF Counted
<1>13. ASSUME NEW u \in 0 .. (itable[f].size - 1)
       PROVE  data'[r + (u \div BlockUnits)][u % BlockUnits] =
                IF u \in lo .. (hi - 1) THEN v
                ELSE data[r + (u \div BlockUnits)][u % BlockUnits]
  <2> DEFINE x == u \div BlockUnits
             y == u % BlockUnits
  <2>1. x \in Nat /\ y \in Slots /\ u \in Nat
    BY <1>1, UnitBlock
  <2>2. r + x \in Region
    BY <1>1, UnitInside
  <2>3. (x = q /\ In(y)) <=> u \in lo .. (hi - 1)
    BY <2>1, UnitWritten
  <2>4. q \in Nat /\ r \in Nat
    <3>1. itable[f].size >= 1
      BY <1>1
    <3> QED
      BY <1>1, <3>1, SizedHasBlocks, Quotient, A1fsAssumption
  <2>5. r + x = b <=> x = q
    <3> HIDE DEF r, x, q
    <3> QED
      BY <2>1, <2>4
  <2> HIDE DEF x, y, r, b, In
  <2> QED
    BY <1>7, <1>8, <2>1, <2>2, <2>3, <2>5 DEF x, y
<1>14. \A u \in 0 .. (itable[f].size - 1) :
         Units(f)[u] = data[r + (u \div BlockUnits)][u % BlockUnits]
  BY DEF Units
<1>15. Units(f)' = [u \in 0 .. (itable[f].size - 1) |->
                      IF u \in lo .. (hi - 1) THEN v ELSE Units(f)[u]]
  <2>1. Units(f)' = [u \in 0 .. (itable[f].size - 1) |->
                        data'[r + (u \div BlockUnits)][u % BlockUnits]]
    BY <1>5 DEF Units
  <2> QED
    BY <1>13, <1>14, <2>1
<1> QED
  BY <1>7, <1>10, <1>11, <1>12, <1>15


-----------------------------------------------------------------------------
(* What a step of a call can be.                                           *)

Between == todo = Nothing /\ todo' = Nothing

Quiet ==
  /\ UNCHANGED <<bitmaps, counters, itable, data, used>>
  /\ \/ fs' \in {fs, "undefined"} /\ job' = job
     \/ fs' = "spinning" /\ job' \in [ino : Ino, want : Nat]
  /\ todo' = Nothing
  /\ todo # Nothing => answer' # "size"

Makes ==
  \E d \in Dirs, n \in Names, i \in Ino, mode \in {"dir", "file"} :
    /\ \/ AddEntry(d, n, i, mode)
       \/ itable[d].ext = <<>> /\ AddEntryInNewBlock(d, n, i, mode)
    /\ used' \in {used, [used EXCEPT ![d] = 0]}
    /\ Between

MakesNoName ==
  \E d \in Dirs, n \in Names, i \in Ino, mode \in {"dir", "file"} :
    AddEntryNoSpace(d, n, i, mode) /\ UNCHANGED used /\ Between

Drops ==
  \E d \in Dirs, n \in Names, i \in Ino :
    (Rmdir(d, n, i) \/ Unlink(d, n, i)) /\ UNCHANGED used /\ Between

Continues(f, s) ==
  \E lo \in 0 .. (s - 1), v \in Payload :
    WithinBlock(lo, s) /\ todo' = [ino |-> f, lo |-> lo, hi |-> s, fill |-> v]

GivesSize ==
  \E f \in Files, s \in Sizes :
    FirstSize(f, s) /\ todo = Nothing /\ (todo' = Nothing \/ Continues(f, s))

Empties ==
  0 \in Sizes /\ \E f \in Files : Shrink(f, 0) /\ UNCHANGED used /\ Between

Stores ==
  \E f \in FileNodes, lo \in Nat, hi \in Sizes, v \in Payload :
    /\ WithinBlock(lo, hi) /\ hi <= itable[f].size
    /\ Store(f, lo, hi, v)
    /\ todo' = Nothing
    /\ \/ todo = Nothing
       \/ f = todo.ino /\ lo = todo.lo /\ hi = todo.hi /\ v = todo.fill

Reported == {"none", "0", "size", "-ENOSPC", "-ENOTEMPTY", "-1", "-errno"}

LEMMA MakeSteps ==
  ASSUME NEW d \in Dirs, NEW n \in Names, NEW i \in Ino,
         NEW mode \in {"dir", "file"},
         \/ Make(d, n, i, mode) \/ MakeInNewBlock(d, n, i, mode)
         \/ MakeNoSpace(d, n, i, mode) \/ MakeFault(d, n, i, mode)
  PROVE  Up /\ answer' \in Reported /\ (Quiet \/ Makes \/ MakesNoName)
<1>1. Up
  BY DEF Make, MakeInNewBlock, MakeNoSpace, MakeFault, AddEntry,
         AddEntryInNewBlock, AddEntryNoSpace, AddEntryFault, NewInode, NewPath, Up
<1>2. CASE Make(d, n, i, mode) \/ MakeInNewBlock(d, n, i, mode)
  <2>1. Makes
    BY <1>2 DEF Make, MakeInNewBlock, Makes, Between, Answer, Answers
  <2> QED
    BY <1>1, <1>2, <2>1 DEF Make, MakeInNewBlock, Answer, Answers, Reported
<1>3. CASE MakeNoSpace(d, n, i, mode)
  <2>1. MakesNoName
    BY <1>3 DEF MakeNoSpace, MakesNoName, Between, Fails, Answers
  <2> QED
    BY <1>1, <1>3, <2>1 DEF MakeNoSpace, Fails, Answers, Reported
<1>4. CASE MakeFault(d, n, i, mode)
  BY <1>1, <1>4 DEF MakeFault, Quiet, Astray, AddEntryFault, Reported
<1> QED
  BY <1>1, <1>2, <1>3, <1>4

LEMMA RemoveSteps ==
  ASSUME NEW d \in Dirs, NEW n \in Names, NEW i \in Ino,
         MakeNoInode(d, n) \/ Remove(d, n, i) \/ RemoveRefused(d, n, i)
  PROVE  Up /\ answer' \in Reported /\ (Quiet \/ Drops)
<1>1. CASE MakeNoInode(d, n)
  BY <1>1 DEF MakeNoInode, NewPath, Up, Quiet, Answer, Answers, Reported, vars
<1>2. CASE RemoveRefused(d, n, i)
  BY <1>2 DEF RemoveRefused, OldPath, Up, Quiet, Answer, Answers, Reported, vars
<1>3. CASE Remove(d, n, i)
  <2>1. Up /\ answer' \in Reported /\ Between
    BY <1>3
    DEF Remove, Rmdir, Unlink, OldPath, Up, Fails, Answers, Reported, Between
  <2>2. Drops
    BY <1>3, <2>1 DEF Remove, Drops
  <2> QED
    BY <2>1, <2>2
<1> QED
  BY <1>1, <1>2, <1>3

LEMMA TruncateSteps ==
  ASSUME TypeOK, NEW f \in Files, NEW s \in Sizes,
         \/ Truncate(f, s)
         \/ \E lo \in 0 .. (s - 1), v \in Payload : WriteGrows(f, lo, s, v)
  PROVE  Up /\ answer' \in Reported /\ (Quiet \/ GivesSize \/ Empties)
<1>1. CASE FirstSizeFault(f, s) /\ todo = Nothing /\ Astray
  BY <1>1
  DEF FirstSizeFault, ExtendFault, Grows, Up, Quiet, Astray, Reported
<1>6. CASE FirstSizeSpins(f, s) /\ todo = Nothing /\ Astray
  <2>1. f \in Ino /\ s \in Nat
    BY A1fsAssumption DEF Files
  <2>2. TypeOK'
    BY <1>6, <2>1, ExtendSpinsTypes DEF FirstSizeSpins
  <2>3. job' \in [ino : Ino, want : Nat]
    BY <2>2 DEF TypeOK
  <2>4. data' = data
    BY <1>6 DEF FirstSizeSpins, ExtendSpins, DataFor, FillsUp
  <2> QED
    BY <1>6, <2>3, <2>4
    DEF FirstSizeSpins, ExtendSpins, Grows, Up, Quiet, Astray, Reported
<1>2. CASE GrowthRefused(f, s) /\ todo = Nothing
           /\ (Answers("-1") \/ Answers("-ENOSPC"))
  BY <1>2 DEF GrowthRefused, Up, Quiet, Answers, Reported, vars
<1>3. CASE FirstSize(f, s) /\ Answer("0")
  BY <1>3
  DEF FirstSize, Extend, Grows, Up, GivesSize, Answer, Answers, Reported
<1>4. CASE s = 0 /\ Shrink(f, s) /\ Answer("0") /\ UNCHANGED used
  BY <1>4 DEF Shrink, Up, Empties, Answer, Answers, Reported, Between
<1>5. ASSUME NEW lo \in 0 .. (s - 1), NEW v \in Payload,
             WithinBlock(lo, s), todo = Nothing, FirstSize(f, s),
             todo' = [ino |-> f, lo |-> lo, hi |-> s, fill |-> v],
             answer' = "none"
      PROVE  Up /\ answer' \in Reported /\ GivesSize
  BY <1>5
  DEF FirstSize, Extend, Grows, Up, GivesSize, Continues, Reported
<1> QED
  BY <1>1, <1>2, <1>3, <1>4, <1>5, <1>6 DEF Truncate, WriteGrows, Answer

LEMMA NotFoundIsQuiet ==
  ASSUME NEW f, NEW lo, NotFound(f, lo), todo' = Nothing
  PROVE  Quiet /\ answer' \in Reported
BY DEF NotFound, Quiet, Reported, vars

LEMMA AccessSteps ==
  ASSUME CallsInv,
         \/ \E f \in Files, s \in Sizes : \E lo \in 0 .. (s - 1), v \in Payload :
              Write(f, lo, s, v)
         \/ \E f \in Files : \E lo \in 0 .. (itable[f].size + 1) : Read(f, lo)
         \/ WriteRest
  PROVE  Up /\ answer' \in Reported /\ (Quiet \/ Stores)
<1>1. ASSUME NEW f \in Files, NEW s \in Sizes, NEW lo \in 0 .. (s - 1),
             NEW v \in Payload, Write(f, lo, s, v)
      PROVE  Up /\ answer' \in Reported /\ (Quiet \/ Stores)
  <2>1. Up /\ todo = Nothing /\ todo' = Nothing
    BY <1>1 DEF Write, Up, Answers
  <2>2. CASE NotFound(f, lo)
    BY <2>1, <2>2, NotFoundIsQuiet
  <2>3. CASE Store(f, lo, s, v) /\ Answers("size")
    <3>1. f \in FileNodes /\ lo \in Nat
      BY <2>1, FilesAreNodes, A1fsAssumption DEF CallsInv, Orderly, Steady, Tidy
    <3>2. Stores
      BY <1>1, <2>1, <2>3, <3>1 DEF Write, Stores
    <3> QED
      BY <2>1, <2>3, <3>2 DEF Answers, Reported
  <2> QED
    BY <1>1, <2>2, <2>3 DEF Write
<1>2. ASSUME NEW f \in Files, NEW lo \in 0 .. (itable[f].size + 1), Read(f, lo)
      PROVE  Up /\ answer' \in Reported /\ Quiet
  <2>1. Up /\ todo = Nothing /\ todo' = Nothing
    BY <1>2 DEF Read, ReadPastExtents, Up, Answers
  <2>2. CASE NotFound(f, lo)
    BY <2>1, <2>2, NotFoundIsQuiet
  <2>3. CASE (Answers("size") \/ Answers("0")) /\ UNCHANGED <<vars, used>>
    BY <2>1, <2>3 DEF Quiet, Answers, Reported, vars
  <2>4. CASE ReadPastExtents(f, lo)
    BY <2>1, <2>4 DEF ReadPastExtents, Quiet, Reported
  <2> QED
    BY <1>2, <2>2, <2>3, <2>4 DEF Read
<1>3. ASSUME WriteRest PROVE Up /\ answer' \in Reported /\ (Quiet \/ Stores)
  <2>1. /\ Up /\ todo' = Nothing
        /\ \/ Store(todo.ino, todo.lo, todo.hi, todo.fill) /\ answer' = "size"
           \/ NotFound(todo.ino, todo.lo)
        /\ todo.ino \in FileNodes /\ todo.lo \in Nat /\ todo.hi \in Sizes
        /\ todo.fill \in Payload /\ WithinBlock(todo.lo, todo.hi)
        /\ itable[todo.ino].size = todo.hi
    BY <1>3 DEF WriteRest, Up, CallsInv, Pending
  <2>2. CASE NotFound(todo.ino, todo.lo)
    BY <2>1, <2>2, NotFoundIsQuiet
  <2>3. CASE Store(todo.ino, todo.lo, todo.hi, todo.fill) /\ answer' = "size"
    <3>1. todo.hi <= itable[todo.ino].size
      <4>1. todo.hi \in Nat
        BY <2>1, A1fsAssumption
      <4> QED
        BY <2>1, <4>1
    <3>2. Stores
      BY <2>1, <2>3, <3>1 DEF Stores
    <3> QED
      BY <2>1, <2>3, <3>2 DEF Reported
  <2> QED
    BY <2>1, <2>2, <2>3
<1> QED
  BY <1>1, <1>2, <1>3

LEMMA CallSteps ==
  ASSUME CallsInv, CallsNext
  PROVE  /\ Up /\ answer' \in Reported
         /\ \/ Quiet \/ Makes \/ MakesNoName \/ Drops \/ GivesSize \/ Empties
            \/ Stores
<1>1. CASE \E d \in Dirs, n \in Names :
             \/ MakeNoInode(d, n)
             \/ \E i \in {Lookup(d, n)} \cap Ino :
                  Remove(d, n, i) \/ RemoveRefused(d, n, i)
  BY <1>1, RemoveSteps, ConstantTypes
<1>2. CASE \E d \in Dirs, n \in Names :
             \E i \in Ino \ inode_bits, mode \in {"dir", "file"} :
               \/ Make(d, n, i, mode) \/ MakeInNewBlock(d, n, i, mode)
               \/ MakeNoSpace(d, n, i, mode) \/ MakeFault(d, n, i, mode)
  BY <1>2, MakeSteps
<1>3. CASE \E f \in Files, s \in Sizes :
             \/ Truncate(f, s)
             \/ \E lo \in 0 .. (s - 1), v \in Payload : WriteGrows(f, lo, s, v)
  BY <1>3, TruncateSteps DEF CallsInv, CallsTypeOK
<1>4. CASE \/ \E f \in Files, s \in Sizes :
                \E lo \in 0 .. (s - 1), v \in Payload : Write(f, lo, s, v)
           \/ \E f \in Files : \E lo \in 0 .. (itable[f].size + 1) : Read(f, lo)
           \/ WriteRest
  BY <1>4, AccessSteps
<1> QED
  BY <1>1, <1>2, <1>3, <1>4 DEF CallsNext


-----------------------------------------------------------------------------
(* What each of them does.                                                 *)

\* A step that leaves the inodes in use, or their names, as they were.
SameNodes == inode_bits' = inode_bits /\ Nodes' = Nodes

LEMMA QuietDoes ==
  ASSUME Orderly, Quiet
  PROVE  /\ Orderly' /\ UNCHANGED NS!vars /\ SameNodes
         /\ itable' = itable /\ used' = used
<1>1. UNCHANGED <<bitmaps, counters, itable, data>>
  BY DEF Quiet
<1>2. UNCHANGED <<inode_bits, itable, data>> /\ used' = used
  BY DEF Quiet, bitmaps
<1>3. Orderly'
  <2>1. CASE fs' = fs /\ job' = job
    <3>1. UNCHANGED vars
      BY <1>1, <2>1 DEF vars
    <3> QED
      BY <3>1, OrderlyKept
  <2>2. CASE fs' = "undefined" /\ job' = job
    <3>1. TypeOK' /\ ~ Up'
      BY <1>1, <2>2, FaultTypes DEF Orderly, Up
    <3> QED
      BY <3>1 DEF Orderly, Inside, Exclusive, Tidy
  <2>3. CASE fs' = "spinning" /\ job' \in [ino : Ino, want : Nat]
    <3>1. TypeOK
      BY DEF Orderly
    <3>2. TypeOK' /\ ~ Up'
      BY <1>1, <2>3, <3>1, Types, TypesKept DEF bitmaps, counters, Up
    <3> QED
      BY <3>2 DEF Orderly, Inside, Exclusive, Tidy
  <2> QED
    BY <2>1, <2>2, <2>3 DEF Quiet
<1>4. UNCHANGED NS!vars
  BY <1>2, SameImageIsUnseen
<1>5. Nodes' = Nodes
  <2>1. NamesInUse' = NamesInUse
    BY <1>2 DEF NamesInUse, LiveDirs, InUse, Live, At
  <2> QED
    BY <2>1 DEF Nodes
<1> QED
  BY <1>2, <1>3, <1>4, <1>5 DEF SameNodes

\* A file that has a size has it, and what goes with it, from before.
SizesKept ==
  \A j \in Ino : itable'[j].mode = "file" /\ itable'[j].size >= 1 =>
    itable'[j] = itable[j] /\ used'[j] = used[j]

LEMMA MakesDoes ==
  ASSUME Orderly, Up, used \in [Ino -> Int], Makes
  PROVE  /\ Orderly' /\ NextOrderly /\ SizesKept
         /\ used' \in [Ino -> Int]
         /\ \E i \in Ino \ inode_bits :
              inode_bits' = inode_bits \cup {i} /\ Nodes' = Nodes \cup {i}
<1>1. Steady /\ Dirs \subseteq LiveDirs
  BY DirsLive DEF Steady, Orderly, Tidy
<1>2. PICK d \in Dirs, n \in Names, i \in Ino, mode \in {"dir", "file"} :
        /\ \/ AddEntry(d, n, i, mode)
           \/ itable[d].ext = <<>> /\ AddEntryInNewBlock(d, n, i, mode)
        /\ used' \in {used, [used EXCEPT ![d] = 0]}
  BY DEF Makes
<1>3. NextOrderly
  BY <1>2 DEF NextOrderly
<1>4. Orderly'
  BY <1>3, OrderlyKept
<1>5. PICK p : Enters(d, n, i, mode, p)
  BY <1>1, <1>2, AddEntryDoes, AddEntryInNewBlockDoes
<1>6. /\ i \in Ino \ inode_bits
      /\ inode_bits' = inode_bits \cup {i} /\ Nodes' = Nodes \cup {i}
  BY <1>1, <1>5, EntersNames DEF Enters, Joins
<1>7. d \in Ino /\ itable[d].mode = "dir"
  BY <1>1, LiveSpots DEF LiveDirs
<1>8. used' \in [Ino -> Int] /\ \A j \in Ino \ {d} : used'[j] = used[j]
  BY <1>2, <1>7
<1>9. SizesKept
  <2>1. itable'[i].size = 0 /\ itable'[d].mode = "dir"
    BY <1>5, <1>7 DEF Enters, Joins, Created
  <2>2. \A j \in Ino \ {d, i} : itable'[j] = itable[j]
    BY <1>5 DEF Enters, Joins
  <2> QED
    BY <1>8, <2>1, <2>2 DEF SizesKept
<1> QED
  BY <1>3, <1>4, <1>6, <1>8, <1>9

LEMMA MakesNoNameDoes ==
  ASSUME Orderly, Up, MakesNoName
  PROVE  /\ Orderly' /\ UNCHANGED NS!vars /\ SizesKept /\ used' = used
         /\ free_blocks_count = 0
         /\ \E i \in Ino \ inode_bits :
              inode_bits' = inode_bits \cup {i} /\ Nodes' = Nodes
<1>1. Steady /\ Dirs \subseteq LiveDirs /\ LiveDirs \subseteq Ino
  BY DirsLive, DirsAreInodes DEF Steady, Orderly, Tidy
<1>2. PICK d \in Dirs, n \in Names, i \in Ino, mode \in {"dir", "file"} :
        AddEntryNoSpace(d, n, i, mode)
  BY DEF MakesNoName
<1>3. used' = used
  BY DEF MakesNoName
<1>4. Unnamed(i, mode) /\ block_bits' = block_bits /\ Counted
  BY <1>1, <1>2, AddEntryNoSpaceDoes
<1>5. TypeOK' /\ Inside'
  <2>1. Next
    BY <1>2 DEF Next
  <2> QED
    BY <2>1, StepTypes, StepInside DEF Orderly
<1>6. Exclusive'
  BY <1>1, <1>2, AddEntryNoSpaceEffect, UntouchedExclusive DEF Steady
<1>7. Up'
  BY <1>2 DEF AddEntryNoSpace, Up
<1>8. Tidy'
  <2>1. 0 \in Nat /\ ShortBy(0) /\ VacantText /\ FreeEnough
    BY DEF Orderly, Tidy, Exact
  <2>2. WellNamed' /\ ShortBy(0)' /\ Contents' /\ VacantText'
    BY <1>1, <1>4, <1>5, <1>6, <1>7, <2>1, UnnamedDirectories, UnnamedContents
  <2>3. FreeEnough'
    BY <1>1, <1>4, <1>5, <1>7, <2>1, EnoughKept
  <2> QED
    BY <2>2, <2>3 DEF Tidy, Exact
<1>9. UNCHANGED NS!vars
  BY <1>1, <1>4, UnnamedIsUnseen
<1>10. NamesInUse' = NamesInUse
  BY <1>9 DEF NS!vars
<1>11. free_blocks_count = 0
  <2>1. GetAvailableBlock(block_bits, free_blocks_count, 1, -1)
    BY <1>2 DEF AddEntryNoSpace
  <2> QED
    BY <1>1, <2>1, ConstantTypes DEF GetAvailableBlock, Steady, TypeOK
<1>12. SizesKept
  <2>1. itable'[i].size = 0
    BY <1>4 DEF Unnamed, Created
  <2> QED
    BY <1>3, <1>4, <2>1 DEF SizesKept, Unnamed
<1> QED
  BY <1>3, <1>4, <1>5, <1>6, <1>8, <1>9, <1>10, <1>11, <1>12
  DEF Orderly, Unnamed, Nodes

LEMMA DropsDoes ==
  ASSUME Orderly, Up, Drops
  PROVE  /\ Orderly' /\ NextOrderly /\ SizesKept /\ used' = used
         /\ \E i \in Nodes :
              inode_bits' = inode_bits \ {i} /\ Nodes' = Nodes \ {i}
<1>1. Steady /\ ShortBy(0) /\ Dirs \subseteq LiveDirs
  BY DirsLive DEF Steady, Orderly, Tidy, Exact
<1>2. PICK d \in Dirs, n \in Names, i \in Ino : Rmdir(d, n, i) \/ Unlink(d, n, i)
  BY DEF Drops
<1>3. NextOrderly /\ Orderly'
  <2>1. NextOrderly
    BY <1>2 DEF NextOrderly
  <2> QED
    BY <2>1, OrderlyKept
<1>4. PICK p : Removes(d, i, p) /\ (i \in LiveDirs => Live(i) = {})
  BY <1>1, <1>2, DroppedIsEmpty
<1>5. i \in Nodes /\ inode_bits' = inode_bits \ {i} /\ Nodes' = Nodes \ {i}
  BY <1>1, <1>4, RemovesNames DEF Removes
<1>6. d \in Ino /\ itable[d] \in Inode /\ itable[d].mode = "dir"
  BY <1>1, LiveSpots, ExtentFacts DEF LiveDirs
<1>7. used' = used
  BY DEF Drops
<1>8. SizesKept
  <2>1. itable'[i].size = 0 /\ itable'[d].mode = "dir"
    BY <1>4, <1>6 DEF Removes, Inode
  <2>2. \A j \in Ino \ {d, i} : itable'[j] = itable[j]
    BY <1>4 DEF Removes
  <2> QED
    BY <1>7, <2>1, <2>2 DEF SizesKept
<1> QED
  BY <1>3, <1>5, <1>7, <1>8

LEMMA EmptiesDoes ==
  ASSUME Orderly, Up, Empties
  PROVE  Orderly' /\ NextOrderly /\ SizesKept /\ used' = used /\ SameNodes
<1>1. Steady
  BY DEF Steady, Orderly, Tidy
<1>2. PICK f \in Files : Shrink(f, 0) /\ used' = used
  BY DEF Empties
<1>3. NextOrderly /\ Orderly'
  <2>1. NextOrderly
    BY <1>2 DEF NextOrderly, Empties
  <2> QED
    BY <2>1, OrderlyKept
<1>4. Changes(f) /\ itable'[f].size = 0
  BY <1>1, <1>2, ShrinkDoes
<1>5. SameNodes
  BY <1>1, <1>4, ChangesNames DEF SameNodes, Changes
<1>6. SizesKept
  BY <1>2, <1>4 DEF SizesKept, Changes
<1> QED
  BY <1>2, <1>3, <1>5, <1>6

LEMMA UsedAfterType ==
  ASSUME NEW f, NEW s \in Nat
  PROVE  UsedAfter(f, s) \in Int
<1>1. BlockUnits \in Nat \ {0} /\ s % BlockUnits \in Int /\ BlocksFor(s) \in Int
  BY A1fsAssumption, BlocksForType, Quotient
<1> QED
  BY <1>1 DEF UsedAfter

LEMMA GivesSizeDoes ==
  ASSUME Orderly, Up, used \in [Ino -> Int], SizesKnown, GivesSize
  PROVE  /\ Orderly' /\ NextOrderly /\ SameNodes
         /\ used' \in [Ino -> Int] /\ SizesKnown' /\ Pending'
<1>1. Steady /\ Sizes \subseteq Nat
  BY A1fsAssumption DEF Steady, Orderly, Tidy
<1>2. PICK f \in Files, s \in Sizes :
        FirstSize(f, s) /\ (todo' = Nothing \/ Continues(f, s))
  BY DEF GivesSize
<1>3. NoFill \in Calls(s) /\ NoFill.fill = Blank
  BY DEF NoFill, Calls
<1>4. itable[f].ext = <<>> /\ Extend(f, s, NoFill) /\ s \in Nat
      /\ used' = [used EXCEPT ![f] = UsedAfter(f, s)]
  BY <1>1, <1>2 DEF FirstSize
<1>5. NextOrderly /\ Orderly'
  <2>1. NextOrderly
    BY <1>3, <1>4 DEF NextOrderly
  <2> QED
    BY <2>1, OrderlyKept
<1>6. f \in Ino /\ itable[f].mode = "file" /\ f \in FileNodes
  BY <1>1, FilesLive, FilesAreNodes
<1>7. Changes(f) /\ itable'[f].size = s
  <2>1. itable'[f].size = s
    <3>1. PICK r \in Nat : LET ext == <<[start |-> r, count |-> BlocksFor(s)]>>
            IN  itable' = Resized(itable, f, ext, s)
      BY <1>1, <1>4, <1>6, ExtendIs DEF Resized
    <3> QED
      BY <1>1, <1>6, <3>1, FileTable, Types DEF Steady
  <2> QED
    BY <1>1, <1>3, <1>4, <2>1, ExtendDoes
<1>8. SameNodes /\ FileNodes' = FileNodes
  BY <1>1, <1>6, <1>7, ChangesSeen DEF SameNodes, Changes
<1>9. /\ used' \in [Ino -> Int]
      /\ used'[f] = UsedAfter(f, s) /\ \A j \in Ino \ {f} : used'[j] = used[j]
  BY <1>4, <1>6, UsedAfterType
<1>10. SizesKnown'
  <2> SUFFICES ASSUME NEW j \in Ino,
                      itable'[j].mode = "file", itable'[j].size >= 1
               PROVE  used'[j] = UsedAfter(j, itable'[j].size)
    BY DEF SizesKnown, UsedAfter
  <2>1. CASE j = f
    BY <1>7, <1>9, <2>1
  <2>2. CASE j # f
    BY <1>7, <1>9, <2>2 DEF Changes, SizesKnown
  <2> QED
    BY <2>1, <2>2
<1>11. Units(f)' = [u \in 0 .. (s - 1) |-> Blank]
  BY <1>1, <1>3, <1>4, ExtendUnits
<1>12. Pending'
  <2> SUFFICES ASSUME todo' # Nothing PROVE Pending'
    BY DEF Pending, Nothing, Blank
  <2>1. PICK lo \in 0 .. (s - 1), v \in Payload :
          /\ WithinBlock(lo, s)
          /\ todo' = [ino |-> f, lo |-> lo, hi |-> s, fill |-> v]
    BY <1>2 DEF Continues
  <2>2. /\ todo'.ino = f /\ todo'.lo = lo /\ todo'.hi = s /\ todo'.fill = v
        /\ lo \in Nat
    BY <1>4, <2>1
  <2>3. Up'
    BY <1>4 DEF Extend, Up
  <2>4. Units(todo.ino)' = [u \in 0 .. (todo'.hi - 1) |-> Blank]
    BY <1>11, <2>2 DEF Units
  <2> QED
    BY <1>6, <1>7, <1>8, <2>1, <2>2, <2>3, <2>4 DEF Pending, WithinBlock, Blank
<1> QED
  BY <1>5, <1>8, <1>9, <1>10, <1>12


LEMMA StoresDoes ==
  ASSUME CallsInv, Up, Stores
  PROVE  /\ Orderly' /\ NS!Next /\ SameNodes
         /\ itable' = itable /\ used' = used
         /\ \A f \in Ino : todo # Nothing /\ f = todo.ino =>
              \A u \in 0 .. (todo.hi - 1) :
                Units(f)'[u] = IF u < todo.lo THEN Blank ELSE todo.fill
<1>1. Steady /\ Sizes \subseteq Nat
  BY A1fsAssumption DEF Steady, Orderly, Tidy, CallsInv
<1>2. PICK f \in FileNodes, lo \in Nat, hi \in Sizes, v \in Payload :
        /\ WithinBlock(lo, hi) /\ hi <= itable[f].size
        /\ Store(f, lo, hi, v)
        /\ \/ todo = Nothing
           \/ f = todo.ino /\ lo = todo.lo /\ hi = todo.hi /\ v = todo.fill
  BY DEF Stores
<1>3. hi \in Nat /\ lo < hi /\ itable[f].size \in Nat
  BY <1>1, <1>2, NodesInUse, InodeFields, Types DEF FileNodes, WithinBlock, Steady
<1>4. /\ Changes(f) /\ ChangesBlocks(f) /\ Counted /\ data' \in DataType
      /\ Units(f)' = [u \in 0 .. (itable[f].size - 1) |->
                        IF u \in lo .. (hi - 1) THEN v ELSE Units(f)[u]]
  BY <1>1, <1>2, <1>3, StoreDoes
<1>5. UNCHANGED <<bitmaps, counters, itable, fs, job, used>>
  BY <1>2 DEF Store
<1>6. TypeOK' /\ Up'
  BY <1>1, <1>4, <1>5, Types, TypesKept DEF Steady, Up, bitmaps, counters
<1>7. Inside' /\ Exclusive'
  BY <1>1, <1>5 DEF Steady, Inside, Exclusive, bitmaps, Up
<1>8. Tidy'
  <2>1. 0 \in Nat /\ ShortBy(0) /\ VacantText /\ FreeEnough
    BY DEF CallsInv, Orderly, Tidy, Exact
  <2>2. WellNamed' /\ ShortBy(0)' /\ Contents' /\ VacantText'
    BY <1>1, <1>4, <1>6, <1>7, <2>1, ChangesDirectories, ChangesContents
  <2>3. FreeEnough'
    BY <1>1, <1>4, <1>6, <1>7, <2>1, EnoughKept
  <2> QED
    BY <2>2, <2>3 DEF Tidy, Exact
<1>9. SameNodes
  BY <1>1, <1>4, ChangesNames DEF SameNodes, Changes
<1>10. DOMAIN Units(f) = 0 .. (itable[f].size - 1)
  BY DEF Units
<1>11. NS!Next
  <2>1. Units(f)' = [u \in DOMAIN Units(f) \cup 0 .. (hi - 1) |->
          IF u \in lo .. (hi - 1) THEN v
          ELSE IF u \in DOMAIN Units(f) THEN Units(f)[u] ELSE Blank]
    <3>1. DOMAIN Units(f) \cup 0 .. (hi - 1) = 0 .. (itable[f].size - 1)
      BY <1>2, <1>3, <1>10
    <3> QED
      BY <1>4, <1>10, <3>1
  <2>2. NS!Write(f, lo, hi, v)
    <3>1. [j \in FileNodes' |-> Units(j)'] =
            [[j \in FileNodes |-> Units(j)] EXCEPT ![f] = Units(f)']
      BY <1>1, <1>4, ChangesSeen
    <3> QED
      BY <2>1, <3>1 DEF NS!Write, FileNodes
  <2>3. lo \in 0 .. hi
    BY <1>3
  <2> QED
    BY <1>1, <1>2, <1>4, <2>2, <2>3, ChangesSeen DEF NS!Next, FileNodes
<1>12. ASSUME todo # Nothing, NEW u \in 0 .. (todo.hi - 1)
       PROVE  Units(f)'[u] = IF u < todo.lo THEN Blank ELSE todo.fill
  <2>1. f = todo.ino /\ lo = todo.lo /\ hi = todo.hi /\ v = todo.fill
    BY <1>2, <1>12
  <2>2. itable[f].size = hi /\ Units(f) = [w \in 0 .. (hi - 1) |-> Blank]
    BY <1>12, <2>1 DEF CallsInv, Pending
  <2>3. u \in 0 .. (hi - 1) /\ Units(f)[u] = Blank
    BY <1>12, <2>1, <2>2
  <2>4. Units(f)'[u] = IF u \in lo .. (hi - 1) THEN v ELSE Blank
    BY <1>4, <2>2, <2>3
  <2>5. u \in lo .. (hi - 1) <=> ~ (u < lo)
    BY <1>3, <2>3
  <2> QED
    BY <2>1, <2>4, <2>5
<1>13. \A g \in Ino : todo # Nothing /\ g = todo.ino =>
         \A u \in 0 .. (todo.hi - 1) :
           Units(g)'[u] = IF u < todo.lo THEN Blank ELSE todo.fill
  BY <1>2, <1>12
<1> QED
  BY <1>5, <1>6, <1>7, <1>8, <1>9, <1>11, <1>13 DEF Orderly

-----------------------------------------------------------------------------
(* The invariant is inductive.                                             *)

\* Inodes are lost only one at a time, with no block free.
LosesOne ==
  \/ Lost' = Lost
  \/ /\ free_blocks_count = 0
     /\ \E i \in Ino \ inode_bits : Lost' = Lost \cup {i}

Lands ==
  \A f \in Ino :
    todo # Nothing /\ f = todo.ino /\ answer' = "size" =>
      \A u \in 0 .. (todo.hi - 1) :
        Units(f)'[u] = IF u < todo.lo THEN Blank ELSE todo.fill

\* With the sizes kept, or unknown to a caller, and no write half done.
LEMMA InvKept ==
  ASSUME CallsInv, Orderly', SizesKept, used' \in [Ino -> Int],
         answer' \in Reported, todo' = Nothing
  PROVE  CallsInv'
<1>1. CallsTypeOK'
  BY DEF CallsTypeOK, Orderly, Reported, Nothing, Blank
<1>2. SizesKnown'
  BY DEF SizesKnown, SizesKept, CallsInv, UsedAfter
<1>3. Pending'
  BY DEF Pending, Nothing, Blank
<1> QED
  BY <1>1, <1>2, <1>3 DEF CallsInv

LEMMA CallsStep ==
  ASSUME CallsInv, CallsNext
  PROVE  CallsInv' /\ [NS!Next]_(NS!vars) /\ LosesOne /\ Lands
<1>1. /\ Up /\ answer' \in Reported /\ Orderly /\ used \in [Ino -> Int]
      /\ SizesKnown /\ Steady
  BY CallSteps DEF CallsInv, CallsTypeOK, Orderly, Steady, Tidy
<1>2. Nodes \subseteq inode_bits
  BY <1>1, NodesInUse
<1>3. ASSUME SameNodes PROVE LosesOne
  BY <1>3 DEF SameNodes, LosesOne, Lost
<1>4. ASSUME todo = Nothing PROVE Lands
  BY <1>4 DEF Lands
<1>5. ASSUME itable' = itable, used' = used PROVE SizesKept
  BY <1>5 DEF SizesKept
<1>6. CASE Quiet
  <2>1. todo' = Nothing /\ Lands
    BY <1>6 DEF Quiet, Lands
  <2> QED
    BY <1>1, <1>3, <1>5, <1>6, <2>1, QuietDoes, InvKept
<1>7. CASE Makes
  <2>1. Between
    BY <1>7 DEF Makes
  <2>2. LosesOne
    <3>1. Lost' = Lost
      BY <1>1, <1>2, <1>7, MakesDoes DEF Lost
    <3> QED
      BY <3>1 DEF LosesOne
  <2>3. [NS!Next]_(NS!vars)
    BY <1>1, <1>7, MakesDoes, OrderlyStep
  <2> QED
    BY <1>1, <1>4, <1>7, <2>1, <2>2, <2>3, MakesDoes, InvKept DEF Between
<1>8. CASE MakesNoName
  <2>1. Between
    BY <1>8 DEF MakesNoName
  <2>2. LosesOne
    BY <1>1, <1>2, <1>8, MakesNoNameDoes DEF LosesOne, Lost
  <2> QED
    BY <1>1, <1>4, <1>8, <2>1, <2>2, MakesNoNameDoes, InvKept DEF Between
<1>9. CASE Drops
  <2>1. Between
    BY <1>9 DEF Drops
  <2>2. LosesOne
    <3>1. Lost' = Lost
      BY <1>1, <1>2, <1>9, DropsDoes DEF Lost
    <3> QED
      BY <3>1 DEF LosesOne
  <2>3. [NS!Next]_(NS!vars)
    BY <1>1, <1>9, DropsDoes, OrderlyStep
  <2> QED
    BY <1>1, <1>4, <1>9, <2>1, <2>2, <2>3, DropsDoes, InvKept DEF Between
<1>10. CASE GivesSize
  <2>1. todo = Nothing
    BY <1>10 DEF GivesSize
  <2>2. [NS!Next]_(NS!vars)
    BY <1>1, <1>10, GivesSizeDoes, OrderlyStep
  <2>3. Orderly' /\ used' \in [Ino -> Int] /\ SizesKnown' /\ Pending' /\ SameNodes
    BY <1>1, <1>10, GivesSizeDoes
  <2>4. CallsTypeOK'
    <3>1. TypeOK'
      BY <2>3 DEF Orderly
    <3>2. ASSUME todo' # Nothing PROVE todo'.ino \in inode_bits'
      <4>1. todo'.ino \in Nodes'
        BY <2>3, <3>2 DEF Pending, FileNodes, Nothing, Blank
      <4> QED
        BY <1>2, <2>3, <4>1 DEF SameNodes
    <3> QED
      BY <1>1, <2>3, <3>1, <3>2 DEF CallsTypeOK, Reported, Nothing, Blank
  <2> QED
    BY <1>3, <1>4, <2>1, <2>2, <2>3, <2>4 DEF CallsInv
<1>11. CASE Empties
  <2>1. Between
    BY <1>11 DEF Empties
  <2>2. [NS!Next]_(NS!vars)
    BY <1>1, <1>11, EmptiesDoes, OrderlyStep
  <2> QED
    BY <1>1, <1>3, <1>4, <1>11, <2>1, <2>2, EmptiesDoes, InvKept DEF Between
<1>12. CASE Stores
  <2>1. todo' = Nothing
    BY <1>12 DEF Stores
  <2>2. Lands
    BY <1>1, <1>12, StoresDoes DEF Lands
  <2> QED
    BY <1>1, <1>3, <1>5, <1>12, <2>1, <2>2, StoresDoes, InvKept
<1> QED
  BY <1>6, <1>7, <1>8, <1>9, <1>10, <1>11, <1>12, CallSteps

LEMMA CallsStutter ==
  ASSUME CallsInv, UNCHANGED callvars
  PROVE  CallsInv' /\ UNCHANGED NS!vars
<1>1. UNCHANGED <<vars, used, answer, todo>>
  BY DEF callvars
<1>2. Orderly' /\ UNCHANGED <<inode_bits, itable, data, fs>>
  BY <1>1, OrderlyKept DEF CallsInv, vars, bitmaps
<1>3. UNCHANGED NS!vars
  BY <1>2, SameImageIsUnseen
<1>4. Nodes' = Nodes
  BY <1>2 DEF Nodes, NamesInUse, LiveDirs, InUse, Live, At
<1>5. FileNodes' = FileNodes
  BY <1>2, <1>4 DEF FileNodes
<1>6. SizesKnown'
  BY <1>1, <1>2 DEF SizesKnown, CallsInv, UsedAfter
<1>7. CallsTypeOK'
  BY <1>1, <1>2 DEF CallsTypeOK, CallsInv, Orderly, Nothing, Blank
<1>8. Pending'
  BY <1>1, <1>2, <1>5
  DEF Pending, CallsInv, Nothing, Blank, Up, WithinBlock, Units
<1> QED
  BY <1>2, <1>3, <1>6, <1>7, <1>8 DEF CallsInv

LEMMA CallsInitially ==
  ASSUME CallsInit
  PROVE  CallsInv
<1>1. Init /\ Orderly
  BY InitTypes, InitInside, InitExclusive, InitTidy DEF CallsInit, Orderly
<1>2. CallsTypeOK /\ Pending
  BY <1>1 DEF CallsInit, CallsTypeOK, Orderly, Pending
<1>3. SizesKnown
  <2>1. \A i \in Ino : itable[i].mode \in {"dir", "none"}
    BY <1>1 DEF Init, Created
  <2> QED
    BY <2>1 DEF SizesKnown
<1> QED
  BY <1>1, <1>2, <1>3 DEF CallsInv

LEMMA CallsInvariant == CallsSpec => []CallsInv
<1>1. CallsInit => CallsInv
  BY CallsInitially
<1>2. CallsInv /\ [CallsNext]_callvars => CallsInv'
  BY CallsStep, CallsStutter
<1> QED
  BY <1>1, <1>2, PTL DEF CallsSpec

-----------------------------------------------------------------------------
(* The properties.                                                         *)

\* The calls keep the types: an inode's extent is looked for by an integer, and
\* a write that goes on does so in an inode that is in use.
THEOREM CallsTypeCorrect == CallsSpec => []CallsTypeOK
<1>1. CallsInv => CallsTypeOK
  BY DEF CallsInv
<1> QED
  BY <1>1, CallsInvariant, PTL

\* In a file that fills no block every offset is found, whatever the inode and
\* its first extent were used for before (a1fs_helper.c:140, 520, 566, 631).
THEOREM OffsetsFound == CallsSpec => []SmallOffsetsFound
<1>1. ASSUME CallsInv PROVE SmallOffsetsFound
  <2> SUFFICES ASSUME Up, NEW f \in Files, itable[f].size < BlockUnits,
                      NEW lo \in 0 .. (itable[f].size - 1)
               PROVE  Found(f, lo)
    BY DEF SmallOffsetsFound
  <2> DEFINE s == itable[f].size
  <2>1. Steady
    BY <1>1 DEF CallsInv, Orderly, Steady, Tidy
  <2>2. f \in Ino /\ itable[f].mode = "file" /\ s \in Nat /\ s >= 1
    BY <2>1, FilesLive, InodeFields, Types DEF Steady
  <2>3. used[f] = UsedAfter(f, s)
    BY <1>1, <2>2 DEF CallsInv, SizesKnown
  <2>4. BlockUnits \in Nat \ {0} /\ s % BlockUnits = s /\ s \div BlockUnits = 0
    BY <2>2, A1fsAssumption
  <2>5. UsedAfter(f, s) = 2 * s
    BY <2>2, <2>4 DEF UsedAfter, BlocksFor
  <2> HIDE DEF s
  <2>6. lo <= 2 * s
    BY <2>2 DEF s
  <2> QED
    BY <2>3, <2>5, <2>6 DEF Found
<1> QED
  BY <1>1, CallsInvariant, PTL

\* An inode is lost, which is to say in use without a name, only when mkdir or
\* create finds that no block is free (a1fs.c:330, 497): one with each of these
\* calls, and none comes back.
THEOREM InodesLostOnlyWhenFull == CallsSpec => LostOnlyWhenFull
<1>1. CallsInv /\ CallsNext => LosesOne
  BY CallsStep
<1> QED
  BY <1>1, CallsInvariant, PTL DEF CallsSpec, LostOnlyWhenFull, LosesOne

\* A write that says it wrote has done so, on an image of any size: its units
\* hold what was written and those before them, never written, are zero, not
\* what the blocks held before (a1fs.c:937, 981-1030).
THEOREM WritesAlwaysLand == CallsSpec => WritesLand
<1>1. CallsInv /\ CallsNext => Lands
  BY CallsStep
<1> QED
  BY <1>1, CallsInvariant, PTL DEF CallsSpec, WritesLand, Lands

\* With the calls that fail and with writes at every offset, the image still
\* implements the name space.
THEOREM CallsAreANamespace == CallsSpec => ImplementsNamespace
<1>1. CallsInit => NS!Init
  BY InitIsInit DEF CallsInit
<1>2. CallsInv /\ [CallsNext]_callvars => [NS!Next]_(NS!vars)
  BY CallsStep, CallsStutter
<1> QED
  BY <1>1, <1>2, CallsInvariant, PTL DEF CallsSpec, ImplementsNamespace, NS!Spec
=============================================================================

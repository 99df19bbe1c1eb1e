---------------------------- MODULE CrashProofs -----------------------------
(***************************************************************************)
(* What a kill between two stores can do, for every image and every number *)
(* of kills.                                                               *)
(***************************************************************************)
EXTENDS DirectoryProofs, Crash

-----------------------------------------------------------------------------
(* The images that a call goes through.                                    *)

\* A set of numbers that holds 0, and with each number the next one.
LEMMA Along ==
  ASSUME NEW n \in Nat, NEW G, 0 \in G,
         \A k \in 1 .. n : k - 1 \in G => k \in G
  PROVE  0 .. n \subseteq G
<1> DEFINE S == (0 .. n) \ G
<1> SUFFICES ASSUME S # {}
             PROVE  FALSE
  OBVIOUS
<1>1. S \subseteq Nat
  OBVIOUS
<1> HIDE DEF S
<1>2. PICK x \in S : \A y \in S : <<y, x>> \notin OpToRel(<, Nat)
  BY <1>1, WFMin, NatLessThanWellFounded, Zenon
<1>3. \A y \in S : ~ (y < x)
  BY <1>1, <1>2, Zenon DEF OpToRel
<1>4. x \in 1 .. n /\ x \notin G
  BY DEF S
<1>5. x - 1 \notin S
  BY <1>1, <1>3, <1>4
<1> QED BY <1>4, <1>5 DEF S

\* The recursion that defines Images has a solution.
LEMMA ImagesUnfold ==
  ASSUME NEW img, NEW s, Len(s) \in Nat
  PROVE  /\ Images(img, s)[0] = img
         /\ \A k \in 1 .. Len(s) : Images(img, s)[k] = Put(Images(img, s)[k - 1], s[k])
<1> DEFINE n == Len(s)
           Rec(h, k) ==
             h = [j \in 0 .. k |-> IF j = 0 THEN img ELSE Put(h[j - 1], s[j])]
           G == {k \in 0 .. n : \E h : Rec(h, k)}
<1>1. 0 \in G
  <2> DEFINE h == [j \in 0 .. 0 |-> img]
  <2>1. Rec(h, 0)
    OBVIOUS
  <2> HIDE DEF h, Rec
  <2> QED BY <2>1
<1>2. ASSUME NEW k \in 1 .. n, k - 1 \in G
      PROVE  k \in G
  <2>1. PICK h : Rec(h, k - 1)
    BY <1>2
  <2> DEFINE g == [j \in 0 .. k |-> IF j = k THEN Put(h[k - 1], s[k]) ELSE h[j]]
  <2>2. \A j \in 0 .. (k - 1) :
          h[j] = IF j = 0 THEN img ELSE Put(h[j - 1], s[j])
    BY <2>1
  <2>3. \A j \in 0 .. k : g[j] = IF j = 0 THEN img ELSE Put(g[j - 1], s[j])
    BY <2>2
  <2>4. Rec(g, k)
    <3> DEFINE r == [j \in 0 .. k |-> IF j = 0 THEN img ELSE Put(g[j - 1], s[j])]
    <3>1. \A j \in 0 .. k : g[j] = r[j]
      BY <2>3
    <3>2. g = r
      BY <3>1
    <3> QED BY <3>2
  <2> HIDE DEF g, Rec
  <2> QED BY <2>4
<1>3. PICK h : Rec(h, n)
  <2> HIDE DEF G
  <2>1. 0 .. n \subseteq G
    BY <1>1, <1>2, Along
  <2> QED BY <2>1 DEF G
<1>4. Images(img, s) = [j \in 0 .. n |-> IF j = 0 THEN img ELSE Put(Images(img, s)[j - 1], s[j])]
  BY <1>3 DEF Images
<1> QED BY <1>4


-----------------------------------------------------------------------------
(* Stores and images of the right types.                                   *)

BitStores == {<< <<"inode_bits">>, v >> : v \in SUBSET Ino}
MarkStores ==
  {<< <<"block_bits">>, v >> : v \in {w \in SUBSET Nat : IsFiniteSet(w)}}
CountStores == {<< <<"free_inodes_count">>, v >> : v \in Int}
FreeStores == {<< <<"free_blocks_count">>, v >> : v \in Nat}
ModeStores ==
  {<< <<"itable", i, "mode">>, v >> : i \in Ino, v \in {"none", "dir", "file"}}
ExtStores ==
  {<< <<"itable", i, "ext">>, v >> :
     i \in Ino, v \in {e \in Seq(Extent) : Len(e) <= 1}}
SizeStores == {<< <<"itable", i, "size">>, v >> : i \in Ino, v \in Nat}
EntriesStores == {<< <<"itable", i, "num_entries">>, v >> : i \in Ino, v \in Int}
BlockStores == {<< <<"data", b>>, v >> : b \in Region, v \in [Slots -> Entry]}
SlotStores ==
  {<< <<"data", b, k>>, v >> : b \in Region, k \in Slots, v \in Entry}

TableStores == ModeStores \cup ExtStores \cup SizeStores \cup EntriesStores
DataStores == BlockStores \cup SlotStores
Store == BitStores \cup MarkStores \cup CountStores \cup FreeStores
           \cup TableStores \cup DataStores

\* No inode comes to have a second extent.
ShortTable == {t \in TableType : \A i \in Ino : Len(t[i].ext) <= 1}

ImageType ==
  [inode_bits : SUBSET Ino, block_bits : {w \in SUBSET Nat : IsFiniteSet(w)},
   free_inodes_count : Int, free_blocks_count : Nat,
   itable : ShortTable, data : DataType]

\* What a store puts into an image.
LEMMA PutTyped ==
  ASSUME NEW img \in ImageType, NEW st \in Store
  PROVE  /\ Put(img, st) \in ImageType
         /\ st \notin BitStores => Put(img, st).inode_bits = img.inode_bits
         /\ st \notin MarkStores => Put(img, st).block_bits = img.block_bits
         /\ st \notin CountStores =>
              Put(img, st).free_inodes_count = img.free_inodes_count
         /\ st \notin FreeStores =>
              Put(img, st).free_blocks_count = img.free_blocks_count
         /\ st \notin TableStores => Put(img, st).itable = img.itable
         /\ st \notin DataStores => Put(img, st).data = img.data
<1>1. CASE st \in BitStores \cup MarkStores \cup CountStores \cup FreeStores
  <2>1. CASE st \in BitStores
    <3>1. PICK v \in SUBSET Ino : st = << <<"inode_bits">>, v >>
      BY <2>1 DEF BitStores
    <3>2. Put(img, st) = [img EXCEPT !.inode_bits = v]
      BY <3>1, SMT DEF Put
    <3> QED BY <2>1, <3>2 DEF ImageType
  <2>2. CASE st \in MarkStores
    <3>1. PICK v \in {w \in SUBSET Nat : IsFiniteSet(w)} :
            st = << <<"block_bits">>, v >>
      BY <2>2 DEF MarkStores
    <3>2. Put(img, st) = [img EXCEPT !.block_bits = v]
      BY <3>1, SMT DEF Put
    <3> QED BY <2>2, <3>2 DEF ImageType
  <2>3. CASE st \in CountStores
    <3>1. PICK v \in Int : st = << <<"free_inodes_count">>, v >>
      BY <2>3 DEF CountStores
    <3>2. Put(img, st) = [img EXCEPT !.free_inodes_count = v]
      BY <3>1, SMT DEF Put
    <3> QED BY <2>3, <3>2 DEF ImageType
  <2>4. CASE st \in FreeStores
    <3>1. PICK v \in Nat : st = << <<"free_blocks_count">>, v >>
      BY <2>4 DEF FreeStores
    <3>2. Put(img, st) = [img EXCEPT !.free_blocks_count = v]
      BY <3>1, SMT DEF Put
    <3> QED BY <2>4, <3>2 DEF ImageType
  <2> QED BY <1>1, <2>1, <2>2, <2>3, <2>4
<1>2. CASE st \in TableStores
  <2>1. PICK i, f, v :
          /\ i \in Ino
          /\ st = << <<"itable", i, f>>, v >>
          /\ \/ f = "mode" /\ v \in {"none", "dir", "file"}
             \/ f = "ext" /\ v \in Seq(Extent) /\ Len(v) <= 1
             \/ f = "size" /\ v \in Nat
             \/ f = "num_entries" /\ v \in Int
    BY <1>2 DEF TableStores, ModeStores, ExtStores, SizeStores, EntriesStores
  <2>2. img.itable \in TableType /\ img.itable[i] \in Inode
    BY <2>1 DEF ImageType, TableType, ShortTable
  <2>3. [img.itable[i] EXCEPT ![f] = v] \in Inode
    BY <2>1, <2>2 DEF Inode
  <2>4. [img.itable EXCEPT ![i][f] = v] \in ShortTable
    <3> DEFINE new == [img.itable EXCEPT ![i][f] = v]
    <3>1. new \in TableType
      BY <2>2, <2>3 DEF TableType
    <3>2. Len([img.itable[i] EXCEPT ![f] = v].ext) <= 1
      <4>1. CASE f = "ext"
        BY <2>1, <2>2, <4>1 DEF Inode
      <4>2. CASE f # "ext"
        <5>1. [img.itable[i] EXCEPT ![f] = v].ext = img.itable[i].ext
          BY <2>1, <2>2, <4>2 DEF Inode
        <5> QED BY <2>1, <5>1 DEF ImageType, ShortTable
      <4> QED BY <4>1, <4>2
    <3>3. \A j \in Ino : Len(new[j].ext) <= 1
      BY <2>2, <3>2 DEF ImageType, ShortTable, TableType
    <3> QED BY <3>1, <3>3 DEF ShortTable
  <2>5. Put(img, st) = [img EXCEPT !.itable[i][f] = v]
    BY <2>1, SMT DEF Put
  <2>6. Put(img, st) = [img EXCEPT !.itable = [img.itable EXCEPT ![i][f] = v]]
    BY <2>5 DEF ImageType
  <2> QED BY <1>2, <2>4, <2>6 DEF ImageType
<1>3. CASE st \in DataStores
  <2>0. img.data \in DataType
    BY DEF ImageType
  <2>1. CASE st \in BlockStores
    <3>1. PICK b \in Region, v \in [Slots -> Entry] : st = << <<"data", b>>, v >>
      BY <2>1 DEF BlockStores
    <3>2. Put(img, st) = [img EXCEPT !.data[b] = v]
      BY <3>1, SMT DEF Put
    <3>3. Put(img, st) = [img EXCEPT !.data = [img.data EXCEPT ![b] = v]]
      BY <3>2 DEF ImageType
    <3>4. [img.data EXCEPT ![b] = v] \in DataType
      BY <2>0, <3>1 DEF DataType
    <3> QED BY <2>1, <3>3, <3>4 DEF ImageType, DataStores
  <2>2. CASE st \in SlotStores
    <3>1. PICK b \in Region, k \in Slots, v \in Entry :
            st = << <<"data", b, k>>, v >>
      BY <2>2 DEF SlotStores
    <3>2. Put(img, st) = [img EXCEPT !.data[b][k] = v]
      BY <3>1, SMT DEF Put
    <3>3. Put(img, st) = [img EXCEPT !.data = [img.data EXCEPT ![b][k] = v]]
      BY <3>2 DEF ImageType
    <3>4. [img.data EXCEPT ![b][k] = v] \in DataType
      BY <2>0, PutType
    <3> QED BY <2>2, <3>3, <3>4 DEF ImageType, DataStores
  <2> QED BY <1>3, <2>1, <2>2 DEF DataStores
<1> QED BY <1>1, <1>2, <1>3 DEF Store


-----------------------------------------------------------------------------
(* Lists of stores.                                                        *)

Final(img, s) == Images(img, s)[Len(s)]

\* The images that these stores go through, the first and the last included.
Passed(img, s) == {Images(img, s)[k] : k \in 0 .. Len(s)}

LEMMA StoreAt ==
  ASSUME NEW img, NEW s, Len(s) \in Nat, NEW k \in 1 .. Len(s)
  PROVE  Images(img, s)[k] = Put(Images(img, s)[k - 1], s[k])
BY ImagesUnfold

LEMMA ImagesTyped ==
  ASSUME NEW img \in ImageType, NEW s \in Seq(Store)
  PROVE  \A k \in 0 .. Len(s) : Images(img, s)[k] \in ImageType
<1> DEFINE G == {k \in 0 .. Len(s) : Images(img, s)[k] \in ImageType}
<1>1. Len(s) \in Nat /\ \A k \in 1 .. Len(s) : s[k] \in Store
  OBVIOUS
<1>2. 0 \in G
  BY <1>1, ImagesUnfold
<1>3. ASSUME NEW k \in 1 .. Len(s), k - 1 \in G
      PROVE  k \in G
  <2>1. Images(img, s)[k] = Put(Images(img, s)[k - 1], s[k])
    BY <1>1, StoreAt
  <2>2. Images(img, s)[k - 1] \in ImageType /\ s[k] \in Store
    BY <1>1, <1>3
  <2> HIDE DEF G
  <2>3. Images(img, s)[k] \in ImageType
    BY <2>1, <2>2, PutTyped
  <2> QED BY <1>1, <2>3 DEF G
<1> HIDE DEF G
<1>4. 0 .. Len(s) \subseteq G
  BY <1>1, <1>2, <1>3, Along
<1> QED BY <1>4 DEF G

LEMMA PassedTyped ==
  ASSUME NEW img \in ImageType, NEW s \in Seq(Store)
  PROVE  Passed(img, s) \subseteq ImageType /\ Final(img, s) \in Passed(img, s)
<1>1. Len(s) \in 0 .. Len(s)
  OBVIOUS
<1> QED BY <1>1, ImagesTyped DEF Passed, Final

LEMMA ImagesJoin ==
  ASSUME NEW img, NEW s \in Seq(Store), NEW t \in Seq(Store)
  PROVE  /\ \A k \in 0 .. Len(s) : Images(img, s \o t)[k] = Images(img, s)[k]
         /\ \A k \in 0 .. Len(t) :
              Images(img, s \o t)[Len(s) + k] = Images(Final(img, s), t)[k]
<1> DEFINE G == {k \in 0 .. Len(s) : Images(img, s \o t)[k] = Images(img, s)[k]}
           H == {k \in 0 .. Len(t) :
                   Images(img, s \o t)[Len(s) + k] = Images(Final(img, s), t)[k]}
<1>1. /\ Len(s) \in Nat /\ Len(t) \in Nat
      /\ s \o t \in Seq(Store) /\ Len(s \o t) = Len(s) + Len(t)
      /\ Len(s \o t) \in Nat
      /\ \A k \in 1 .. Len(s) : (s \o t)[k] = s[k]
      /\ \A k \in 1 .. Len(t) : (s \o t)[Len(s) + k] = t[k]
  BY ConcatProperties
<1>2. 0 \in G
  BY <1>1, ImagesUnfold
<1>3. ASSUME NEW k \in 1 .. Len(s), k - 1 \in G
      PROVE  k \in G
  <2>1. Images(img, s \o t)[k] = Put(Images(img, s \o t)[k - 1], s[k])
    <3>1. k \in 1 .. Len(s \o t) /\ (s \o t)[k] = s[k]
      BY <1>1
    <3>2. Images(img, s \o t)[k] = Put(Images(img, s \o t)[k - 1], (s \o t)[k])
      BY <1>1, <3>1, StoreAt
    <3> QED BY <3>1, <3>2
  <2>2. Images(img, s)[k] = Put(Images(img, s)[k - 1], s[k])
    BY <1>1, StoreAt
  <2>3. Images(img, s \o t)[k - 1] = Images(img, s)[k - 1]
    BY <1>3
  <2> QED BY <2>1, <2>2, <2>3
<1> HIDE DEF G
<1>4. 0 .. Len(s) \subseteq G
  BY <1>1, <1>2, <1>3, Along
<1>5. \A k \in 0 .. Len(s) : Images(img, s \o t)[k] = Images(img, s)[k]
  BY <1>4 DEF G
<1>6. 0 \in H
  <2>1. Images(img, s \o t)[Len(s) + 0] = Final(img, s)
    BY <1>1, <1>5 DEF Final
  <2>2. Images(Final(img, s), t)[0] = Final(img, s)
    BY <1>1, ImagesUnfold
  <2> QED BY <1>1, <2>1, <2>2
<1>7. ASSUME NEW k \in 1 .. Len(t), k - 1 \in H
      PROVE  k \in H
  <2>1. Images(img, s \o t)[Len(s) + k]
          = Put(Images(img, s \o t)[Len(s) + k - 1], (s \o t)[Len(s) + k])
    <3>1. Len(s) + k \in 1 .. Len(s \o t)
      BY <1>1
    <3> DEFINE j == Len(s) + k
    <3> HIDE DEF j
    <3>2. j \in 1 .. Len(s \o t) /\ Len(s \o t) \in Nat
      BY <1>1, <3>1 DEF j
    <3>3. Images(img, s \o t)[j] = Put(Images(img, s \o t)[j - 1], (s \o t)[j])
      BY <3>2, StoreAt
    <3> QED BY <3>3 DEF j
  <2>2. Images(Final(img, s), t)[k] = Put(Images(Final(img, s), t)[k - 1], t[k])
    BY <1>1, StoreAt
  <2>3. Len(s) + k - 1 = Len(s) + (k - 1)
    BY <1>1
  <2>4. Images(img, s \o t)[Len(s) + (k - 1)] = Images(Final(img, s), t)[k - 1]
    BY <1>7
  <2>5. (s \o t)[Len(s) + k] = t[k]
    BY <1>1
  <2>6. Images(img, s \o t)[Len(s) + k] = Images(Final(img, s), t)[k]
    BY <2>1, <2>2, <2>3, <2>4, <2>5
  <2> QED BY <2>6
<1> HIDE DEF H
<1>8. 0 .. Len(t) \subseteq H
  BY <1>1, <1>6, <1>7, Along
<1> QED BY <1>5, <1>8 DEF H

LEMMA Joined ==
  ASSUME NEW img, NEW s \in Seq(Store), NEW t \in Seq(Store)
  PROVE  /\ Final(img, s \o t) = Final(Final(img, s), t)
         /\ Passed(img, s \o t) = Passed(img, s) \cup Passed(Final(img, s), t)
<1>0. /\ \A k \in 0 .. Len(s) : Images(img, s \o t)[k] = Images(img, s)[k]
      /\ \A k \in 0 .. Len(t) :
           Images(img, s \o t)[Len(s) + k] = Images(Final(img, s), t)[k]
  BY ImagesJoin
<1>1. /\ Len(s) \in Nat /\ Len(t) \in Nat /\ Len(s \o t) = Len(s) + Len(t)
  BY ConcatProperties
<1>2. Final(img, s \o t) = Final(Final(img, s), t)
  BY <1>1, ImagesJoin DEF Final
<1>3. ASSUME NEW g \in Passed(img, s \o t)
      PROVE  g \in Passed(img, s) \cup Passed(Final(img, s), t)
  <2>1. PICK k \in 0 .. (Len(s) + Len(t)) : g = Images(img, s \o t)[k]
    BY <1>1 DEF Passed
  <2>2. CASE k <= Len(s)
    <3>1. k \in 0 .. Len(s)
      BY <1>1, <2>2
    <3>2. g = Images(img, s)[k]
      BY <2>1, <3>1, ImagesJoin
    <3> QED BY <3>1, <3>2 DEF Passed
  <2>3. CASE k > Len(s)
    <3>1. k - Len(s) \in 0 .. Len(t) /\ k = Len(s) + (k - Len(s))
      BY <1>1, <2>3
    <3> DEFINE j == k - Len(s)
    <3> HIDE DEF j
    <3>2. j \in 0 .. Len(t) /\ k = Len(s) + j
      BY <3>1 DEF j
    <3>3. \A u \in 0 .. Len(t) :
            Images(img, s \o t)[Len(s) + u] = Images(Final(img, s), t)[u]
      BY <1>0
    <3>4. g = Images(Final(img, s), t)[j]
      BY <2>1, <3>2, <3>3
    <3> QED BY <3>2, <3>4 DEF Passed
  <2> QED BY <1>1, <2>2, <2>3
<1>4. ASSUME NEW g \in Passed(img, s)
      PROVE  g \in Passed(img, s \o t)
  <2>1. PICK k \in 0 .. Len(s) : g = Images(img, s)[k]
    BY DEF Passed
  <2>2. k \in 0 .. Len(s \o t) /\ g = Images(img, s \o t)[k]
    BY <1>1, <2>1, ImagesJoin
  <2> QED BY <2>2 DEF Passed
<1>5. ASSUME NEW g \in Passed(Final(img, s), t)
      PROVE  g \in Passed(img, s \o t)
  <2>1. PICK k \in 0 .. Len(t) : g = Images(Final(img, s), t)[k]
    BY DEF Passed
  <2>2. Len(s) + k \in 0 .. Len(s \o t)
    BY <1>1
  <2>3. \A u \in 0 .. Len(t) :
          Images(img, s \o t)[Len(s) + u] = Images(Final(img, s), t)[u]
    BY <1>0
  <2>4. g = Images(img, s \o t)[Len(s) + k]
    BY <2>1, <2>3
  <2> QED BY <2>2, <2>4 DEF Passed
<1> QED BY <1>2, <1>3, <1>4, <1>5


-----------------------------------------------------------------------------
(* How far the counters are from the bitmaps.                              *)

Quiet == TableStores \cup DataStores

Drift(img) == img.free_inodes_count + Cardinality(img.inode_bits)
Slack(img) == img.free_blocks_count + Cardinality(img.block_bits)

\* Stores that are in the middle of one change of a counter at most, and of
\* none when they are done.
Settles(img, s) ==
  /\ s \in Seq(Store)
  /\ \A g \in Passed(img, s) : /\ Drift(g) - Drift(img) \in -1 .. 1
                               /\ Slack(g) >= Slack(img) - 1
  /\ Drift(Final(img, s)) = Drift(img)
  /\ Slack(Final(img, s)) >= Slack(img)

LEMMA StoreKinds ==
  /\ \A st \in BitStores : st[1][1] = "inode_bits"
  /\ \A st \in MarkStores : st[1][1] = "block_bits"
  /\ \A st \in CountStores : st[1][1] = "free_inodes_count"
  /\ \A st \in FreeStores : st[1][1] = "free_blocks_count"
  /\ \A st \in TableStores : st[1][1] = "itable"
  /\ \A st \in DataStores : st[1][1] = "data"
<1>1. /\ \A st \in BitStores : st[1][1] = "inode_bits"
      /\ \A st \in MarkStores : st[1][1] = "block_bits"
      /\ \A st \in CountStores : st[1][1] = "free_inodes_count"
      /\ \A st \in FreeStores : st[1][1] = "free_blocks_count"
  BY DEF BitStores, MarkStores, CountStores, FreeStores
<1>2. \A st \in TableStores : st[1][1] = "itable"
  BY DEF TableStores, ModeStores, ExtStores, SizeStores, EntriesStores
<1>3. \A st \in DataStores : st[1][1] = "data"
  BY DEF DataStores, BlockStores, SlotStores
<1> QED BY <1>1, <1>2, <1>3

LEMMA DriftType ==
  ASSUME NEW img \in ImageType
  PROVE  Drift(img) \in Int /\ Slack(img) \in Int
<1>1. IsFiniteSet(img.inode_bits) /\ IsFiniteSet(img.block_bits)
  <2>1. IsFiniteSet(Ino)
    BY A1fsAssumption, FS_Interval DEF Ino
  <2> QED BY <2>1, FS_Subset DEF ImageType
<1>2. Cardinality(img.inode_bits) \in Nat /\ Cardinality(img.block_bits) \in Nat
  BY <1>1, FS_CardinalityType
<1> QED BY <1>2 DEF Drift, Slack, ImageType

\* One list after another.
LEMMA SettlesJoin ==
  ASSUME NEW img \in ImageType, NEW s, NEW t,
         Settles(img, s), Settles(Final(img, s), t)
  PROVE  Settles(img, s \o t)
<1>1. s \in Seq(Store) /\ t \in Seq(Store)
  BY DEF Settles
<1>2. Final(img, s) \in ImageType
  BY <1>1, PassedTyped
<1> DEFINE mid == Final(img, s)
<1> HIDE DEF mid
<1>3. mid \in ImageType /\ Settles(mid, t)
  BY <1>2 DEF mid
<1>4. /\ Final(img, s \o t) = Final(mid, t)
      /\ Passed(img, s \o t) = Passed(img, s) \cup Passed(mid, t)
  BY <1>1, Joined DEF mid
<1>5. /\ Passed(img, s) \subseteq ImageType
      /\ Passed(mid, t) \subseteq ImageType /\ Final(mid, t) \in ImageType
  BY <1>1, <1>3, PassedTyped
<1>6. Drift(mid) = Drift(img) /\ Slack(mid) >= Slack(img)
  BY DEF Settles, mid
<1>7. s \o t \in Seq(Store)
  BY <1>1, ConcatProperties
<1>8. ASSUME NEW g \in Passed(mid, t)
      PROVE  /\ Drift(g) - Drift(img) \in -1 .. 1
             /\ Slack(g) >= Slack(img) - 1
  <2>1. Drift(g) - Drift(mid) \in -1 .. 1 /\ Slack(g) >= Slack(mid) - 1
    BY <1>3 DEF Settles
  <2>2. g \in ImageType
    BY <1>5
  <2>3. Slack(g) \in Int /\ Slack(mid) \in Int /\ Slack(img) \in Int
    BY <1>3, <2>2, DriftType
  <2> QED BY <1>6, <2>1, <2>3
<1>9. \A g \in Passed(img, s) : /\ Drift(g) - Drift(img) \in -1 .. 1
                                /\ Slack(g) >= Slack(img) - 1
  BY DEF Settles
<1>10. Drift(Final(mid, t)) = Drift(img) /\ Slack(Final(mid, t)) >= Slack(img)
  <2>1. Drift(Final(mid, t)) = Drift(mid) /\ Slack(Final(mid, t)) >= Slack(mid)
    BY <1>3 DEF Settles
  <2>2. /\ Slack(Final(mid, t)) \in Int /\ Slack(mid) \in Int
        /\ Slack(img) \in Int
    BY <1>3, <1>5, DriftType
  <2> QED BY <1>6, <2>1, <2>2
<1> QED BY <1>4, <1>7, <1>8, <1>9, <1>10 DEF Settles

\* What no store of a list goes to is the same in every image.
LEMMA NotStored ==
  ASSUME NEW img \in ImageType, NEW s \in Seq(Store), NEW g \in Passed(img, s)
  PROVE  /\ g \in ImageType
         /\ (\A k \in DOMAIN s : s[k] \notin BitStores) =>
              g.inode_bits = img.inode_bits
         /\ (\A k \in DOMAIN s : s[k] \notin MarkStores) =>
              g.block_bits = img.block_bits
         /\ (\A k \in DOMAIN s : s[k] \notin CountStores) =>
              g.free_inodes_count = img.free_inodes_count
         /\ (\A k \in DOMAIN s : s[k] \notin FreeStores) =>
              g.free_blocks_count = img.free_blocks_count
         /\ (\A k \in DOMAIN s : s[k] \notin TableStores) => g.itable = img.itable
         /\ (\A k \in DOMAIN s : s[k] \notin DataStores) => g.data = img.data
<1> DEFINE Same(h) ==
      /\ (\A k \in DOMAIN s : s[k] \notin BitStores) =>
           h.inode_bits = img.inode_bits
      /\ (\A k \in DOMAIN s : s[k] \notin MarkStores) =>
           h.block_bits = img.block_bits
      /\ (\A k \in DOMAIN s : s[k] \notin CountStores) =>
           h.free_inodes_count = img.free_inodes_count
      /\ (\A k \in DOMAIN s : s[k] \notin FreeStores) =>
           h.free_blocks_count = img.free_blocks_count
      /\ (\A k \in DOMAIN s : s[k] \notin TableStores) => h.itable = img.itable
      /\ (\A k \in DOMAIN s : s[k] \notin DataStores) => h.data = img.data
    G == {k \in 0 .. Len(s) : Same(Images(img, s)[k])}
<1>1. Len(s) \in Nat /\ \A k \in 1 .. Len(s) : k \in DOMAIN s /\ s[k] \in Store
  OBVIOUS
<1>2. 0 \in G
  <2>1. Images(img, s)[0] = img
    BY <1>1, ImagesUnfold
  <2> QED BY <1>1, <2>1
<1>3. ASSUME NEW k \in 1 .. Len(s), k - 1 \in G
      PROVE  k \in G
  <2> DEFINE old == Images(img, s)[k - 1]
             new == Images(img, s)[k]
  <2>1. new = Put(old, s[k])
    BY <1>1, StoreAt
  <2>2. old \in ImageType /\ s[k] \in Store /\ k \in DOMAIN s
    BY <1>1, ImagesTyped
  <2>3. Same(old)
    BY <1>3
  <2>4. Same(new)
    <3> HIDE DEF old, new
    <3> QED BY <2>1, <2>2, <2>3, PutTyped
  <2> QED BY <1>1, <2>4
<1> HIDE DEF G
<1>4. 0 .. Len(s) \subseteq G
  BY <1>1, <1>2, <1>3, Along
<1>5. PICK k \in 0 .. Len(s) : g = Images(img, s)[k]
  BY DEF Passed
<1>6. Same(Images(img, s)[k])
  BY <1>4, <1>5 DEF G
<1>7. g \in ImageType
  BY PassedTyped
<1> QED BY <1>5, <1>6, <1>7

LEMMA QuietSettles ==
  ASSUME NEW img \in ImageType, NEW s \in Seq(Quiet)
  PROVE  /\ Settles(img, s)
         /\ \A g \in Passed(img, s) :
              /\ g \in ImageType
              /\ g.inode_bits = img.inode_bits
              /\ g.block_bits = img.block_bits
              /\ g.free_inodes_count = img.free_inodes_count
              /\ g.free_blocks_count = img.free_blocks_count
<1>1. Quiet \subseteq Store
  BY DEF Quiet, Store
<1>2. s \in Seq(Store)
  BY <1>1
<1>3. ASSUME NEW k \in DOMAIN s
      PROVE  /\ s[k] \notin BitStores /\ s[k] \notin MarkStores
             /\ s[k] \notin CountStores /\ s[k] \notin FreeStores
  <2>1. s[k] \in Quiet
    OBVIOUS
  <2>2. s[k][1][1] \in {"itable", "data"}
    BY <2>1, StoreKinds DEF Quiet
  <2> QED BY <2>2, StoreKinds
<1>4. ASSUME NEW g \in Passed(img, s)
      PROVE  /\ g \in ImageType
             /\ g.inode_bits = img.inode_bits
             /\ g.block_bits = img.block_bits
             /\ g.free_inodes_count = img.free_inodes_count
             /\ g.free_blocks_count = img.free_blocks_count
  BY <1>2, <1>3, NotStored
<1>5. ASSUME NEW g \in Passed(img, s)
      PROVE  Drift(g) = Drift(img) /\ Slack(g) = Slack(img)
  BY <1>4 DEF Drift, Slack
<1>6. Final(img, s) \in Passed(img, s)
  BY <1>2, PassedTyped
<1>7. Drift(img) \in Int /\ Slack(img) \in Int
  BY DriftType
<1> QED BY <1>2, <1>4, <1>5, <1>6, <1>7 DEF Settles


-----------------------------------------------------------------------------
(* The stores that change bits or counters.                                *)

LEMMA PutLeaf ==
  ASSUME NEW img, NEW v
  PROVE  /\ Put(img, << <<"inode_bits">>, v >>) = [img EXCEPT !.inode_bits = v]
         /\ Put(img, << <<"block_bits">>, v >>) = [img EXCEPT !.block_bits = v]
         /\ Put(img, << <<"free_inodes_count">>, v >>)
              = [img EXCEPT !.free_inodes_count = v]
         /\ Put(img, << <<"free_blocks_count">>, v >>)
              = [img EXCEPT !.free_blocks_count = v]
<1>1. Put(img, << <<"inode_bits">>, v >>) = [img EXCEPT !.inode_bits = v]
  BY SMT DEF Put
<1>2. Put(img, << <<"block_bits">>, v >>) = [img EXCEPT !.block_bits = v]
  BY SMT DEF Put
<1>3. Put(img, << <<"free_inodes_count">>, v >>)
        = [img EXCEPT !.free_inodes_count = v]
  BY SMT DEF Put
<1>4. Put(img, << <<"free_blocks_count">>, v >>)
        = [img EXCEPT !.free_blocks_count = v]
  BY SMT DEF Put
<1> QED BY <1>1, <1>2, <1>3, <1>4

\* A bit of the inode bitmap with the count after it.
PairOf(v, c) ==
  << << <<"inode_bits">>, v >>, << <<"free_inodes_count">>, c >> >>

LEMMA PairSettles ==
  ASSUME NEW img \in ImageType, NEW v \in SUBSET Ino, NEW c \in Int,
         c + Cardinality(v) = Drift(img),
         Cardinality(v) - Cardinality(img.inode_bits) \in -1 .. 1
  PROVE  /\ Settles(img, PairOf(v, c))
         /\ Final(img, PairOf(v, c)) \in ImageType
         /\ Final(img, PairOf(v, c)).block_bits = img.block_bits
         /\ Final(img, PairOf(v, c)).free_blocks_count = img.free_blocks_count
<1> DEFINE s == PairOf(v, c)
<1>1. s \in Seq(Store) /\ Len(s) = 2
      /\ s[1] = << <<"inode_bits">>, v >>
      /\ s[2] = << <<"free_inodes_count">>, c >>
  <2>1. /\ << <<"inode_bits">>, v >> \in Store
        /\ << <<"free_inodes_count">>, c >> \in Store
    BY DEF Store, BitStores, CountStores
  <2> QED BY <2>1 DEF PairOf
<1> HIDE DEF s
<1>2. /\ Images(img, s)[0] = img
      /\ Images(img, s)[1] = [img EXCEPT !.inode_bits = v]
      /\ Images(img, s)[2] = [Images(img, s)[1] EXCEPT !.free_inodes_count = c]
  <2>1. Images(img, s)[0] = img
    BY <1>1, ImagesUnfold
  <2>2. Images(img, s)[1] = Put(Images(img, s)[0], s[1])
    <3>1. 1 \in 1 .. Len(s) /\ Len(s) \in Nat
      BY <1>1
    <3>2. Images(img, s)[1] = Put(Images(img, s)[1 - 1], s[1])
      BY <3>1, StoreAt
    <3> QED BY <3>2
  <2>3. Images(img, s)[2] = Put(Images(img, s)[1], s[2])
    <3>1. 2 \in 1 .. Len(s) /\ Len(s) \in Nat
      BY <1>1
    <3>2. Images(img, s)[2] = Put(Images(img, s)[2 - 1], s[2])
      BY <3>1, StoreAt
    <3> QED BY <3>2
  <2>4. Put(img, s[1]) = [img EXCEPT !.inode_bits = v]
    <3>1. Put(img, << <<"inode_bits">>, v >>) = [img EXCEPT !.inode_bits = v]
      BY PutLeaf
    <3> QED BY <1>1, <3>1
  <2>5. Put(Images(img, s)[1], s[2])
          = [Images(img, s)[1] EXCEPT !.free_inodes_count = c]
    <3>1. Put(Images(img, s)[1], << <<"free_inodes_count">>, c >>)
            = [Images(img, s)[1] EXCEPT !.free_inodes_count = c]
      BY PutLeaf
    <3> QED BY <1>1, <3>1
  <2> QED BY <2>1, <2>2, <2>3, <2>4, <2>5
<1>3. Final(img, s) = Images(img, s)[2]
  BY <1>1 DEF Final
<1>4. ASSUME NEW g \in Passed(img, s)
      PROVE  g = img \/ g = Images(img, s)[1] \/ g = Images(img, s)[2]
  <2>1. PICK k \in 0 .. 2 : g = Images(img, s)[k]
    BY <1>1 DEF Passed
  <2> QED BY <1>2, <2>1
<1>5. Passed(img, s) \subseteq ImageType /\ Final(img, s) \in ImageType
  BY <1>1, PassedTyped
<1>6. DEFINE one == Images(img, s)[1]
             two == Images(img, s)[2]
<1>7. /\ one.inode_bits = v /\ one.free_inodes_count = img.free_inodes_count
      /\ one.block_bits = img.block_bits
      /\ one.free_blocks_count = img.free_blocks_count
      /\ two.inode_bits = v /\ two.free_inodes_count = c
      /\ two.block_bits = img.block_bits
      /\ two.free_blocks_count = img.free_blocks_count
  BY <1>2 DEF ImageType
<1> HIDE DEF one, two
<1>8. Drift(img) \in Int /\ Slack(img) \in Int
  BY DriftType
<1>9. Cardinality(v) \in Nat /\ Cardinality(img.inode_bits) \in Nat
      /\ img.free_inodes_count \in Int
  <2>1. IsFiniteSet(Ino)
    BY A1fsAssumption, FS_Interval DEF Ino
  <2> QED BY <2>1, FS_Subset, FS_CardinalityType DEF ImageType
<1>10. /\ Drift(one) - Drift(img) \in -1 .. 1 /\ Slack(one) = Slack(img)
       /\ Drift(two) = Drift(img) /\ Slack(two) = Slack(img)
  <2>1. Slack(one) = Slack(img) /\ Slack(two) = Slack(img)
    BY <1>7 DEF Slack
  <2>2. Drift(one) = img.free_inodes_count + Cardinality(v)
    BY <1>7 DEF Drift
  <2>3. Drift(img) = img.free_inodes_count + Cardinality(img.inode_bits)
    BY DEF Drift
  <2>4. Drift(two) = Drift(img)
    BY <1>7 DEF Drift
  <2> QED BY <1>9, <2>1, <2>2, <2>3, <2>4
<1>11. Settles(img, s)
  <2>1. Final(img, s) = two
    BY <1>3 DEF two
  <2>2. \A g \in Passed(img, s) : g \in {img, one, two}
    BY <1>4 DEF one, two
  <2>3. /\ Drift(img) - Drift(img) \in -1 .. 1
        /\ Drift(two) - Drift(img) \in -1 .. 1
        /\ Slack(img) >= Slack(img) - 1
    BY <1>8, <1>10
  <2> QED BY <1>1, <1>8, <1>10, <2>1, <2>2, <2>3 DEF Settles
<1>12. Final(img, s) = two
  BY <1>3 DEF two
<1> QED BY <1>5, <1>7, <1>11, <1>12 DEF s

\* The blocks that set_bits has been over when it has done m of them.
Firsts(blocks, m) == {blocks[j] : j \in 1 .. m}

LEMMA FirstsSize ==
  ASSUME NEW blocks \in Seq(Nat), NEW m \in 0 .. Len(blocks)
  PROVE  /\ Firsts(blocks, m) \in SUBSET Nat /\ IsFiniteSet(Firsts(blocks, m))
         /\ Cardinality(Firsts(blocks, m)) \in Nat
         /\ Cardinality(Firsts(blocks, m)) <= m
<1> DEFINE X == Firsts(blocks, m)
           f == [j \in 1 .. m |-> blocks[j]]
<1>1. X \in SUBSET Nat
  BY DEF Firsts
<1>2. f \in Surjection(1 .. m, X)
  BY DEF Surjection, Firsts
<1>3. IsFiniteSet(1 .. m) /\ Cardinality(1 .. m) = m
  BY FS_Interval
<1> HIDE DEF X, f
<1>4. IsFiniteSet(X) /\ Cardinality(X) <= Cardinality(1 .. m)
  BY <1>2, <1>3, FS_Surjection
<1>5. Cardinality(X) \in Nat
  BY <1>4, FS_CardinalityType
<1> QED BY <1>1, <1>3, <1>4, <1>5 DEF X

LEMMA FlipBitsSize ==
  ASSUME NEW bits, NEW X, IsFiniteSet(bits), IsFiniteSet(X)
  PROVE  /\ IsFiniteSet(FlipBits(bits, X))
         /\ Cardinality(FlipBits(bits, X)) \in Nat
         /\ Cardinality(FlipBits(bits, X)) >= Cardinality(bits) - Cardinality(X)
         /\ X \cap bits = {} =>
              Cardinality(FlipBits(bits, X)) = Cardinality(bits) + Cardinality(X)
<1> DEFINE A == bits \ X
           B == X \ bits
<1>1. /\ IsFiniteSet(A) /\ Cardinality(A) = Cardinality(bits) - Cardinality(bits \cap X)
      /\ IsFiniteSet(B) /\ Cardinality(B) = Cardinality(X) - Cardinality(X \cap bits)
  BY FS_Difference
<1>2. bits \cap X \in SUBSET X
  OBVIOUS
<1>3. IsFiniteSet(bits \cap X) /\ Cardinality(bits \cap X) <= Cardinality(X)
  BY <1>2, FS_Subset
<1>4. A \cap B = {}
  OBVIOUS
<1>5. FlipBits(bits, X) = A \cup B
  BY DEF FlipBits
<1> HIDE DEF A, B
<1>6. /\ IsFiniteSet(A \cup B)
      /\ Cardinality(A \cup B) = Cardinality(A) + Cardinality(B) - Cardinality(A \cap B)
  BY <1>1, FS_Union
<1>7. Cardinality(A \cap B) = 0
  BY <1>4, FS_EmptySet
<1>8. /\ Cardinality(A) \in Nat /\ Cardinality(B) \in Nat
      /\ Cardinality(bits) \in Nat /\ Cardinality(X) \in Nat
      /\ Cardinality(bits \cap X) \in Nat
  BY <1>1, <1>3, FS_CardinalityType
<1>9. Cardinality(FlipBits(bits, X)) = Cardinality(A) + Cardinality(B)
  BY <1>5, <1>6, <1>7, <1>8
<1>10. Cardinality(FlipBits(bits, X)) >= Cardinality(bits) - Cardinality(X)
  BY <1>1, <1>3, <1>8, <1>9
<1>11. ASSUME X \cap bits = {}
       PROVE  Cardinality(FlipBits(bits, X)) = Cardinality(bits) + Cardinality(X)
  <2>1. Cardinality(X \cap bits) = 0 /\ Cardinality(bits \cap X) = 0
    BY <1>11, FS_EmptySet
  <2> QED BY <1>1, <1>8, <1>9, <2>1
<1> QED BY <1>5, <1>6, <1>8, <1>9, <1>10, <1>11


\* What set_bits adds to the count of free blocks with m blocks.
Counter(by, m) == free_blocks_count + by * m

LEMMA FlipsStores ==
  ASSUME TypeOK, IsFiniteSet(block_bits),
         NEW blocks \in Seq(Nat), NEW by \in {-1, 1},
         Counter(by, Len(blocks)) >= 0
  PROVE  /\ Flips(blocks, by) \in Seq(MarkStores \cup FreeStores)
         /\ Len(Flips(blocks, by)) = 2 * Len(blocks)
         /\ \A m \in 1 .. Len(blocks) :
              /\ Flips(blocks, by)[2 * m - 1]
                   = << <<"block_bits">>, FlipBits(block_bits, Firsts(blocks, m)) >>
              /\ Flips(blocks, by)[2 * m]
                   = << <<"free_blocks_count">>, Counter(by, m) >>
              /\ FlipBits(block_bits, Firsts(blocks, m))
                   \in {w \in SUBSET Nat : IsFiniteSet(w)}
              /\ Counter(by, m) \in Nat
<1> DEFINE N == Len(blocks)
           s == Flips(blocks, by)
           mark(m) == << <<"block_bits">>, FlipBits(block_bits, Firsts(blocks, m)) >>
           count(m) == << <<"free_blocks_count">>, Counter(by, m) >>
<1>1. N \in Nat /\ free_blocks_count \in Nat /\ block_bits \in SUBSET Nat
  BY DEF TypeOK
<1>2. \A n \in 1 .. (2 * N) :
        s[n] = IF n % 2 = 1 THEN mark((n + 1) \div 2) ELSE count((n + 1) \div 2)
  BY <1>1 DEF Flips, Firsts, Counter
<1>3. Len(s) = 2 * N /\ DOMAIN s = 1 .. (2 * N) /\ s = [n \in 1 .. (2 * N) |-> s[n]]
  <2>1. DOMAIN s = 1 .. (2 * N) /\ s = [n \in 1 .. (2 * N) |-> s[n]]
    BY DEF Flips
  <2>2. 2 * N \in Nat
    BY <1>1
  <2> HIDE DEF s, N
  <2>3. Len(s) = 2 * N
    BY <2>1, <2>2
  <2> QED BY <2>1, <2>3
<1>4. ASSUME NEW m \in 1 .. N
      PROVE  /\ FlipBits(block_bits, Firsts(blocks, m))
                  \in {w \in SUBSET Nat : IsFiniteSet(w)}
             /\ Counter(by, m) \in Nat
  <2>1. Firsts(blocks, m) \in SUBSET Nat /\ IsFiniteSet(Firsts(blocks, m))
    BY FirstsSize
  <2>2. FlipBits(block_bits, Firsts(blocks, m)) \in SUBSET Nat
    BY <1>1, <2>1, FlipBitsType
  <2>3. IsFiniteSet(FlipBits(block_bits, Firsts(blocks, m)))
    BY <2>1, FlipBitsSize
  <2>4. Counter(by, m) \in Nat
    <3>1. CASE by = 1
      BY <1>1, <3>1 DEF Counter
    <3>2. CASE by = -1
      BY <1>1, <3>2 DEF Counter
    <3> QED BY <3>1, <3>2
  <2> QED BY <2>2, <2>3, <2>4
<1>5. ASSUME NEW m \in 1 .. N
      PROVE  s[2 * m - 1] = mark(m) /\ s[2 * m] = count(m)
  <2> HIDE DEF s, mark, count
  <2>1. /\ 2 * m - 1 \in 1 .. (2 * N) /\ 2 * m \in 1 .. (2 * N)
        /\ (2 * m - 1) % 2 = 1 /\ (2 * m) % 2 = 0
        /\ (2 * m - 1 + 1) \div 2 = m /\ (2 * m + 1) \div 2 = m
    BY <1>1
  <2>2. /\ s[2 * m - 1] = mark((2 * m - 1 + 1) \div 2)
        /\ s[2 * m] = count((2 * m + 1) \div 2)
    BY <1>2, <2>1
  <2> QED BY <2>1, <2>2
<1>6. ASSUME NEW n \in 1 .. (2 * N)
      PROVE  s[n] \in MarkStores \cup FreeStores
  <2> DEFINE m == (n + 1) \div 2
  <2>1. m \in 1 .. N
    BY <1>1
  <2> HIDE DEF m
  <2>2. mark(m) \in MarkStores /\ count(m) \in FreeStores
    BY <1>4, <2>1 DEF MarkStores, FreeStores
  <2> HIDE DEF s, mark, count
  <2>3. s[n] = mark(m) \/ s[n] = count(m)
    BY <1>2 DEF m
  <2> QED BY <2>2, <2>3
<1>7. s \in Seq(MarkStores \cup FreeStores)
  <2> HIDE DEF s
  <2>1. 2 * N \in Nat
    BY <1>1
  <2> QED BY <1>3, <1>6, <2>1
<1> QED BY <1>3, <1>4, <1>5, <1>7

LEMMA FlipsImages ==
  ASSUME TypeOK, IsFiniteSet(block_bits),
         NEW blocks \in Seq(Nat), NEW by \in {-1, 1},
         Counter(by, Len(blocks)) >= 0,
         NEW img \in ImageType, img.block_bits = block_bits,
         img.free_blocks_count = free_blocks_count
  PROVE  LET im == Images(img, Flips(blocks, by))
         IN  /\ im[0] = img
             /\ \A m \in 1 .. Len(blocks) :
                  /\ im[2 * m - 1].block_bits
                       = FlipBits(block_bits, Firsts(blocks, m))
                  /\ im[2 * m - 1].free_blocks_count = Counter(by, m - 1)
                  /\ im[2 * m].block_bits
                       = FlipBits(block_bits, Firsts(blocks, m))
                  /\ im[2 * m].free_blocks_count = Counter(by, m)
<1> DEFINE N == Len(blocks)
           s == Flips(blocks, by)
           im == Images(img, s)
           marked(m) == FlipBits(block_bits, Firsts(blocks, m))
           Odd(m) == /\ im[2 * m - 1].block_bits = marked(m)
                     /\ im[2 * m - 1].free_blocks_count = Counter(by, m - 1)
           Even(m) == /\ im[2 * m].block_bits = marked(m)
                      /\ im[2 * m].free_blocks_count = Counter(by, m)
           G == {m \in 0 .. N : Even(m)}
<1>1. /\ N \in Nat /\ s \in Seq(Store) /\ Len(s) = 2 * N
      /\ \A m \in 1 .. N :
           /\ s[2 * m - 1] = << <<"block_bits">>, marked(m) >>
           /\ s[2 * m] = << <<"free_blocks_count">>, Counter(by, m) >>
  <2>1. /\ s \in Seq(MarkStores \cup FreeStores) /\ Len(s) = 2 * N
        /\ \A m \in 1 .. N :
             /\ s[2 * m - 1] = << <<"block_bits">>, marked(m) >>
             /\ s[2 * m] = << <<"free_blocks_count">>, Counter(by, m) >>
    BY FlipsStores
  <2> HIDE DEF s
  <2>2. s \in Seq(Store)
    BY <2>1 DEF Store
  <2>3. N \in Nat
    OBVIOUS
  <2> HIDE DEF N, marked
  <2> QED BY <2>1, <2>2, <2>3
<1>2. im[0] = img
  BY <1>1, ImagesUnfold
<1>3. 0 \in G
  <2>1. Firsts(blocks, 0) = {}
    BY DEF Firsts
  <2>2. marked(0) = block_bits
    BY <2>1 DEF FlipBits
  <2>3. Counter(by, 0) = free_blocks_count
    BY DEF Counter, TypeOK
  <2> QED BY <1>1, <1>2, <2>2, <2>3
<1>4. ASSUME NEW m \in 1 .. N, Even(m - 1)
      PROVE  Odd(m) /\ Even(m)
  <2> DEFINE k == 2 * m
  <2>1. k \in 1 .. Len(s) /\ k - 1 \in 1 .. Len(s) /\ k - 2 \in 0 .. Len(s)
        /\ 2 * (m - 1) = k - 2 /\ (k - 1) - 1 = k - 2
    BY <1>1
  <2>2. /\ s[k - 1] = << <<"block_bits">>, marked(m) >>
        /\ s[k] = << <<"free_blocks_count">>, Counter(by, m) >>
    BY <1>1
  <2>3. im[k - 2].free_blocks_count = Counter(by, m - 1)
    BY <1>4, <2>1
  <2>4. im[k - 2] \in ImageType /\ im[k - 1] \in ImageType
    <3>1. k - 1 \in 0 .. Len(s)
      BY <2>1
    <3> QED BY <1>1, <2>1, <3>1, ImagesTyped
  <2> HIDE DEF k, s, marked
  <2>5. im[k - 1] = Put(im[k - 2], s[k - 1]) /\ im[k] = Put(im[k - 1], s[k])
    <3>1. Len(s) \in Nat
      BY <1>1
    <3>2. im[k] = Put(im[k - 1], s[k])
      BY <2>1, <3>1, StoreAt
    <3>3. im[k - 1] = Put(im[(k - 1) - 1], s[k - 1])
      <4> DEFINE j == k - 1
      <4> HIDE DEF j
      <4>1. j \in 1 .. Len(s)
        BY <2>1 DEF j
      <4>2. im[j] = Put(im[j - 1], s[j])
        BY <3>1, <4>1, StoreAt
      <4> QED BY <4>2 DEF j
    <3> QED BY <2>1, <3>2, <3>3
  <2> HIDE DEF im
  <2>6. im[k - 1] = [im[k - 2] EXCEPT !.block_bits = marked(m)]
    <3>1. Put(im[k - 2], << <<"block_bits">>, marked(m) >>)
            = [im[k - 2] EXCEPT !.block_bits = marked(m)]
      BY PutLeaf
    <3> QED BY <2>2, <2>5, <3>1
  <2>7. im[k] = [im[k - 1] EXCEPT !.free_blocks_count = Counter(by, m)]
    <3>1. Put(im[k - 1], << <<"free_blocks_count">>, Counter(by, m) >>)
            = [im[k - 1] EXCEPT !.free_blocks_count = Counter(by, m)]
      BY PutLeaf
    <3> QED BY <2>2, <2>5, <3>1
  <2>8. /\ im[k - 1].block_bits = marked(m)
        /\ im[k - 1].free_blocks_count = Counter(by, m - 1)
    BY <2>3, <2>4, <2>6 DEF ImageType
  <2>9. /\ im[k].block_bits = marked(m)
        /\ im[k].free_blocks_count = Counter(by, m)
    BY <2>4, <2>7, <2>8 DEF ImageType
  <2> QED BY <2>8, <2>9 DEF k
<1>5. ASSUME NEW m \in 1 .. N, m - 1 \in G
      PROVE  m \in G
  <2>1. Even(m - 1)
    BY <1>5
  <2> HIDE DEF im, marked
  <2>2. Even(m)
    BY <1>4, <2>1
  <2>3. m \in 0 .. N
    BY <1>1
  <2> QED BY <2>2, <2>3
<1> HIDE DEF G
<1>6. 0 .. N \subseteq G
  BY <1>1, <1>3, <1>5, Along
<1>7. ASSUME NEW m \in 1 .. N
      PROVE  Odd(m) /\ Even(m)
  <2>1. m - 1 \in G
    <3> HIDE DEF N
    <3>1. m - 1 \in 0 .. N
      BY <1>1
    <3> QED BY <1>6, <3>1
  <2>2. Even(m - 1)
    BY <2>1 DEF G
  <2> QED BY <1>4, <2>2
<1> QED BY <1>2, <1>7

\* The blocks that set_bits is given when it takes them: no block twice, and
\* none that is marked.
NewBlocks(blocks) ==
  /\ Firsts(blocks, Len(blocks)) \cap block_bits = {}
  /\ \A m \in 0 .. Len(blocks) : Cardinality(Firsts(blocks, m)) = m

LEMMA FlipsSettle ==
  ASSUME TypeOK, IsFiniteSet(block_bits),
         NEW blocks \in Seq(Nat), NEW by \in {-1, 1},
         Counter(by, Len(blocks)) >= 0, by = -1 => NewBlocks(blocks),
         NEW img \in ImageType, img.block_bits = block_bits,
         img.free_blocks_count = free_blocks_count
  PROVE  /\ Settles(img, Flips(blocks, by))
         /\ Final(img, Flips(blocks, by)) \in ImageType
         /\ Final(img, Flips(blocks, by)).free_blocks_count
              = Counter(by, Len(blocks))
         /\ Final(img, Flips(blocks, by)).block_bits
              = FlipBits(block_bits, Firsts(blocks, Len(blocks)))
         /\ Final(img, Flips(blocks, by)).inode_bits = img.inode_bits
         /\ Final(img, Flips(blocks, by)).free_inodes_count
              = img.free_inodes_count
         /\ Final(img, Flips(blocks, by)).itable = img.itable
         /\ Final(img, Flips(blocks, by)).data = img.data
<1> DEFINE N == Len(blocks)
           s == Flips(blocks, by)
           im == Images(img, s)
           marked(m) == FlipBits(block_bits, Firsts(blocks, m))
<1>1. s \in Seq(MarkStores \cup FreeStores) /\ Len(s) = 2 * N /\ N \in Nat
  BY FlipsStores
<1>2. s \in Seq(Store)
  BY <1>1 DEF Store
<1>3. /\ im[0] = img
      /\ \A m \in 1 .. N : /\ im[2 * m - 1].block_bits = marked(m)
                           /\ im[2 * m - 1].free_blocks_count = Counter(by, m - 1)
                           /\ im[2 * m].block_bits = marked(m)
                           /\ im[2 * m].free_blocks_count = Counter(by, m)
  BY FlipsImages
<1> HIDE DEF s
<1>4. ASSUME NEW g \in Passed(img, s)
      PROVE  /\ g \in ImageType
             /\ g.inode_bits = img.inode_bits
             /\ g.free_inodes_count = img.free_inodes_count
             /\ g.itable = img.itable /\ g.data = img.data
  <2>1. ASSUME NEW k \in DOMAIN s
        PROVE  /\ s[k] \notin BitStores /\ s[k] \notin CountStores
               /\ s[k] \notin TableStores /\ s[k] \notin DataStores
    <3>1. s[k] \in MarkStores \cup FreeStores
      BY <1>1
    <3>2. s[k][1][1] \in {"block_bits", "free_blocks_count"}
      BY <3>1, StoreKinds
    <3> QED BY <3>2, StoreKinds
  <2> QED BY <1>2, <2>1, NotStored
<1>5. /\ free_blocks_count \in Nat /\ Cardinality(block_bits) \in Nat
      /\ Slack(img) = free_blocks_count + Cardinality(block_bits)
  <2>1. Cardinality(block_bits) \in Nat
    BY FS_CardinalityType
  <2> QED BY <2>1 DEF TypeOK, Slack
<1>6. ASSUME NEW m \in 1 .. N
      PROVE  /\ Cardinality(marked(m)) \in Nat
             /\ Counter(by, m - 1) + Cardinality(marked(m)) >= Slack(img) - 1
             /\ Counter(by, m) + Cardinality(marked(m)) >= Slack(img)
  <2> DEFINE X == Firsts(blocks, m)
  <2>1. /\ IsFiniteSet(X) /\ Cardinality(X) \in Nat /\ Cardinality(X) <= m
    BY FirstsSize
  <2>2. /\ Cardinality(marked(m)) \in Nat
        /\ Cardinality(marked(m)) >= Cardinality(block_bits) - Cardinality(X)
        /\ X \cap block_bits = {} =>
             Cardinality(marked(m)) = Cardinality(block_bits) + Cardinality(X)
    BY <2>1, FlipBitsSize
  <2>3. CASE by = 1
    <3>1. /\ Counter(by, m - 1) = free_blocks_count + m - 1
          /\ Counter(by, m) = free_blocks_count + m
      BY <1>5, <2>3 DEF Counter
    <3> HIDE DEF X, marked
    <3> QED BY <1>5, <2>1, <2>2, <3>1
  <2>4. CASE by = -1
    <3>1. /\ Counter(by, m - 1) = free_blocks_count - m + 1
          /\ Counter(by, m) = free_blocks_count - m
      BY <1>5, <2>4 DEF Counter
    <3>2. Cardinality(X) = m /\ X \cap block_bits = {}
      BY <1>1, <2>4 DEF NewBlocks, Firsts
    <3> HIDE DEF X, marked
    <3> QED BY <1>5, <2>1, <2>2, <3>1, <3>2
  <2> QED BY <2>3, <2>4
<1>7. ASSUME NEW g \in Passed(img, s)
      PROVE  Slack(g) >= Slack(img) - 1
  <2>1. PICK k \in 0 .. (2 * N) : g = im[k]
    BY <1>1 DEF Passed
  <2>2. CASE k = 0
    BY <1>3, <1>5, <2>1, <2>2
  <2>3. CASE k # 0
    <3>1. \E m \in 1 .. N : k = 2 * m - 1 \/ k = 2 * m
      <4> DEFINE m == (k + 1) \div 2
      <4>1. m \in 1 .. N /\ (k = 2 * m - 1 \/ k = 2 * m)
        BY <1>1, <2>3
      <4> QED BY <4>1
    <3>2. PICK m \in 1 .. N : k = 2 * m - 1 \/ k = 2 * m
      BY <3>1
    <3> HIDE DEF im, marked
    <3>3. \/ Slack(g) = Counter(by, m - 1) + Cardinality(marked(m))
          \/ Slack(g) = Counter(by, m) + Cardinality(marked(m))
      BY <1>3, <2>1, <3>2 DEF Slack
    <3>4. Slack(g) \in Int /\ Slack(img) \in Int
      BY <1>4, DriftType
    <3> QED BY <1>6, <3>3, <3>4
  <2> QED BY <2>2, <2>3
<1>8. /\ Final(img, s).block_bits = marked(N)
      /\ Final(img, s).free_blocks_count = Counter(by, N)
      /\ Slack(Final(img, s)) >= Slack(img)
  <2>1. Final(img, s) = im[2 * N]
    BY <1>1 DEF Final
  <2>2. CASE N = 0
    <3>1. Firsts(blocks, N) = {}
      BY <2>2 DEF Firsts
    <3>2. marked(N) = block_bits
      BY <3>1 DEF FlipBits
    <3>3. Counter(by, N) = free_blocks_count
      BY <1>5, <2>2 DEF Counter
    <3>4. Final(img, s) = img
      BY <1>3, <2>1, <2>2
    <3> QED BY <1>5, <3>2, <3>3, <3>4
  <2>3. CASE N # 0
    <3>1. N \in 1 .. N
      BY <1>1, <2>3
    <3> HIDE DEF im, marked
    <3>2. /\ Final(img, s).block_bits = marked(N)
          /\ Final(img, s).free_blocks_count = Counter(by, N)
      BY <1>3, <2>1, <3>1
    <3> QED BY <1>6, <3>1, <3>2 DEF Slack
  <2> QED BY <2>2, <2>3
<1>9. Final(img, s) \in Passed(img, s)
  BY <1>2, PassedTyped
<1>10. /\ \A g \in Passed(img, s) : Drift(g) = Drift(img)
       /\ Drift(img) \in Int
  BY <1>4, DriftType DEF Drift
<1>11. Settles(img, s)
  BY <1>2, <1>7, <1>8, <1>9, <1>10 DEF Settles
<1> QED BY <1>4, <1>8, <1>9, <1>11 DEF s


-----------------------------------------------------------------------------
(* The lists of stores of the calls.                                       *)

CrashTypes ==
  /\ TypeOK
  /\ Image \in ImageType
  /\ first \in [Ino -> Extent]
  /\ kills \in Nat

LEMMA CrashFacts ==
  ASSUME CrashTypes
  PROVE  /\ TypeOK /\ Image \in ImageType /\ first \in [Ino -> Extent]
         /\ IsFiniteSet(block_bits) /\ IsFiniteSet(inode_bits)
         /\ Image.inode_bits = inode_bits /\ Image.block_bits = block_bits
         /\ Image.free_inodes_count = free_inodes_count
         /\ Image.free_blocks_count = free_blocks_count
         /\ Image.itable = itable /\ Image.data = data
         /\ \A i \in Ino : itable[i].ext \in Seq(Extent) /\ Len(itable[i].ext) <= 1
<1>1. /\ Image.inode_bits = inode_bits /\ Image.block_bits = block_bits
      /\ Image.free_inodes_count = free_inodes_count
      /\ Image.free_blocks_count = free_blocks_count
      /\ Image.itable = itable /\ Image.data = data
  BY DEF Image
<1>2. /\ IsFiniteSet(Image.block_bits) /\ Image.inode_bits \in SUBSET Ino
      /\ Image.itable \in ShortTable
  BY DEF ImageType, CrashTypes
<1>3. IsFiniteSet(Ino)
  BY A1fsAssumption, FS_Interval DEF Ino
<1>4. IsFiniteSet(inode_bits)
  BY <1>1, <1>2, <1>3, FS_Subset
<1>5. itable \in TableType
  BY <1>1, <1>2 DEF ShortTable
<1>6. \A i \in Ino : itable[i].ext \in Seq(Extent) /\ Len(itable[i].ext) <= 1
  BY <1>1, <1>2, <1>5, InodeFields DEF ShortTable
<1> QED BY <1>1, <1>2, <1>4, <1>6 DEF CrashTypes

\* Stores of contents after others.
LEMMA ThenQuiet ==
  ASSUME NEW img \in ImageType, NEW s, Settles(img, s), NEW q \in Seq(Quiet)
  PROVE  LET h == Final(img, s \o q)
         IN  /\ Settles(img, s \o q) /\ h \in ImageType
             /\ h.inode_bits = Final(img, s).inode_bits
             /\ h.block_bits = Final(img, s).block_bits
             /\ h.free_inodes_count = Final(img, s).free_inodes_count
             /\ h.free_blocks_count = Final(img, s).free_blocks_count
<1>1. s \in Seq(Store) /\ q \in Seq(Store)
  BY DEF Settles, Quiet, Store
<1>2. Final(img, s) \in ImageType
  BY <1>1, PassedTyped
<1> DEFINE mid == Final(img, s)
<1> HIDE DEF mid
<1>3. mid \in ImageType
  BY <1>2 DEF mid
<1>4. Settles(mid, q)
  BY <1>3, QuietSettles
<1>5. Final(mid, q) \in Passed(mid, q)
  BY <1>1, <1>3, PassedTyped
<1>6. /\ Final(mid, q) \in ImageType
      /\ Final(mid, q).inode_bits = mid.inode_bits
      /\ Final(mid, q).block_bits = mid.block_bits
      /\ Final(mid, q).free_inodes_count = mid.free_inodes_count
      /\ Final(mid, q).free_blocks_count = mid.free_blocks_count
  BY <1>3, <1>5, QuietSettles
<1>7. Final(img, s \o q) = Final(mid, q)
  BY <1>1, Joined DEF mid
<1>8. Settles(img, s \o q)
  BY <1>4, SettlesJoin DEF mid
<1> QED BY <1>6, <1>7, <1>8 DEF mid

LEMMA CountSettles ==
  ASSUME NEW img \in ImageType, NEW v \in Nat, v >= img.free_blocks_count
  PROVE  Settles(img, << << <<"free_blocks_count">>, v >> >>)
<1> DEFINE st == << <<"free_blocks_count">>, v >>
           s == <<st>>
<1>1. st \in Store
  BY DEF Store, FreeStores
<1>2. s \in Seq(Store) /\ Len(s) = 1 /\ s[1] = st
  BY <1>1
<1> HIDE DEF s
<1>3. Images(img, s)[0] = img
  BY <1>2, ImagesUnfold
<1>4. Images(img, s)[1] = [img EXCEPT !.free_blocks_count = v]
  <2>1. 1 \in 1 .. Len(s) /\ Len(s) \in Nat
    BY <1>2
  <2>2. Images(img, s)[1] = Put(Images(img, s)[1 - 1], s[1])
    BY <2>1, StoreAt
  <2>3. Put(img, st) = [img EXCEPT !.free_blocks_count = v]
    BY PutLeaf
  <2> QED BY <1>2, <1>3, <2>2, <2>3
<1> DEFINE one == [img EXCEPT !.free_blocks_count = v]
<1>5. Passed(img, s) \subseteq {img, one} /\ Final(img, s) = one
  <2>1. Final(img, s) = one
    BY <1>2, <1>4 DEF Final
  <2>2. ASSUME NEW g \in Passed(img, s) PROVE g \in {img, one}
    <3>1. PICK k \in 0 .. 1 : g = Images(img, s)[k]
      BY <1>2 DEF Passed
    <3> QED BY <1>3, <1>4, <3>1
  <2> QED BY <2>1, <2>2
<1>6. /\ one.inode_bits = img.inode_bits /\ one.block_bits = img.block_bits
      /\ one.free_inodes_count = img.free_inodes_count
      /\ one.free_blocks_count = v
      /\ img.free_blocks_count \in Nat
  BY DEF ImageType
<1> HIDE DEF one
<1>7. Drift(one) = Drift(img) /\ Drift(img) \in Int /\ Slack(img) \in Int
  BY <1>6, DriftType DEF Drift
<1>8. Slack(one) >= Slack(img)
  <2>1. Cardinality(img.block_bits) \in Nat
    BY FS_CardinalityType DEF ImageType
  <2> QED BY <1>6, <2>1 DEF Slack
<1>9. Slack(one) \in Int
  <2>1. Cardinality(img.block_bits) \in Nat
    BY FS_CardinalityType DEF ImageType
  <2> QED BY <1>6, <2>1 DEF Slack
<1>10. /\ Drift(img) - Drift(img) \in -1 .. 1 /\ Drift(one) - Drift(img) \in -1 .. 1
       /\ Slack(img) >= Slack(img) - 1 /\ Slack(one) >= Slack(img) - 1
  BY <1>7, <1>8, <1>9
<1>11. \A g \in Passed(img, s) : /\ Drift(g) - Drift(img) \in -1 .. 1
                                 /\ Slack(g) >= Slack(img) - 1
  BY <1>5, <1>10
<1>12. Settles(img, s)
  BY <1>2, <1>5, <1>7, <1>8, <1>11 DEF Settles
<1> QED BY <1>12 DEF s

\* Stores that leave an inode with the extents that it had, or with none, and
\* no block with another bit.
Emptied == {<< <<"itable", i, "ext">>, <<>> >> : i \in Ino}
Calm == Emptied \cup ModeStores \cup SizeStores \cup EntriesStores \cup DataStores
Mild == BitStores \cup CountStores \cup FreeStores \cup Calm

LEMMA MildIs ==
  /\ Calm \subseteq Quiet /\ Calm \subseteq Mild /\ Mild \subseteq Store
  /\ Seq(Calm) \subseteq Seq(Quiet) /\ Seq(Calm) \subseteq Seq(Mild)
  /\ Seq(Mild) \subseteq Seq(Store)
<1>1. Emptied \subseteq ExtStores
  <2>1. <<>> \in Seq(Extent) /\ Len(<<>>) <= 1
    OBVIOUS
  <2> DEFINE none == <<>>
  <2> HIDE DEF none
  <2>2. none \in Seq(Extent) /\ Len(none) <= 1
    BY <2>1 DEF none
  <2>3. \A i \in Ino : << <<"itable", i, "ext">>, none >> \in ExtStores
    BY <2>2 DEF ExtStores
  <2> QED BY <2>3 DEF Emptied, none
<1>2. Calm \subseteq Quiet /\ Calm \subseteq Mild /\ Mild \subseteq Store
  BY <1>1 DEF Calm, Quiet, Mild, Store, TableStores
<1> HIDE DEF Calm, Quiet, Mild, Store
<1> QED BY <1>2

LEMMA ExtentQuiet ==
  ASSUME NEW i \in Ino, NEW e \in Seq(Extent), Len(e) <= 1
  PROVE  << <<"itable", i, "ext">>, e >> \in Quiet
BY DEF Quiet, TableStores, ExtStores

LEMMA PairMild ==
  ASSUME NEW v \in SUBSET Ino, NEW c \in Int
  PROVE  PairOf(v, c) \in Seq(Mild)
<1>1. /\ << <<"inode_bits">>, v >> \in Mild
      /\ << <<"free_inodes_count">>, c >> \in Mild
  BY DEF Mild, BitStores, CountStores
<1> QED BY <1>1 DEF PairOf

LEMMA TakenSettles ==
  ASSUME CrashTypes, NEW i \in Ino \ inode_bits, NEW mode \in {"dir", "file"}
  PROVE  LET h == Final(Image, TakenInode(i, mode))
         IN  /\ Settles(Image, TakenInode(i, mode)) /\ h \in ImageType
             /\ TakenInode(i, mode) \in Seq(Mild)
             /\ h.block_bits = block_bits
             /\ h.free_blocks_count = free_blocks_count
<1> DEFINE v == inode_bits \cup {i}
           c == free_inodes_count - 1
           rest == << << <<"itable", i, "mode">>, mode >>,
                      << <<"itable", i, "size">>, 0 >>,
                      << <<"itable", i, "ext">>, <<>> >>,
                      << <<"itable", i, "num_entries">>, 0 >> >>
<1>1. TakenInode(i, mode) = PairOf(v, c) \o rest
  <2> DEFINE s1 == << <<"inode_bits">>, v >>
             s2 == << <<"free_inodes_count">>, c >>
             s3 == << <<"itable", i, "mode">>, mode >>
             s4 == << <<"itable", i, "size">>, 0 >>
             s5 == << <<"itable", i, "ext">>, <<>> >>
             s6 == << <<"itable", i, "num_entries">>, 0 >>
  <2>1. /\ TakenInode(i, mode) = << s1, s2, s3, s4, s5, s6 >>
        /\ PairOf(v, c) = << s1, s2 >> /\ rest = << s3, s4, s5, s6 >>
    BY DEF TakenInode, PairOf
  <2> HIDE DEF s1, s2, s3, s4, s5, s6, rest, v, c
  <2>2. << s1, s2, s3, s4, s5, s6 >> = << s1, s2 >> \o << s3, s4, s5, s6 >>
    OBVIOUS
  <2> QED BY <2>1, <2>2
<1>2. rest \in Seq(Calm)
  <2>1. << <<"itable", i, "mode">>, mode >>  \in Calm
    BY DEF Calm, ModeStores
  <2>2. << <<"itable", i, "size">>, 0 >>  \in Calm
    BY DEF Calm, SizeStores
  <2>3. << <<"itable", i, "ext">>, <<>> >> \in Calm
    BY DEF Calm, Emptied
  <2>4. << <<"itable", i, "num_entries">>, 0 >>  \in Calm
    BY DEF Calm, EntriesStores
  <2> QED BY <2>1, <2>2, <2>3, <2>4
<1>3. Cardinality(v) = Cardinality(inode_bits) + 1 /\ Cardinality(inode_bits) \in Nat
  BY CrashFacts, FS_AddElement, FS_CardinalityType
<1>4. v \in SUBSET Ino /\ c \in Int /\ free_inodes_count \in Int
  BY CrashFacts DEF TypeOK
<1>5. c + Cardinality(v) = Drift(Image)
      /\ Cardinality(v) - Cardinality(Image.inode_bits) \in -1 .. 1
  <2>1. /\ Drift(Image) = free_inodes_count + Cardinality(inode_bits)
        /\ Image.inode_bits = inode_bits
    BY CrashFacts DEF Drift
  <2> HIDE DEF v
  <2> QED BY <1>3, <1>4, <2>1
<1> HIDE DEF v, c, rest
<1>6. /\ Settles(Image, PairOf(v, c))
      /\ Final(Image, PairOf(v, c)).block_bits = block_bits
      /\ Final(Image, PairOf(v, c)).free_blocks_count = free_blocks_count
  BY <1>4, <1>5, CrashFacts, PairSettles
<1>7. Image \in ImageType
  BY CrashFacts
<1>8. TakenInode(i, mode) \in Seq(Mild)
  <2>1. PairOf(v, c) \in Seq(Mild)
    BY <1>4, PairMild
  <2> QED BY <1>1, <1>2, <2>1, MildIs, ConcatProperties
<1>9. rest \in Seq(Quiet)
  BY <1>2, MildIs
<1> QED BY <1>1, <1>6, <1>7, <1>8, <1>9, ThenQuiet

LEMMA EntryQuiet ==
  ASSUME NEW d \in Ino, NEW before \in Int, NEW b \in Region, NEW k \in Slots,
         NEW n \in Names, NEW i \in Ino
  PROVE  /\ EntryStores(d, before, b, k, n, i) \in Seq(Quiet)
         /\ EntryStores(d, before, b, k, n, i) \in Seq(Mild)
<1>1. [ino |-> -1, name |-> n] \in Entry /\ [ino |-> i, name |-> n] \in Entry
  BY ConstantTypes DEF Entry, Ino
<1>2. /\ << <<"data", b, k>>, [ino |-> -1, name |-> n] >> \in Calm
      /\ << <<"data", b, k>>, [ino |-> i, name |-> n] >> \in Calm
  BY <1>1 DEF Calm, DataStores, SlotStores
<1>3. << <<"itable", d, "num_entries">>, before + 1 >> \in Calm
  BY DEF Calm, EntriesStores
<1>4. EntryStores(d, before, b, k, n, i) \in Seq(Calm)
  BY <1>2, <1>3 DEF EntryStores
<1> QED BY <1>4, MildIs

LEMMA FirstExtentQuiet ==
  ASSUME CrashTypes, NEW i \in Ino, NEW r \in Nat, NEW n \in Nat
  PROVE  FirstExtent(i, r, n) \in Seq(Quiet)
<1>1. first[i] \in Extent
  BY CrashFacts
<1>2. [first[i] EXCEPT !.start = r] \in Extent /\ [start |-> r, count |-> n] \in Extent
  BY <1>1 DEF Extent
<1>3. ASSUME NEW e \in Extent
      PROVE  << <<"itable", i, "ext">>, <<e>> >> \in Quiet
  <2>1. <<e>> \in Seq(Extent) /\ Len(<<e>>) <= 1
    OBVIOUS
  <2> QED BY <2>1, ExtentQuiet
<1>4. /\ << <<"itable", i, "ext">>, <<first[i]>> >> \in Quiet
      /\ << <<"itable", i, "ext">>, << [first[i] EXCEPT !.start = r] >> >> \in Quiet
      /\ << <<"itable", i, "ext">>, << [start |-> r, count |-> n] >> >> \in Quiet
  BY <1>1, <1>2, <1>3
<1> QED BY <1>4 DEF FirstExtent

LEMMA MarkedQuiet ==
  ASSUME TypeOK, NEW b \in Region
  PROVE  Marked(b) \in Seq(Quiet)
<1>1. ASSUME NEW k \in 1 .. BlockUnits
      PROVE  << <<"data", b, k - 1>>, [data[b][k - 1] EXCEPT !.ino = -1] >> \in Quiet
  <2>1. k - 1 \in Slots
    BY A1fsAssumption DEF Slots
  <2>2. data[b][k - 1] \in Entry
    BY <2>1 DEF TypeOK
  <2>3. [data[b][k - 1] EXCEPT !.ino = -1] \in Entry
    BY <2>2, ConstantTypes DEF Entry
  <2> QED BY <2>1, <2>3 DEF Quiet, DataStores, SlotStores
<1>2. BlockUnits \in Nat
  BY A1fsAssumption
<1> QED BY <1>1, <1>2 DEF Marked

LEMMA ResetQuiet ==
  ASSUME NEW i \in Ino
  PROVE  ResetInode(i) \in Seq(Quiet) /\ ResetInode(i) \in Seq(Mild)
<1>1. << <<"itable", i, "size">>, 0 >> \in Calm
  BY DEF Calm, SizeStores
<1>2. << <<"itable", i, "ext">>, <<>> >> \in Calm
  BY DEF Calm, Emptied
<1>3. << <<"itable", i, "num_entries">>, 0 >> \in Calm
  BY DEF Calm, EntriesStores
<1>4. ResetInode(i) \in Seq(Calm)
  BY <1>1, <1>2, <1>3 DEF ResetInode
<1> QED BY <1>4, MildIs

LEMMA ZeroingQuiet ==
  ASSUME TypeOK, NEW r \in Nat, NEW s \in Nat, Run(r, BlocksFor(s)) \subseteq Region
  PROVE  Zeroing(r, s) \in Seq(Quiet)
<1>1. BlocksFor(s) \in Nat
  BY BlocksForType
<1>2. ASSUME NEW k \in 1 .. BlocksFor(s)
      PROVE  << <<"data", r + k - 1>>,
                [u \in Slots |-> IF (k - 1) * BlockUnits + u < s THEN Blank
                                 ELSE data[r + k - 1][u]] >> \in Quiet
  <2>1. r + k - 1 \in Region
    BY <1>1 DEF Run
  <2>2. data[r + k - 1] \in [Slots -> Entry] /\ Blank \in Entry
    BY <2>1, ConstantTypes DEF TypeOK
  <2>3. [u \in Slots |-> IF (k - 1) * BlockUnits + u < s THEN Blank
                         ELSE data[r + k - 1][u]] \in [Slots -> Entry]
    BY <2>2
  <2> QED BY <2>1, <2>3 DEF Quiet, DataStores, BlockStores
<1> QED BY <1>1, <1>2 DEF Zeroing

\* The end of rmdir and unlink, in an image whose blocks have been counted.
LEMMA LeaveSettles ==
  ASSUME CrashTypes, NEW d \in Ino, NEW i \in Ino, NEW freed \in Nat,
         NEW img \in ImageType, img.inode_bits = inode_bits,
         img.free_inodes_count = free_inodes_count,
         img.free_blocks_count <= free_blocks_count + freed
  PROVE  Settles(img, Leave(d, i, freed)) /\ Leave(d, i, freed) \in Seq(Mild)
<1> DEFINE ext == IF d = i THEN <<>> ELSE itable[d].ext
           entries == IF d = i THEN 0 ELSE itable[d].num_entries
           found == Naming(ext, i)
           p == FirstOf(found)
           v == inode_bits \ {i}
           c == free_inodes_count + 1
           quiet == << << <<"data", p[2], p[3]>>, [At(data, p) EXCEPT !.ino = -1] >>,
                       << <<"data", p[2], p[3]>>, Vacancy >>,
                       << <<"itable", d, "num_entries">>, entries - 1 >> >>
           free == free_blocks_count + freed + 1
           count == << << <<"free_blocks_count">>, free >> >>
<1>1. CASE i \notin inode_bits
  <2>1. Leave(d, i, freed) = <<>> /\ <<>> \in Seq(Quiet)
    BY <1>1 DEF Leave
  <2>2. <<>> \in Seq(Mild)
    OBVIOUS
  <2> QED BY <2>1, <2>2, QuietSettles
<1>2. CASE i \in inode_bits
  <2>1. Settles(img, PairOf(v, c))
        /\ Final(img, PairOf(v, c)) \in ImageType
        /\ Final(img, PairOf(v, c)).free_blocks_count = img.free_blocks_count
    <3>1. Cardinality(v) = Cardinality(inode_bits) - 1 /\ Cardinality(inode_bits) \in Nat
      BY <1>2, CrashFacts, FS_RemoveElement, FS_CardinalityType
    <3>2. v \in SUBSET Ino /\ c \in Int /\ free_inodes_count \in Int
      BY CrashFacts DEF TypeOK
    <3>3. c + Cardinality(v) = Drift(img)
          /\ Cardinality(v) - Cardinality(img.inode_bits) \in -1 .. 1
      BY <3>1, <3>2 DEF Drift
    <3> HIDE DEF v, c
    <3> QED BY <3>2, <3>3, PairSettles
  <2>4. PairOf(v, c) \in Seq(Mild)
    <3>1. v \in SUBSET Ino /\ c \in Int
      BY CrashFacts DEF TypeOK
    <3> HIDE DEF v, c
    <3> QED BY <3>1, PairMild
  <2>2. CASE found = {}
    <3>1. Leave(d, i, freed) = PairOf(v, c) \o <<>>
      BY <1>2, <2>2 DEF Leave, PairOf
    <3>2. <<>> \in Seq(Quiet) /\ <<>> \in Seq(Mild)
      OBVIOUS
    <3> HIDE DEF v, c
    <3>3. Leave(d, i, freed) \in Seq(Mild)
      BY <2>4, <3>1, <3>2, ConcatProperties
    <3> QED BY <2>1, <3>1, <3>2, <3>3, ThenQuiet
  <2>3. CASE found # {}
    <3>1. Leave(d, i, freed) = (PairOf(v, c) \o quiet) \o count
      <4> DEFINE four == << << <<"data", p[2], p[3]>>, [At(data, p) EXCEPT !.ino = -1] >>,
                            << <<"data", p[2], p[3]>>, Vacancy >>,
                            << <<"itable", d, "num_entries">>, entries - 1 >>,
                            << <<"free_blocks_count">>, free >> >>
      <4>1. Leave(d, i, freed) = PairOf(v, c) \o four
        BY <1>2, <2>3 DEF Leave, PairOf
      <4>2. PairOf(v, c) \o four = (PairOf(v, c) \o quiet) \o count
        <5> DEFINE s1 == << <<"inode_bits">>, v >>
                   s2 == << <<"free_inodes_count">>, c >>
                   s3 == << <<"data", p[2], p[3]>>, [At(data, p) EXCEPT !.ino = -1] >>
                   s4 == << <<"data", p[2], p[3]>>, Vacancy >>
                   s5 == << <<"itable", d, "num_entries">>, entries - 1 >>
                   s6 == << <<"free_blocks_count">>, free >>
        <5>1. /\ PairOf(v, c) = << s1, s2 >> /\ four = << s3, s4, s5, s6 >>
              /\ quiet = << s3, s4, s5 >> /\ count = << s6 >>
          BY DEF PairOf
        <5> HIDE DEF s1, s2, s3, s4, s5, s6, four, quiet, count, v, c
        <5>2. << s1, s2 >> \o << s3, s4, s5, s6 >>
                = (<< s1, s2 >> \o << s3, s4, s5 >>) \o << s6 >>
          OBVIOUS
        <5> QED BY <5>1, <5>2
      <4> QED BY <4>1, <4>2
    <3>2. p \in Spots
      <4>1. ext \in Seq(Extent) /\ Len(ext) <= 1
        BY CrashFacts
      <4>2. found \in SUBSET Spots
        BY <4>1, PlacesAreSpots DEF Naming
      <4> QED BY <2>3, <4>2, FirstOfExists
    <3>3. quiet \in Seq(Calm)
      <4>1. p[2] \in Region /\ p[3] \in Slots
        BY <3>2, SpotsType
      <4>2. At(data, p) \in Entry
        BY <4>1, CrashFacts DEF At, TypeOK
      <4>3. entries - 1 \in Int
        <5>1. itable[d].num_entries \in Int
          BY CrashFacts, Types, InodeFields
        <5> QED BY <5>1
      <4>4. [At(data, p) EXCEPT !.ino = -1] \in Entry /\ Vacancy \in Entry
        BY <4>2, ConstantTypes DEF Entry
      <4> HIDE DEF p, entries
      <4>5. << <<"data", p[2], p[3]>>, [At(data, p) EXCEPT !.ino = -1] >> \in Calm
            /\ << <<"data", p[2], p[3]>>, Vacancy >> \in Calm
        BY <4>1, <4>4 DEF Calm, DataStores, SlotStores
      <4>6. << <<"itable", d, "num_entries">>, entries - 1 >> \in Calm
        BY <4>3 DEF Calm, EntriesStores
      <4> QED BY <4>5, <4>6
    <3>4. free \in Nat /\ free >= img.free_blocks_count
      <4>1. img.free_blocks_count \in Nat /\ free_blocks_count \in Nat
        BY CrashFacts DEF ImageType, TypeOK
      <4> QED BY <4>1
    <3> HIDE DEF v, c, quiet, free
    <3> DEFINE h == Final(img, PairOf(v, c) \o quiet)
    <3>5. /\ Settles(img, PairOf(v, c) \o quiet) /\ h \in ImageType
          /\ h.free_blocks_count = img.free_blocks_count
      BY <2>1, <3>3, MildIs, ThenQuiet
    <3>6. Settles(h, count)
      <4> HIDE DEF h
      <4> QED BY <3>4, <3>5, CountSettles
    <3>7. Leave(d, i, freed) \in Seq(Mild)
      <4>1. << <<"free_blocks_count">>, free >> \in Mild
        BY <3>4 DEF Mild, FreeStores
      <4>2. count \in Seq(Mild)
        BY <4>1
      <4> HIDE DEF count
      <4>3. quiet \in Seq(Mild)
        BY <3>3, MildIs
      <4>4. PairOf(v, c) \o quiet \in Seq(Mild)
        BY <2>4, <4>3, ConcatProperties
      <4> QED BY <3>1, <4>2, <4>4, ConcatProperties
    <3> HIDE DEF count
    <3> QED BY <3>1, <3>5, <3>6, <3>7, SettlesJoin
  <2> QED BY <2>2, <2>3
<1> QED BY <1>1, <1>2


-----------------------------------------------------------------------------
(* The calls.                                                              *)

LEMMA BlocksOfIs ==
  ASSUME NEW r \in Nat, NEW n \in Nat
  PROVE  LET blocks == BlocksOf([start |-> r, count |-> n])
         IN  /\ blocks \in Seq(Nat) /\ Len(blocks) = n
             /\ \A k \in 1 .. n : blocks[k] = r + k - 1
             /\ \A m \in 0 .. n : /\ Firsts(blocks, m) = Run(r, m)
                                  /\ Cardinality(Firsts(blocks, m)) = m
<1> DEFINE blocks == BlocksOf([start |-> r, count |-> n])
<1>1. blocks = [k \in 1 .. n |-> r + k - 1]
  BY DEF BlocksOf
<1>2. blocks \in Seq(Nat) /\ Len(blocks) = n /\ \A k \in 1 .. n : blocks[k] = r + k - 1
  BY <1>1
<1> HIDE DEF blocks
<1>3. ASSUME NEW m \in 0 .. n
      PROVE  Firsts(blocks, m) = Run(r, m) /\ Cardinality(Firsts(blocks, m)) = m
  <2>1. ASSUME NEW b \in Run(r, m) PROVE b \in Firsts(blocks, m)
    <3>1. b - r + 1 \in 1 .. m
      BY DEF Run
    <3>2. blocks[b - r + 1] = b
      <4> DEFINE j == b - r + 1
      <4>1. j \in 1 .. n /\ r + j - 1 = b
        BY <3>1 DEF Run
      <4> HIDE DEF j
      <4>2. blocks[j] = b
        BY <1>2, <4>1
      <4> QED BY <4>2 DEF j
    <3> QED BY <3>1, <3>2 DEF Firsts
  <2>2. ASSUME NEW b \in Firsts(blocks, m) PROVE b \in Run(r, m)
    BY <1>2 DEF Firsts, Run
  <2>3. Firsts(blocks, m) = Run(r, m)
    BY <2>1, <2>2
  <2>4. r \in Int /\ r + m - 1 \in Int
    OBVIOUS
  <2>5. Cardinality(Run(r, m)) = m
    BY <2>4, FS_Interval DEF Run
  <2> QED BY <2>3, <2>5
<1> QED BY <1>2, <1>3 DEF blocks

\* A run of free blocks, as set_bits takes it.
LEMMA RunSettles ==
  ASSUME CrashTypes, NEW r \in Nat, NEW n \in Nat, n >= 1, Run(r, n) \subseteq Region,
         GetAvailableBlock(block_bits, free_blocks_count, n, r),
         NEW blocks, blocks = BlocksOf([start |-> r, count |-> n]),
         NEW img \in ImageType, img.block_bits = block_bits,
         img.free_blocks_count = free_blocks_count
  PROVE  /\ Settles(img, Flips(blocks, -1))
         /\ Final(img, Flips(blocks, -1)) \in ImageType
<1>1. blocks \in Seq(Nat) /\ Len(blocks) = n
  BY BlocksOfIs
<1>2. Firsts(blocks, n) = Run(r, n)
      /\ \A m \in 0 .. n : Cardinality(Firsts(blocks, m)) = m
  BY BlocksOfIs
<1>3. Run(r, n) \cap block_bits = {}
  BY AvailableIsFree
<1>4. NewBlocks(blocks)
  BY <1>1, <1>2, <1>3 DEF NewBlocks
<1>5. Counter(-1, Len(blocks)) >= 0
  <2>1. r \in 0 .. MaxIndex
    <3>1. r \in Region
      BY DEF Run
    <3> QED BY <3>1, ConstantTypes DEF Region
  <2>2. free_blocks_count \in Nat
    BY CrashFacts DEF TypeOK
  <2>3. free_blocks_count - n \in Nat
    BY <2>1, <2>2, GetAvailableType
  <2> QED BY <1>1, <2>2, <2>3 DEF Counter
<1>6. TypeOK /\ IsFiniteSet(block_bits)
  BY CrashFacts
<1> QED BY <1>1, <1>4, <1>5, <1>6, FlipsSettle

LEMMA MakeSettles ==
  ASSUME CrashTypes, NEW d \in Ino, NEW n \in Names, NEW i \in Ino,
         NEW mode \in {"dir", "file"}, MakeStored(d, n, i, mode)
  PROVE  \E kind, s : Settles(Image, s) /\ Call(kind, s)
<1> DEFINE t == WithInode(i, mode)
           ext == t[d].ext
           taken == TakenInode(i, mode)
           Entry2(b, k) == EntryStores(d, t[d].num_entries, b, k, n, i)
<1>1. i \in Ino \ inode_bits
  BY DEF MakeStored
<1>2. /\ Settles(Image, taken) /\ Final(Image, taken) \in ImageType
      /\ Final(Image, taken).block_bits = block_bits
      /\ Final(Image, taken).free_blocks_count = free_blocks_count
  BY <1>1, TakenSettles
<1>3. Image \in ImageType /\ itable \in TableType
  BY CrashFacts, Types
<1>4. t \in TableType
  BY <1>3, CreatedType
<1>5. t[d].num_entries \in Int /\ ext \in Seq(Extent)
  BY <1>4, InodeFields
<1>6. Len(ext) <= 1
  BY CrashFacts, ExtentsOfNewInode
<1>7. CASE /\ Vacant(ext, data) # {}
           /\ LET p == FirstOf(Vacant(ext, data))
              IN  Call("entry", taken \o Entry2(p[2], p[3]))
  <2> DEFINE p == FirstOf(Vacant(ext, data))
  <2>1. Vacant(ext, data) \in SUBSET Spots
    BY <1>5, <1>6, PlacesAreSpots DEF Vacant
  <2>2. p \in Spots
    BY <1>7, <2>1, FirstOfExists
  <2>3. Entry2(p[2], p[3]) \in Seq(Quiet)
    BY <1>5, <2>2, SpotsType, EntryQuiet
  <2> HIDE DEF p, taken
  <2>4. Settles(Image, taken \o Entry2(p[2], p[3]))
    <3> HIDE DEF Entry2
    <3> QED BY <1>2, <1>3, <2>3, ThenQuiet
  <2> QED BY <1>7, <2>4 DEF p
<1>8. CASE /\ ext = <<>>
           /\ \E r \in Region :
                /\ GetAvailableBlock(block_bits, free_blocks_count, 1, r)
                /\ Call("block",
                        taken \o FirstExtent(d, r, 1) \o Marked(r)
                          \o Flips(<<r>>, -1) \o Entry2(r, 0))
  <2>1. PICK r \in Region :
          /\ GetAvailableBlock(block_bits, free_blocks_count, 1, r)
          /\ Call("block",
                  taken \o FirstExtent(d, r, 1) \o Marked(r)
                    \o Flips(<<r>>, -1) \o Entry2(r, 0))
    BY <1>8
  <2>2. r \in Nat /\ 0 \in Slots /\ 1 \in Nat
    BY A1fsAssumption DEF Region, Slots
  <2>3. /\ FirstExtent(d, r, 1) \in Seq(Quiet) /\ Marked(r) \in Seq(Quiet)
        /\ Entry2(r, 0) \in Seq(Quiet)
    BY <1>5, <2>2, CrashFacts, FirstExtentQuiet, MarkedQuiet, EntryQuiet
  <2>4. <<r>> = BlocksOf([start |-> r, count |-> 1]) /\ Run(r, 1) \subseteq Region
    <3>1. BlocksOf([start |-> r, count |-> 1]) = [k \in 1 .. 1 |-> r + k - 1]
      BY DEF BlocksOf
    <3>2. Run(r, 1) = {r}
      BY <2>2 DEF Run
    <3>3. <<r>> = [k \in 1 .. 1 |-> r + k - 1]
      BY <2>2
    <3> QED BY <3>1, <3>2, <3>3
  <2> HIDE DEF taken, Entry2
  <2> DEFINE a == taken \o FirstExtent(d, r, 1)
             b == a \o Marked(r)
             c == b \o Flips(<<r>>, -1)
  <2>5. /\ Settles(Image, a) /\ Final(Image, a).block_bits = block_bits
        /\ Final(Image, a).free_blocks_count = free_blocks_count
    BY <1>2, <1>3, <2>3, ThenQuiet
  <2> HIDE DEF a
  <2>6. /\ Settles(Image, b) /\ Final(Image, b) \in ImageType
        /\ Final(Image, b).block_bits = block_bits
        /\ Final(Image, b).free_blocks_count = free_blocks_count
    BY <1>3, <2>3, <2>5, ThenQuiet
  <2> HIDE DEF b
  <2>7. Settles(Final(Image, b), Flips(<<r>>, -1))
    BY <2>1, <2>2, <2>4, <2>6, RunSettles
  <2>8. Settles(Image, c)
    BY <1>3, <2>6, <2>7, SettlesJoin
  <2> HIDE DEF c
  <2>9. Settles(Image, c \o Entry2(r, 0))
    BY <1>3, <2>3, <2>8, ThenQuiet
  <2> QED BY <2>1, <2>9 DEF a, b, c
<1>9. CASE Call("entry", taken)
  BY <1>2, <1>9
<1> QED BY <1>7, <1>8, <1>9 DEF MakeStored

LEMMA RmdirSettles ==
  ASSUME CrashTypes, NEW d \in Ino, NEW n \in Names, NEW i \in Ino,
         RmdirStored(d, n, i)
  PROVE  \E kind, s : Settles(Image, s) /\ Call(kind, s)
<1> DEFINE h == Final(Image, ResetInode(i))
<1>1. Image \in ImageType /\ ResetInode(i) \in Seq(Quiet)
  BY CrashFacts, ResetQuiet
<1>2. Settles(Image, ResetInode(i))
  BY <1>1, QuietSettles
<1>3. ResetInode(i) \in Seq(Store)
  BY <1>2 DEF Settles
<1>4. h \in Passed(Image, ResetInode(i))
  BY <1>1, <1>3, PassedTyped
<1>5. /\ h \in ImageType /\ h.inode_bits = inode_bits
      /\ h.free_inodes_count = free_inodes_count
      /\ h.free_blocks_count = free_blocks_count
  BY <1>1, <1>4, CrashFacts, QuietSettles
<1>6. h.free_blocks_count <= free_blocks_count + 0
  BY <1>5, CrashFacts DEF TypeOK
<1> HIDE DEF h
<1>7. Settles(h, Leave(d, i, 0))
  BY <1>5, <1>6, LeaveSettles
<1>8. Settles(Image, ResetInode(i) \o Leave(d, i, 0))
  BY <1>1, <1>2, <1>7, SettlesJoin DEF h
<1> QED BY <1>8 DEF RmdirStored

LEMMA UnlinkSettles ==
  ASSUME CrashTypes, NEW d \in Ino, NEW n \in Names, NEW i \in Ino,
         UnlinkStored(d, n, i)
  PROVE  \E kind, s : Settles(Image, s) /\ Call(kind, s)
<1> DEFINE ext == itable[i].ext
           blocks == IF ext = <<>> THEN <<>> ELSE BlocksOf(ext[1])
           a == Flips(blocks, 1)
           b == a \o ResetInode(i)
<1>1. Image \in ImageType /\ ResetInode(i) \in Seq(Quiet)
  BY CrashFacts, ResetQuiet
<1>2. blocks \in Seq(Nat)
  <2>1. CASE ext = <<>>
    BY <2>1
  <2>2. CASE ext # <<>>
    <3>1. ext[1] \in Extent
      BY <2>2, CrashFacts
    <3>2. PICK r \in Nat, c \in Nat : ext[1] = [start |-> r, count |-> c]
      BY <3>1 DEF Extent
    <3>3. BlocksOf(ext[1]) \in Seq(Nat)
      BY <3>2, BlocksOfIs
    <3> QED BY <2>2, <3>3
  <2> QED BY <2>1, <2>2
<1> HIDE DEF blocks
<1>3. Counter(1, Len(blocks)) = free_blocks_count + Len(blocks)
      /\ Len(blocks) \in Nat /\ free_blocks_count \in Nat
  BY <1>2, CrashFacts DEF Counter, TypeOK
<1>4. /\ Settles(Image, a) /\ Final(Image, a) \in ImageType
      /\ Final(Image, a).free_blocks_count = free_blocks_count + Len(blocks)
      /\ Final(Image, a).inode_bits = inode_bits
      /\ Final(Image, a).free_inodes_count = free_inodes_count
  <2>1. Counter(1, Len(blocks)) >= 0 /\ 1 \in {-1, 1} /\ 1 # -1
    BY <1>3
  <2>2. /\ TypeOK /\ IsFiniteSet(block_bits) /\ Image.block_bits = block_bits
        /\ Image.free_blocks_count = free_blocks_count
        /\ Image.inode_bits = inode_bits
        /\ Image.free_inodes_count = free_inodes_count
    BY CrashFacts
  <2> QED BY <1>1, <1>2, <1>3, <2>1, <2>2, FlipsSettle
<1> HIDE DEF a
<1>5. /\ Settles(Image, b) /\ Final(Image, b) \in ImageType
      /\ Final(Image, b).free_blocks_count = free_blocks_count + Len(blocks)
      /\ Final(Image, b).inode_bits = inode_bits
      /\ Final(Image, b).free_inodes_count = free_inodes_count
  BY <1>1, <1>4, ThenQuiet
<1> HIDE DEF b
<1>6. Final(Image, b).free_blocks_count <= free_blocks_count + Len(blocks)
  BY <1>3, <1>5
<1>7. Settles(Final(Image, b), Leave(d, i, Len(blocks)))
  BY <1>3, <1>5, <1>6, LeaveSettles
<1>8. Settles(Image, b \o Leave(d, i, Len(blocks)))
  BY <1>1, <1>5, <1>7, SettlesJoin
<1>9. Call("unlink", b \o Leave(d, i, Len(blocks)))
  BY DEF UnlinkStored, b, a, blocks
<1> QED BY <1>8, <1>9

LEMMA GrowSettles ==
  ASSUME CrashTypes, NEW f \in Ino, NEW s \in Nat, GrowStored(f, s)
  PROVE  \E kind, l : Settles(Image, l) /\ Call(kind, l)
<1> DEFINE n == BlocksFor(s)
           size == << << <<"itable", f, "size">>, s >> >>
<1>1. n \in Nat /\ n >= 1
  <2>1. s \in Int /\ s # 0 /\ ~ (s < 0)
    BY DEF GrowStored
  <2>2. Wanted(s) = n
    BY <2>1 DEF Wanted
  <2> HIDE DEF n
  <2> QED BY <2>1, <2>2, WantedType
<1>2. PICK r \in Region :
        /\ GetAvailableBlock(block_bits, free_blocks_count, n, r)
        /\ Run(r, n) \subseteq Region
        /\ Call("grow",
                FirstExtent(f, r, n)
                  \o Flips(BlocksOf([start |-> r, count |-> n]), -1)
                  \o Zeroing(r, s) \o size)
  BY DEF GrowStored
<1>3. r \in Nat
  BY DEF Region
<1>4. Image \in ImageType /\ TypeOK /\ Image.block_bits = block_bits
      /\ Image.free_blocks_count = free_blocks_count
  BY CrashFacts
<1>5. /\ FirstExtent(f, r, n) \in Seq(Quiet) /\ Zeroing(r, s) \in Seq(Quiet)
      /\ size \in Seq(Quiet)
  <2>1. << <<"itable", f, "size">>, s >> \in Quiet
    BY DEF Quiet, TableStores, SizeStores
  <2>2. FirstExtent(f, r, n) \in Seq(Quiet)
    <3> HIDE DEF n
    <3> QED BY <1>1, <1>3, FirstExtentQuiet
  <2>3. Zeroing(r, s) \in Seq(Quiet)
    BY <1>2, <1>3, <1>4, ZeroingQuiet
  <2> QED BY <2>1, <2>2, <2>3
<1> HIDE DEF n, size
<1> DEFINE a == FirstExtent(f, r, n)
           flips == Flips(BlocksOf([start |-> r, count |-> n]), -1)
           b == a \o flips
           c == b \o Zeroing(r, s)
           h == Final(Image, a)
<1>6. Settles(Image, a)
  BY <1>4, <1>5, QuietSettles
<1>7. h \in ImageType /\ h.block_bits = block_bits
      /\ h.free_blocks_count = free_blocks_count
  <2>1. a \in Seq(Store)
    BY <1>6 DEF Settles
  <2> HIDE DEF a
  <2>2. h \in Passed(Image, a)
    BY <1>4, <2>1, PassedTyped
  <2> HIDE DEF h
  <2> QED BY <1>4, <1>5, <2>2, QuietSettles DEF a
<1> HIDE DEF a
<1>8. Settles(h, flips)
  <2> HIDE DEF h
  <2> QED BY <1>1, <1>2, <1>3, <1>7, RunSettles
<1> HIDE DEF flips
<1>9. Settles(Image, b)
  BY <1>4, <1>6, <1>8, SettlesJoin
<1> HIDE DEF b
<1>10. Settles(Image, c)
  BY <1>4, <1>5, <1>9, ThenQuiet
<1> HIDE DEF c
<1>11. Settles(Image, c \o size)
  BY <1>4, <1>5, <1>10, ThenQuiet
<1> QED BY <1>2, <1>11 DEF a, b, c, flips

LEMMA ClearSettles ==
  ASSUME CrashTypes, NEW f \in Ino, ClearStored(f)
  PROVE  \E kind, s : Settles(Image, s) /\ Call(kind, s)
<1> DEFINE e == itable[f].ext[1]
           m == BlocksFor(itable[f].size)
           x == IF m < e.count THEN m ELSE e.count
           last == [k \in 1 .. x |-> e.start + e.count - k]
           rest == << << <<"itable", f, "ext">>, <<>> >>,
                      << <<"itable", f, "size">>, 0 >> >>
<1>1. e \in Extent
  BY CrashFacts DEF ClearStored
<1>2. m \in Nat
  BY CrashFacts, Types, InodeFields, BlocksForType
<1>3. x \in Nat /\ x <= e.count /\ e.start \in Nat /\ e.count \in Nat
  BY <1>1, <1>2 DEF Extent
<1>4. last \in Seq(Nat)
  <2> HIDE DEF e, x
  <2>1. \A k \in 1 .. x : e.start + e.count - k \in Nat
    BY <1>3
  <2> QED BY <1>3, <2>1
<1>5. rest \in Seq(Quiet)
  <2>1. <<>> \in Seq(Extent) /\ Len(<<>>) <= 1
    OBVIOUS
  <2>2. << <<"itable", f, "ext">>, <<>> >> \in Quiet
    BY <2>1, ExtentQuiet
  <2>3. << <<"itable", f, "size">>, 0 >> \in Quiet
    BY DEF Quiet, TableStores, SizeStores
  <2> QED BY <2>2, <2>3
<1>6. Call("clear", Flips(last, 1) \o rest)
  BY DEF ClearStored
<1> HIDE DEF last, rest
<1>7. /\ TypeOK /\ IsFiniteSet(block_bits) /\ Image.block_bits = block_bits
      /\ Image.free_blocks_count = free_blocks_count /\ Image \in ImageType
  BY CrashFacts
<1>8. Counter(1, Len(last)) >= 0 /\ 1 \in {-1, 1} /\ 1 # -1
  BY <1>4, <1>7 DEF Counter, TypeOK
<1>9. Settles(Image, Flips(last, 1))
  BY <1>4, <1>7, <1>8, FlipsSettle
<1>10. Settles(Image, Flips(last, 1) \o rest)
  BY <1>5, <1>7, <1>9, ThenQuiet
<1> QED BY <1>6, <1>10


-----------------------------------------------------------------------------
(* How far the counters come to be from the bitmaps.                       *)

Drifted ==
  /\ Drift(Image) - NInodes \in -kills .. kills
  /\ Slack(Image) >= DataBlocks - kills

\* The image after a call, whole or cut, is one of those it goes through.
LEMMA BecomesImage ==
  ASSUME CrashTypes, NEW g \in ImageType, Becomes(g),
         kills' \in Nat
  PROVE  CrashTypes' /\ Image' = g
<1>1. Image' = g
  <2>1. g = [inode_bits |-> g.inode_bits, block_bits |-> g.block_bits,
             free_inodes_count |-> g.free_inodes_count,
             free_blocks_count |-> g.free_blocks_count,
             itable |-> g.itable, data |-> g.data]
    BY DEF ImageType
  <2> QED BY <2>1 DEF Image, Becomes
<1>2. /\ g.inode_bits \in SUBSET Ino /\ g.block_bits \in SUBSET Nat
      /\ g.free_inodes_count \in Int /\ g.free_blocks_count \in Nat
      /\ g.itable \in TableType /\ g.data \in DataType
  BY DEF ImageType, ShortTable
<1>3. TypeOK'
  <2>1. job \in [ino : Ino, want : Nat] /\ TypeOK
    BY CrashFacts DEF TypeOK
  <2>2. job' = job /\ fs' \in {"up", "undefined"}
    BY DEF Becomes
  <2>3. /\ inode_bits' \in SUBSET Ino /\ block_bits' \in SUBSET Nat
        /\ free_inodes_count' \in Int /\ free_blocks_count' \in Nat
        /\ itable' \in TableType /\ data' \in DataType
    BY <1>2 DEF Becomes
  <2> QED BY <2>1, <2>2, <2>3, TypesKept
<1>4. first' \in [Ino -> Extent]
  <2>1. ASSUME NEW i \in Ino
        PROVE  (IF g.itable[i].ext = <<>> THEN first[i] ELSE g.itable[i].ext[1])
                 \in Extent
    <3>1. first[i] \in Extent
      BY CrashFacts
    <3>2. g.itable[i].ext \in Seq(Extent)
      BY <1>2, InodeFields
    <3> QED BY <3>1, <3>2
  <2> QED BY <2>1 DEF Becomes
<1> QED BY <1>1, <1>3, <1>4 DEF CrashTypes

LEMMA CallDrifts ==
  ASSUME CrashTypes, Drifted, NEW kind, NEW s, Settles(Image, s), Call(kind, s)
  PROVE  CrashTypes' /\ Drifted'
<1>1. /\ s \in Seq(Store) /\ Image \in ImageType /\ kills \in Nat
      /\ NInodes \in Nat /\ DataBlocks \in Nat
  BY CrashFacts, ConstantTypes DEF Settles, CrashTypes
<1>2. Len(s) \in Nat /\ Passed(Image, s) \subseteq ImageType
      /\ Final(Image, s) \in Passed(Image, s)
  BY <1>1, PassedTyped
<1>3. Drift(Image) \in Int /\ Slack(Image) \in Int
  BY <1>1, DriftType
<1>4. CASE Becomes(Final(Image, s)) /\ kills' = kills
  <2>1. CrashTypes' /\ Image' = Final(Image, s)
    BY <1>1, <1>2, <1>4, BecomesImage
  <2>2. Drift(Final(Image, s)) = Drift(Image)
        /\ Slack(Final(Image, s)) >= Slack(Image)
    BY DEF Settles
  <2>3. Slack(Final(Image, s)) \in Int
    BY <1>2, DriftType
  <2>4. /\ Drift(Final(Image, s)) - NInodes \in -kills' .. kills'
        /\ Slack(Final(Image, s)) >= DataBlocks - kills'
    BY <1>1, <1>3, <1>4, <2>2, <2>3 DEF Drifted
  <2>5. Drifted'
    BY <2>1, <2>4 DEF Drifted, Drift, Slack
  <2> QED BY <2>1, <2>5
<1>5. CASE /\ \E k \in 1 .. (Len(s) - 1) : Becomes(Images(Image, s)[k])
           /\ kills' = kills + 1
  <2>1. PICK g \in Passed(Image, s) : Becomes(g)
    <3>1. PICK k \in 1 .. (Len(s) - 1) : Becomes(Images(Image, s)[k])
      BY <1>5
    <3>2. k \in 0 .. Len(s)
      BY <1>2
    <3> QED BY <3>1, <3>2 DEF Passed
  <2>2. CrashTypes' /\ Image' = g
    BY <1>1, <1>2, <1>5, <2>1, BecomesImage
  <2>3. Drift(g) - Drift(Image) \in -1 .. 1 /\ Slack(g) >= Slack(Image) - 1
    BY DEF Settles
  <2>4. Drift(g) \in Int /\ Slack(g) \in Int
    BY <1>2, DriftType
  <2>5. /\ Drift(g) - NInodes \in -kills' .. kills'
        /\ Slack(g) >= DataBlocks - kills'
    <3>1. /\ Drift(Image) - NInodes >= -kills /\ Drift(Image) - NInodes <= kills
          /\ Slack(Image) >= DataBlocks - kills
      BY <1>1, <1>3 DEF Drifted
    <3>2. Drift(g) - Drift(Image) >= -1 /\ Drift(g) - Drift(Image) <= 1
      BY <2>3
    <3>3. kills' = kills + 1
      BY <1>5
    <3>4. /\ Drift(g) - NInodes >= -(kills + 1) /\ Drift(g) - NInodes <= kills + 1
          /\ Slack(g) >= DataBlocks - (kills + 1)
      BY <1>1, <1>3, <2>3, <2>4, <3>1, <3>2
    <3>5. Drift(g) - NInodes \in -(kills + 1) .. (kills + 1)
      BY <1>1, <2>4, <3>4
    <3> QED BY <3>3, <3>4, <3>5
  <2>6. Drifted'
    BY <2>2, <2>5 DEF Drifted, Drift, Slack
  <2> QED BY <2>2, <2>6
<1> QED BY <1>4, <1>5 DEF Call, Final

Kinds == {"entry", "block", "rmdir", "unlink", "grow", "clear"}

\* A call of which every store is seen.
LEMMA StoredCalls ==
  ASSUME StoredCall
  PROVE  \E kind \in Kinds : \E s : Call(kind, s)
<1>1. ASSUME NEW d, NEW n, NEW i, NEW mode, MakeStored(d, n, i, mode)
      PROVE  \E kind \in Kinds : \E s : Call(kind, s)
  BY <1>1 DEF MakeStored, Kinds
<1>2. ASSUME NEW d, NEW n, NEW i, RmdirStored(d, n, i) \/ UnlinkStored(d, n, i)
      PROVE  \E kind \in Kinds : \E s : Call(kind, s)
  BY <1>2 DEF RmdirStored, UnlinkStored, Kinds
<1>3. ASSUME NEW f, ClearStored(f) \/ \E s \in Sizes : GrowStored(f, s)
      PROVE  \E kind \in Kinds : \E s : Call(kind, s)
  BY <1>3 DEF ClearStored, GrowStored, Kinds
<1> QED BY <1>1, <1>2, <1>3 DEF StoredCall

\* A step until another call than the orderly ones comes, ...
StoredNext == StoredCall \/ Ends \/ UNCHANGED crashvars

\* ... from where on there are but those.
LEMMA AnyStays ==
  ASSUME [CrashNext]_crashvars
  PROVE  /\ cut \subseteq cut'
         /\ "any" \notin cut' => StoredNext
         /\ "any" \in cut' => AnyCall \/ UNCHANGED crashvars
<1>1. CASE UNCHANGED crashvars
  BY <1>1 DEF crashvars, StoredNext
<1>2. CASE StoredCall
  <2>1. PICK kind \in Kinds : \E s : Call(kind, s)
    BY <1>2, StoredCalls
  <2>2. /\ "any" \notin cut /\ kind # "any"
        /\ cut' = cut \/ cut' = cut \cup {kind}
    BY <2>1 DEF Call, Kinds
  <2> QED BY <1>2, <2>2 DEF StoredNext
<1>3. CASE Ends
  BY <1>3 DEF Ends, StoredNext
<1>4. CASE AnyCall
  BY <1>4 DEF AnyCall
<1> QED BY <1>1, <1>2, <1>3, <1>4 DEF CrashNext

\* The calls that lead out of the model leave the image as it is.
LEMMA EndsKeeps ==
  ASSUME TypeOK, Ends
  PROVE  /\ NextOrderly /\ fs' # "up" /\ TypeOK' /\ Image' = Image
         /\ UNCHANGED <<inode_bits, block_bits, free_inodes_count,
                        free_blocks_count, itable, data, first, kills, cut>>
<1>1. ASSUME NEW d \in Dirs, NEW n \in Names, NEW i \in Ino,
             itable[d].ext = <<>>, AddEntryFault(d, n, i, "file")
      PROVE  /\ NextOrderly /\ fs' # "up"
             /\ UNCHANGED <<bitmaps, counters, itable, data>>
  <2>1. NextOrderly
    BY <1>1 DEF NextOrderly
  <2> QED BY <1>1, <2>1 DEF AddEntryFault
<1>2. ASSUME NEW f \in Files, NEW s \in Sizes, itable[f].ext = <<>>,
             ExtendFault(f, s) \/ ExtendSpins(f, s)
      PROVE  /\ NextOrderly /\ fs' # "up"
             /\ UNCHANGED <<bitmaps, counters, itable, data>>
  <2>1. NextOrderly
    BY <1>2 DEF NextOrderly
  <2>2. CASE ExtendFault(f, s)
    BY <2>1, <2>2 DEF ExtendFault
  <2>3. CASE ExtendSpins(f, s)
    <3>1. data' = data
      BY <1>2, <2>3 DEF ExtendSpins, DataFor, FillsUp
    <3> QED BY <2>1, <2>3, <3>1 DEF ExtendSpins
  <2> QED BY <1>2, <2>2, <2>3
<1>3. /\ NextOrderly /\ fs' # "up" /\ UNCHANGED <<first, kills, cut>>
      /\ UNCHANGED <<bitmaps, counters, itable, data>>
  BY <1>1, <1>2 DEF Ends
<1>4. TypeOK'
  <2>1. [Next]_vars
    BY <1>3 DEF NextOrderly, Next
  <2> QED BY <2>1, StepTypes
<1>5. Image' = Image
  BY <1>3 DEF Image, bitmaps, counters
<1> QED BY <1>3, <1>4, <1>5 DEF bitmaps, counters

LEMMA StoredStep ==
  ASSUME CrashTypes, Drifted, StoredNext
  PROVE  CrashTypes' /\ Drifted'
<1>1. CASE UNCHANGED crashvars
  <2>1. UNCHANGED <<inode_bits, block_bits, free_inodes_count, free_blocks_count,
                    itable, data, fs, job, first, kills>>
    BY <1>1 DEF crashvars, vars, bitmaps, counters
  <2>2. Image' = Image
    BY <2>1 DEF Image
  <2>3. TypeOK'
    BY <2>1 DEF CrashTypes, TypeOK
  <2>4. CrashTypes'
    BY <2>1, <2>2, <2>3 DEF CrashTypes
  <2>5. Drifted'
    BY <2>1, <2>2 DEF Drifted, Drift, Slack
  <2> QED BY <2>4, <2>5
<1>2. Dirs \subseteq Ino /\ Files \subseteq Ino /\ Sizes \subseteq Nat
  BY A1fsAssumption DEF Dirs, Files
<1>3. CASE StoredCall
  <2>1. \E kind, s : Settles(Image, s) /\ Call(kind, s)
    BY <1>2, <1>3, MakeSettles, RmdirSettles, UnlinkSettles, GrowSettles,
       ClearSettles DEF StoredCall
  <2> QED BY <2>1, CallDrifts
<1>4. CASE Ends
  <2>1. TypeOK' /\ Image' = Image /\ first' = first /\ kills' = kills
    BY <1>4, EndsKeeps DEF CrashTypes
  <2>2. CrashTypes'
    BY <2>1 DEF CrashTypes
  <2>3. Drifted'
    BY <2>1 DEF Drifted, Drift, Slack
  <2> QED BY <2>2, <2>3
<1> QED BY <1>1, <1>3, <1>4 DEF StoredNext

\* Any call keeps the types, and the inode counter as near as it was.
LEMMA AnyKeeps ==
  ASSUME TypeOK, AnyCall
  PROVE  TypeOK' /\ AccountKept
<1>1. CASE Next
  BY <1>1, StepTypes, StepAccounting
<1>2. ASSUME NEW f \in Files, EmptyAgain(f)
      PROVE  TypeOK' /\ AccountKept
  <2> DEFINE ext == << [start |-> 0, count |-> 0] >>
             t == [itable EXCEPT ![f].ext = ext]
             u == [t EXCEPT ![f].size = 0]
  <2>1. f \in Ino /\ itable \in TableType /\ ext \in Seq(Extent)
    BY Types DEF Files, Extent
  <2>2. t \in TableType
    <3> HIDE DEF ext
    <3> QED BY <2>1 DEF TableType, Inode
  <2>3. u \in TableType
    <3> HIDE DEF t
    <3> QED BY <2>1, <2>2 DEF TableType, Inode
  <2>4. itable' = u
    BY <1>2, <2>1 DEF EmptyAgain, TableType, Inode
  <2> HIDE DEF u
  <2>5. TypeOK'
    BY <1>2, <2>3, <2>4, Types, TypesKept DEF EmptyAgain, bitmaps, counters
  <2>6. AccountKept
    BY <1>2 DEF EmptyAgain, bitmaps, counters, AccountKept
  <2> QED BY <2>5, <2>6
<1> QED BY <1>1, <1>2 DEF AnyCall, NextOrEmpty

LEMMA CrashStart ==
  ASSUME CrashInit
  PROVE  CrashTypes /\ Drifted
<1>1. TypeOK /\ Init
  BY InitTypes DEF CrashInit
<1>2. /\ IsFiniteSet(block_bits) /\ Cardinality(block_bits) = 0
      /\ Cardinality(inode_bits) = 1
  BY <1>1, FS_EmptySet, FS_Singleton DEF Init
<1>3. itable \in ShortTable
  <2>1. itable \in TableType
    BY <1>1, Types
  <2>2. ASSUME NEW i \in Ino PROVE Len(itable[i].ext) <= 1
    <3> DEFINE zero == <<[start |-> 0, count |-> 0]>>
    <3>1. Len(zero) <= 1 /\ Len(<<>>) <= 1
      OBVIOUS
    <3> HIDE DEF zero
    <3>2. itable[i].ext = <<>> \/ itable[i].ext = zero
      BY <1>1 DEF Init, Created, zero
    <3> QED BY <3>1, <3>2, Zenon
  <2> QED BY <2>1, <2>2 DEF ShortTable
<1>4. Image \in ImageType
  BY <1>1, <1>2, <1>3 DEF Image, ImageType, TypeOK, DataType
<1>5. first \in [Ino -> Extent] /\ kills = 0
  BY DEF CrashInit, Extent
<1>6. CrashTypes
  BY <1>1, <1>4, <1>5 DEF CrashTypes
<1>7. Drift(Image) = NInodes /\ Slack(Image) = DataBlocks
      /\ NInodes \in Nat /\ DataBlocks \in Nat
  <2>1. Drift(Image) = free_inodes_count + Cardinality(inode_bits)
        /\ Slack(Image) = free_blocks_count + Cardinality(block_bits)
    BY DEF Drift, Slack, Image
  <2>2. free_inodes_count = NInodes - 1 /\ free_blocks_count = DataBlocks
    BY <1>1 DEF Init
  <2> QED BY <1>2, <2>1, <2>2, ConstantTypes
<1>8. Drifted
  BY <1>5, <1>7 DEF Drifted
<1> QED BY <1>6, <1>8

\* What holds after every call: the inode counter is near the bitmap, and until
\* there is another call than the orderly ones, so is the block counter.
Near == (free_inodes_count + Cardinality(inode_bits)) - NInodes \in -kills .. kills

Always ==
  /\ TypeOK /\ kills \in Nat /\ Near
  /\ "any" \notin cut => CrashTypes /\ Drifted

LEMMA DriftIsNear ==
  /\ CrashTypes /\ Drifted => TypeOK /\ kills \in Nat /\ Near
  /\ CrashTypes' /\ Drifted' => TypeOK' /\ kills' \in Nat /\ Near'
<1>1. /\ Drift(Image) = free_inodes_count + Cardinality(inode_bits)
      /\ Drift(Image)' = free_inodes_count' + Cardinality(inode_bits')
  BY DEF Drift, Image
<1>2. Drifted => Near
  BY <1>1, Zenon DEF Drifted, Near
<1>3. Drifted' => Near'
  BY <1>1, Zenon DEF Drifted, Near
<1>4. CrashTypes => TypeOK /\ kills \in Nat
  BY DEF CrashTypes
<1>5. CrashTypes' => TypeOK' /\ kills' \in Nat
  BY DEF CrashTypes
<1> QED BY <1>2, <1>3, <1>4, <1>5

LEMMA AlwaysStep ==
  ASSUME Always, [CrashNext]_crashvars
  PROVE  Always'
<1>1. CASE "any" \notin cut'
  <2>1. CrashTypes /\ Drifted /\ StoredNext
    BY <1>1, AnyStays DEF Always
  <2>2. CrashTypes' /\ Drifted'
    BY <2>1, StoredStep
  <2> QED BY <2>2, DriftIsNear DEF Always
<1>2. CASE "any" \in cut'
  <2>1. AnyCall \/ UNCHANGED crashvars
    BY <1>2, AnyStays
  <2>2. CASE AnyCall
    <3>1. TypeOK' /\ AccountKept /\ kills' = kills
      BY <2>2, AnyKeeps DEF Always, AnyCall
    <3>2. Near'
      <4>1. /\ free_inodes_count' + Cardinality(inode_bits')
                 = free_inodes_count + Cardinality(inode_bits)
            /\ Near
        BY <3>1 DEF AccountKept, Always
      <4>2. /\ free_inodes_count \in Int /\ free_inodes_count' \in Int
            /\ Cardinality(inode_bits) \in Nat /\ Cardinality(inode_bits') \in Nat
            /\ NInodes \in Nat /\ kills \in Nat
        BY <3>1, BitsFinite, ConstantTypes DEF Always, TypeOK
      <4> QED BY <3>1, <4>1, <4>2 DEF Near
    <3> QED BY <1>2, <3>1, <3>2 DEF Always
  <2>3. CASE UNCHANGED crashvars
    <3>1. UNCHANGED <<inode_bits, block_bits, free_inodes_count,
                      free_blocks_count, itable, data, fs, job, kills>>
      BY <2>3 DEF crashvars, vars, bitmaps, counters
    <3>2. TypeOK'
      BY <3>1 DEF Always, TypeOK
    <3>3. Near'
      BY <3>1 DEF Always, Near
    <3> QED BY <1>2, <3>1, <3>2, <3>3 DEF Always
  <2> QED BY <2>1, <2>2, <2>3
<1> QED BY <1>1, <1>2

LEMMA DriftFollows ==
  ASSUME Always
  PROVE  InodeDrift /\ FreeDrift
<1>1. /\ Cardinality(inode_bits) \in Nat
      /\ kills \in Nat /\ NInodes \in Nat /\ DataBlocks \in Nat
      /\ free_inodes_count \in Int /\ free_blocks_count \in Nat
  BY Types, BitsFinite, ConstantTypes DEF Always
<1>2. InodeDrift
  BY <1>1 DEF Always, Near, InodeDrift
<1>3. ASSUME "any" \notin cut PROVE FreeDrift
  <2>1. CrashTypes /\ Drifted
    BY <1>3 DEF Always
  <2>2. Cardinality(block_bits) \in Nat
    BY <2>1, CrashFacts, FS_CardinalityType
  <2>3. Slack(Image) = free_blocks_count + Cardinality(block_bits)
    BY DEF Slack, Image
  <2> QED BY <1>1, <2>1, <2>2, <2>3 DEF Drifted, FreeDrift
<1> QED BY <1>2, <1>3 DEF FreeDrift

LEMMA DriftInvariant == CrashSpec => []Always
<1>1. CrashInit => Always
  BY CrashStart, DriftIsNear DEF Always
<1>2. Always /\ [CrashNext]_crashvars => Always'
  BY AlwaysStep
<1> QED BY <1>1, <1>2, PTL DEF CrashSpec

\* Whatever calls were killed, and after whichever of their stores, and whatever
\* calls were made since, the inode counter is off by one at most for every
\* kill (util.h:144-151).
THEOREM InodesDriftByKills == CrashSpec => []InodeDrift
<1>1. Always => InodeDrift
  BY DriftFollows
<1> QED BY <1>1, DriftInvariant, PTL

\* ... and what the free-block counter understates is one block at most for
\* every kill, as long as no other call than the orderly ones is made, so that
\* a call fails for lack of blocks only when the bitmap has that many fewer
\* (util.h:155-172).
THEOREM BlocksDriftByKills == CrashSpec => []FreeDrift
<1>1. Always => FreeDrift
  BY DriftFollows
<1> QED BY <1>1, DriftInvariant, PTL


-----------------------------------------------------------------------------
(* What the lists of stores make of an image.                              *)

LEMMA FinalOfLength ==
  ASSUME NEW img, NEW s, Len(s) \in 1 .. 4
  PROVE  LET put(k, g) == IF k <= Len(s) THEN Put(g, s[k]) ELSE g
         IN  Final(img, s) = put(4, put(3, put(2, put(1, img))))
<1> DEFINE im == Images(img, s)
<1>1. Len(s) \in Nat /\ im[0] = img
  BY ImagesUnfold
<1>2. \A k \in 1 .. Len(s) : im[k] = Put(im[k - 1], s[k])
  BY <1>1, StoreAt
<1>3. Final(img, s) = im[Len(s)]
  BY DEF Final
<1> HIDE DEF im
<1>4. im[1] = Put(img, s[1])
  BY <1>1, <1>2
<1>5. 2 <= Len(s) => im[2] = Put(im[1], s[2])
  BY <1>1, <1>2
<1>6. 3 <= Len(s) => im[3] = Put(im[2], s[3])
  BY <1>1, <1>2
<1>7. 4 <= Len(s) => im[4] = Put(im[3], s[4])
  BY <1>1, <1>2
<1>8. CASE Len(s) = 1
  BY <1>3, <1>4, <1>8
<1>9. CASE Len(s) = 2
  BY <1>3, <1>4, <1>5, <1>9
<1>10. CASE Len(s) = 3
  BY <1>3, <1>4, <1>5, <1>6, <1>10
<1>11. CASE Len(s) = 4
  BY <1>3, <1>4, <1>5, <1>6, <1>7, <1>11
<1> QED BY <1>8, <1>9, <1>10, <1>11

LEMMA FinalOne ==
  ASSUME NEW img, NEW a
  PROVE  Final(img, <<a>>) = Put(img, a)
<1> DEFINE s == <<a>>
<1>1. Len(s) = 1 /\ s[1] = a
  OBVIOUS
<1> HIDE DEF s
<1>2. Final(img, s) = Put(img, a)
  BY <1>1, FinalOfLength
<1> QED BY <1>2 DEF s

LEMMA FinalTwo ==
  ASSUME NEW img, NEW a, NEW b
  PROVE  Final(img, <<a, b>>) = Put(Put(img, a), b)
<1> DEFINE s == <<a, b>>
<1>1. Len(s) = 2 /\ s[1] = a /\ s[2] = b
  OBVIOUS
<1> HIDE DEF s
<1>2. Final(img, s) = Put(Put(img, a), b)
  BY <1>1, FinalOfLength
<1> QED BY <1>2 DEF s

LEMMA FinalThree ==
  ASSUME NEW img, NEW a, NEW b, NEW c
  PROVE  Final(img, <<a, b, c>>) = Put(Put(Put(img, a), b), c)
<1> DEFINE s == <<a, b, c>>
<1>1. Len(s) = 3 /\ s[1] = a /\ s[2] = b /\ s[3] = c
  OBVIOUS
<1> HIDE DEF s
<1>2. Final(img, s) = Put(Put(Put(img, a), b), c)
  BY <1>1, FinalOfLength
<1> QED BY <1>2 DEF s

LEMMA FinalFour ==
  ASSUME NEW img, NEW a, NEW b, NEW c, NEW e
  PROVE  Final(img, <<a, b, c, e>>) = Put(Put(Put(Put(img, a), b), c), e)
<1> DEFINE s == <<a, b, c, e>>
<1>1. Len(s) = 4 /\ s[1] = a /\ s[2] = b /\ s[3] = c /\ s[4] = e
  OBVIOUS
<1> HIDE DEF s
<1>2. Final(img, s) = Put(Put(Put(Put(img, a), b), c), e)
  BY <1>1, FinalOfLength
<1> QED BY <1>2 DEF s

\* The rest of an image.
SameCounts(g, h) ==
  /\ g.inode_bits = h.inode_bits /\ g.block_bits = h.block_bits
  /\ g.free_inodes_count = h.free_inodes_count
  /\ g.free_blocks_count = h.free_blocks_count

LEMMA FieldStored ==
  ASSUME NEW img \in ImageType, NEW i, NEW f, NEW v
  PROVE  LET g == Put(img, << <<"itable", i, f>>, v >>)
         IN  /\ g.itable = [img.itable EXCEPT ![i] = [@ EXCEPT ![f] = v]]
             /\ g.data = img.data /\ SameCounts(g, img)
<1>1. Put(img, << <<"itable", i, f>>, v >>) = [img EXCEPT !.itable[i][f] = v]
  BY SMT DEF Put
<1>2. [img EXCEPT !.itable[i][f] = v]
        = [img EXCEPT !.itable = [img.itable EXCEPT ![i] = [@ EXCEPT ![f] = v]]]
  BY DEF ImageType
<1> QED BY <1>1, <1>2 DEF ImageType, SameCounts

LEMMA SlotStored ==
  ASSUME NEW img \in ImageType, NEW b, NEW k, NEW v
  PROVE  LET g == Put(img, << <<"data", b, k>>, v >>)
         IN  /\ g.data = [img.data EXCEPT ![b][k] = v]
             /\ g.itable = img.itable /\ SameCounts(g, img)
<1>1. Put(img, << <<"data", b, k>>, v >>) = [img EXCEPT !.data[b][k] = v]
  BY SMT DEF Put
<1>2. [img EXCEPT !.data[b][k] = v]
        = [img EXCEPT !.data = [img.data EXCEPT ![b][k] = v]]
  BY DEF ImageType
<1> QED BY <1>1, <1>2 DEF ImageType, SameCounts

LEMMA BlockStored ==
  ASSUME NEW img \in ImageType, NEW b, NEW v
  PROVE  LET g == Put(img, << <<"data", b>>, v >>)
         IN  /\ g.data = [img.data EXCEPT ![b] = v]
             /\ g.itable = img.itable /\ SameCounts(g, img)
<1>1. Put(img, << <<"data", b>>, v >>) = [img EXCEPT !.data[b] = v]
  BY SMT DEF Put
<1>2. [img EXCEPT !.data[b] = v] = [img EXCEPT !.data = [img.data EXCEPT ![b] = v]]
  BY DEF ImageType
<1> QED BY <1>1, <1>2 DEF ImageType, SameCounts

LEMMA PairFinal ==
  ASSUME NEW img \in ImageType, NEW v \in SUBSET Ino, NEW c \in Int
  PROVE  LET g == Final(img, PairOf(v, c))
         IN  /\ g \in ImageType
             /\ g.inode_bits = v /\ g.free_inodes_count = c
             /\ g.block_bits = img.block_bits
             /\ g.free_blocks_count = img.free_blocks_count
             /\ g.itable = img.itable /\ g.data = img.data
<1> DEFINE a == << <<"inode_bits">>, v >>
           b == << <<"free_inodes_count">>, c >>
           x == Put(img, a)
           y == Put(x, b)
<1>1. a \in Store /\ b \in Store
  BY DEF Store, BitStores, CountStores
<1>2. x = [img EXCEPT !.inode_bits = v]
  BY PutLeaf
<1>3. y = [x EXCEPT !.free_inodes_count = c]
  BY PutLeaf
<1> HIDE DEF a, b
<1>4. Final(img, <<a, b>>) = y
  BY FinalTwo
<1>5. x \in ImageType
  BY <1>1, PutTyped
<1> HIDE DEF x
<1>6. y \in ImageType
  BY <1>1, <1>5, PutTyped
<1> HIDE DEF y
<1>7. PairOf(v, c) = <<a, b>>
  BY DEF PairOf, a, b
<1>8. /\ y.inode_bits = v /\ y.free_inodes_count = c
      /\ y.block_bits = img.block_bits
      /\ y.free_blocks_count = img.free_blocks_count
      /\ y.itable = img.itable /\ y.data = img.data
  BY <1>2, <1>3, <1>5 DEF ImageType
<1> QED BY <1>4, <1>6, <1>7, <1>8

\* What one store to an inode makes of it.
WithField(inode, f, v) == [inode EXCEPT ![f] = v]

FieldSet(g, img, i, f, v) ==
  /\ g \in ImageType /\ g.data = img.data /\ SameCounts(g, img)
  /\ g.itable[i] = WithField(img.itable[i], f, v)
  /\ \A j \in Ino \ {i} : g.itable[j] = img.itable[j]

LEMMA FieldPut ==
  ASSUME NEW img \in ImageType, NEW i \in Ino, NEW f, NEW v,
         << <<"itable", i, f>>, v >> \in Store
  PROVE  FieldSet(Put(img, << <<"itable", i, f>>, v >>), img, i, f, v)
<1> DEFINE g == Put(img, << <<"itable", i, f>>, v >>)
<1>1. g \in ImageType
  BY PutTyped
<1>2. /\ g.itable = [img.itable EXCEPT ![i] = [@ EXCEPT ![f] = v]]
      /\ g.data = img.data /\ SameCounts(g, img)
  BY FieldStored
<1> HIDE DEF g
<1>3. DOMAIN img.itable = Ino
  BY DEF ImageType, ShortTable, TableType
<1>4. /\ g.itable[i] = [img.itable[i] EXCEPT ![f] = v]
      /\ \A j \in Ino \ {i} : g.itable[j] = img.itable[j]
  BY <1>2, <1>3
<1>5. FieldSet(g, img, i, f, v)
  BY <1>1, <1>2, <1>4 DEF WithField, FieldSet
<1> QED BY <1>5 DEF g

LEMMA SameTables ==
  ASSUME NEW t \in TableType, NEW u \in TableType, \A j \in Ino : t[j] = u[j]
  PROVE  t = u
BY DEF TableType

LEMMA ImageParts ==
  ASSUME NEW img \in ImageType
  PROVE  /\ img.itable \in TableType /\ img.data \in DataType
         /\ \A j \in Ino : img.itable[j] \in Inode
BY DEF ImageType, ShortTable, TableType

\* The stores of create_inode.
FreshInode(i, mode) ==
  << << <<"itable", i, "mode">>, mode >>, << <<"itable", i, "size">>, 0 >>,
     << <<"itable", i, "ext">>, <<>> >>, << <<"itable", i, "num_entries">>, 0 >> >>

LEMMA FreshInodeFinal ==
  ASSUME NEW img \in ImageType, NEW i \in Ino, NEW mode \in {"dir", "file"}
  PROVE  LET g == Final(img, FreshInode(i, mode))
         IN  /\ g \in ImageType /\ g.data = img.data /\ SameCounts(g, img)
             /\ g.itable = [img.itable EXCEPT ![i] = Created(mode)]
             /\ FreshInode(i, mode) \in Seq(Calm)
<1> DEFINE a == << <<"itable", i, "mode">>, mode >>
           b == << <<"itable", i, "size">>, 0 >>
           c == << <<"itable", i, "ext">>, <<>> >>
           e == << <<"itable", i, "num_entries">>, 0 >>
           p == Put(img, a)
           q == Put(p, b)
           r == Put(q, c)
           g == Put(r, e)
<1>1. a \in Calm /\ b \in Calm /\ c \in Calm /\ e \in Calm
  BY DEF Calm, Emptied, ModeStores, SizeStores, EntriesStores
<1>2. a \in Store /\ b \in Store /\ c \in Store /\ e \in Store
  BY <1>1, MildIs
<1>3. FieldSet(p, img, i, "mode", mode)
  BY <1>2, FieldPut
<1> HIDE DEF p
<1>4. FieldSet(q, p, i, "size", 0)
  BY <1>2, <1>3, FieldPut DEF FieldSet
<1> HIDE DEF q
<1>5. FieldSet(r, q, i, "ext", <<>>)
  BY <1>2, <1>4, FieldPut DEF FieldSet
<1> HIDE DEF r
<1>6. FieldSet(g, r, i, "num_entries", 0)
  BY <1>2, <1>5, FieldPut DEF FieldSet
<1> HIDE DEF g, a, b, c, e
<1>7. Final(img, <<a, b, c, e>>) = g
  BY FinalFour DEF p, q, r, g
<1>8. g.itable[i] = Created(mode)
  <2>1. img.itable[i] \in Inode
    BY ImageParts
  <2> QED BY <1>3, <1>4, <1>5, <1>6, <2>1 DEF Created, Inode, WithField, FieldSet
<1>9. g.itable = [img.itable EXCEPT ![i] = Created(mode)]
  <2> DEFINE t == [img.itable EXCEPT ![i] = Created(mode)]
  <2>1. img.itable \in TableType /\ g.itable \in TableType
    BY <1>6, ImageParts DEF FieldSet
  <2>2. Created(mode) \in Inode
    BY <1>6, <1>8, ImageParts DEF FieldSet
  <2>3. t \in TableType /\ t[i] = Created(mode)
        /\ \A j \in Ino \ {i} : t[j] = img.itable[j]
    BY <2>1, <2>2 DEF TableType
  <2>4. \A j \in Ino : g.itable[j] = t[j]
    BY <1>3, <1>4, <1>5, <1>6, <1>8, <2>3 DEF FieldSet
  <2> HIDE DEF t
  <2>5. g.itable = t
    BY <2>1, <2>3, <2>4, SameTables
  <2> QED BY <2>5 DEF t
<1>10. FreshInode(i, mode) = <<a, b, c, e>>
  BY DEF FreshInode, a, b, c, e
<1>11. g.data = img.data /\ SameCounts(g, img)
  BY <1>3, <1>4, <1>5, <1>6 DEF SameCounts, FieldSet
<1>12. <<a, b, c, e>> \in Seq(Calm)
  BY <1>1
<1> QED BY <1>6, <1>7, <1>9, <1>10, <1>11, <1>12 DEF FieldSet

\* A new inode is two stores and create_inode.
LEMMA TakenIs ==
  ASSUME NEW i, NEW mode
  PROVE  TakenInode(i, mode)
           = PairOf(inode_bits \cup {i}, free_inodes_count - 1)
               \o FreshInode(i, mode)
<1> DEFINE s1 == << <<"inode_bits">>, inode_bits \cup {i} >>
           s2 == << <<"free_inodes_count">>, free_inodes_count - 1 >>
           s3 == << <<"itable", i, "mode">>, mode >>
           s4 == << <<"itable", i, "size">>, 0 >>
           s5 == << <<"itable", i, "ext">>, <<>> >>
           s6 == << <<"itable", i, "num_entries">>, 0 >>
<1>1. /\ TakenInode(i, mode) = << s1, s2, s3, s4, s5, s6 >>
      /\ PairOf(inode_bits \cup {i}, free_inodes_count - 1) = << s1, s2 >>
      /\ FreshInode(i, mode) = << s3, s4, s5, s6 >>
  BY DEF TakenInode, PairOf, FreshInode
<1> HIDE DEF s1, s2, s3, s4, s5, s6
<1>2. << s1, s2, s3, s4, s5, s6 >> = << s1, s2 >> \o << s3, s4, s5, s6 >>
  OBVIOUS
<1> QED BY <1>1, <1>2

LEMMA TakenFinal ==
  ASSUME CrashTypes, NEW i \in Ino \ inode_bits, NEW mode \in {"dir", "file"}
  PROVE  LET g == Final(Image, TakenInode(i, mode))
         IN  /\ g \in ImageType /\ g.data = data
             /\ g.itable = WithInode(i, mode)
             /\ g.inode_bits = inode_bits \cup {i}
             /\ g.free_inodes_count = free_inodes_count - 1
             /\ g.block_bits = block_bits
             /\ g.free_blocks_count = free_blocks_count
<1> DEFINE v == inode_bits \cup {i}
           c == free_inodes_count - 1
           pair == PairOf(v, c)
           fresh == FreshInode(i, mode)
           h == Final(Image, pair)
           g == Final(h, fresh)
<1>1. v \in SUBSET Ino /\ c \in Int
  BY CrashFacts DEF TypeOK
<1>2. TakenInode(i, mode) = pair \o fresh
  BY TakenIs
<1>3. pair \in Seq(Store)
  BY <1>1, PairMild, MildIs
<1>4. /\ h \in ImageType
      /\ h.inode_bits = v /\ h.free_inodes_count = c
      /\ h.block_bits = block_bits /\ h.free_blocks_count = free_blocks_count
      /\ h.itable = itable /\ h.data = data
  BY <1>1, CrashFacts, PairFinal
<1> HIDE DEF h
<1>5. fresh \in Seq(Store)
  BY <1>4, FreshInodeFinal, MildIs
<1>6. /\ g \in ImageType /\ g.data = h.data /\ SameCounts(g, h)
      /\ g.itable = [h.itable EXCEPT ![i] = Created(mode)]
  BY <1>4, FreshInodeFinal
<1> HIDE DEF g, pair, fresh
<1>7. Final(Image, pair \o fresh) = g
  BY <1>3, <1>5, Joined DEF h, g
<1> QED BY <1>2, <1>4, <1>6, <1>7 DEF SameCounts, WithInode

SlotSet(g, img, b, k, v) ==
  /\ g \in ImageType /\ g.data = [img.data EXCEPT ![b][k] = v]
  /\ g.itable = img.itable /\ SameCounts(g, img)

LEMMA SlotPut ==
  ASSUME NEW img \in ImageType, NEW b, NEW k, NEW v,
         << <<"data", b, k>>, v >> \in Store
  PROVE  SlotSet(Put(img, << <<"data", b, k>>, v >>), img, b, k, v)
BY PutTyped, SlotStored DEF SlotSet

\* The entry is in its place, and counted.
EntrySet(g, img, d, before, b, k, n, i) ==
  /\ g \in ImageType /\ SameCounts(g, img)
  /\ g.data = [img.data EXCEPT ![b][k] = [ino |-> i, name |-> n]]
  /\ g.itable[d] = WithField(img.itable[d], "num_entries", before + 1)
  /\ \A j \in Ino \ {d} : g.itable[j] = img.itable[j]

LEMMA EntryFinal ==
  ASSUME NEW img \in ImageType, NEW d \in Ino, NEW before \in Int,
         NEW b \in Region, NEW k \in Slots, NEW n \in Names, NEW i \in Ino
  PROVE  EntrySet(Final(img, EntryStores(d, before, b, k, n, i)),
                  img, d, before, b, k, n, i)
<1> DEFINE old == [ino |-> -1, name |-> n]
           new == [ino |-> i, name |-> n]
           x == << <<"data", b, k>>, old >>
           y == << <<"data", b, k>>, new >>
           z == << <<"itable", d, "num_entries">>, before + 1 >>
           p == Put(img, x)
           q == Put(p, y)
           g == Put(q, z)
<1>1. x \in Store /\ y \in Store /\ z \in Store
  <2>1. old \in Entry /\ new \in Entry
    BY ConstantTypes DEF Entry
  <2>2. before + 1 \in Int
    OBVIOUS
  <2> HIDE DEF old, new
  <2> QED
    BY <2>1, <2>2 DEF Store, DataStores, SlotStores, TableStores, EntriesStores
<1> HIDE DEF old, new
<1>2. SlotSet(p, img, b, k, old)
  BY <1>1, SlotPut
<1> HIDE DEF p
<1>3. SlotSet(q, p, b, k, new)
  BY <1>1, <1>2, SlotPut DEF SlotSet
<1> HIDE DEF q
<1>4. FieldSet(g, q, d, "num_entries", before + 1)
  BY <1>1, <1>3, FieldPut DEF SlotSet
<1> HIDE DEF g, x, y, z
<1>5. Final(img, <<x, y, z>>) = g
  BY FinalThree DEF p, q, g
<1>6. EntryStores(d, before, b, k, n, i) = <<x, y, z>>
  BY DEF EntryStores, x, y, z, old, new
<1>7. q.data = [img.data EXCEPT ![b][k] = new]
  BY <1>2, <1>3, ImageParts DEF DataType, SlotSet
<1>8. g \in ImageType /\ SameCounts(g, img) /\ g.data = q.data
  BY <1>2, <1>3, <1>4 DEF FieldSet, SlotSet, SameCounts
<1>9. /\ g.itable[d] = WithField(img.itable[d], "num_entries", before + 1)
      /\ \A j \in Ino \ {d} : g.itable[j] = img.itable[j]
  BY <1>2, <1>3, <1>4 DEF FieldSet, SlotSet
<1>10. EntrySet(g, img, d, before, b, k, n, i)
  BY <1>7, <1>8, <1>9 DEF EntrySet, new
<1> QED BY <1>5, <1>6, <1>10

LEMMA FirstExtentFinal ==
  ASSUME CrashTypes, NEW img \in ImageType, NEW d \in Ino, NEW r \in Nat, NEW n \in Nat
  PROVE  FieldSet(Final(img, FirstExtent(d, r, n)), img, d, "ext",
                  <<[start |-> r, count |-> n]>>)
<1> DEFINE e1 == <<first[d]>>
           e2 == << [first[d] EXCEPT !.start = r] >>
           e3 == <<[start |-> r, count |-> n]>>
           x == << <<"itable", d, "ext">>, e1 >>
           y == << <<"itable", d, "ext">>, e2 >>
           z == << <<"itable", d, "ext">>, e3 >>
           p == Put(img, x)
           q == Put(p, y)
           g == Put(q, z)
<1>1. x \in Store /\ y \in Store /\ z \in Store
  <2>1. first[d] \in Extent /\ [first[d] EXCEPT !.start = r] \in Extent
        /\ [start |-> r, count |-> n] \in Extent
    BY DEF CrashTypes, Extent
  <2>2. ASSUME NEW e \in Extent
        PROVE  << <<"itable", d, "ext">>, <<e>> >> \in Store
    <3>1. <<e>> \in Seq(Extent) /\ Len(<<e>>) <= 1
      OBVIOUS
    <3> QED BY <3>1, ExtentQuiet DEF Quiet, Store
  <2> QED BY <2>1, <2>2
<1> HIDE DEF e1, e2, e3
<1>2. FieldSet(p, img, d, "ext", e1)
  BY <1>1, FieldPut
<1> HIDE DEF p
<1>3. FieldSet(q, p, d, "ext", e2)
  BY <1>1, <1>2, FieldPut DEF FieldSet
<1> HIDE DEF q
<1>4. FieldSet(g, q, d, "ext", e3)
  BY <1>1, <1>3, FieldPut DEF FieldSet
<1> HIDE DEF g, x, y, z
<1>5. Final(img, <<x, y, z>>) = g
  BY FinalThree DEF p, q, g
<1>6. FirstExtent(d, r, n) = <<x, y, z>>
  BY DEF FirstExtent, x, y, z, e1, e2, e3
<1>7. g.itable[d] = WithField(img.itable[d], "ext", e3)
  <2>1. img.itable[d] \in Inode
    BY ImageParts
  <2> QED BY <1>2, <1>3, <1>4, <2>1 DEF FieldSet, WithField, Inode
<1>8. FieldSet(g, img, d, "ext", e3)
  BY <1>2, <1>3, <1>4, <1>7 DEF FieldSet, SameCounts
<1> QED BY <1>5, <1>6, <1>8 DEF e3

\* The inode without size, extents and entries.
Emptiest(inode) ==
  [mode |-> inode.mode, ext |-> <<>>, size |-> 0, num_entries |-> 0]

LEMMA ResetFinal ==
  ASSUME NEW img \in ImageType, NEW i \in Ino
  PROVE  LET g == Final(img, ResetInode(i))
         IN  /\ g \in ImageType /\ g.data = img.data /\ SameCounts(g, img)
             /\ g.itable[i] = Emptiest(img.itable[i])
             /\ \A j \in Ino \ {i} : g.itable[j] = img.itable[j]
<1> DEFINE x == << <<"itable", i, "size">>, 0 >>
           y == << <<"itable", i, "ext">>, <<>> >>
           z == << <<"itable", i, "num_entries">>, 0 >>
           p == Put(img, x)
           q == Put(p, y)
           g == Put(q, z)
<1>1. x \in Store /\ y \in Store /\ z \in Store
  BY MildIs DEF Calm, Emptied, SizeStores, EntriesStores, Mild
<1>2. FieldSet(p, img, i, "size", 0)
  BY <1>1, FieldPut
<1> HIDE DEF p
<1>3. FieldSet(q, p, i, "ext", <<>>)
  BY <1>1, <1>2, FieldPut DEF FieldSet
<1> HIDE DEF q
<1>4. FieldSet(g, q, i, "num_entries", 0)
  BY <1>1, <1>3, FieldPut DEF FieldSet
<1> HIDE DEF g, x, y, z
<1>5. Final(img, <<x, y, z>>) = g
  BY FinalThree DEF p, q, g
<1>6. ResetInode(i) = <<x, y, z>>
  BY DEF ResetInode, x, y, z
<1>7. g.itable[i] = Emptiest(img.itable[i])
  <2>1. img.itable[i] \in Inode
    BY ImageParts
  <2> QED BY <1>2, <1>3, <1>4, <2>1 DEF FieldSet, WithField, Inode, Emptiest
<1>8. /\ g \in ImageType /\ g.data = img.data /\ SameCounts(g, img)
      /\ \A j \in Ino \ {i} : g.itable[j] = img.itable[j]
  BY <1>2, <1>3, <1>4 DEF FieldSet, SameCounts
<1> QED BY <1>5, <1>6, <1>7, <1>8

\* Stores to the data region alone.
DataOnly(g, img) == g \in ImageType /\ g.itable = img.itable /\ SameCounts(g, img)

LEMMA DataLeaves ==
  ASSUME NEW img \in ImageType, NEW s \in Seq(DataStores)
  PROVE  /\ s \in Seq(Store) /\ Len(s) \in Nat
         /\ \A g \in Passed(img, s) : DataOnly(g, img)
         /\ DataOnly(Final(img, s), img)
<1>1. s \in Seq(Store) /\ Len(s) \in Nat
  BY DEF Store
<1>2. ASSUME NEW k \in DOMAIN s
      PROVE  /\ s[k] \notin BitStores /\ s[k] \notin MarkStores
             /\ s[k] \notin CountStores /\ s[k] \notin FreeStores
             /\ s[k] \notin TableStores
  <2>1. s[k] \in DataStores
    OBVIOUS
  <2>2. s[k][1][1] = "data"
    BY <2>1, StoreKinds
  <2> QED BY <2>2, StoreKinds
<1>3. ASSUME NEW g \in Passed(img, s) PROVE DataOnly(g, img)
  BY <1>1, <1>2, NotStored DEF DataOnly, SameCounts
<1>4. Final(img, s) \in Passed(img, s)
  BY <1>1, PassedTyped
<1> QED BY <1>1, <1>3, <1>4

LEMMA SameData ==
  ASSUME NEW x \in DataType, NEW y \in DataType,
         \A b \in Region : \A k \in Slots : x[b][k] = y[b][k]
  PROVE  x = y
<1>1. \A b \in Region : x[b] = y[b]
  BY DEF DataType
<1> QED BY <1>1 DEF DataType

\* What marking makes of the slot u of the block c after k stores.
MarkedSlot(b, k, c, u) ==
  IF c = b /\ u < k THEN [data[b][u] EXCEPT !.ino = -1] ELSE data[c][u]

LEMMA MarkedFinal ==
  ASSUME TypeOK, NEW b \in Region, NEW img \in ImageType, img.data = data
  PROVE  LET g == Final(img, Marked(b))
         IN  /\ Marked(b) \in Seq(DataStores)
             /\ DataOnly(g, img) /\ g.data = Vacated(data, b)
<1> DEFINE s == Marked(b)
           im == Images(img, s)
           G == {k \in 0 .. BlockUnits : \A c \in Region : \A u \in Slots :
                   im[k].data[c][u] = MarkedSlot(b, k, c, u)}
<1>1. BlockUnits \in Nat /\ data \in DataType
  BY A1fsAssumption DEF TypeOK, DataType
<1>2. ASSUME NEW k \in 1 .. BlockUnits
      PROVE  << <<"data", b, k - 1>>, [data[b][k - 1] EXCEPT !.ino = -1] >> \in DataStores
             /\ k - 1 \in Slots
  <2>1. k - 1 \in Slots
    BY A1fsAssumption DEF Slots
  <2>2. data[b][k - 1] \in Entry
    BY <2>1 DEF TypeOK
  <2>3. [data[b][k - 1] EXCEPT !.ino = -1] \in Entry
    BY <2>2, ConstantTypes DEF Entry
  <2> QED BY <2>1, <2>3 DEF DataStores, SlotStores
<1>3. s \in Seq(DataStores) /\ Len(s) = BlockUnits
  BY <1>1, <1>2 DEF Marked
<1>4. \A k \in 1 .. BlockUnits :
        s[k] = << <<"data", b, k - 1>>, [data[b][k - 1] EXCEPT !.ino = -1] >>
  BY <1>1 DEF Marked
<1> HIDE DEF s
<1>5. s \in Seq(Store) /\ DataOnly(Final(img, s), img)
      /\ \A k \in 0 .. BlockUnits : im[k] \in ImageType /\ im[k].data \in DataType
  BY <1>3, DataLeaves, ImagesTyped, ImageParts
<1>6. 0 \in G
  <2>1. im[0] = img
    BY <1>1, <1>3, ImagesUnfold
  <2>2. \A c \in Region : \A u \in Slots : img.data[c][u] = MarkedSlot(b, 0, c, u)
    BY <1>1 DEF MarkedSlot, Slots
  <2> QED BY <1>1, <2>1, <2>2
<1>7. ASSUME NEW k \in 1 .. BlockUnits, k - 1 \in G
      PROVE  k \in G
  <2> DEFINE v == [data[b][k - 1] EXCEPT !.ino = -1]
             old == im[k - 1]
  <2>1. im[k] = Put(old, << <<"data", b, k - 1>>, v >>)
    <3>1. k \in 1 .. Len(s) /\ Len(s) \in Nat
      BY <1>1, <1>3
    <3>2. im[k] = Put(im[k - 1], s[k])
      BY <3>1, StoreAt
    <3> QED BY <1>4, <3>2
  <2>2. k - 1 \in 0 .. BlockUnits
    BY <1>1
  <2>3. old \in ImageType /\ old.data \in DataType
        /\ \A c \in Region : \A u \in Slots :
             old.data[c][u] = MarkedSlot(b, k - 1, c, u)
    BY <1>5, <1>7, <2>2
  <2>4. im[k].data = [old.data EXCEPT ![b][k - 1] = v]
    <3> HIDE DEF old, v
    <3> QED BY <2>1, <2>3, SlotStored
  <2>5. ASSUME NEW c \in Region, NEW u \in Slots
        PROVE  im[k].data[c][u] = MarkedSlot(b, k, c, u)
    <3>1. CASE c = b /\ u = k - 1
      <4>1. im[k].data[c][u] = v
        <5> HIDE DEF old, v
        <5> QED BY <1>2, <2>3, <2>4, <3>1 DEF DataType
      <4> QED BY <1>1, <3>1, <4>1 DEF MarkedSlot
    <3>2. CASE ~ (c = b /\ u = k - 1)
      <4>1. im[k].data[c][u] = old.data[c][u]
        <5> HIDE DEF old, v
        <5> QED BY <1>2, <2>3, <2>4, <3>2 DEF DataType
      <4>2. u \in Nat
        BY DEF Slots
      <4>3. MarkedSlot(b, k - 1, c, u) = MarkedSlot(b, k, c, u)
        <5>1. c = b => (u < k - 1 <=> u < k)
          BY <3>2, <4>2
        <5> QED BY <5>1 DEF MarkedSlot
      <4> QED BY <2>3, <4>1, <4>3
    <3> QED BY <3>1, <3>2
  <2> QED BY <2>5
<1> HIDE DEF G
<1>8. BlockUnits \in G
  <2>1. 0 .. BlockUnits \subseteq G
    BY <1>1, <1>6, <1>7, Along
  <2> QED BY <1>1, <2>1
<1>9. Vacated(data, b) \in DataType
  BY <1>1, VacatedType
<1>10. ASSUME NEW c \in Region, NEW u \in Slots
       PROVE  MarkedSlot(b, BlockUnits, c, u) = Vacated(data, b)[c][u]
  <2>1. u < BlockUnits
    BY <1>1 DEF Slots
  <2> QED BY <1>1, <2>1 DEF MarkedSlot, Vacated, DataType
<1>11. Final(img, s) = im[BlockUnits]
  BY <1>3 DEF Final
<1> HIDE DEF im
<1>12. im[BlockUnits].data = Vacated(data, b)
  <2>1. \A c \in Region : \A u \in Slots :
          im[BlockUnits].data[c][u] = MarkedSlot(b, BlockUnits, c, u)
    BY <1>8 DEF G
  <2>2. im[BlockUnits].data \in DataType
    BY <1>1, <1>5 DEF im
  <2> QED BY <1>9, <1>10, <2>1, <2>2, SameData
<1> QED BY <1>3, <1>5, <1>11, <1>12 DEF s

-----------------------------------------------------------------------------
LEMMA BlockParts ==
  ASSUME NEW s \in Nat, s > 0, NEW j \in 0 .. (BlocksFor(s) - 1), NEW u \in Slots
  PROVE  j * BlockUnits + u < s
           <=> \/ s % BlockUnits = 0 \/ j # BlocksFor(s) - 1
               \/ u < s % BlockUnits
<1> DEFINE B == BlockUnits
           q == s \div B
           m == s % B
<1>1. B \in Nat \ {0} /\ u \in 0 .. (B - 1)
  BY A1fsAssumption DEF Slots
<1>2. q \in Nat /\ m \in 0 .. (B - 1) /\ s = B * q + m
  BY <1>1, Quotient
<1>3. BlocksFor(s) = IF m = 0 THEN q ELSE q + 1
  BY <1>2 DEF BlocksFor
<1>4. j \in Nat /\ j <= BlocksFor(s) - 1
  BY <1>2, <1>3
<1> HIDE DEF B, q, m
<1>5. CASE j < q
  <2>1. B * (j + 1) <= B * q
    BY <1>1, <1>2, <1>4, <1>5, Times
  <2>2. B * (j + 1) = j * B + B
    BY <1>1, <1>4
  <2>3. j * B + u < s
    BY <1>1, <1>2, <1>4, <2>1, <2>2
  <2>4. m = 0 \/ j # BlocksFor(s) - 1
    BY <1>2, <1>3, <1>4, <1>5
  <2> QED BY <2>3, <2>4 DEF B, m
<1>6. CASE j >= q
  <2>1. m # 0 /\ j = q /\ j = BlocksFor(s) - 1
    BY <1>2, <1>3, <1>4, <1>6
  <2>2. j * B = B * q /\ j * B \in Nat
    BY <1>1, <1>2, <2>1
  <2>3. j * B + u < s <=> u < m
    BY <1>1, <1>2, <2>2
  <2> QED BY <2>1, <2>3 DEF B, m
<1> QED BY <1>2, <1>4, <1>5, <1>6

\* The block c of a file of size s from r on, when it has been zeroed.
ZeroBlock(r, s, c) ==
  [u \in Slots |-> IF (c - r) * BlockUnits + u < s THEN Blank ELSE data[c][u]]

LEMMA ZeroingFinal ==
  ASSUME TypeOK, NEW r \in Nat, NEW s \in Nat, s > 0,
         Run(r, BlocksFor(s)) \subseteq Region,
         NEW img \in ImageType, img.data = data
  PROVE  LET g == Final(img, Zeroing(r, s))
         IN  /\ Zeroing(r, s) \in Seq(DataStores) /\ DataOnly(g, img)
             /\ \A c \in Region : g.data[c] =
                  IF c \in Run(r, BlocksFor(s)) THEN ZeroBlock(r, s, c) ELSE data[c]
<1> DEFINE n == BlocksFor(s)
           z == Zeroing(r, s)
           im == Images(img, z)
           G == {k \in 0 .. n : \A c \in Region :
                   im[k].data[c] = IF c \in Run(r, k) THEN ZeroBlock(r, s, c) ELSE data[c]}
<1>1. n \in Nat /\ data \in DataType
  BY BlocksForType DEF TypeOK, DataType
<1> HIDE DEF n
<1>2. z = [k \in 1 .. n |-> << <<"data", r + k - 1>>, ZeroBlock(r, s, r + k - 1) >>]
  <2>1. ASSUME NEW k \in 1 .. n
        PROVE  ZeroBlock(r, s, r + k - 1)
                 = [u \in Slots |-> IF (k - 1) * BlockUnits + u < s THEN Blank
                                    ELSE data[r + k - 1][u]]
    <3>1. r + k - 1 - r = k - 1
      BY <1>1
    <3> QED BY <3>1 DEF ZeroBlock
  <2> QED BY <2>1 DEF Zeroing, n
<1>3. ASSUME NEW k \in 1 .. n
      PROVE  /\ << <<"data", r + k - 1>>, ZeroBlock(r, s, r + k - 1) >> \in DataStores
             /\ r + k - 1 \in Region /\ r + k - 1 \in Nat
  <2>1. r + k - 1 \in Region /\ r + k - 1 \in Nat
    BY <1>1 DEF Run, n
  <2>2. ZeroBlock(r, s, r + k - 1) \in [Slots -> Entry]
    <3>1. data[r + k - 1] \in [Slots -> Entry] /\ Blank \in Entry
      BY <2>1, ConstantTypes DEF TypeOK
    <3> QED BY <3>1 DEF ZeroBlock
  <2> QED BY <2>1, <2>2 DEF DataStores, BlockStores
<1>4. z \in Seq(DataStores) /\ Len(z) = n
  <2> DEFINE st(k) == << <<"data", r + k - 1>>, ZeroBlock(r, s, r + k - 1) >>
  <2>1. \A k \in 1 .. n : st(k) \in DataStores
    BY <1>3
  <2>2. z = [k \in 1 .. n |-> st(k)]
    BY <1>2
  <2> HIDE DEF z, st
  <2> QED BY <1>1, <2>1, <2>2
<1> HIDE DEF z
<1>5. z \in Seq(Store) /\ DataOnly(Final(img, z), img)
      /\ \A k \in 0 .. n : im[k] \in ImageType /\ im[k].data \in DataType
  BY <1>4, DataLeaves, ImagesTyped, ImageParts
<1>6. 0 \in G
  <2>1. im[0] = img
    BY <1>1, <1>4, ImagesUnfold
  <2>2. Run(r, 0) = {}
    BY DEF Run
  <2> QED BY <1>1, <2>1, <2>2
<1>7. ASSUME NEW k \in 1 .. n, k - 1 \in G
      PROVE  k \in G
  <2> DEFINE old == im[k - 1]
             a == r + k - 1
             v == ZeroBlock(r, s, a)
  <2>1. im[k] = Put(old, << <<"data", a>>, v >>)
    <3>1. k \in 1 .. Len(z) /\ Len(z) \in Nat
      BY <1>1, <1>4
    <3>2. im[k] = Put(im[k - 1], z[k])
      BY <3>1, StoreAt
    <3>3. z[k] = << <<"data", a>>, v >>
      BY <1>2
    <3> QED BY <3>2, <3>3
  <2>2. k - 1 \in 0 .. n
    BY <1>1
  <2>3. old \in ImageType /\ old.data \in DataType
        /\ \A c \in Region : old.data[c] =
             IF c \in Run(r, k - 1) THEN ZeroBlock(r, s, c) ELSE data[c]
    BY <1>5, <1>7, <2>2
  <2>4. a \in Region /\ a \in Nat
    BY <1>3
  <2>5. im[k].data = [old.data EXCEPT ![a] = v]
    <3> HIDE DEF old, v, a
    <3> QED BY <2>1, <2>3, BlockStored
  <2>6. \A c \in Nat : c \in Run(r, k) <=> c \in Run(r, k - 1) \/ c = a
    BY <1>1 DEF Run
  <2>7. ASSUME NEW c \in Region
        PROVE  im[k].data[c] = IF c \in Run(r, k) THEN ZeroBlock(r, s, c) ELSE data[c]
    <3>1. c \in Nat
      BY DEF Region
    <3>2. CASE c = a
      <4>1. im[k].data[c] = v
        <5> HIDE DEF old, v, a
        <5> QED BY <2>3, <2>4, <2>5, <3>2 DEF DataType
      <4> QED BY <2>6, <3>1, <3>2, <4>1
    <3>3. CASE c # a
      <4>1. im[k].data[c] = old.data[c]
        <5> HIDE DEF old, v, a
        <5> QED BY <2>3, <2>4, <2>5, <3>3 DEF DataType
      <4>2. c \in Run(r, k) <=> c \in Run(r, k - 1)
        <5> HIDE DEF a
        <5> QED BY <2>6, <3>1, <3>3
      <4>3. old.data[c] =
              IF c \in Run(r, k - 1) THEN ZeroBlock(r, s, c) ELSE data[c]
        BY <2>3
      <4> HIDE DEF old, im
      <4> QED BY <4>1, <4>2, <4>3
    <3> QED BY <3>2, <3>3
  <2> QED BY <2>7
<1> HIDE DEF G
<1>8. n \in G
  <2>1. 0 .. n \subseteq G
    BY <1>1, <1>6, <1>7, Along
  <2> QED BY <1>1, <2>1
<1>9. Final(img, z) = im[n]
  BY <1>4 DEF Final
<1> QED BY <1>4, <1>5, <1>8, <1>9 DEF G, z, n

\* ... is what A1fs says of a file that gets its first blocks.
LEMMA ZeroingIsZeroed ==
  ASSUME TypeOK, NEW r \in Nat, NEW s \in Nat, s > 0,
         NEW n \in Nat, n >= 1, n = BlocksFor(s), Run(r, n) \subseteq Region,
         NEW dat \in DataType,
         \A c \in Region : dat[c] =
           IF c \in Run(r, n) THEN ZeroBlock(r, s, c) ELSE data[c]
  PROVE  dat = Stored(Zeroed(data, <<[start |-> r, count |-> n]>>, s),
                      <<[start |-> r, count |-> n]>>, [units |-> 0, fill |-> Blank])
<1> DEFINE ext == <<[start |-> r, count |-> n]>>
           c0 == [units |-> 0, fill |-> Blank]
           zd == Zeroed(data, ext, s)
           st == Stored(zd, ext, c0)
<1>1. ext[1].start = r /\ After(ext) = r + n /\ r \in Region
      /\ LastExtent(ext) = [start |-> r, count |-> n]
  <2>1. r \in Run(r, n)
    BY OneRun
  <2> QED BY <2>1, OneRun DEF LastExtent
<1>2. data \in DataType
  BY DEF TypeOK, DataType
<1>3. ZeroedBlocks(ext, s) = Run(r, n)
  <2> HIDE DEF ext
  <2>1. LastExtent(ext).start + LastExtent(ext).count - n = r
    BY <1>1
  <2> QED BY <1>1, <2>1 DEF ZeroedBlocks
<1>4. zd \in DataType
  BY <1>2, ZeroedType
<1> HIDE DEF ext
<1>5. st \in DataType
  <2>1. c0 \in Calls(s)
    BY DEF Calls
  <2> QED BY <1>4, <2>1, StoredType
<1>6. ASSUME NEW b \in Region, NEW u \in Slots
      PROVE  dat[b][u] = st[b][u]
  <2>1. u \in Nat /\ b \in Nat
    BY DEF Slots, Region
  <2>2. st[b][u] = zd[b][u]
    <3>1. ~ (u < c0.units)
      BY <2>1
    <3> HIDE DEF zd, c0
    <3> QED BY <1>1, <1>4, <3>1, StoredIn
  <2>3. zd[b][u] = IF /\ b \in Run(r, n)
                      /\ \/ s % BlockUnits = 0
                         \/ b # r + n - 1
                         \/ u < s % BlockUnits
                   THEN Blank ELSE data[b][u]
    BY <1>1, <1>2, <1>3, ZeroedAt
  <2>4. CASE b \in Run(r, n)
    <3>1. b - r \in 0 .. (BlocksFor(s) - 1) /\ (b - r # n - 1 <=> b # r + n - 1)
      BY <2>1, <2>4 DEF Run
    <3>2. (b - r) * BlockUnits + u < s
            <=> \/ s % BlockUnits = 0 \/ b # r + n - 1 \/ u < s % BlockUnits
      BY <3>1, BlockParts
    <3>3. dat[b][u] = IF (b - r) * BlockUnits + u < s THEN Blank ELSE data[b][u]
      BY <2>4 DEF ZeroBlock
    <3> QED BY <2>2, <2>3, <2>4, <3>2, <3>3
  <2>5. CASE b \notin Run(r, n)
    BY <2>2, <2>3, <2>5
  <2> QED BY <2>4, <2>5
<1> HIDE DEF st
<1>7. dat = st
  BY <1>5, <1>6, SameData
<1> QED BY <1>7 DEF st, ext

-----------------------------------------------------------------------------
(* Whole calls.                                                            *)

\* The bits of these blocks are flipped and counted.
FlipsDone(g, img, blocks, by) ==
  /\ g \in ImageType /\ g.itable = img.itable /\ g.data = img.data
  /\ g.inode_bits = img.inode_bits /\ g.free_inodes_count = img.free_inodes_count
  /\ g.block_bits = FlipBits(block_bits, Firsts(blocks, Len(blocks)))
  /\ g.free_blocks_count = Counter(by, Len(blocks))

LEMMA FlipsFinal ==
  ASSUME CrashTypes, NEW blocks \in Seq(Nat), NEW by \in {-1, 1},
         Counter(by, Len(blocks)) >= 0,
         NEW img \in ImageType, img.block_bits = block_bits,
         img.free_blocks_count = free_blocks_count
  PROVE  /\ Flips(blocks, by) \in Seq(Store)
         /\ FlipsDone(Final(img, Flips(blocks, by)), img, blocks, by)
<1> DEFINE s == Flips(blocks, by)
           g == Final(img, s)
           N == Len(blocks)
<1>1. TypeOK /\ IsFiniteSet(block_bits) /\ N \in Nat /\ free_blocks_count \in Nat
  BY CrashFacts DEF TypeOK
<1>2. s \in Seq(MarkStores \cup FreeStores) /\ Len(s) = 2 * N
  BY <1>1, FlipsStores
<1>3. /\ Images(img, s)[0] = img
      /\ N >= 1 => /\ Images(img, s)[2 * N].block_bits
                        = FlipBits(block_bits, Firsts(blocks, N))
                   /\ Images(img, s)[2 * N].free_blocks_count = Counter(by, N)
  BY <1>1, FlipsImages
<1> HIDE DEF s
<1>4. s \in Seq(Store)
  BY <1>2 DEF Store
<1>5. ASSUME NEW k \in DOMAIN s
      PROVE  /\ s[k] \notin BitStores /\ s[k] \notin CountStores
             /\ s[k] \notin TableStores /\ s[k] \notin DataStores
  <2>1. s[k] \in MarkStores \cup FreeStores
    BY <1>2
  <2>2. s[k][1][1] \in {"block_bits", "free_blocks_count"}
    BY <2>1, StoreKinds
  <2> QED BY <2>2, StoreKinds
<1>6. g \in Passed(img, s)
  BY <1>4, PassedTyped
<1> HIDE DEF g
<1>7. /\ g \in ImageType /\ g.itable = img.itable /\ g.data = img.data
      /\ g.inode_bits = img.inode_bits
      /\ g.free_inodes_count = img.free_inodes_count
  BY <1>4, <1>5, <1>6, NotStored
<1>8. /\ g.block_bits = FlipBits(block_bits, Firsts(blocks, N))
      /\ g.free_blocks_count = Counter(by, N)
  <2>1. CASE N >= 1
    BY <1>2, <1>3, <2>1 DEF g, Final
  <2>2. CASE N = 0
    <3>1. Firsts(blocks, N) = {}
      BY <2>2 DEF Firsts
    <3>2. FlipBits(block_bits, {}) = block_bits
      BY DEF FlipBits
    <3>3. Counter(by, N) = free_blocks_count
      BY <1>1, <2>2 DEF Counter
    <3>4. g = img
      BY <1>2, <1>3, <2>2 DEF g, Final
    <3> QED BY <3>1, <3>2, <3>3, <3>4
  <2> QED BY <1>1, <2>1, <2>2
<1> QED BY <1>4, <1>7, <1>8 DEF FlipsDone, g, s

\* ... a run of free blocks among them.
LEMMA RunFinal ==
  ASSUME CrashTypes, NEW r \in Nat, NEW n \in Nat, n >= 1, Run(r, n) \subseteq Region,
         GetAvailableBlock(block_bits, free_blocks_count, n, r),
         NEW blocks, blocks = BlocksOf([start |-> r, count |-> n]),
         NEW img \in ImageType, img.block_bits = block_bits,
         img.free_blocks_count = free_blocks_count
  PROVE  LET g == Final(img, Flips(blocks, -1))
         IN  /\ Flips(blocks, -1) \in Seq(Store)
             /\ g \in ImageType /\ g.itable = img.itable /\ g.data = img.data
             /\ g.inode_bits = img.inode_bits
             /\ g.free_inodes_count = img.free_inodes_count
             /\ g.block_bits = FlipBits(block_bits, Run(r, n))
             /\ g.free_blocks_count = free_blocks_count - n
             /\ r \in 0 .. MaxIndex
<1>1. blocks \in Seq(Nat) /\ Len(blocks) = n /\ Firsts(blocks, n) = Run(r, n)
  BY BlocksOfIs
<1>2. free_blocks_count \in Nat
  BY CrashFacts DEF TypeOK
<1>3. r \in 0 .. MaxIndex
  <2>1. r \in Region
    BY DEF Run
  <2> QED BY <2>1, ConstantTypes DEF Region
<1>4. free_blocks_count - n \in Nat
  BY <1>2, <1>3, GetAvailableType
<1>5. Counter(-1, n) = free_blocks_count - n
  BY <1>2 DEF Counter
<1>6. Counter(-1, Len(blocks)) >= 0 /\ -1 \in {-1, 1}
  BY <1>1, <1>4, <1>5
<1>7. /\ Flips(blocks, -1) \in Seq(Store)
      /\ FlipsDone(Final(img, Flips(blocks, -1)), img, blocks, -1)
  BY <1>1, <1>6, FlipsFinal
<1> QED BY <1>1, <1>3, <1>5, <1>7 DEF FlipsDone

\* A process that runs has no extent that leaves the image.
Running == fs = "up" => Sound(Image)

\* The stores of a call that is not killed.
Whole(s) == fs = "up" /\ kills' = kills /\ Becomes(Final(Image, s))

LEMMA CallIsWhole ==
  ASSUME CrashTypes, NEW kind, NEW s, Call(kind, s), kills' = kills
  PROVE  Whole(s)
<1>1. kills \in Nat
  BY DEF CrashTypes
<1> QED BY <1>1 DEF Call, Whole, Final

\* ... make the image that they lead to, if it is sound.
LEMMA WholeMakes ==
  ASSUME NEW s, NEW g, Whole(s), Final(Image, s) = g, Sound(g)
  PROVE  /\ inode_bits' = g.inode_bits /\ block_bits' = g.block_bits
         /\ free_inodes_count' = g.free_inodes_count
         /\ free_blocks_count' = g.free_blocks_count /\ free_blocks_count' <= MaxFree
         /\ itable' = g.itable /\ data' = g.data
         /\ fs' = fs /\ job' = job
BY DEF Whole, Becomes

LEMMA RunningSound ==
  ASSUME CrashTypes, Running, fs = "up", NEW j \in inode_bits
  PROVE  j \in Ino /\ OwnedBy(itable[j].ext) \subseteq Region
BY CrashFacts DEF Running, Sound, TypeOK

LEMMA CountedTable ==
  ASSUME NEW h \in ImageType, NEW g, NEW d \in Ino, NEW b, NEW k, NEW n, NEW i,
         EntrySet(g, h, d, h.itable[d].num_entries, b, k, n, i)
  PROVE  /\ g.itable = [h.itable EXCEPT ![d].num_entries = @ + 1]
         /\ \A j \in Ino : g.itable[j].ext = h.itable[j].ext
<1> DEFINE t == h.itable
           x == t[d].num_entries + 1
           u == [t EXCEPT ![d].num_entries = @ + 1]
<1>1. t \in TableType /\ t[d] \in Inode /\ t[d].num_entries \in Int
  BY ImageParts, InodeFields
<1>2. g.itable \in TableType /\ g.itable[d] = WithField(t[d], "num_entries", x)
      /\ \A j \in Ino \ {d} : g.itable[j] = t[j]
  BY ImageParts DEF EntrySet
<1> HIDE DEF t
<1>3. u[d] = WithField(t[d], "num_entries", x) /\ \A j \in Ino \ {d} : u[j] = t[j]
      /\ DOMAIN u = Ino
  BY <1>1 DEF TableType, WithField
<1>4. u[d].ext = t[d].ext /\ u[d] \in Inode
  BY <1>1, <1>3 DEF WithField, Inode
<1>5. u \in TableType
  BY <1>1, <1>3, <1>4 DEF TableType
<1> HIDE DEF u
<1>6. \A j \in Ino : g.itable[j] = u[j]
  BY <1>2, <1>3
<1>7. g.itable = u
  BY <1>2, <1>5, <1>6, SameTables
<1>8. \A j \in Ino : u[j].ext = t[j].ext
  BY <1>3, <1>4
<1> QED BY <1>7, <1>8 DEF t, u

LEMMA QuietStores == \A s \in Seq(Quiet) : s \in Seq(Store)
<1>1. Quiet \subseteq Store
  BY DEF Quiet, Store
<1> QED BY <1>1

\* What mkdir and create have before they look for a place for the entry.
LEMMA NewInodeFacts ==
  ASSUME CrashTypes, NEW d \in Ino, NEW i \in Ino \ inode_bits,
         NEW mode \in {"dir", "file"}, NEW t, t = WithInode(i, mode),
         NEW h, h = Final(Image, TakenInode(i, mode))
  PROVE  /\ h \in ImageType /\ h.data = data /\ h.itable = t
         /\ h.inode_bits = inode_bits \cup {i}
         /\ h.free_inodes_count = free_inodes_count - 1
         /\ h.block_bits = block_bits /\ h.free_blocks_count = free_blocks_count
         /\ TakenInode(i, mode) \in Seq(Store)
         /\ t \in TableType /\ t[d] \in Inode /\ t[d].num_entries \in Int
         /\ t[d].ext \in Seq(Extent) /\ Len(t[d].ext) <= 1
<1>1. TakenInode(i, mode) \in Seq(Store)
  BY TakenSettles, MildIs
<1>2. itable \in TableType
  BY CrashFacts, Types
<1>3. t \in TableType
  BY <1>2, CreatedType
<1>4. t[d] \in Inode /\ t[d].num_entries \in Int /\ t[d].ext \in Seq(Extent)
  BY <1>3, InodeFields DEF TableType
<1>5. Len(t[d].ext) <= 1
  <2>1. Len(<<>>) <= 1
    OBVIOUS
  <2> QED BY <2>1, CrashFacts, ExtentsOfNewInode
<1> QED BY <1>1, <1>3, <1>4, <1>5, TakenFinal

\* With the inode taken, no extent leaves the image.
LEMMA NewInodeSound ==
  ASSUME CrashTypes, Running, fs = "up", NEW i \in Ino, NEW mode \in {"dir", "file"},
         NEW j \in inode_bits \cup {i}
  PROVE  j \in Ino /\ OwnedBy(WithInode(i, mode)[j].ext) \subseteq Region
<1>1. TypeOK /\ j \in Ino
  BY CrashFacts DEF TypeOK
<1>2. CASE j = i
  <2>1. WithInode(i, mode)[i].ext = <<>>
    BY <1>1 DEF WithInode, Created, TypeOK
  <2> QED BY <1>1, <1>2, <2>1, OwnedByEmpty
<1>3. CASE j # i
  <2>1. WithInode(i, mode)[j].ext = itable[j].ext
    BY <1>1, <1>3 DEF WithInode, TypeOK
  <2> QED BY <1>1, <1>3, <2>1, RunningSound
<1> QED BY <1>2, <1>3

LEMMA AddWhole ==
  ASSUME CrashTypes, Running, NEW d \in Ino, NEW n \in Names, NEW i \in Ino,
         NEW mode \in {"dir", "file"},
         NewPath(d, n), free_inodes_count # 0,
         i \notin inode_bits, 0 .. (i - 1) \subseteq inode_bits,
         Vacant(WithInode(i, mode)[d].ext, data) # {},
         LET p == FirstOf(Vacant(WithInode(i, mode)[d].ext, data))
         IN  Whole(TakenInode(i, mode)
                     \o EntryStores(d, WithInode(i, mode)[d].num_entries, p[2], p[3], n, i))
  PROVE  AddEntry(d, n, i, mode)
<1> DEFINE t == WithInode(i, mode)
           V == Vacant(t[d].ext, data)
           p == FirstOf(V)
           taken == TakenInode(i, mode)
           h == Final(Image, taken)
           e == EntryStores(d, t[d].num_entries, p[2], p[3], n, i)
           g == Final(h, e)
<1>1. i \in Ino \ inode_bits
  OBVIOUS
<1>2. fs = "up" /\ Image \in ImageType
  BY CrashFacts DEF NewPath
<1>3. ASSUME NEW j \in inode_bits \cup {i}
      PROVE  j \in Ino /\ OwnedBy(t[j].ext) \subseteq Region
  BY <1>2, NewInodeSound
<1> HIDE DEF t
<1>4. /\ h \in ImageType /\ h.data = data /\ h.itable = t
      /\ h.inode_bits = inode_bits \cup {i}
      /\ h.free_inodes_count = free_inodes_count - 1
      /\ h.block_bits = block_bits /\ h.free_blocks_count = free_blocks_count
      /\ taken \in Seq(Store)
      /\ t \in TableType /\ t[d] \in Inode /\ t[d].num_entries \in Int
      /\ t[d].ext \in Seq(Extent) /\ Len(t[d].ext) <= 1
  BY <1>1, NewInodeFacts DEF t
<1>5. V # {} /\ Whole(taken \o e)
  BY DEF t
<1> HIDE DEF taken, h
<1>6. p[2] \in Region /\ p[3] \in Slots
  <2>1. V \in SUBSET Spots
    BY <1>4, PlacesAreSpots DEF Vacant
  <2>2. p \in Spots
    BY <1>5, <2>1, FirstOfExists
  <2> QED BY <2>2, SpotsType
<1>7. e \in Seq(Store)
  <2>1. e \in Seq(Quiet)
    BY <1>4, <1>6, EntryQuiet
  <2> QED BY <2>1, QuietStores
<1>8. EntrySet(g, h, d, t[d].num_entries, p[2], p[3], n, i)
  BY <1>4, <1>6, EntryFinal
<1> HIDE DEF V, e, g
<1>9. Final(Image, taken \o e) = g
  BY <1>4, <1>7, Joined DEF h, g
<1> HIDE DEF p
<1>10. g.itable = [t EXCEPT ![d].num_entries = @ + 1]
       /\ \A j \in Ino : g.itable[j].ext = t[j].ext
  <2>1. h.itable[d].num_entries = t[d].num_entries
    BY <1>4
  <2>2. EntrySet(g, h, d, h.itable[d].num_entries, p[2], p[3], n, i)
    BY <1>8, <2>1
  <2>3. h \in ImageType
    BY <1>4
  <2>4. /\ g.itable = [h.itable EXCEPT ![d].num_entries = @ + 1]
        /\ \A j \in Ino : g.itable[j].ext = h.itable[j].ext
    BY <2>2, <2>3, CountedTable
  <2> QED BY <1>4, <2>4
<1>11. /\ g.inode_bits = inode_bits \cup {i}
       /\ g.free_inodes_count = free_inodes_count - 1
       /\ g.block_bits = block_bits /\ g.free_blocks_count = free_blocks_count
       /\ g.data = [data EXCEPT ![p[2]][p[3]] = [ino |-> i, name |-> n]]
  BY <1>4, <1>8 DEF EntrySet, SameCounts
<1>12. Sound(g)
  BY <1>3, <1>10, <1>11 DEF Sound
<1>13. /\ inode_bits' = inode_bits \cup {i}
       /\ free_inodes_count' = free_inodes_count - 1
       /\ block_bits' = block_bits /\ free_blocks_count' = free_blocks_count
       /\ itable' = [t EXCEPT ![d].num_entries = @ + 1]
       /\ data' = [data EXCEPT ![p[2]][p[3]] = [ino |-> i, name |-> n]]
       /\ fs' = fs /\ job' = job
  BY <1>5, <1>9, <1>10, <1>11, <1>12, WholeMakes
<1>14. data' = Entered(data, t[d].ext, n, i)
  BY <1>13 DEF Entered, p, V
<1> QED BY <1>5, <1>13, <1>14 DEF AddEntry, NewInode, TakeInode, t, V

LEMMA NoSpaceWhole ==
  ASSUME CrashTypes, Running, NEW d \in Ino, NEW n \in Names, NEW i \in Ino,
         NEW mode \in {"dir", "file"},
         NewPath(d, n), free_inodes_count # 0,
         i \notin inode_bits, 0 .. (i - 1) \subseteq inode_bits,
         WithInode(i, mode)[d].ext = <<>>,
         GetAvailableBlock(block_bits, free_blocks_count, 1, -1),
         Whole(TakenInode(i, mode))
  PROVE  AddEntryNoSpace(d, n, i, mode)
<1> DEFINE t == WithInode(i, mode)
           h == Final(Image, TakenInode(i, mode))
<1>1. i \in Ino \ inode_bits
  OBVIOUS
<1>2. fs = "up"
  BY DEF NewPath
<1>3. ASSUME NEW j \in inode_bits \cup {i} PROVE OwnedBy(t[j].ext) \subseteq Region
  BY <1>2, NewInodeSound
<1>4. /\ h \in ImageType /\ h.data = data /\ h.itable = t
      /\ h.inode_bits = inode_bits \cup {i}
      /\ h.free_inodes_count = free_inodes_count - 1
      /\ h.block_bits = block_bits /\ h.free_blocks_count = free_blocks_count
  BY <1>1, NewInodeFacts
<1> HIDE DEF t, h
<1>5. Sound(h)
  BY <1>3, <1>4 DEF Sound
<1>6. /\ inode_bits' = inode_bits \cup {i}
      /\ free_inodes_count' = free_inodes_count - 1
      /\ block_bits' = block_bits /\ free_blocks_count' = free_blocks_count
      /\ itable' = t /\ data' = data /\ fs' = fs /\ job' = job
  BY <1>4, <1>5, WholeMakes DEF h
<1>7. Full(<<>>)
  BY NoPlaces DEF Full, Vacant
<1> QED BY <1>6, <1>7 DEF AddEntryNoSpace, NewInode, TakeInode, t

\* A block whose entries are all vacant: the first one is the first slot.
LEMMA FirstSlot ==
  ASSUME NEW dat \in DataType, NEW r \in Region,
         NEW ext, ext = <<[start |-> r, count |-> 1]>>
  PROVE  FirstOf(Vacant(ext, Vacated(dat, r))) = <<1, r, 0>>
<1> DEFINE V == Vacant(ext, Vacated(dat, r))
           p == <<1, r, 0>>
<1>1. r \in Nat /\ 0 \in Slots
  BY A1fsAssumption DEF Region, Slots
<1>2. ext \in Seq(Extent) /\ Len(ext) <= 1 /\ OwnedBy(ext) = {r}
  <2>1. Run(r, 1) = {r}
    BY <1>1 DEF Run
  <2> QED BY <1>1, <2>1, OneRun
<1>3. ASSUME NEW k \in Slots PROVE Vacated(dat, r)[r][k].ino = -1
  <2>1. dat[r][k] \in Entry
    BY DEF DataType
  <2>2. Vacated(dat, r)[r][k] = [dat[r][k] EXCEPT !.ino = -1]
    BY DEF Vacated, DataType
  <2> QED BY <2>1, <2>2 DEF Entry
<1>4. V \in SUBSET Spots /\ \A q \in V : q[2] = r
  BY <1>2, PlacesAreSpots DEF Vacant
<1>5. p \in Spots /\ p[1] = 1 /\ p[2] = r /\ p[3] = 0
  BY <1>1 DEF Spots
<1>6. p \in V
  <2>1. p \in Places(ext)
    BY <1>2, <1>5, PlacesAreSpots
  <2> QED BY <1>1, <1>3, <1>5, <2>1 DEF Vacant, At
<1> HIDE DEF V, p
<1>7. ASSUME NEW q \in V \ {p} PROVE Before(p, q)
  <2>1. q = <<1, r, q[3]>> /\ q[3] \in Nat
    BY <1>4, SpotsType
  <2>2. q[3] # 0
    BY <2>1 DEF p
  <2> QED BY <1>5, <2>1, <2>2 DEF Before
<1>8. FirstOf(V) = p
  BY <1>4, <1>6, <1>7, FirstOfUnique
<1> QED BY <1>8 DEF V, p

LEMMA ExtentSet ==
  ASSUME NEW h \in ImageType, NEW g, NEW d \in Ino, NEW e \in Seq(Extent),
         FieldSet(g, h, d, "ext", e)
  PROVE  /\ g.itable = [h.itable EXCEPT ![d].ext = e]
         /\ g.itable[d].ext = e
         /\ \A j \in Ino \ {d} : g.itable[j].ext = h.itable[j].ext
         /\ g.itable[d].num_entries = h.itable[d].num_entries
<1> DEFINE t == h.itable
           u == [t EXCEPT ![d].ext = e]
<1>1. t \in TableType /\ t[d] \in Inode
  BY ImageParts
<1>2. g.itable \in TableType /\ g.itable[d] = WithField(t[d], "ext", e)
      /\ \A j \in Ino \ {d} : g.itable[j] = t[j]
  BY ImageParts DEF FieldSet
<1> HIDE DEF t
<1>3. u[d] = WithField(t[d], "ext", e) /\ \A j \in Ino \ {d} : u[j] = t[j]
      /\ DOMAIN u = Ino
  BY <1>1 DEF TableType, WithField
<1>4. u[d].ext = e /\ u[d] \in Inode /\ u[d].num_entries = t[d].num_entries
  BY <1>1, <1>3 DEF WithField, Inode
<1>5. u \in TableType
  BY <1>1, <1>3, <1>4 DEF TableType
<1> HIDE DEF u
<1>6. \A j \in Ino : g.itable[j] = u[j]
  BY <1>2, <1>3
<1>7. g.itable = u
  BY <1>2, <1>5, <1>6, SameTables
<1> QED BY <1>3, <1>4, <1>7 DEF t, u

LEMMA TwiceSet ==
  ASSUME NEW t \in TableType, NEW d \in Ino, NEW e, NEW u,
         u = [t EXCEPT ![d].ext = e]
  PROVE  [u EXCEPT ![d].num_entries = @ + 1]
           = [t EXCEPT ![d].ext = e, ![d].num_entries = @ + 1]
BY DEF TableType, Inode

LEMMA NewBlockWhole ==
  ASSUME CrashTypes, Running, NEW d \in Ino, NEW n \in Names, NEW i \in Ino,
         NEW mode \in {"dir", "file"},
         NewPath(d, n), free_inodes_count # 0,
         i \notin inode_bits, 0 .. (i - 1) \subseteq inode_bits,
         WithInode(i, mode)[d].ext = <<>>, NEW r \in Region,
         GetAvailableBlock(block_bits, free_blocks_count, 1, r),
         Whole(TakenInode(i, mode) \o FirstExtent(d, r, 1)
                 \o Marked(r) \o Flips(<<r>>, -1)
                 \o EntryStores(d, WithInode(i, mode)[d].num_entries, r, 0, n, i))
  PROVE  AddEntryInNewBlock(d, n, i, mode)
<1> DEFINE t == WithInode(i, mode)
           ext == <<[start |-> r, count |-> 1]>>
           s1 == TakenInode(i, mode)
           s2 == FirstExtent(d, r, 1)
           s3 == Marked(r)
           s4 == Flips(<<r>>, -1)
           s5 == EntryStores(d, t[d].num_entries, r, 0, n, i)
           h1 == Final(Image, s1)
           h2 == Final(h1, s2)
           h3 == Final(h2, s3)
           h4 == Final(h3, s4)
           h5 == Final(h4, s5)
<1>1. i \in Ino \ inode_bits /\ r \in Nat /\ 0 \in Slots /\ Run(r, 1) = {r}
  BY A1fsAssumption DEF Region, Slots, Run
<1>2. fs = "up" /\ Image \in ImageType /\ TypeOK /\ data \in DataType
  BY CrashFacts DEF NewPath, TypeOK, DataType
<1>3. ASSUME NEW j \in inode_bits \cup {i}
      PROVE  j \in Ino /\ OwnedBy(t[j].ext) \subseteq Region
  BY <1>2, NewInodeSound
<1> HIDE DEF t
<1>4. /\ h1 \in ImageType /\ h1.data = data /\ h1.itable = t
      /\ h1.inode_bits = inode_bits \cup {i}
      /\ h1.free_inodes_count = free_inodes_count - 1
      /\ h1.block_bits = block_bits /\ h1.free_blocks_count = free_blocks_count
      /\ s1 \in Seq(Store)
      /\ t \in TableType /\ t[d] \in Inode /\ t[d].num_entries \in Int
  BY <1>1, NewInodeFacts DEF t
<1>5. ext \in Seq(Extent) /\ OwnedBy(ext) = {r} /\ Len(ext) = 1
  BY <1>1, OneRun
<1> HIDE DEF h1, s1, ext
<1>6. FieldSet(h2, h1, d, "ext", ext)
  BY <1>1, <1>4, FirstExtentFinal DEF ext
<1>7. s2 \in Seq(Store)
  BY <1>1, CrashFacts, FirstExtentQuiet, QuietStores
<1> HIDE DEF h2, s2
<1>8. /\ h2 \in ImageType /\ h2.data = data /\ SameCounts(h2, h1)
      /\ h2.itable = [t EXCEPT ![d].ext = ext]
      /\ h2.itable[d].ext = ext
      /\ \A j \in Ino \ {d} : h2.itable[j].ext = t[j].ext
      /\ h2.itable[d].num_entries = t[d].num_entries
  <2>1. /\ h2.itable = [h1.itable EXCEPT ![d].ext = ext]
        /\ h2.itable[d].ext = ext
        /\ \A j \in Ino \ {d} : h2.itable[j].ext = h1.itable[j].ext
        /\ h2.itable[d].num_entries = h1.itable[d].num_entries
    BY <1>4, <1>5, <1>6, ExtentSet
  <2>2. h2 \in ImageType /\ h2.data = data /\ SameCounts(h2, h1)
    BY <1>4, <1>6 DEF FieldSet
  <2> QED BY <1>4, <2>1, <2>2
<1>9. /\ s3 \in Seq(Store) /\ DataOnly(h3, h2) /\ h3.data = Vacated(data, r)
  BY <1>2, <1>8, MarkedFinal, DataLeaves
<1> HIDE DEF h3, s3
<1>10. /\ h3 \in ImageType /\ h3.block_bits = block_bits
       /\ h3.free_blocks_count = free_blocks_count /\ h3.itable = h2.itable
       /\ h3.inode_bits = inode_bits \cup {i}
       /\ h3.free_inodes_count = free_inodes_count - 1
  BY <1>4, <1>8, <1>9 DEF DataOnly, SameCounts
<1>11. /\ s4 \in Seq(Store) /\ h4 \in ImageType
       /\ h4.itable = h3.itable /\ h4.data = h3.data
       /\ h4.inode_bits = h3.inode_bits
       /\ h4.free_inodes_count = h3.free_inodes_count
       /\ h4.block_bits = FlipBits(block_bits, Run(r, 1))
       /\ h4.free_blocks_count = free_blocks_count - 1
       /\ r \in 0 .. MaxIndex
  <2>1. <<r>> = BlocksOf([start |-> r, count |-> 1])
    <3>1. BlocksOf([start |-> r, count |-> 1]) = [k \in 1 .. 1 |-> r + k - 1]
      BY DEF BlocksOf
    <3>2. <<r>> = [k \in 1 .. 1 |-> r + k - 1]
      BY <1>1
    <3> QED BY <3>1, <3>2
  <2> DEFINE blocks == <<r>>
  <2> HIDE DEF blocks
  <2>2. 1 \in Nat /\ 1 >= 1 /\ Run(r, 1) \subseteq Region
    BY <1>1
  <2> QED BY <1>1, <1>10, <2>1, <2>2, RunFinal
<1> HIDE DEF h4, s4
<1>12. h4.itable[d].num_entries = t[d].num_entries
  BY <1>8, <1>10, <1>11
<1>13. EntrySet(h5, h4, d, h4.itable[d].num_entries, r, 0, n, i)
  BY <1>1, <1>4, <1>11, <1>12, EntryFinal
<1>14. s5 \in Seq(Store)
  BY <1>1, <1>4, EntryQuiet, QuietStores
<1> HIDE DEF h5, s5
<1>15. /\ h5.itable = [h4.itable EXCEPT ![d].num_entries = @ + 1]
       /\ \A j \in Ino : h5.itable[j].ext = h4.itable[j].ext
  BY <1>11, <1>13, CountedTable
<1>16. h5.itable = [t EXCEPT ![d].ext = ext, ![d].num_entries = @ + 1]
  <2>1. h4.itable = [t EXCEPT ![d].ext = ext]
    BY <1>8, <1>10, <1>11
  <2> QED BY <1>4, <1>15, <2>1, TwiceSet
<1>17. Final(Image, s1 \o s2 \o s3 \o s4 \o s5) = h5
  <2>1. Final(Image, s1 \o s2) = h2 /\ s1 \o s2 \in Seq(Store)
    BY <1>4, <1>7, Joined DEF h1, h2
  <2>2. Final(Image, s1 \o s2 \o s3) = h3 /\ s1 \o s2 \o s3 \in Seq(Store)
    <3> DEFINE s == s1 \o s2
    <3> HIDE DEF s
    <3>1. s \in Seq(Store) /\ Final(Image, s) = h2
      BY <2>1 DEF s
    <3>2. Final(Image, s \o s3) = h3 /\ s \o s3 \in Seq(Store)
      BY <1>9, <3>1, Joined DEF h3
    <3> QED BY <3>2 DEF s
  <2>3. Final(Image, s1 \o s2 \o s3 \o s4) = h4 /\ s1 \o s2 \o s3 \o s4 \in Seq(Store)
    <3> DEFINE s == s1 \o s2 \o s3
    <3> HIDE DEF s
    <3>1. s \in Seq(Store) /\ Final(Image, s) = h3
      BY <2>2 DEF s
    <3>2. Final(Image, s \o s4) = h4 /\ s \o s4 \in Seq(Store)
      BY <1>11, <3>1, Joined DEF h4
    <3> QED BY <3>2 DEF s
  <2> DEFINE s == s1 \o s2 \o s3 \o s4
  <2> HIDE DEF s
  <2>4. s \in Seq(Store) /\ Final(Image, s) = h4
    BY <2>3 DEF s
  <2>5. Final(Image, s \o s5) = h5
    BY <1>14, <2>4, Joined DEF h5
  <2> QED BY <2>5 DEF s
<1>18. /\ h5.inode_bits = inode_bits \cup {i}
       /\ h5.free_inodes_count = free_inodes_count - 1
       /\ h5.block_bits = FlipBits(block_bits, {r})
       /\ h5.free_blocks_count = free_blocks_count - 1
       /\ h5.data = [Vacated(data, r) EXCEPT ![r][0] = [ino |-> i, name |-> n]]
  BY <1>1, <1>9, <1>10, <1>11, <1>13 DEF EntrySet, SameCounts
<1>19. Sound(h5)
  <2>1. ASSUME NEW j \in inode_bits \cup {i}
        PROVE  OwnedBy(h5.itable[j].ext) \subseteq Region
    <3>1. j \in Ino /\ h5.itable[j].ext = h2.itable[j].ext
      BY <1>3, <1>10, <1>11, <1>15
    <3>2. CASE j = d
      BY <1>5, <1>8, <3>1, <3>2
    <3>3. CASE j # d
      BY <1>3, <1>8, <3>1, <3>3
    <3> QED BY <3>2, <3>3
  <2> QED BY <1>18, <2>1 DEF Sound
<1>20. Whole(s1 \o s2 \o s3 \o s4 \o s5)
  BY DEF s1, s2, s3, s4, s5, t
<1>21. /\ inode_bits' = inode_bits \cup {i}
       /\ free_inodes_count' = free_inodes_count - 1
       /\ block_bits' = FlipBits(block_bits, {r})
       /\ free_blocks_count' = free_blocks_count - 1
       /\ itable' = [t EXCEPT ![d].ext = ext, ![d].num_entries = @ + 1]
       /\ data' = [Vacated(data, r) EXCEPT ![r][0] = [ino |-> i, name |-> n]]
       /\ fs' = fs /\ job' = job
  BY <1>16, <1>17, <1>18, <1>19, <1>20, WholeMakes
<1>22. data' = Entered(Vacated(data, r), ext, n, i)
  <2>1. FirstOf(Vacant(ext, Vacated(data, r))) = <<1, r, 0>>
    BY <1>2, FirstSlot DEF ext
  <2> QED BY <1>21, <2>1 DEF Entered
<1>23. /\ Grown(<<>>, block_bits, r, 1) = ext
       /\ AllocatedAt(<<>>, block_bits, r, 1) = r
       /\ LastExtent(ext).start = r
  BY DEF Grown, AllocatedAt, LastExtent, ext
<1>24. Full(<<>>) /\ t[d].ext = <<>> /\ Len(ext) <= MaxExtents
  BY <1>5, NoPlaces, A1fsAssumption DEF Full, Vacant, t
<1>25. NewInode(d, n, i)
  BY <1>21 DEF NewInode, TakeInode
<1> HIDE DEF ext
<1> QED BY <1>11, <1>21, <1>22, <1>23, <1>24, <1>25 DEF AddEntryInNewBlock, t

LEMMA SameInodes ==
  ASSUME NEW a \in Inode, NEW b \in Inode, a.mode = b.mode, a.ext = b.ext,
         a.size = b.size, a.num_entries = b.num_entries
  PROVE  a = b
BY DEF Inode

LEMMA ResetIs ==
  ASSUME NEW t \in TableType, NEW i \in Ino, NEW u \in TableType,
         u[i] = Emptiest(t[i]), \A j \in Ino \ {i} : u[j] = t[j]
  PROVE  u = Reset(t, i)
<1> DEFINE x == Reset(t, i)
<1>1. t[i] \in Inode /\ u[i] \in Inode
  BY DEF TableType
<1>2. x[i].mode = t[i].mode /\ x[i].size = 0 /\ x[i].ext = <<>>
      /\ x[i].num_entries = 0 /\ x[i] \in Inode
  <2> DEFINE y == [t[i] EXCEPT !.size = 0, !.ext = <<>>, !.num_entries = 0]
  <2>1. x[i] = y
    BY DEF Reset, TableType
  <2>2. <<>> \in Seq(Extent) /\ 0 \in Nat /\ 0 \in Int
    OBVIOUS
  <2>3. y.mode = t[i].mode /\ y.size = 0 /\ y.ext = <<>> /\ y.num_entries = 0
    BY <1>1 DEF Inode
  <2>4. y \in Inode
    BY <1>1, <2>2 DEF Inode
  <2> HIDE DEF x, y
  <2> QED BY <2>1, <2>3, <2>4
<1>3. DOMAIN x = Ino /\ \A j \in Ino \ {i} : x[j] = t[j]
  BY DEF Reset, TableType
<1>4. x = [j \in Ino |-> x[j]]
  BY DEF Reset, TableType
<1> HIDE DEF x
<1>5. x[i] = u[i]
  BY <1>1, <1>2, SameInodes DEF Emptiest
<1>6. \A j \in Ino : x[j] = u[j]
  BY <1>3, <1>5
<1>7. x \in TableType
  <2>1. \A j \in Ino : x[j] \in Inode
    BY <1>6 DEF TableType
  <2> QED BY <1>4, <2>1 DEF TableType
<1>8. u = x
  BY <1>6, <1>7, SameTables
<1> QED BY <1>8 DEF x

LEMMA NumberSet ==
  ASSUME NEW t \in TableType, NEW d \in Ino, NEW u \in TableType, NEW v \in Int,
         u[d] = WithField(t[d], "num_entries", v), \A j \in Ino \ {d} : u[j] = t[j]
  PROVE  /\ u = [t EXCEPT ![d].num_entries = v]
         /\ \A j \in Ino : u[j].ext = t[j].ext
<1> DEFINE x == [t EXCEPT ![d].num_entries = v]
<1>1. t[d] \in Inode
  BY DEF TableType
<1>2. x[d] = WithField(t[d], "num_entries", v)
  BY DEF TableType, WithField
<1>3. \A j \in Ino \ {d} : x[j] = t[j]
  BY DEF TableType
<1>4. x = [k \in Ino |-> x[k]]
  BY DEF TableType
<1>5. WithField(t[d], "num_entries", v).ext = t[d].ext
  BY <1>1 DEF WithField, Inode
<1> HIDE DEF x
<1>6. \A j \in Ino : x[j] = u[j]
  BY <1>2, <1>3
<1>7. x \in TableType
  <2>1. \A j \in Ino : x[j] \in Inode
    BY <1>6 DEF TableType
  <2> QED BY <1>4, <2>1 DEF TableType
<1>8. u = x
  BY <1>6, <1>7, SameTables
<1>9. \A j \in Ino : u[j].ext = t[j].ext
  BY <1>5
<1> QED BY <1>8, <1>9 DEF x

\* What Removed says of the image, for an image with that many blocks counted.
Left(g, d, i, freed) ==
  LET t == Reset(itable, i)
      used == i \in inode_bits
      found == IF used THEN Naming(t[d].ext, i) ELSE {}
      p == FirstOf(found)
      one == IF found = {} THEN 0 ELSE 1
  IN  /\ g \in ImageType
      /\ g.inode_bits = inode_bits \ {i}
      /\ g.free_inodes_count = free_inodes_count + (IF used THEN 1 ELSE 0)
      /\ g.itable = [t EXCEPT ![d].num_entries = @ - one]
      /\ \A j \in Ino : g.itable[j].ext = t[j].ext
      /\ g.data = IF found = {} THEN data
                  ELSE [data EXCEPT ![p[2]][p[3]] = Vacancy]
      /\ g.free_blocks_count = free_blocks_count + freed + one

LEMMA LeaveFinal ==
  ASSUME CrashTypes, NEW d \in Ino, NEW i \in Ino, NEW freed \in Nat,
         NEW img \in ImageType, img.inode_bits = inode_bits,
         img.free_inodes_count = free_inodes_count,
         img.free_blocks_count = free_blocks_count + freed, img.data = data,
         img.itable = Reset(itable, i)
  PROVE  LET g == Final(img, Leave(d, i, freed))
         IN  /\ Leave(d, i, freed) \in Seq(Store)
             /\ Left(g, d, i, freed) /\ g.block_bits = img.block_bits
<1> DEFINE t == Reset(itable, i)
           ext == t[d].ext
           entries == t[d].num_entries
           found == Naming(ext, i)
           p == FirstOf(found)
           v == inode_bits \ {i}
           c == free_inodes_count + 1
           free == free_blocks_count + freed + 1
           x == << <<"data", p[2], p[3]>>, [At(data, p) EXCEPT !.ino = -1] >>
           y == << <<"data", p[2], p[3]>>, Vacancy >>
           z == << <<"itable", d, "num_entries">>, entries - 1 >>
           w == << <<"free_blocks_count">>, free >>
           four == <<x, y, z, w>>
           rest == IF found = {} THEN <<>> ELSE four
           l == Leave(d, i, freed)
           h == Final(img, PairOf(v, c))
<1>1. /\ itable \in TableType /\ t \in TableType /\ t[d] \in Inode
      /\ ext \in Seq(Extent) /\ entries \in Int /\ Len(ext) <= 1
      /\ ext = (IF d = i THEN <<>> ELSE itable[d].ext)
      /\ entries = (IF d = i THEN 0 ELSE itable[d].num_entries)
  <2>1. itable \in TableType /\ t \in TableType
    BY CrashFacts, Types, ImageParts
  <2>2. t[i].ext = <<>> /\ t[i].num_entries = 0 /\ (d # i => t[d] = itable[d])
    BY <2>1 DEF Reset, TableType, Inode
  <2> HIDE DEF t
  <2>3. ext \in Seq(Extent) /\ entries \in Int /\ t[d] \in Inode
    BY <2>1, InodeFields DEF TableType
  <2>4. Len(<<>>) <= 1
    OBVIOUS
  <2>5. Len(ext) <= 1
    BY <2>2, <2>4, CrashFacts
  <2> QED BY <2>1, <2>2, <2>3, <2>5
<1>2. l = IF i \notin inode_bits THEN <<>> ELSE PairOf(v, c) \o rest
  <2> DEFINE ext2 == IF d = i THEN <<>> ELSE itable[d].ext
             entries2 == IF d = i THEN 0 ELSE itable[d].num_entries
  <2>1. ext2 = ext /\ entries2 = entries
    BY <1>1
  <2> HIDE DEF t
  <2> QED BY <2>1 DEF Leave, PairOf
<1> HIDE DEF l
<1>3. /\ v \in SUBSET Ino /\ c \in Int /\ free \in Nat /\ data \in DataType
      /\ free_blocks_count \in Nat
  BY CrashFacts DEF TypeOK, DataType
<1>4. /\ h \in ImageType /\ h.inode_bits = v /\ h.free_inodes_count = c
      /\ h.block_bits = img.block_bits
      /\ h.free_blocks_count = img.free_blocks_count
      /\ h.itable = t /\ h.data = data
  BY <1>3, PairFinal
<1>5. PairOf(v, c) \in Seq(Store)
  BY <1>3, PairMild, MildIs
<1> HIDE DEF h, t
<1>6. /\ [t EXCEPT ![d].num_entries = @ - 0] = t
      /\ free_blocks_count + freed + 0 = free_blocks_count + freed
  BY <1>1, <1>3 DEF TableType, Inode
<1>7. CASE i \notin inode_bits
  <2>1. l = <<>> /\ <<>> \in Seq(Store) /\ Len(<<>>) = 0
    BY <1>2, <1>7
  <2>2. Final(img, l) = img
    BY <2>1, ImagesUnfold DEF Final
  <2>3. /\ img.inode_bits = inode_bits \ {i}
        /\ img.free_inodes_count = free_inodes_count + 0
        /\ img.itable = [t EXCEPT ![d].num_entries = @ - 0]
        /\ img.free_blocks_count = free_blocks_count + freed + 0
        /\ \A j \in Ino : img.itable[j].ext = t[j].ext
    <3>1. img.itable = t
      BY DEF t
    <3>2. inode_bits \ {i} = inode_bits
      BY <1>7
    <3>3. free_inodes_count + 0 = free_inodes_count
      BY CrashFacts DEF TypeOK
    <3>4. img.itable = [t EXCEPT ![d].num_entries = @ - 0]
      BY <1>6, <3>1
    <3> QED BY <1>6, <3>1, <3>2, <3>3, <3>4
  <2>4. Left(img, d, i, freed)
    BY <1>7, <2>3 DEF Left, t
  <2> QED BY <2>1, <2>2, <2>4 DEF l
<1>8. CASE i \in inode_bits /\ found = {}
  <2>1. rest = <<>> /\ PairOf(v, c) \o <<>> = PairOf(v, c)
    BY <1>5, <1>8
  <2>2. Final(img, l) = h /\ l \in Seq(Store)
    BY <1>2, <1>5, <1>8, <2>1 DEF h
  <2>3. Left(h, d, i, freed)
    BY <1>3, <1>4, <1>6, <1>8 DEF Left, t, v, c
  <2> QED BY <1>4, <2>2, <2>3 DEF l
<1>9. CASE i \in inode_bits /\ found # {}
  <2> DEFINE a == Put(h, x)
             b == Put(a, y)
             e == Put(b, z)
             g == Put(e, w)
  <2>1. p[2] \in Region /\ p[3] \in Slots /\ At(data, p) \in Entry
    <3>1. found \in SUBSET Spots
      BY <1>1, PlacesAreSpots DEF Naming
    <3>2. p \in Spots
      BY <1>9, <3>1, FirstOfExists
    <3> HIDE DEF p
    <3> QED BY <1>3, <3>2, SpotsType DEF At, DataType
  <2>2. x \in Store /\ y \in Store /\ z \in Store /\ w \in Store
    <3>1. Vacancy \in Entry /\ [At(data, p) EXCEPT !.ino = -1] \in Entry
      <4> HIDE DEF p
      <4> QED BY <2>1, ConstantTypes DEF Entry, Vacancy
    <3>2. entries - 1 \in Int
      BY <1>1
    <3> HIDE DEF p, entries, free
    <3> QED BY <1>3, <2>1, <3>1, <3>2
        DEF Store, DataStores, SlotStores, TableStores, EntriesStores, FreeStores
  <2> HIDE DEF p, found, entries
  <2>3. SlotSet(a, h, p[2], p[3], [At(data, p) EXCEPT !.ino = -1])
    BY <1>4, <2>2, SlotPut
  <2> HIDE DEF a
  <2>4. SlotSet(b, a, p[2], p[3], Vacancy)
    BY <2>2, <2>3, SlotPut DEF SlotSet
  <2> HIDE DEF b
  <2>5. FieldSet(e, b, d, "num_entries", entries - 1)
    BY <2>2, <2>4, FieldPut DEF SlotSet
  <2> HIDE DEF e
  <2>6. e \in ImageType
    BY <2>5 DEF FieldSet
  <2>7. g = [e EXCEPT !.free_blocks_count = free] /\ g \in ImageType
    BY <2>2, <2>6, PutLeaf, PutTyped
  <2>8. /\ g.inode_bits = e.inode_bits /\ g.block_bits = e.block_bits
        /\ g.free_inodes_count = e.free_inodes_count
        /\ g.free_blocks_count = free /\ g.itable = e.itable /\ g.data = e.data
    <3> HIDE DEF g, free
    <3> QED BY <2>6, <2>7 DEF ImageType
  <2> HIDE DEF g, x, y, z, w
  <2>9. Final(h, four) = g /\ four \in Seq(Store)
    BY <2>2, FinalFour DEF a, b, e, g
  <2>10. g.data = [data EXCEPT ![p[2]][p[3]] = Vacancy]
    <3> DEFINE one == [At(data, p) EXCEPT !.ino = -1]
    <3>1. a.data = [data EXCEPT ![p[2]][p[3]] = one]
      BY <1>4, <2>3 DEF SlotSet
    <3> HIDE DEF one
    <3>2. b.data = [a.data EXCEPT ![p[2]][p[3]] = Vacancy]
      BY <2>4 DEF SlotSet
    <3>3. g.data = b.data
      BY <2>5, <2>8 DEF FieldSet
    <3>4. b.data = [data EXCEPT ![p[2]][p[3]] = Vacancy]
      <4>1. [[data EXCEPT ![p[2]][p[3]] = one] EXCEPT ![p[2]][p[3]] = Vacancy]
              = [data EXCEPT ![p[2]][p[3]] = Vacancy]
        <5> DEFINE at == p[2]
                   k == p[3]
        <5>1. at \in Region /\ k \in Slots /\ data \in DataType
          BY <1>3, <2>1
        <5> HIDE DEF at, k
        <5>2. [[data EXCEPT ![at][k] = one] EXCEPT ![at][k] = Vacancy]
                = [data EXCEPT ![at][k] = Vacancy]
          BY <5>1 DEF DataType
        <5> QED BY <5>2 DEF at, k
      <4>2. b.data = [[data EXCEPT ![p[2]][p[3]] = one]
                        EXCEPT ![p[2]][p[3]] = Vacancy]
        BY <3>1, <3>2
      <4> QED BY <4>1, <4>2
    <3> QED BY <3>3, <3>4
  <2>11. /\ g.inode_bits = v /\ g.free_inodes_count = c
         /\ g.block_bits = img.block_bits
    BY <1>4, <2>3, <2>4, <2>5, <2>8 DEF SlotSet, FieldSet, SameCounts
  <2>12. g.itable = [t EXCEPT ![d].num_entries = entries - 1]
         /\ \A j \in Ino : g.itable[j].ext = t[j].ext
    <3>1. g.itable \in TableType
      BY <2>7, ImageParts
    <3>2. b.itable = t
      BY <1>4, <2>3, <2>4 DEF SlotSet
    <3>3. /\ g.itable[d] = WithField(t[d], "num_entries", entries - 1)
          /\ \A j \in Ino \ {d} : g.itable[j] = t[j]
      BY <2>5, <2>8, <3>2 DEF FieldSet
    <3>4. entries - 1 \in Int
      BY <1>1 DEF entries
    <3> DEFINE num == entries - 1
    <3> HIDE DEF num
    <3>5. num \in Int /\ g.itable[d] = WithField(t[d], "num_entries", num)
      BY <3>3, <3>4 DEF num
    <3>6. t \in TableType
      BY <1>1
    <3>7. /\ g.itable = [t EXCEPT ![d].num_entries = num]
          /\ \A j \in Ino : g.itable[j].ext = t[j].ext
      BY <3>1, <3>3, <3>5, <3>6, NumberSet
    <3> QED BY <3>7 DEF num
  <2>13. Final(img, l) = g /\ l \in Seq(Store)
    <3>1. rest = four
      BY <1>9
    <3> HIDE DEF four
    <3>2. l = PairOf(v, c) \o four
      BY <1>2, <1>9, <3>1
    <3>3. Final(img, PairOf(v, c) \o four) = Final(h, four)
          /\ PairOf(v, c) \o four \in Seq(Store)
      BY <1>5, <2>9, Joined DEF h
    <3> QED BY <2>9, <3>2, <3>3
  <2>14. Left(g, d, i, freed)
    <3>1. g.itable = [t EXCEPT ![d].num_entries = @ - 1]
      BY <2>12 DEF entries
    <3> QED BY <1>9, <2>7, <2>8, <2>10, <2>11, <2>12, <3>1
        DEF Left, t, v, c, found, p
  <2> QED BY <2>11, <2>13, <2>14 DEF l
<1> QED BY <1>7, <1>8, <1>9

LEMMA LeftSound ==
  ASSUME CrashTypes, Running, fs = "up", NEW d \in Ino, NEW i \in Ino,
         NEW freed, NEW g, Left(g, d, i, freed)
  PROVE  Sound(g)
<1>1. g.inode_bits = inode_bits \ {i}
      /\ \A j \in Ino : g.itable[j].ext = Reset(itable, i)[j].ext
  BY DEF Left
<1>2. ASSUME NEW j \in inode_bits \ {i} PROVE OwnedBy(g.itable[j].ext) \subseteq Region
  <2>1. j \in Ino /\ OwnedBy(itable[j].ext) \subseteq Region
    BY RunningSound
  <2>2. Reset(itable, i)[j] = itable[j]
    <3>1. itable \in TableType
      BY CrashFacts, Types
    <3> QED BY <2>1, <3>1 DEF Reset, TableType
  <2> QED BY <1>1, <2>1, <2>2
<1> QED BY <1>1, <1>2 DEF Sound

\* An image that is left so is what Removed says.
LEMMA LeftIsRemoved ==
  ASSUME NEW d, NEW i, NEW freed, NEW g, Left(g, d, i, freed),
         inode_bits' = g.inode_bits, free_inodes_count' = g.free_inodes_count,
         free_blocks_count' = g.free_blocks_count, free_blocks_count' <= MaxFree,
         itable' = g.itable, data' = g.data
  PROVE  Removed(d, i, freed)
BY DEF Left, Removed, Reset

LEMMA ResetImage ==
  ASSUME CrashTypes, NEW i \in Ino, NEW img \in ImageType, img.itable = itable
  PROVE  /\ Final(img, ResetInode(i)) \in ImageType
         /\ Final(img, ResetInode(i)).data = img.data
         /\ SameCounts(Final(img, ResetInode(i)), img)
         /\ Final(img, ResetInode(i)).itable = Reset(itable, i)
         /\ ResetInode(i) \in Seq(Store)
<1> DEFINE g == Final(img, ResetInode(i))
<1>1. /\ g \in ImageType /\ g.data = img.data /\ SameCounts(g, img)
      /\ g.itable[i] = Emptiest(img.itable[i])
      /\ \A j \in Ino \ {i} : g.itable[j] = img.itable[j]
  BY ResetFinal
<1> HIDE DEF g
<1>2. itable \in TableType /\ g.itable \in TableType
  BY <1>1, CrashFacts, Types, ImageParts
<1>3. g.itable = Reset(itable, i)
  BY <1>1, <1>2, ResetIs
<1>4. ResetInode(i) \in Seq(Store)
  BY ResetQuiet, QuietStores
<1> QED BY <1>1, <1>3, <1>4 DEF g

LEMMA RmdirWhole ==
  ASSUME CrashTypes, Running, NEW d \in Ino, NEW n, NEW i \in Ino,
         OldPath(d, n, i, "dir"), itable[i].num_entries = 0,
         Whole(ResetInode(i) \o Leave(d, i, 0))
  PROVE  Rmdir(d, n, i)
<1> DEFINE h == Final(Image, ResetInode(i))
           g == Final(h, Leave(d, i, 0))
<1>1. fs = "up" /\ Image \in ImageType /\ Image.itable = itable
      /\ Image.inode_bits = inode_bits /\ Image.data = data
      /\ Image.free_inodes_count = free_inodes_count
      /\ Image.free_blocks_count = free_blocks_count
      /\ Image.block_bits = block_bits
      /\ free_blocks_count \in Nat
  BY CrashFacts DEF OldPath, TypeOK
<1>2. /\ h \in ImageType /\ h.data = data /\ SameCounts(h, Image)
      /\ h.itable = Reset(itable, i) /\ ResetInode(i) \in Seq(Store)
  BY <1>1, ResetImage
<1> HIDE DEF h
<1>3. /\ h.inode_bits = inode_bits /\ h.free_inodes_count = free_inodes_count
      /\ h.free_blocks_count = free_blocks_count + 0
      /\ h.block_bits = block_bits
  BY <1>1, <1>2 DEF SameCounts
<1>4. /\ Leave(d, i, 0) \in Seq(Store)
      /\ Left(g, d, i, 0) /\ g.block_bits = h.block_bits
  BY <1>2, <1>3, LeaveFinal
<1> HIDE DEF g
<1>5. Final(Image, ResetInode(i) \o Leave(d, i, 0)) = g
  BY <1>2, <1>4, Joined DEF g, h
<1>6. Sound(g)
  BY <1>1, <1>4, LeftSound
<1>7. /\ inode_bits' = g.inode_bits /\ block_bits' = g.block_bits
      /\ free_inodes_count' = g.free_inodes_count
      /\ free_blocks_count' = g.free_blocks_count /\ free_blocks_count' <= MaxFree
      /\ itable' = g.itable /\ data' = g.data
      /\ fs' = fs /\ job' = job
  BY <1>5, <1>6, WholeMakes
<1>8. Removed(d, i, 0)
  BY <1>4, <1>7, LeftIsRemoved
<1> QED BY <1>3, <1>4, <1>7, <1>8 DEF Rmdir

\* The blocks of a list of one extent.
LEMMA PairsOfOne ==
  ASSUME NEW ext \in Seq(Extent), Len(ext) = 1
  PROVE  /\ ext[1].start \in Nat /\ ext[1].count \in Nat
         /\ Pairs(ext) = {1} \X Run(ext[1].start, ext[1].count)
         /\ Cardinality(Pairs(ext)) = ext[1].count
<1> DEFINE s == ext[1].start
           n == ext[1].count
<1>1. DOMAIN ext = {1} /\ s \in Nat /\ n \in Nat
  <2>1. ext[1] \in Extent
    OBVIOUS
  <2> QED BY <2>1 DEF Extent
<1>2. Pairs(ext) = {1} \X Run(s, n)
  BY <1>1 DEF Pairs
<1> HIDE DEF s, n
<1>3. IsFiniteSet(Run(s, n)) /\ Cardinality(Run(s, n)) = n
  <2> DEFINE l == s + n - 1
  <2>1. s \in Int /\ l \in Int /\ (IF s > l THEN 0 ELSE l - s + 1) = n
    BY <1>1
  <2>2. Run(s, n) = s .. l
    BY DEF Run
  <2> HIDE DEF l
  <2>3. IsFiniteSet(s .. l) /\ Cardinality(s .. l) = IF s > l THEN 0 ELSE l - s + 1
    BY <2>1, FS_Interval
  <2> QED BY <2>1, <2>2, <2>3
<1>4. IsFiniteSet({1}) /\ Cardinality({1}) = 1
  BY FS_Singleton
<1>5. Cardinality({1} \X Run(s, n)) = 1 * n
  <2> DEFINE R == Run(s, n)
             O == {1}
  <2> HIDE DEF R, O
  <2>1. IsFiniteSet(R) /\ Cardinality(R) = n /\ IsFiniteSet(O) /\ Cardinality(O) = 1
    BY <1>3, <1>4 DEF R, O
  <2>2. Cardinality(O \X R) = Cardinality(O) * Cardinality(R)
    BY <2>1, FS_Product
  <2> QED BY <2>1, <2>2 DEF R, O
<1> QED BY <1>1, <1>2, <1>5 DEF s, n

\* A block that is listed once is flipped.
LEMMA FlippedOnce ==
  ASSUME NEW bits, NEW B
  PROVE  Flipped(bits, {1} \X B) = FlipBits(bits, B)
<1> DEFINE P == {1} \X B
<1>1. {p[2] : p \in P} = B
  <2>1. ASSUME NEW b \in B PROVE b \in {p[2] : p \in P}
    <3>1. <<1, b>> \in P /\ <<1, b>>[2] = b
      OBVIOUS
    <3> QED BY <3>1
  <2> QED BY <2>1
<1>2. ASSUME NEW b \in B PROVE Cardinality({p \in P : p[2] = b}) % 2 = 1
  <2>1. {p \in P : p[2] = b} = {<<1, b>>}
    OBVIOUS
  <2>2. Cardinality({<<1, b>>}) = 1
    BY FS_Singleton
  <2> QED BY <2>1, <2>2
<1>3. {b \in {p[2] : p \in P} : Cardinality({p \in P : p[2] = b}) % 2 = 1} = B
  BY <1>1, <1>2
<1> QED BY <1>3 DEF Flipped

LEMMA BlocksListed ==
  ASSUME NEW ext \in Seq(Extent), Len(ext) <= 1, NEW blocks,
         blocks = IF ext = <<>> THEN <<>> ELSE BlocksOf(ext[1])
  PROVE  /\ blocks \in Seq(Nat) /\ Len(blocks) = Cardinality(Pairs(ext))
         /\ Flipped(block_bits, Pairs(ext))
              = FlipBits(block_bits, Firsts(blocks, Len(blocks)))
<1>1. CASE ext = <<>>
  <2>1. blocks = <<>> /\ blocks \in Seq(Nat) /\ Len(blocks) = 0
    BY <1>1
  <2>2. Pairs(ext) = {} /\ Cardinality({}) = 0
    BY <1>1, OwnedByEmpty, FS_EmptySet
  <2>3. Flipped(block_bits, {}) = FlipBits(block_bits, {})
    BY DEF Flipped
  <2>4. Firsts(blocks, 0) = {}
    BY DEF Firsts
  <2> QED BY <2>1, <2>2, <2>3, <2>4
<1>2. CASE ext # <<>>
  <2> DEFINE s == ext[1].start
             n == ext[1].count
  <2>1. Len(ext) = 1 /\ ext[1] \in Extent
    BY <1>2, OnlyExtent
  <2>2. /\ s \in Nat /\ n \in Nat
        /\ Pairs(ext) = {1} \X Run(s, n) /\ Cardinality(Pairs(ext)) = n
    BY <2>1, PairsOfOne
  <2>3. blocks = BlocksOf([start |-> s, count |-> n])
    BY <1>2 DEF BlocksOf
  <2> HIDE DEF s, n
  <2>4. blocks \in Seq(Nat) /\ Len(blocks) = n /\ Firsts(blocks, n) = Run(s, n)
    BY <2>2, <2>3, BlocksOfIs
  <2> QED BY <2>2, <2>4, FlippedOnce
<1> QED BY <1>1, <1>2

LEMMA UnlinkWhole ==
  ASSUME CrashTypes, Running, NEW d \in Ino, NEW n, NEW i \in Ino,
         OldPath(d, n, i, "file"),
         Clears(itable[i].ext, Len(itable[i].ext)), NEW blocks,
         blocks = IF itable[i].ext = <<>> THEN <<>> ELSE BlocksOf(itable[i].ext[1]),
         Whole(Flips(blocks, 1) \o ResetInode(i) \o Leave(d, i, Len(blocks)))
  PROVE  Unlink(d, n, i)
<1> DEFINE s1 == Flips(blocks, 1)
           s2 == ResetInode(i)
           s3 == Leave(d, i, Len(blocks))
           h1 == Final(Image, s1)
           h2 == Final(h1, s2)
           g == Final(h2, s3)
           ext == itable[i].ext
<1>1. fs = "up" /\ Image \in ImageType /\ Image.itable = itable
      /\ Image.inode_bits = inode_bits /\ Image.data = data
      /\ Image.free_inodes_count = free_inodes_count
      /\ Image.free_blocks_count = free_blocks_count
      /\ Image.block_bits = block_bits
      /\ free_blocks_count \in Nat
      /\ ext \in Seq(Extent) /\ Len(ext) <= 1
  BY CrashFacts DEF OldPath, TypeOK
<1>2. /\ blocks \in Seq(Nat) /\ Len(blocks) = Cardinality(Pairs(ext))
      /\ Flipped(block_bits, Pairs(ext))
           = FlipBits(block_bits, Firsts(blocks, Len(blocks)))
  <2> HIDE DEF ext
  <2>1. blocks = IF ext = <<>> THEN <<>> ELSE BlocksOf(ext[1])
    BY DEF ext
  <2> QED BY <1>1, <2>1, BlocksListed
<1> HIDE DEF ext
<1>3. Len(blocks) \in Nat /\ Counter(1, Len(blocks)) = free_blocks_count + Len(blocks)
      /\ Counter(1, Len(blocks)) >= 0
  BY <1>1, <1>2 DEF Counter
<1>4. s1 \in Seq(Store) /\ FlipsDone(h1, Image, blocks, 1)
  <2>1. 1 \in {-1, 1}
    OBVIOUS
  <2> QED BY <1>1, <1>2, <1>3, <2>1, FlipsFinal
<1> HIDE DEF s1, h1
<1>5. /\ h1 \in ImageType /\ h1.itable = itable /\ h1.data = data
      /\ h1.inode_bits = inode_bits /\ h1.free_inodes_count = free_inodes_count
      /\ h1.block_bits = FlipBits(block_bits, Firsts(blocks, Len(blocks)))
      /\ h1.free_blocks_count = free_blocks_count + Len(blocks)
  BY <1>1, <1>3, <1>4 DEF FlipsDone
<1>6. /\ h2 \in ImageType /\ h2.data = data /\ SameCounts(h2, h1)
      /\ h2.itable = Reset(itable, i) /\ s2 \in Seq(Store)
  BY <1>5, ResetImage
<1> HIDE DEF s2, h2
<1>7. /\ h2.inode_bits = inode_bits /\ h2.free_inodes_count = free_inodes_count
      /\ h2.free_blocks_count = free_blocks_count + Len(blocks)
      /\ h2.block_bits = h1.block_bits
  BY <1>5, <1>6 DEF SameCounts
<1>8. s3 \in Seq(Store) /\ Left(g, d, i, Len(blocks)) /\ g.block_bits = h2.block_bits
  BY <1>3, <1>6, <1>7, LeaveFinal
<1> HIDE DEF s3, g
<1>9. Final(Image, s1 \o s2 \o s3) = g
  <2> DEFINE s == s1 \o s2
  <2>1. Final(Image, s) = h2 /\ s \in Seq(Store)
    BY <1>4, <1>6, Joined DEF h1, h2
  <2> HIDE DEF s
  <2>2. Final(Image, s \o s3) = g
    BY <1>8, <2>1, Joined DEF g
  <2> QED BY <2>2 DEF s
<1>10. Sound(g)
  BY <1>1, <1>8, LeftSound
<1>11. Whole(s1 \o s2 \o s3)
  BY DEF s1, s2, s3
<1>12. /\ inode_bits' = g.inode_bits /\ block_bits' = g.block_bits
       /\ free_inodes_count' = g.free_inodes_count
       /\ free_blocks_count' = g.free_blocks_count /\ free_blocks_count' <= MaxFree
       /\ itable' = g.itable /\ data' = g.data
       /\ fs' = fs /\ job' = job
  BY <1>9, <1>10, <1>11, WholeMakes
<1>13. Removed(d, i, Cardinality(Pairs(ext)))
  BY <1>2, <1>8, <1>12, LeftIsRemoved
<1>14. block_bits' = Flipped(block_bits, Pairs(ext))
  BY <1>2, <1>5, <1>7, <1>8, <1>12
<1> QED BY <1>12, <1>13, <1>14 DEF Unlink, ext

LEMMA SizeSet ==
  ASSUME NEW t \in TableType, NEW f \in Ino, NEW u \in TableType, NEW s \in Nat,
         u[f] = WithField(t[f], "size", s), \A j \in Ino \ {f} : u[j] = t[j]
  PROVE  /\ u = [t EXCEPT ![f].size = s]
         /\ \A j \in Ino : u[j].ext = t[j].ext
<1> DEFINE x == [t EXCEPT ![f].size = s]
<1>1. t[f] \in Inode
  BY DEF TableType
<1>2. x[f] = WithField(t[f], "size", s)
  BY DEF TableType, WithField
<1>3. \A j \in Ino \ {f} : x[j] = t[j]
  BY DEF TableType
<1>4. x = [k \in Ino |-> x[k]]
  BY DEF TableType
<1>5. WithField(t[f], "size", s).ext = t[f].ext
  BY <1>1 DEF WithField, Inode
<1> HIDE DEF x
<1>6. \A j \in Ino : x[j] = u[j]
  BY <1>2, <1>3
<1>7. x \in TableType
  <2>1. \A j \in Ino : x[j] \in Inode
    BY <1>6 DEF TableType
  <2> QED BY <1>4, <2>1 DEF TableType
<1>8. u = x
  BY <1>6, <1>7, SameTables
<1>9. \A j \in Ino : u[j].ext = t[j].ext
  BY <1>5
<1> QED BY <1>8, <1>9 DEF x

LEMMA GrowWhole ==
  ASSUME CrashTypes, Running, NEW f \in Ino, NEW s \in Nat, NEW r \in Region, NEW n,
         fs = "up", itable[f].ext = <<>>, s > 0, s # itable[f].size,
         n = BlocksFor(s),
         GetAvailableBlock(block_bits, free_blocks_count, n, r),
         Run(r, n) \subseteq Region,
         Whole(FirstExtent(f, r, n)
                 \o Flips(BlocksOf([start |-> r, count |-> n]), -1)
                 \o Zeroing(r, s) \o << << <<"itable", f, "size">>, s >> >>)
  PROVE  Extend(f, s, [units |-> 0, fill |-> Blank])
<1> DEFINE ext == <<[start |-> r, count |-> n]>>
           blocks == BlocksOf([start |-> r, count |-> n])
           store == << <<"itable", f, "size">>, s >>
           s1 == FirstExtent(f, r, n)
           s2 == Flips(blocks, -1)
           s3 == Zeroing(r, s)
           s4 == <<store>>
           h1 == Final(Image, s1)
           h2 == Final(h1, s2)
           h3 == Final(h2, s3)
           h4 == Final(h3, s4)
           zeroed == Stored(Zeroed(data, ext, s), ext, [units |-> 0, fill |-> Blank])
<1>1. TypeOK /\ Image \in ImageType /\ Image.itable = itable
      /\ Image.inode_bits = inode_bits /\ Image.data = data
      /\ Image.free_inodes_count = free_inodes_count
      /\ Image.free_blocks_count = free_blocks_count
      /\ Image.block_bits = block_bits
      /\ free_blocks_count \in Nat /\ data \in DataType /\ itable \in TableType
  BY CrashFacts, Types
<1>2. n \in Nat /\ n >= 1 /\ r \in Nat
  <2>1. s \in Int /\ s # 0 /\ Wanted(s) = n
    BY DEF Wanted
  <2>2. r \in Nat
    BY DEF Region
  <2> QED BY <2>1, <2>2, WantedType
<1>3. /\ ext \in Seq(Extent) /\ Len(ext) = 1 /\ OwnedBy(ext) = Run(r, n)
      /\ LastExtent(ext) = [start |-> r, count |-> n]
  BY <1>2, OneRun DEF LastExtent
<1>4. /\ Grown(<<>>, block_bits, r, n) = ext
      /\ AllocatedAt(<<>>, block_bits, r, n) = r
  BY DEF Grown, AllocatedAt
<1>5. ZeroedBlocks(ext, s) = Run(r, n)
  <2> HIDE DEF ext
  <2>1. LastExtent(ext).start + LastExtent(ext).count - n = r
    BY <1>2, <1>3
  <2> QED BY <1>3, <2>1 DEF ZeroedBlocks
<1> HIDE DEF ext, blocks
<1>6. FieldSet(h1, Image, f, "ext", ext) /\ s1 \in Seq(Store)
  BY <1>1, <1>2, FirstExtentFinal, FirstExtentQuiet, QuietStores DEF ext
<1> HIDE DEF s1, h1
<1>7. /\ h1 \in ImageType /\ h1.block_bits = block_bits /\ h1.data = data
      /\ h1.free_blocks_count = free_blocks_count
      /\ h1.inode_bits = inode_bits /\ h1.free_inodes_count = free_inodes_count
      /\ h1.itable = [itable EXCEPT ![f].ext = ext]
      /\ h1.itable[f].ext = ext
      /\ \A j \in Ino \ {f} : h1.itable[j].ext = itable[j].ext
  <2>1. /\ h1.itable = [Image.itable EXCEPT ![f].ext = ext]
        /\ h1.itable[f].ext = ext
        /\ \A j \in Ino \ {f} : h1.itable[j].ext = Image.itable[j].ext
    <3> DEFINE h == Image
    <3>1. h \in ImageType /\ FieldSet(h1, h, f, "ext", ext) /\ ext \in Seq(Extent)
      BY <1>1, <1>3, <1>6
    <3> HIDE DEF h
    <3>2. /\ h1.itable = [h.itable EXCEPT ![f].ext = ext]
          /\ h1.itable[f].ext = ext
          /\ \A j \in Ino \ {f} : h1.itable[j].ext = h.itable[j].ext
      BY <3>1, ExtentSet
    <3> QED BY <3>2 DEF h
  <2> QED BY <1>1, <1>6, <2>1 DEF FieldSet, SameCounts
<1>8. /\ s2 \in Seq(Store)
      /\ h2 \in ImageType /\ h2.itable = h1.itable /\ h2.data = h1.data
      /\ h2.inode_bits = h1.inode_bits
      /\ h2.free_inodes_count = h1.free_inodes_count
      /\ h2.block_bits = FlipBits(block_bits, Run(r, n))
      /\ h2.free_blocks_count = free_blocks_count - n
      /\ r \in 0 .. MaxIndex
  BY <1>2, <1>7, RunFinal DEF blocks
<1> HIDE DEF s2, h2
<1>9. /\ s3 \in Seq(Store) /\ DataOnly(h3, h2)
      /\ \A c \in Region : h3.data[c] =
           IF c \in Run(r, n) THEN ZeroBlock(r, s, c) ELSE data[c]
  BY <1>1, <1>2, <1>7, <1>8, ZeroingFinal, DataLeaves
<1> HIDE DEF s3, h3
<1>10. h3 \in ImageType /\ h3.itable = h1.itable /\ h3.data = zeroed
       /\ h3.inode_bits = inode_bits /\ h3.free_inodes_count = free_inodes_count
       /\ h3.block_bits = FlipBits(block_bits, Run(r, n))
       /\ h3.free_blocks_count = free_blocks_count - n
  <2>1. h3 \in ImageType /\ h3.data \in DataType
    BY <1>9, ImageParts DEF DataOnly
  <2>2. h3.data = zeroed
    <3> DEFINE dat == h3.data
    <3>1. dat \in DataType /\ \A c \in Region : dat[c] =
            IF c \in Run(r, n) THEN ZeroBlock(r, s, c) ELSE data[c]
      BY <1>9, <2>1
    <3> HIDE DEF dat
    <3>2. dat = Stored(Zeroed(data, <<[start |-> r, count |-> n]>>, s),
                       <<[start |-> r, count |-> n]>>, [units |-> 0, fill |-> Blank])
      BY <1>1, <1>2, <3>1, ZeroingIsZeroed
    <3> QED BY <3>2 DEF dat, zeroed, ext
  <2> QED BY <1>7, <1>8, <1>9, <2>1, <2>2 DEF DataOnly, SameCounts
<1> HIDE DEF zeroed
<1>11. store \in Store
  BY DEF Store, TableStores, SizeStores
<1>12. h4 = Put(h3, store) /\ s4 \in Seq(Store)
  <2> HIDE DEF store
  <2> QED BY <1>11, FinalOne
<1>13. FieldSet(h4, h3, f, "size", s)
  BY <1>10, <1>11, <1>12, FieldPut
<1> HIDE DEF h4, s4, store
<1>14. Final(Image, s1 \o s2 \o s3 \o s4) = h4
  <2>1. Final(Image, s1 \o s2) = h2 /\ s1 \o s2 \in Seq(Store)
    BY <1>1, <1>6, <1>8, Joined DEF h1, h2
  <2>2. Final(Image, s1 \o s2 \o s3) = h3 /\ s1 \o s2 \o s3 \in Seq(Store)
    <3> DEFINE l == s1 \o s2
    <3> HIDE DEF l
    <3>1. l \in Seq(Store) /\ Final(Image, l) = h2
      BY <2>1 DEF l
    <3>2. Final(Image, l \o s3) = h3 /\ l \o s3 \in Seq(Store)
      BY <1>9, <3>1, Joined DEF h3
    <3> QED BY <3>2 DEF l
  <2> DEFINE l == s1 \o s2 \o s3
  <2> HIDE DEF l
  <2>3. l \in Seq(Store) /\ Final(Image, l) = h3
    BY <2>2 DEF l
  <2>4. Final(Image, l \o s4) = h4
    BY <1>12, <2>3, Joined DEF h4
  <2> QED BY <2>4 DEF l
<1>15. /\ h4.itable = [itable EXCEPT ![f].ext = ext, ![f].size = s]
       /\ \A j \in Ino : h4.itable[j].ext = h1.itable[j].ext
  <2>1. h3.itable \in TableType /\ h4.itable \in TableType
    BY <1>10, <1>13, ImageParts DEF FieldSet
  <2>2. h4.itable[f] = WithField(h3.itable[f], "size", s)
        /\ \A j \in Ino \ {f} : h4.itable[j] = h3.itable[j]
    BY <1>13 DEF FieldSet
  <2>3. /\ h4.itable = [h3.itable EXCEPT ![f].size = s]
        /\ \A j \in Ino : h4.itable[j].ext = h3.itable[j].ext
    <3> DEFINE t == h3.itable
               u == h4.itable
    <3> HIDE DEF t, u
    <3>1. t \in TableType /\ u \in TableType /\ u[f] = WithField(t[f], "size", s)
          /\ \A j \in Ino \ {f} : u[j] = t[j]
      BY <2>1, <2>2 DEF t, u
    <3>2. u = [t EXCEPT ![f].size = s] /\ \A j \in Ino : u[j].ext = t[j].ext
      BY <3>1, SizeSet
    <3> QED BY <3>2 DEF t, u
  <2>4. h3.itable = [itable EXCEPT ![f].ext = ext]
    BY <1>7, <1>10
  <2>5. h4.itable = [itable EXCEPT ![f].ext = ext, ![f].size = s]
    <3> DEFINE t == h3.itable
               u == h4.itable
    <3> HIDE DEF t, u
    <3>1. t = [itable EXCEPT ![f].ext = ext] /\ u = [t EXCEPT ![f].size = s]
      BY <2>3, <2>4 DEF t, u
    <3>2. u = [itable EXCEPT ![f].ext = ext, ![f].size = s]
      BY <1>1, <3>1 DEF TableType, Inode
    <3> QED BY <3>2 DEF u
  <2> QED BY <1>10, <2>3, <2>5
<1>16. /\ h4.inode_bits = inode_bits /\ h4.free_inodes_count = free_inodes_count
       /\ h4.block_bits = FlipBits(block_bits, Run(r, n))
       /\ h4.free_blocks_count = free_blocks_count - n /\ h4.data = zeroed
  BY <1>10, <1>13 DEF FieldSet, SameCounts
<1>17. Sound(h4)
  <2>1. ASSUME NEW j \in inode_bits PROVE OwnedBy(h4.itable[j].ext) \subseteq Region
    <3>1. j \in Ino /\ OwnedBy(itable[j].ext) \subseteq Region
      BY RunningSound
    <3>2. h4.itable[j].ext = h1.itable[j].ext
      BY <1>15, <3>1
    <3> QED BY <1>3, <1>7, <3>1, <3>2
  <2> QED BY <1>16, <2>1 DEF Sound
<1>18. Whole(s1 \o s2 \o s3 \o s4)
  BY DEF s1, s2, s3, s4, blocks, store
<1>19. /\ inode_bits' = inode_bits /\ free_inodes_count' = free_inodes_count
       /\ block_bits' = FlipBits(block_bits, Run(r, n))
       /\ free_blocks_count' = free_blocks_count - n
       /\ itable' = [itable EXCEPT ![f].ext = ext, ![f].size = s]
       /\ data' = zeroed /\ fs' = fs /\ job' = job
  BY <1>14, <1>15, <1>16, <1>17, <1>18, WholeMakes
<1>20. Request(f, s) = s /\ DataFor(f, s) = data /\ Grows(f, s) /\ EndInside(f, s)
  BY DEF Request, DataFor, FillsUp, Grows, EndInside
<1>21. Len(ext) <= MaxExtents
  <2>1. MaxExtents \in Nat \ {0}
    BY A1fsAssumption
  <2> QED BY <1>3, <2>1
<1> HIDE DEF ext
<1> QED BY <1>4, <1>5, <1>8, <1>19, <1>20, <1>21 DEF Extend, zeroed

LEMMA EndOfRun ==
  ASSUME NEW s \in Nat, NEW n \in Nat, NEW x \in Nat, NEW m \in Nat, NEW b \in Int,
         x <= n, x <= m, s + n - x <= b, b <= s + n - x + x - 1
  PROVE  b \in Run(s, n) /\ (s + n - 1) - b < m
BY DEF Run

\* The last blocks of a list of one extent ...
LEMMA LastOfOne ==
  ASSUME NEW ext \in Seq(Extent), Len(ext) = 1, NEW m \in Nat,
         NEW x, x = IF m < ext[1].count THEN m ELSE ext[1].count
  PROVE  /\ x \in Nat /\ x <= ext[1].count
         /\ LastPairs(ext, m) = {1} \X Run(ext[1].start + ext[1].count - x, x)
         /\ Cardinality(LastPairs(ext, m)) = x
<1> DEFINE s == ext[1].start
           n == ext[1].count
           P == Pairs(ext)
           Later(p, q) == q[1] > p[1] \/ (q[1] = p[1] /\ q[2] > p[2])
           last == s + n - 1
           a == s + n - x
<1>1. /\ s \in Nat /\ n \in Nat /\ P = {1} \X Run(s, n)
      /\ x \in Nat /\ x <= n /\ x <= m /\ (x = m \/ x = n)
  BY PairsOfOne
<1> HIDE DEF s, n, P
<1>2. ASSUME NEW p \in P
      PROVE  /\ p = <<1, p[2]>> /\ p[2] \in Nat /\ p[2] >= s /\ p[2] <= last
             /\ Cardinality({q \in P : Later(p, q)}) = last - p[2]
  <2>1. p = <<1, p[2]>> /\ p[2] \in Run(s, n)
    BY <1>1
  <2>2. p[2] \in Nat /\ p[2] >= s /\ p[2] <= last
    BY <1>1, <2>1 DEF Run
  <2> DEFINE I == (p[2] + 1) .. last
             O == {1}
  <2>3. {q \in P : Later(p, q)} = O \X I
    <3>1. ASSUME NEW q \in P, Later(p, q) PROVE q \in O \X I
      <4>1. q = <<1, q[2]>> /\ q[2] \in Run(s, n)
        BY <1>1
      <4>2. q[2] > p[2]
        BY <2>1, <3>1, <4>1
      <4>3. q[2] \in I
        BY <1>1, <2>2, <4>1, <4>2 DEF Run
      <4> QED BY <4>1, <4>3
    <3>2. ASSUME NEW q \in O \X I PROVE q \in P /\ Later(p, q)
      <4>1. q = <<1, q[2]>> /\ q[2] \in I
        OBVIOUS
      <4>2. q[2] \in Run(s, n) /\ q[2] > p[2]
        BY <1>1, <2>2, <4>1 DEF Run
      <4> QED BY <1>1, <2>1, <4>1, <4>2
    <3> QED BY <3>1, <3>2
  <2>4. IsFiniteSet(I) /\ Cardinality(I) = last - p[2]
    <3> DEFINE low == p[2] + 1
    <3>1. low \in Int /\ last \in Int
          /\ (IF low > last THEN 0 ELSE last - low + 1) = last - p[2]
      BY <1>1, <2>2
    <3> HIDE DEF low, last
    <3>2. /\ IsFiniteSet(low .. last)
          /\ Cardinality(low .. last) = IF low > last THEN 0 ELSE last - low + 1
      BY <3>1, FS_Interval
    <3> QED BY <3>1, <3>2 DEF low
  <2>5. IsFiniteSet(O) /\ Cardinality(O) = 1
    BY FS_Singleton
  <2>6. Cardinality(O \X I) = last - p[2]
    <3> DEFINE c == last - p[2]
    <3>1. c \in Int /\ Cardinality(I) = c
      BY <1>1, <2>2, <2>4
    <3> HIDE DEF O, I, c
    <3>2. Cardinality(O \X I) = Cardinality(O) * Cardinality(I)
      BY <2>4, <2>5, FS_Product
    <3>3. Cardinality(O \X I) = c
      BY <2>5, <3>1, <3>2
    <3> QED BY <3>3 DEF c
  <2> QED BY <2>1, <2>2, <2>3, <2>6
<1>3. LastPairs(ext, m) = {p \in P : last - p[2] < m}
  <2>1. LastPairs(ext, m)
          = {p \in P : Cardinality({q \in P : Later(p, q)}) < m}
    BY DEF LastPairs, P
  <2> HIDE DEF Later, last
  <2> QED BY <1>2, <2>1
<1>4. {p \in P : last - p[2] < m} = {1} \X Run(a, x)
  <2>1. ASSUME NEW p \in P, last - p[2] < m PROVE p \in {1} \X Run(a, x)
    <3>1. p = <<1, p[2]>> /\ p[2] \in Nat /\ p[2] >= s /\ p[2] <= last
      BY <1>2
    <3>2. p[2] \in Run(a, x)
      BY <1>1, <2>1, <3>1 DEF Run
    <3> QED BY <3>1, <3>2
  <2>2. ASSUME NEW p \in {1} \X Run(a, x) PROVE p \in P /\ last - p[2] < m
    <3>1. p = <<1, p[2]>> /\ p[2] \in Run(a, x)
      OBVIOUS
    <3> DEFINE b == p[2]
    <3>2. b \in Int /\ s + n - x <= b /\ b <= s + n - x + x - 1
      BY <1>1, <3>1 DEF Run
    <3> HIDE DEF b
    <3>3. b \in Run(s, n) /\ last - b < m
      BY <1>1, <3>2, EndOfRun
    <3>4. last - p[2] < m
      BY <3>3 DEF b
    <3>5. p = <<1, b>>
      BY <3>1 DEF b
    <3>6. p \in P
      BY <1>1, <3>3, <3>5
    <3> QED BY <3>4, <3>6
  <2> QED BY <2>1, <2>2
<1>5. Cardinality({1} \X Run(a, x)) = x
  <2> DEFINE e == <<[start |-> a, count |-> x]>>
  <2>1. a \in Nat
    BY <1>1
  <2> HIDE DEF a
  <2>2. [start |-> a, count |-> x] \in Extent
    BY <1>1, <2>1 DEF Extent
  <2>3. e \in Seq(Extent) /\ Len(e) = 1 /\ e[1].start = a /\ e[1].count = x
    BY <2>2
  <2> HIDE DEF e
  <2>4. Pairs(e) = {1} \X Run(a, x) /\ Cardinality(Pairs(e)) = x
    BY <2>3, PairsOfOne
  <2> QED BY <2>4
<1> QED BY <1>1, <1>3, <1>4, <1>5 DEF s, n, a

\* ... from the last on.
LastCount(ext, m) == IF m < ext[1].count THEN m ELSE ext[1].count

LastBlocks(ext, m) ==
  [k \in 1 .. LastCount(ext, m) |-> ext[1].start + ext[1].count - k]

LEMMA LastListed ==
  ASSUME NEW ext \in Seq(Extent), Len(ext) = 1, NEW m \in Nat
  PROVE  /\ LastBlocks(ext, m) \in Seq(Nat)
         /\ Len(LastBlocks(ext, m)) \in Nat
         /\ Len(LastBlocks(ext, m)) = Cardinality(LastPairs(ext, m))
         /\ Flipped(block_bits, LastPairs(ext, m))
              = FlipBits(block_bits,
                         Firsts(LastBlocks(ext, m), Len(LastBlocks(ext, m))))
<1> DEFINE s == ext[1].start
           n == ext[1].count
           x == LastCount(ext, m)
           blocks == LastBlocks(ext, m)
<1>1. /\ s \in Nat /\ n \in Nat /\ x \in Nat /\ x <= n
      /\ LastPairs(ext, m) = {1} \X Run(s + n - x, x)
      /\ Cardinality(LastPairs(ext, m)) = x
  <2>1. x = IF m < ext[1].count THEN m ELSE ext[1].count
    BY DEF LastCount
  <2> HIDE DEF x
  <2> QED BY <2>1, LastOfOne, PairsOfOne
<1>2. blocks = [k \in 1 .. x |-> s + n - k]
  BY DEF LastBlocks
<1> HIDE DEF s, n, x, blocks
<1>3. \A k \in 1 .. x : s + n - k \in Nat
  BY <1>1
<1>4. blocks \in Seq(Nat) /\ Len(blocks) = x
  BY <1>1, <1>2, <1>3
<1>5. \A k \in 1 .. x : blocks[k] = s + n - k
  BY <1>2
<1>6. ASSUME NEW b \in Firsts(blocks, x) PROVE b \in Run(s + n - x, x)
  <2>1. PICK k \in 1 .. x : b = s + n - k
    BY <1>5 DEF Firsts
  <2> QED BY <1>1, <2>1 DEF Run
<1>7. ASSUME NEW b \in Run(s + n - x, x) PROVE b \in Firsts(blocks, x)
  <2> DEFINE k == s + n - b
  <2>1. k \in 1 .. x /\ s + n - k = b
    BY <1>1 DEF Run
  <2> HIDE DEF k
  <2>2. blocks[k] = b
    BY <1>5, <2>1
  <2> QED BY <2>1, <2>2 DEF Firsts
<1>8. Firsts(blocks, x) = Run(s + n - x, x)
  BY <1>6, <1>7
<1>9. Flipped(block_bits, LastPairs(ext, m)) = FlipBits(block_bits, Firsts(blocks, x))
  BY <1>1, <1>8, FlippedOnce
<1> QED BY <1>1, <1>4, <1>9 DEF blocks

LEMMA EmptiedTable ==
  ASSUME NEW t \in TableType, NEW f \in Ino, NEW u \in TableType,
         u[f] = WithField(WithField(t[f], "ext", <<>>), "size", 0),
         \A j \in Ino \ {f} : u[j] = t[j]
  PROVE  /\ u = [t EXCEPT ![f].size = 0, ![f].ext = <<>>]
         /\ u[f].ext = <<>>
<1> DEFINE x == [t EXCEPT ![f].size = 0, ![f].ext = <<>>]
<1>1. t[f] \in Inode /\ u[f] \in Inode
  BY DEF TableType
<1>2. /\ u[f].mode = t[f].mode /\ u[f].size = 0 /\ u[f].ext = <<>>
      /\ u[f].num_entries = t[f].num_entries
  BY <1>1 DEF WithField, Inode
<1>3. /\ x[f].mode = t[f].mode /\ x[f].size = 0 /\ x[f].ext = <<>>
      /\ x[f].num_entries = t[f].num_entries /\ x[f] \in Inode
  <2> DEFINE y == [t[f] EXCEPT !.size = 0, !.ext = <<>>]
  <2>1. x[f] = y
    BY DEF TableType
  <2>2. <<>> \in Seq(Extent) /\ 0 \in Nat
    OBVIOUS
  <2>3. y.mode = t[f].mode /\ y.size = 0 /\ y.ext = <<>>
        /\ y.num_entries = t[f].num_entries
    BY <1>1 DEF Inode
  <2>4. y \in Inode
    BY <1>1, <2>2 DEF Inode
  <2> HIDE DEF x, y
  <2> QED BY <2>1, <2>3, <2>4
<1>4. \A j \in Ino \ {f} : x[j] = t[j]
  BY DEF TableType
<1>5. x = [k \in Ino |-> x[k]]
  BY DEF TableType
<1> HIDE DEF x
<1>6. x[f] = u[f]
  BY <1>1, <1>2, <1>3, SameInodes
<1>7. \A j \in Ino : x[j] = u[j]
  BY <1>4, <1>6
<1>8. x \in TableType
  <2>1. \A j \in Ino : x[j] \in Inode
    BY <1>7 DEF TableType
  <2> QED BY <1>5, <2>1 DEF TableType
<1>9. u = x
  BY <1>7, <1>8, SameTables
<1> QED BY <1>2, <1>9 DEF x

LEMMA ClearWhole ==
  ASSUME CrashTypes, Running, NEW f \in Ino, fs = "up",
         itable[f].ext # <<>>, itable[f].size > 0,
         NEW blocks, blocks = LastBlocks(itable[f].ext, BlocksFor(itable[f].size)),
         Whole(Flips(blocks, 1)
                 \o << << <<"itable", f, "ext">>, <<>> >>,
                       << <<"itable", f, "size">>, 0 >> >>)
  PROVE  Shrink(f, 0)
<1> DEFINE ext == itable[f].ext
           m == BlocksFor(itable[f].size)
           taken == LastPairs(ext, m)
           y == << <<"itable", f, "ext">>, <<>> >>
           z == << <<"itable", f, "size">>, 0 >>
           s1 == Flips(blocks, 1)
           s2 == <<y, z>>
           h1 == Final(Image, s1)
           h2 == Put(h1, y)
           h3 == Put(h2, z)
<1>1. TypeOK /\ Image \in ImageType /\ Image.itable = itable
      /\ Image.inode_bits = inode_bits /\ Image.data = data
      /\ Image.free_inodes_count = free_inodes_count
      /\ Image.free_blocks_count = free_blocks_count
      /\ Image.block_bits = block_bits
      /\ free_blocks_count \in Nat /\ itable \in TableType
  BY CrashFacts, Types
<1>2. ext \in Seq(Extent) /\ Len(ext) = 1 /\ m \in Nat
  BY <1>1, CrashFacts, OnlyExtent, InodeFields, BlocksForType
<1>3. LastPairs(ext, m - BlocksFor(0)) = taken
  <2>1. BlocksFor(0) = 0
    BY A1fsAssumption DEF BlocksFor
  <2>2. m - 0 = m
    BY <1>2
  <2> QED BY <2>1, <2>2
<1>4. blocks = LastBlocks(ext, m)
  BY DEF ext, m
<1> HIDE DEF ext, m
<1>5. /\ blocks \in Seq(Nat) /\ Len(blocks) \in Nat
      /\ Len(blocks) = Cardinality(taken)
      /\ Flipped(block_bits, taken)
           = FlipBits(block_bits, Firsts(blocks, Len(blocks)))
  BY <1>2, <1>4, LastListed
<1> HIDE DEF taken
<1>7. Counter(1, Len(blocks)) = free_blocks_count + Len(blocks)
      /\ Counter(1, Len(blocks)) >= 0
  BY <1>1, <1>5 DEF Counter
<1>8. s1 \in Seq(Store) /\ FlipsDone(h1, Image, blocks, 1)
  <2>1. 1 \in {-1, 1}
    OBVIOUS
  <2> QED BY <1>1, <1>5, <1>7, <2>1, FlipsFinal
<1> HIDE DEF s1, h1
<1>9. /\ h1 \in ImageType /\ h1.itable = itable /\ h1.data = data
      /\ h1.inode_bits = inode_bits /\ h1.free_inodes_count = free_inodes_count
      /\ h1.block_bits = FlipBits(block_bits, Firsts(blocks, Len(blocks)))
      /\ h1.free_blocks_count = free_blocks_count + Len(blocks)
  BY <1>1, <1>5, <1>7, <1>8 DEF FlipsDone
<1>10. y \in Store /\ z \in Store /\ <<>> \in Seq(Extent)
  BY MildIs DEF Calm, Emptied, SizeStores, Mild
<1>11. FieldSet(h2, h1, f, "ext", <<>>)
  BY <1>9, <1>10, FieldPut
<1> HIDE DEF h2
<1>12. FieldSet(h3, h2, f, "size", 0)
  BY <1>10, <1>11, FieldPut DEF FieldSet
<1> HIDE DEF h3, y, z
<1>13. Final(Image, s1 \o s2) = h3
  <2>1. s2 \in Seq(Store)
    BY <1>10
  <2>2. Final(h1, s2) = h3
    BY FinalTwo DEF h2, h3
  <2> HIDE DEF s2
  <2> QED BY <1>1, <1>8, <2>1, <2>2, Joined DEF h1
<1>14. /\ h3.itable = [itable EXCEPT ![f].size = 0, ![f].ext = <<>>]
       /\ h3.itable[f].ext = <<>>
       /\ \A j \in Ino \ {f} : h3.itable[j].ext = itable[j].ext
  <2> DEFINE u == h3.itable
  <2>1. /\ u \in TableType
        /\ u[f] = WithField(WithField(itable[f], "ext", <<>>), "size", 0)
        /\ \A j \in Ino \ {f} : u[j] = itable[j]
    BY <1>9, <1>11, <1>12, ImageParts DEF FieldSet
  <2> HIDE DEF u
  <2>2. u = [itable EXCEPT ![f].size = 0, ![f].ext = <<>>] /\ u[f].ext = <<>>
    BY <1>1, <2>1, EmptiedTable
  <2>3. \A j \in Ino \ {f} : u[j].ext = itable[j].ext
    BY <2>1
  <2> QED BY <2>2, <2>3 DEF u
<1>15. /\ h3.inode_bits = inode_bits /\ h3.free_inodes_count = free_inodes_count
       /\ h3.block_bits = FlipBits(block_bits, Firsts(blocks, Len(blocks)))
       /\ h3.free_blocks_count = free_blocks_count + Len(blocks) /\ h3.data = data
  BY <1>9, <1>11, <1>12 DEF FieldSet, SameCounts
<1>16. Sound(h3)
  <2>1. ASSUME NEW j \in inode_bits PROVE OwnedBy(h3.itable[j].ext) \subseteq Region
    <3>1. j \in Ino /\ OwnedBy(itable[j].ext) \subseteq Region
      BY RunningSound
    <3> QED BY <1>14, <3>1, OwnedByEmpty
  <2> QED BY <1>15, <2>1 DEF Sound
<1>17. Whole(s1 \o s2)
  BY DEF s1, s2, y, z
<1>18. /\ inode_bits' = inode_bits /\ free_inodes_count' = free_inodes_count
       /\ block_bits' = FlipBits(block_bits, Firsts(blocks, Len(blocks)))
       /\ free_blocks_count' = free_blocks_count + Len(blocks) /\ free_blocks_count' <= MaxFree
       /\ itable' = [itable EXCEPT ![f].size = 0, ![f].ext = <<>>]
       /\ data' = data /\ fs' = fs /\ job' = job
  <2>1. /\ inode_bits' = h3.inode_bits /\ block_bits' = h3.block_bits
        /\ free_inodes_count' = h3.free_inodes_count
        /\ free_blocks_count' = h3.free_blocks_count /\ free_blocks_count' <= MaxFree
        /\ itable' = h3.itable /\ data' = h3.data /\ fs' = fs /\ job' = job
    BY <1>13, <1>16, <1>17, WholeMakes
  <2> QED BY <1>14, <1>15, <2>1
<1>20. 0 < itable[f].size /\ itable[f].ext # <<>>
  OBVIOUS
<1> DEFINE ends == LastPairs(itable[f].ext, BlocksFor(itable[f].size) - BlocksFor(0))
<1>21. ends = taken
  BY <1>3 DEF ext, m
<1> HIDE DEF ends
<1>22. block_bits' = Flipped(block_bits, ends)
       /\ free_blocks_count' = free_blocks_count + Cardinality(ends)
  BY <1>5, <1>18, <1>21
<1> QED BY <1>18, <1>20, <1>22 DEF Shrink, ends

-----------------------------------------------------------------------------
(* Calls that are not killed are the calls of A1fs.                        *)

\* What a whole call comes to: the directories and files may be those that
\* kills have left.
MakesWhole ==
  \E d \in Dirs, n \in Names, i \in Ino, mode \in {"dir", "file"} :
    /\ i \notin inode_bits
    /\ \/ AddEntry(d, n, i, mode)
       \/ /\ WithInode(i, mode)[d].ext = <<>>
          /\ AddEntryInNewBlock(d, n, i, mode) \/ AddEntryNoSpace(d, n, i, mode)

RemovesWhole ==
  \E d \in Dirs, n \in Names, i \in Ino : Rmdir(d, n, i) \/ Unlink(d, n, i)

SizesWhole ==
  \E f \in Files, s \in Sizes :
    \/ s = 0 /\ Shrink(f, s)
    \/ itable[f].ext = <<>> /\ Extend(f, s, [units |-> 0, fill |-> Blank])

WholeCall == MakesWhole \/ RemovesWhole \/ SizesWhole

LEMMA CallsRun ==
  ASSUME NEW kind, NEW s, Call(kind, s)
  PROVE  fs = "up"
BY DEF Call

LEMMA MakeWhole ==
  ASSUME CrashTypes, Running, kills' = kills,
         NEW d \in Ino, NEW n \in Names, NEW i \in Ino,
         NEW mode \in {"dir", "file"}, MakeStored(d, n, i, mode)
  PROVE  /\ i \notin inode_bits
         /\ \/ AddEntry(d, n, i, mode)
            \/ /\ WithInode(i, mode)[d].ext = <<>>
               /\ \/ AddEntryInNewBlock(d, n, i, mode)
                  \/ AddEntryNoSpace(d, n, i, mode)
<1> DEFINE t == WithInode(i, mode)
           ext == t[d].ext
           taken == TakenInode(i, mode)
           Entry2(b, k) == EntryStores(d, t[d].num_entries, b, k, n, i)
           p == FirstOf(Vacant(ext, data))
           added == taken \o Entry2(p[2], p[3])
           block(r) == taken \o FirstExtent(d, r, 1) \o Marked(r)
                         \o Flips(<<r>>, -1) \o Entry2(r, 0)
<1>1. /\ NewPath(d, n) /\ free_inodes_count # 0
      /\ i \notin inode_bits /\ 0 .. (i - 1) \subseteq inode_bits
  BY DEF MakeStored
<1>2. \/ Vacant(ext, data) # {} /\ Call("entry", added)
      \/ /\ ext = <<>>
         /\ \E r \in Region :
              /\ GetAvailableBlock(block_bits, free_blocks_count, 1, r)
              /\ Call("block", block(r))
      \/ /\ ext = <<>>
         /\ GetAvailableBlock(block_bits, free_blocks_count, 1, -1)
         /\ Call("entry", taken)
  BY DEF MakeStored
<1>3. CASE Vacant(ext, data) # {} /\ Call("entry", added)
  <2>1. Whole(added)
    <3> HIDE DEF added
    <3> QED BY <1>3, CallIsWhole
  <2> QED BY <1>1, <1>3, <2>1, AddWhole
<1>4. ASSUME ext = <<>>, NEW r \in Region,
             GetAvailableBlock(block_bits, free_blocks_count, 1, r),
             Call("block", block(r))
      PROVE  AddEntryInNewBlock(d, n, i, mode)
  <2>1. Whole(block(r))
    <3> HIDE DEF block
    <3> QED BY <1>4, CallIsWhole
  <2> QED BY <1>1, <1>4, <2>1, NewBlockWhole
<1>5. CASE /\ ext = <<>>
           /\ GetAvailableBlock(block_bits, free_blocks_count, 1, -1)
           /\ Call("entry", taken)
  <2>1. Whole(taken)
    <3> HIDE DEF taken
    <3> QED BY <1>5, CallIsWhole
  <2> QED BY <1>1, <1>5, <2>1, NoSpaceWhole
<1> QED BY <1>1, <1>2, <1>3, <1>4, <1>5

LEMMA RemoveWhole ==
  ASSUME CrashTypes, Running, kills' = kills,
         NEW d \in Ino, NEW n \in Names, NEW i \in Ino,
         RmdirStored(d, n, i) \/ UnlinkStored(d, n, i)
  PROVE  Rmdir(d, n, i) \/ Unlink(d, n, i)
<1>1. CASE RmdirStored(d, n, i)
  <2> DEFINE s == ResetInode(i) \o Leave(d, i, 0)
  <2>1. OldPath(d, n, i, "dir") /\ itable[i].num_entries = 0 /\ Call("rmdir", s)
    BY <1>1 DEF RmdirStored
  <2>2. Whole(s)
    <3> HIDE DEF s
    <3> QED BY <2>1, CallIsWhole
  <2> QED BY <2>1, <2>2, RmdirWhole
<1>2. CASE UnlinkStored(d, n, i)
  <2> DEFINE ext == itable[i].ext
             blocks == IF ext = <<>> THEN <<>> ELSE BlocksOf(ext[1])
             s == Flips(blocks, 1) \o ResetInode(i) \o Leave(d, i, Len(blocks))
  <2>1. /\ OldPath(d, n, i, "file") /\ Clears(ext, Len(ext)) /\ Call("unlink", s)
    BY <1>2 DEF UnlinkStored
  <2>2. Whole(s)
    <3> HIDE DEF s
    <3> QED BY <2>1, CallIsWhole
  <2> QED BY <2>1, <2>2, UnlinkWhole
<1> QED BY <1>1, <1>2

LEMMA SizeWhole ==
  ASSUME CrashTypes, Running, kills' = kills, NEW f \in Ino
  PROVE  /\ ClearStored(f) => 0 \in Sizes /\ Shrink(f, 0)
         /\ \A s \in Nat : GrowStored(f, s) =>
              itable[f].ext = <<>> /\ Extend(f, s, [units |-> 0, fill |-> Blank])
<1>1. ASSUME ClearStored(f) PROVE 0 \in Sizes /\ Shrink(f, 0)
  <2> DEFINE last == LastBlocks(itable[f].ext, BlocksFor(itable[f].size))
             s == Flips(last, 1)
                    \o << << <<"itable", f, "ext">>, <<>> >>,
                          << <<"itable", f, "size">>, 0 >> >>
  <2>1. /\ 0 \in Sizes /\ itable[f].ext # <<>> /\ itable[f].size > 0
        /\ Call("clear", s)
    BY <1>1 DEF ClearStored, LastBlocks, LastCount
  <2>2. Whole(s)
    <3> HIDE DEF s
    <3> QED BY <2>1, CallIsWhole
  <2>3. fs = "up"
    BY <2>2 DEF Whole
  <2> QED BY <2>1, <2>2, <2>3, ClearWhole
<1>2. ASSUME NEW s \in Nat, GrowStored(f, s)
      PROVE  itable[f].ext = <<>> /\ Extend(f, s, [units |-> 0, fill |-> Blank])
  <2> DEFINE n == BlocksFor(s)
             stores(r) == FirstExtent(f, r, n)
                            \o Flips(BlocksOf([start |-> r, count |-> n]), -1)
                            \o Zeroing(r, s)
                            \o << << <<"itable", f, "size">>, s >> >>
  <2>1. itable[f].ext = <<>> /\ s > 0 /\ s # itable[f].size
    BY <1>2 DEF GrowStored
  <2>2. PICK r \in Region :
          /\ GetAvailableBlock(block_bits, free_blocks_count, n, r)
          /\ Run(r, n) \subseteq Region
          /\ Call("grow", stores(r))
    BY <1>2 DEF GrowStored
  <2>3. Whole(stores(r))
    <3> HIDE DEF stores
    <3> QED BY <2>2, CallIsWhole
  <2>4. fs = "up"
    <3> HIDE DEF stores
    <3> QED BY <2>3 DEF Whole
  <2> QED BY <2>1, <2>2, <2>3, <2>4, GrowWhole
<1> QED BY <1>1, <1>2

LEMMA StepIsWhole ==
  ASSUME CrashTypes, Running, StoredCall, kills' = kills
  PROVE  WholeCall
<1>1. Dirs \subseteq Ino /\ Files \subseteq Ino /\ Sizes \subseteq Nat
  BY A1fsAssumption DEF Dirs, Files
<1>2. ASSUME NEW d \in Dirs, NEW n \in Names, NEW i \in Ino,
             NEW mode \in {"dir", "file"}, MakeStored(d, n, i, mode)
      PROVE  MakesWhole
  <2>1. d \in Ino
    BY <1>1
  <2>2. /\ i \notin inode_bits
        /\ \/ AddEntry(d, n, i, mode)
           \/ /\ WithInode(i, mode)[d].ext = <<>>
              /\ \/ AddEntryInNewBlock(d, n, i, mode)
                 \/ AddEntryNoSpace(d, n, i, mode)
    BY <1>2, <2>1, MakeWhole
  <2> QED BY <2>2 DEF MakesWhole
<1>3. ASSUME NEW d \in Dirs, NEW n \in Names, NEW i \in Ino,
             RmdirStored(d, n, i) \/ UnlinkStored(d, n, i)
      PROVE  RemovesWhole
  <2>1. d \in Ino
    BY <1>1
  <2>2. Rmdir(d, n, i) \/ Unlink(d, n, i)
    BY <1>3, <2>1, RemoveWhole
  <2> QED BY <2>2 DEF RemovesWhole
<1>4. ASSUME NEW f \in Files, ClearStored(f) \/ \E s \in Sizes : GrowStored(f, s)
      PROVE  SizesWhole
  <2>1. f \in Ino
    BY <1>1
  <2>2. CASE ClearStored(f)
    <3>1. 0 \in Sizes /\ Shrink(f, 0)
      BY <2>1, <2>2, SizeWhole
    <3> QED BY <3>1 DEF SizesWhole
  <2>3. ASSUME NEW s \in Sizes, GrowStored(f, s) PROVE SizesWhole
    <3>1. s \in Nat
      BY <1>1
    <3>2. itable[f].ext = <<>> /\ Extend(f, s, [units |-> 0, fill |-> Blank])
      BY <2>1, <2>3, <3>1, SizeWhole
    <3> QED BY <3>2 DEF SizesWhole
  <2> QED BY <1>4, <2>2, <2>3
<1> QED BY <1>2, <1>3, <1>4 DEF StoredCall, WholeCall

-----------------------------------------------------------------------------
(* What holds between calls, and until the first kill.                     *)

LEMMA StepBecomes ==
  ASSUME CrashTypes, Drifted, StoredCall
  PROVE  /\ fs = "up" /\ kills' \in {kills, kills + 1}
         /\ \E g \in ImageType : Becomes(g) /\ Image' = g
<1>1. Dirs \subseteq Ino /\ Files \subseteq Ino /\ Sizes \subseteq Nat
  BY A1fsAssumption DEF Dirs, Files
<1>2. PICK kind, s : Settles(Image, s) /\ Call(kind, s)
  BY <1>1, MakeSettles, RmdirSettles, UnlinkSettles, GrowSettles,
     ClearSettles DEF StoredCall
<1>3. /\ s \in Seq(Store) /\ Image \in ImageType /\ kills \in Nat
  BY <1>2, CrashFacts DEF Settles, CrashTypes
<1>4. Len(s) \in Nat /\ Passed(Image, s) \subseteq ImageType
  BY <1>3, PassedTyped
<1>5. /\ fs = "up" /\ kills' \in {kills, kills + 1}
      /\ \E k \in 0 .. Len(s) : Becomes(Images(Image, s)[k])
  <2>1. Len(s) \in 0 .. Len(s) /\ 1 .. (Len(s) - 1) \subseteq 0 .. Len(s)
    BY <1>4
  <2> QED BY <1>2, <2>1 DEF Call
<1>6. PICK g \in ImageType : Becomes(g)
  BY <1>4, <1>5 DEF Passed
<1>7. kills' \in Nat
  BY <1>3, <1>5
<1>8. Image' = g
  BY <1>6, <1>7, BecomesImage
<1> QED BY <1>5, <1>6, <1>8

LEMMA StepRuns ==
  ASSUME CrashTypes, Drifted, Running, StoredNext
  PROVE  Running'
<1>1. CASE UNCHANGED crashvars
  <2>1. fs' = fs /\ Image' = Image
    BY <1>1 DEF crashvars, vars, bitmaps, counters, Image
  <2> QED BY <2>1 DEF Running, Sound
<1>2. CASE StoredCall
  <2>1. PICK g \in ImageType : Becomes(g) /\ Image' = g
    BY <1>2, StepBecomes
  <2>2. fs' = "up" => Sound(g)
    BY <2>1 DEF Becomes
  <2> QED BY <2>1, <2>2 DEF Running, Sound
<1>3. CASE Ends
  BY <1>3, EndsKeeps DEF Running, CrashTypes
<1> QED BY <1>1, <1>2, <1>3 DEF StoredNext

\* A whole call is a call, and an orderly one where no call was killed.
LEMMA WholeIsNext ==
  ASSUME WholeCall
  PROVE  Next
<1>1. \A s : [units |-> 0, fill |-> Blank] \in Calls(s)
  BY DEF Calls
<1>2. CASE MakesWhole
  BY <1>2 DEF MakesWhole, Next
<1>3. CASE RemovesWhole
  BY <1>3 DEF RemovesWhole, Next
<1>4. CASE SizesWhole
  BY <1>1, <1>4 DEF SizesWhole, Next
<1> QED BY <1>2, <1>3, <1>4 DEF WholeCall

LEMMA WholeIsOrderly ==
  ASSUME Steady, WholeCall
  PROVE  NextOrderly
<1>1. Dirs \subseteq LiveDirs
  BY DirsLive
<1>2. \A s : [units |-> 0, fill |-> Blank] \in Calls(s)
  BY DEF Calls
<1>3. CASE MakesWhole
  <2>1. PICK d \in Dirs, n \in Names, i \in Ino, mode \in {"dir", "file"} :
          /\ i \notin inode_bits
          /\ \/ AddEntry(d, n, i, mode)
             \/ /\ WithInode(i, mode)[d].ext = <<>>
                /\ AddEntryInNewBlock(d, n, i, mode) \/ AddEntryNoSpace(d, n, i, mode)
    BY <1>3 DEF MakesWhole
  <2>2. d # i
    BY <1>1, <2>1 DEF LiveDirs, InUse
  <2>3. WithInode(i, mode)[d] = itable[d]
    BY <2>2, <1>1 DEF WithInode, LiveDirs, InUse, Steady, TypeOK
  <2> QED BY <2>1, <2>3 DEF NextOrderly
<1>4. CASE RemovesWhole
  BY <1>4 DEF RemovesWhole, NextOrderly
<1>5. CASE SizesWhole
  BY <1>2, <1>5 DEF SizesWhole, NextOrderly
<1> QED BY <1>3, <1>4, <1>5 DEF WholeCall

\* What holds between calls, whatever was killed, until another call than the
\* orderly ones is made.
Standing ==
  /\ CrashTypes /\ Drifted /\ Running
  /\ kills = 0 => Orderly

LEMMA StandingStep ==
  ASSUME Standing, StoredNext
  PROVE  /\ Standing'
         /\ [kills' = kills => IF kills = 0 THEN NextOrderly ELSE Next]_vars
<1>1. CrashTypes /\ Drifted /\ Running /\ kills \in Nat
  BY DEF Standing, CrashTypes
<1>2. CrashTypes' /\ Drifted' /\ Running'
  BY <1>1, StoredStep, StepRuns
<1>3. CASE UNCHANGED crashvars
  <2>1. UNCHANGED <<vars, kills>>
    BY <1>3 DEF crashvars
  <2>2. Orderly => Orderly'
    BY <2>1, OrderlyKept
  <2> QED BY <1>2, <2>1, <2>2 DEF Standing
<1>4. CASE StoredCall
  <2>1. Up /\ kills' \in {kills, kills + 1}
    BY <1>1, <1>4, StepBecomes DEF Up
  <2>2. CASE kills' = kills
    <3>1. WholeCall
      BY <1>1, <1>4, <2>2, StepIsWhole
    <3>2. CASE kills = 0
      <4>1. NextOrderly
        BY <2>1, <3>1, <3>2, WholeIsOrderly DEF Standing, Orderly, Tidy, Steady
      <4>2. Orderly'
        BY <3>2, <4>1, OrderlyKept DEF Standing
      <4> QED BY <1>2, <3>2, <4>1, <4>2 DEF Standing
    <3>3. CASE kills # 0
      BY <1>2, <2>2, <3>1, <3>3, WholeIsNext DEF Standing
    <3> QED BY <3>2, <3>3
  <2>3. CASE kills' = kills + 1
    BY <1>1, <1>2, <2>3 DEF Standing
  <2> QED BY <2>1, <2>2, <2>3
<1>5. CASE Ends
  <2>1. NextOrderly /\ kills' = kills
    BY <1>1, <1>5, EndsKeeps DEF CrashTypes
  <2>2. Next
    BY <2>1 DEF NextOrderly, Next
  <2>3. kills = 0 => Orderly'
    BY <2>1, OrderlyKept DEF Standing
  <2> QED BY <1>2, <2>1, <2>2, <2>3 DEF Standing
<1> QED BY <1>3, <1>4, <1>5 DEF StoredNext

Followed == "any" \notin cut => Standing

LEMMA FollowedInvariant == CrashSpec => []Followed
<1>1. CrashInit => Followed
  <2> SUFFICES ASSUME CrashInit PROVE Standing
    BY DEF Followed
  <2>1. CrashTypes /\ Drifted
    BY CrashStart
  <2>2. Init /\ Orderly
    BY InitTypes, InitInside, InitExclusive, InitTidy DEF CrashInit, Orderly
  <2>3. Running
    <3>1. Up /\ inode_bits \subseteq Ino
      BY <2>2 DEF Init, Up, Orderly, TypeOK
    <3>2. Image.inode_bits = inode_bits /\ Image.itable = itable
      BY DEF Image
    <3> QED BY <2>2, <3>1, <3>2 DEF Running, Sound, Orderly, Inside
  <2> QED BY <2>1, <2>2, <2>3 DEF Standing
<1>2. Followed /\ [CrashNext]_crashvars => Followed'
  BY AnyStays, StandingStep DEF Followed
<1> QED BY <1>1, <1>2, PTL DEF CrashSpec

\* A call that is not killed does with its stores, one after the other, what
\* A1fs says of it in one step, on every image that earlier kills have left,
\* and it is an orderly one as long as none was killed (a1fs.c:288-611,
\* 676-690, 799-833).
THEOREM WholeCallsAlwaysAgree == CrashSpec => WholeCallsAgree
<1>1. Followed /\ [CrashNext]_crashvars
        => [kills' = kills /\ "any" \notin cut'
              => IF kills = 0 THEN NextOrderly ELSE Next]_vars
  BY AnyStays, StandingStep DEF Followed
<1> QED BY <1>1, FollowedInvariant, PTL DEF CrashSpec, WholeCallsAgree

-----------------------------------------------------------------------------
(* Blocks after kills inside rmdir and inside calls that add an entry.     *)

\* An image with the same blocks, of which inodes may have lost theirs.
Gentle(g, img) ==
  /\ g.block_bits = img.block_bits
  /\ \A j \in Ino : g.itable[j].ext \in {img.itable[j].ext, <<>>}

LEMMA MildPut ==
  ASSUME NEW img \in ImageType, NEW st \in Mild
  PROVE  Gentle(Put(img, st), img)
<1> DEFINE g == Put(img, st)
<1>1. st \in Store
  BY MildIs
<1>2. g \in ImageType
  BY <1>1, PutTyped
<1>3. g.block_bits = img.block_bits
  <2>1. st \notin MarkStores
    <3>1. \/ st \in BitStores \/ st \in CountStores \/ st \in FreeStores
          \/ st \in Quiet
      BY MildIs DEF Mild
    <3>2. st[1][1] # "block_bits"
      BY <3>1, StoreKinds DEF Quiet
    <3> QED BY <3>2, StoreKinds
  <2> QED BY <1>1, <2>1, PutTyped
<1>4. CASE st \notin TableStores
  BY <1>1, <1>3, <1>4, PutTyped DEF Gentle
<1>5. CASE st \in TableStores
  <2>1. st \in Emptied \cup ModeStores \cup SizeStores \cup EntriesStores
    <3>1. st[1][1] = "itable"
      BY <1>5, StoreKinds
    <3> QED BY <3>1, StoreKinds DEF Mild, Calm
  <2>2. ASSUME NEW i \in Ino, NEW f, NEW v, st = << <<"itable", i, f>>, v >>,
               f # "ext" \/ v = <<>>
        PROVE  \A j \in Ino : g.itable[j].ext \in {img.itable[j].ext, <<>>}
    <3>1. FieldSet(g, img, i, f, v)
      BY <1>1, <2>2, FieldPut
    <3>2. img.itable[i] \in Inode
      BY ImageParts, InodeFields
    <3> HIDE DEF g
    <3>3. g.itable[i].ext \in {img.itable[i].ext, <<>>}
      BY <2>2, <3>1, <3>2 DEF FieldSet, WithField, Inode
    <3> QED BY <3>1, <3>3 DEF FieldSet
  <2>3. \E i \in Ino : \E f, v : /\ st = << <<"itable", i, f>>, v >>
                                 /\ f # "ext" \/ v = <<>>
    <3>1. CASE st \in Emptied
      BY <3>1 DEF Emptied
    <3>2. CASE st \in ModeStores
      BY <3>2 DEF ModeStores
    <3>3. CASE st \in SizeStores
      BY <3>3 DEF SizeStores
    <3>4. CASE st \in EntriesStores
      BY <3>4 DEF EntriesStores
    <3> QED BY <2>1, <3>1, <3>2, <3>3, <3>4
  <2> QED BY <1>3, <2>2, <2>3 DEF Gentle
<1> QED BY <1>4, <1>5

LEMMA MildPassed ==
  ASSUME NEW img \in ImageType, NEW s \in Seq(Mild), NEW g \in Passed(img, s)
  PROVE  Gentle(g, img)
<1> DEFINE G == {k \in 0 .. Len(s) : Gentle(Images(img, s)[k], img)}
<1>1. Len(s) \in Nat /\ s \in Seq(Store) /\ \A k \in 1 .. Len(s) : s[k] \in Mild
  BY MildIs
<1>2. 0 \in G
  BY <1>1, ImagesUnfold DEF Gentle
<1>3. ASSUME NEW k \in 1 .. Len(s), k - 1 \in G
      PROVE  k \in G
  <2> DEFINE old == Images(img, s)[k - 1]
             new == Images(img, s)[k]
  <2>1. new = Put(old, s[k])
    BY <1>1, StoreAt
  <2>2. old \in ImageType /\ s[k] \in Mild
    BY <1>1, ImagesTyped
  <2>3. Gentle(old, img)
    BY <1>3
  <2>4. Gentle(new, img)
    <3> HIDE DEF old, new
    <3>1. Gentle(new, old)
      BY <2>1, <2>2, MildPut
    <3> QED BY <2>3, <3>1 DEF Gentle
  <2> QED BY <1>1, <2>4
<1> HIDE DEF G
<1>4. 0 .. Len(s) \subseteq G
  BY <1>1, <1>2, <1>3, Along
<1> QED BY <1>4 DEF G, Passed

\* A call that is killed.
LEMMA KilledMild ==
  ASSUME CrashTypes, NEW kind, NEW s, Call(kind, s), kills' # kills,
         s \in Seq(Mild)
  PROVE  Untouched
<1>1. Image \in ImageType /\ Len(s) \in Nat
  BY CrashFacts
<1>2. PICK k \in 1 .. (Len(s) - 1) : Becomes(Images(Image, s)[k])
  BY DEF Call
<1>3. k \in 0 .. Len(s)
  BY <1>1
<1>4. Images(Image, s)[k] \in Passed(Image, s)
  BY <1>3 DEF Passed
<1> DEFINE g == Images(Image, s)[k]
<1>5. Gentle(g, Image)
  <2> HIDE DEF g
  <2> QED BY <1>1, <1>4, MildPassed DEF g
<1> HIDE DEF g
<1>6. block_bits' = g.block_bits /\ itable' = g.itable
  BY <1>2 DEF Becomes, g
<1> QED BY <1>5, <1>6, CrashFacts DEF Gentle, Untouched, ExtentsKept

LEMMA KillUntouched ==
  ASSUME CrashTypes, StoredCall, kills' # kills, cut' \subseteq {"entry", "rmdir"}
  PROVE  Untouched
<1>1. Dirs \subseteq Ino
  BY DEF Dirs
<1>2. ASSUME NEW kind, NEW s, Call(kind, s), kind \notin {"entry", "rmdir"}
      PROVE  FALSE
  BY <1>2 DEF Call
<1>3. ASSUME NEW d \in Dirs, NEW n \in Names, NEW i \in Ino,
             NEW mode \in {"dir", "file"}, MakeStored(d, n, i, mode)
      PROVE  Untouched
  <2> DEFINE t == WithInode(i, mode)
             ext == t[d].ext
             taken == TakenInode(i, mode)
             p == FirstOf(Vacant(ext, data))
             entry == EntryStores(d, t[d].num_entries, p[2], p[3], n, i)
  <2>1. i \in Ino \ inode_bits /\ d \in Ino
    BY <1>1, <1>3 DEF MakeStored
  <2>2. taken \in Seq(Mild)
    BY <2>1, TakenSettles
  <2>3. \/ Vacant(ext, data) # {} /\ Call("entry", taken \o entry)
        \/ \E s : Call("block", s)
        \/ Call("entry", taken)
    BY <1>3 DEF MakeStored
  <2>4. CASE Vacant(ext, data) # {} /\ Call("entry", taken \o entry)
    <3>1. ext \in Seq(Extent) /\ Len(ext) <= 1 /\ t[d].num_entries \in Int
      BY <2>1, NewInodeFacts
    <3>2. Vacant(ext, data) \in SUBSET Spots
      BY <3>1, PlacesAreSpots DEF Vacant
    <3>3. p \in Spots
      BY <2>4, <3>2, FirstOfExists
    <3>4. entry \in Seq(Mild)
      BY <2>1, <3>1, <3>3, SpotsType, EntryQuiet
    <3> HIDE DEF taken, entry
    <3>5. taken \o entry \in Seq(Mild)
      BY <2>2, <3>4, ConcatProperties
    <3> QED BY <2>4, <3>5, KilledMild
  <2>5. CASE Call("entry", taken)
    <3> HIDE DEF taken
    <3> QED BY <2>2, <2>5, KilledMild
  <2> QED BY <1>2, <2>3, <2>4, <2>5
<1>4. ASSUME NEW d \in Dirs, NEW n, NEW i \in Ino, RmdirStored(d, n, i)
      PROVE  Untouched
  <2> DEFINE reset == ResetInode(i)
             leave == Leave(d, i, 0)
  <2>1. Call("rmdir", reset \o leave) /\ d \in Ino
    BY <1>1, <1>4 DEF RmdirStored
  <2>2. reset \in Seq(Mild)
    BY ResetQuiet
  <2>3. leave \in Seq(Mild)
    <3>1. /\ Image \in ImageType /\ Image.inode_bits = inode_bits
          /\ Image.free_inodes_count = free_inodes_count
          /\ Image.free_blocks_count <= free_blocks_count + 0
      BY CrashFacts DEF TypeOK
    <3> QED BY <2>1, <3>1, LeaveSettles
  <2> HIDE DEF reset, leave
  <2>4. reset \o leave \in Seq(Mild)
    BY <2>2, <2>3, ConcatProperties
  <2> QED BY <2>1, <2>4, KilledMild
<1>5. ASSUME NEW d, NEW n, NEW i, UnlinkStored(d, n, i)
      PROVE  \E s : Call("unlink", s)
  BY <1>5 DEF UnlinkStored
<1>6. ASSUME NEW f, ClearStored(f) \/ \E s \in Sizes : GrowStored(f, s)
      PROVE  \E kind \in {"grow", "clear"} : \E s : Call(kind, s)
  BY <1>6 DEF ClearStored, GrowStored
<1> QED BY <1>2, <1>3, <1>4, <1>5, <1>6 DEF StoredCall

LEMMA WholeExclusive ==
  ASSUME CrashTypes, Inside, Exclusive, Up, WholeCall
  PROVE  Inside' /\ Exclusive'
<1>1. Dirs \subseteq Ino /\ Files \subseteq Ino /\ Sizes \subseteq Nat /\ TypeOK
  BY CrashFacts, A1fsAssumption DEF Dirs, Files
<1>2. ASSUME Untouched PROVE Inside' /\ Exclusive'
  BY <1>2, UntouchedInside, UntouchedExclusive
<1>3. ASSUME NEW d \in Ino, NEW r, NEW n, Takes(d, <<>>, r, n), n >= 1
      PROVE  Inside' /\ Exclusive'
  BY <1>1, <1>3, TakesInside, TakesExclusive
<1>4. ASSUME NEW i \in Ino, NEW P, Frees(i, P), itable'[i].ext = <<>>
      PROVE  Inside' /\ Exclusive'
  BY <1>4, FreesInside, FreesExclusive
<1>5. CASE MakesWhole
  <2>1. PICK d \in Dirs, n \in Names, i \in Ino, mode \in {"dir", "file"} :
          \/ AddEntry(d, n, i, mode)
          \/ /\ WithInode(i, mode)[d].ext = <<>>
             /\ AddEntryInNewBlock(d, n, i, mode) \/ AddEntryNoSpace(d, n, i, mode)
    BY <1>5 DEF MakesWhole
  <2>2. d \in Ino
    BY <1>1
  <2>3. CASE AddEntry(d, n, i, mode) \/ AddEntryNoSpace(d, n, i, mode)
    <3>1. Untouched
      BY <1>1, <2>2, <2>3, AddEntryEffect, AddEntryNoSpaceEffect
    <3> QED BY <1>2, <3>1
  <2>4. CASE WithInode(i, mode)[d].ext = <<>> /\ AddEntryInNewBlock(d, n, i, mode)
    <3>1. \E r \in Nat : Takes(d, <<>>, r, 1)
      BY <1>1, <2>2, <2>4, AddEntryInNewBlockEffect
    <3> QED BY <1>3, <2>2, <3>1
  <2> QED BY <2>1, <2>3, <2>4
<1>6. CASE RemovesWhole
  <2>1. PICK d \in Dirs, n \in Names, i \in Ino : Rmdir(d, n, i) \/ Unlink(d, n, i)
    BY <1>6 DEF RemovesWhole
  <2>2. d \in Ino
    BY <1>1
  <2>3. CASE Rmdir(d, n, i)
    <3>1. Untouched
      BY <1>1, <2>2, <2>3, RmdirEffect
    <3> QED BY <1>2, <3>1
  <2>4. CASE Unlink(d, n, i)
    <3>1. Frees(i, Pairs(itable[i].ext)) /\ itable'[i].ext = <<>>
      BY <1>1, <2>2, <2>4, UnlinkEffect
    <3> QED BY <1>4, <3>1
  <2> QED BY <2>1, <2>3, <2>4
<1>7. CASE SizesWhole
  <2>1. PICK f \in Files, s \in Sizes :
          \/ s = 0 /\ Shrink(f, s)
          \/ itable[f].ext = <<>> /\ Extend(f, s, [units |-> 0, fill |-> Blank])
    BY <1>7 DEF SizesWhole
  <2>2. f \in Ino /\ s \in Nat
    BY <1>1
  <2>3. CASE s = 0 /\ Shrink(f, s)
    <3>1. \E P : Frees(f, P) /\ itable'[f].ext = <<>>
      BY <1>1, <2>2, <2>3, ShrinkEffect
    <3> QED BY <1>4, <2>2, <3>1
  <2>4. CASE itable[f].ext = <<>> /\ Extend(f, s, [units |-> 0, fill |-> Blank])
    <3>1. \E r, n \in Nat : Takes(f, <<>>, r, n) /\ n >= 1
      BY <1>1, <2>2, <2>4, ExtendEffect
    <3> QED BY <1>3, <2>2, <3>1
  <2> QED BY <2>1, <2>3, <2>4
<1> QED BY <1>5, <1>6, <1>7 DEF WholeCall

\* Kills that leave every block where it was.
OwnersStand == cut \subseteq {"entry", "rmdir"} => Inside /\ Exclusive

LEMMA OwnersStandStep ==
  ASSUME Followed, OwnersStand, [CrashNext]_crashvars
  PROVE  OwnersStand'
<1> SUFFICES ASSUME cut' \subseteq {"entry", "rmdir"}
             PROVE  Inside' /\ Exclusive'
  BY DEF OwnersStand
<1>1. cut \subseteq cut' /\ StoredNext
  BY AnyStays
<1>2. Inside /\ Exclusive /\ CrashTypes /\ Drifted /\ Running
  BY <1>1 DEF OwnersStand, Followed, Standing
<1>3. CASE UNCHANGED crashvars
  <2>1. UNCHANGED <<fs, block_bits, itable>>
    BY <1>3 DEF crashvars, vars, bitmaps
  <2> QED BY <1>2, <2>1 DEF Inside, Exclusive, Up
<1>4. CASE StoredCall
  <2>1. Up
    BY <1>2, <1>4, StepBecomes DEF Up
  <2>2. CASE kills' = kills
    <3>1. WholeCall
      BY <1>2, <1>4, <2>2, StepIsWhole
    <3> QED BY <1>2, <2>1, <3>1, WholeExclusive
  <2>3. CASE kills' # kills
    <3>1. Untouched
      BY <1>2, <1>4, <2>3, KillUntouched
    <3> QED BY <1>2, <2>1, <3>1, UntouchedInside, UntouchedExclusive
  <2> QED BY <2>2, <2>3
<1>5. CASE Ends
  BY <1>2, <1>5, EndsKeeps DEF Inside, Exclusive, Up, CrashTypes
<1> QED BY <1>1, <1>3, <1>4, <1>5 DEF StoredNext

\* As long as only rmdir was killed, and mkdir and create where they need no
\* new block, no block has two owners, whatever was done since on the image
\* that they have left (a1fs.c:288-331, 369-414).
THEOREM BlocksAlwaysSurvive == CrashSpec => []BlocksSurvive
<1>1. CrashInit => OwnersStand
  BY InitInside, InitExclusive DEF CrashInit, OwnersStand
<1>2. Followed /\ OwnersStand /\ [CrashNext]_crashvars => OwnersStand'
  BY OwnersStandStep
<1>3. Followed /\ OwnersStand => BlocksSurvive
  BY ExclusiveFollows, CrashFacts
  DEF Followed, Standing, OwnersStand, BlocksSurvive
<1> QED BY <1>1, <1>2, <1>3, FollowedInvariant, PTL DEF CrashSpec

-----------------------------------------------------------------------------
(* Names after kills inside calls that add an entry to a block.            *)

\* No trace of what an inode had is left in it, apart from its mode.
Bare(inode) == Pairs(inode.ext) = {} /\ inode.size = 0 /\ inode.num_entries = 0

FreeBare == \A i \in Ino \ inode_bits : Bare(itable[i])

\* Calls that are not killed, on what kills have left.
LEMMA WholeNamed ==
  ASSUME Steady, FreeBare, WholeCall, TypeOK', Exclusive', Up'
  PROVE  /\ WellNamed' /\ Contents' /\ FreeBare'
         /\ \A k \in Nat : ShortBy(k) => ShortBy(k)'
<1>1. NextOrderly
  BY WholeIsOrderly
<1>2. ASSUME NEW d \in LiveDirs, NEW n \in Names, NEW i \in Ino, NEW mode, NEW p,
             Lookup(d, n) = -1, EntersBlocks(d), Enters(d, n, i, mode, p)
      PROVE  /\ WellNamed' /\ Contents' /\ FreeBare'
             /\ \A k \in Nat : ShortBy(k) => ShortBy(k)'
  <2>1. FreeBare'
    BY <1>2 DEF Enters, Joins, FreeBare, LiveDirs, InUse
  <2> QED BY <1>2, <2>1, EntersDirectories, JoinsContents DEF Enters
<1>3. ASSUME NEW i \in Ino, NEW mode, Unnamed(i, mode), block_bits' = block_bits
      PROVE  /\ WellNamed' /\ Contents' /\ FreeBare'
             /\ \A k \in Nat : ShortBy(k) => ShortBy(k)'
  <2>1. FreeBare'
    BY <1>3 DEF Unnamed, FreeBare
  <2> QED BY <1>3, <2>1, UnnamedDirectories, UnnamedContents
<1>4. ASSUME NEW d \in LiveDirs, NEW i \in Ino, NEW p, Removes(d, i, p),
             itable[i].mode \in {"dir", "file"}, RemovesBlocks(i)
      PROVE  /\ WellNamed' /\ Contents' /\ FreeBare'
             /\ \A k \in Nat : ShortBy(k) => ShortBy(k)'
  <2>1. Bare(itable'[i])
    BY <1>4, OwnedByEmpty DEF Removes, Bare
  <2>2. FreeBare'
    BY <1>4, <2>1 DEF Removes, FreeBare, LiveDirs, InUse
  <2> QED BY <1>4, <2>2, RemovesDirectories, RemovesContents
<1>5. ASSUME NEW f \in Ino, Changes(f), ChangesBlocks(f)
      PROVE  /\ WellNamed' /\ Contents' /\ FreeBare'
             /\ \A k \in Nat : ShortBy(k) => ShortBy(k)'
  <2>1. FreeBare'
    BY <1>5 DEF Changes, FreeBare
  <2> QED BY <1>5, <2>1, ChangesDirectories, ChangesContents
<1> QED BY <1>1, <1>2, <1>3, <1>4, <1>5, OrderlyEffects

\* A call that is killed before the entry names its inode: the inode is taken,
\* and the name may be in the place for it.
Begins(d, n, i) ==
  /\ i \in Ino \ inode_bits
  /\ inode_bits' = inode_bits \cup {i}
  /\ block_bits' = block_bits
  /\ Bare(itable'[i])
  /\ \A j \in Ino \ {i} : itable'[j] = itable[j]
  /\ \/ data' = data
     \/ \E p \in Vacant(itable[d].ext, data) :
          data' = WithEntry(data, p, [ino |-> -1, name |-> n])

LEMMA BeginsKeeps ==
  ASSUME Steady, NEW d \in LiveDirs, NEW n, NEW i, Lookup(d, n) = -1,
         Begins(d, n, i), TypeOK', Exclusive', Up'
  PROVE  /\ WellNamed' /\ Contents'
         /\ \A k \in Nat : ShortBy(k) => ShortBy(k)'
<1>1. d \in Ino /\ d # i /\ LiveDirs \subseteq Ino /\ LiveDirs \subseteq inode_bits
  BY DirsAreInodes DEF Begins, Steady
<1>2. Places(itable'[i].ext) = {} /\ Live(i)' = {}
  BY DEF Begins, Bare, Places, Live
<1>3. ASSUME NEW e \in LiveDirs', e # i
      PROVE  e \in LiveDirs /\ itable'[e] = itable[e]
  BY <1>3, DirsAreInodes DEF Begins, LiveDirs, InUse, Steady
\* A place that changes is a vacant one of the directory.
<1>4. ASSUME NEW e \in LiveDirs, NEW q \in Places(itable[e].ext),
             At(data', q) # At(data, q)
      PROVE  /\ e = d /\ At(data, q).ino = -1
             /\ At(data', q) = [ino |-> -1, name |-> n]
  <2>1. PICK p \in Vacant(itable[d].ext, data) :
          data' = WithEntry(data, p, [ino |-> -1, name |-> n])
    BY <1>4 DEF Begins
  <2>2. p \in Places(itable[d].ext) /\ At(data, p).ino = -1
    BY DEF Vacant
  <2>3. p \in Spots /\ q \in Spots /\ e \in Ino
    BY <1>1, <2>2, ExtentFacts
  <2>4. /\ At(data', p) = [ino |-> -1, name |-> n]
        /\ \A r \in Spots \ {p} : At(data', r) = At(data, r)
    BY <2>1, <2>3, PutAt, Types DEF Steady
  <2>5. q = p
    BY <1>4, <2>3, <2>4
  <2>6. e = d
    BY <1>1, <2>2, <2>3, <2>5, Apart
  <2> QED BY <2>2, <2>4, <2>5, <2>6
<1>5. ASSUME NEW e \in LiveDirs', e # i
      PROVE  /\ e \in LiveDirs /\ Live(e)' = Live(e)
             /\ Places(itable'[e].ext) = Places(itable[e].ext)
             /\ itable'[e].num_entries = itable[e].num_entries
             /\ \A q \in Live(e) : At(data', q) = At(data, q)
  <2>1. e \in LiveDirs /\ itable'[e] = itable[e]
    BY <1>3, <1>5
  <2>2. \A q \in Places(itable[e].ext) : At(data', q).ino = At(data, q).ino
    BY <1>4, <2>1
  <2>3. Live(e)' = Live(e)
    BY <2>1, <2>2 DEF Live
  <2>4. \A q \in Live(e) : At(data', q) = At(data, q)
    BY <1>4, <2>1 DEF Live
  <2> QED BY <2>1, <2>3, <2>4
<1>6. ASSUME NEW e \in LiveDirs', NEW q \in Live(e)'
      PROVE  e \in LiveDirs /\ e # i /\ q \in Live(e) /\ At(data', q) = At(data, q)
  BY <1>2, <1>5
<1>7. WellNamed
  BY DEF Steady
<1>8. RootInUse'
  BY <1>7, ConstantTypes DEF WellNamed, RootInUse, Begins
<1>9. EntriesInUse'
  BY <1>6, <1>7 DEF WellNamed, EntriesInUse, Begins
<1>10. OneEntryEach'
  BY <1>6, <1>7 DEF WellNamed, OneEntryEach
<1>11. EntriesFirst'
  <2> SUFFICES ASSUME NEW e \in LiveDirs', NEW q \in Live(e)',
                      NEW r \in Places(itable'[e].ext),
                      r # q, At(data', r).name = At(data', q).name
               PROVE  Before(q, r)
    BY DEF EntriesFirst
  <2>1. /\ e \in LiveDirs /\ q \in Live(e) /\ At(data', q) = At(data, q)
        /\ r \in Places(itable[e].ext)
    BY <1>5, <1>6
  <2>2. CASE At(data', r) = At(data, r)
    BY <1>7, <2>1, <2>2 DEF WellNamed, EntriesFirst
  <2>3. CASE At(data', r) # At(data, r)
    <3>1. e = d /\ At(data, q).name = n
      BY <1>4, <2>1, <2>3
    <3> QED BY <2>1, <3>1, LookupFails
  <2> QED BY <2>2, <2>3
<1>12. ASSUME NEW k \in Nat, ShortBy(k) PROVE ShortBy(k)'
  <2> SUFFICES ASSUME NEW e \in LiveDirs'
               PROVE  Cardinality(Live(e)') - itable'[e].num_entries \in 0 .. k
    BY DEF ShortBy
  <2>1. CASE e = i
    <3>1. Cardinality(Live(e)') = 0 /\ itable'[e].num_entries = 0
      BY <1>2, <2>1, FS_EmptySet DEF Begins, Bare
    <3> QED BY <3>1
  <2>2. CASE e # i
    BY <1>5, <1>12, <2>2 DEF ShortBy
  <2> QED BY <2>1, <2>2
<1>13. SizesFit'
  <2>1. Cardinality(Pairs(itable'[i].ext)) = BlocksFor(itable'[i].size)
    BY NoSize, OwnedByEmpty DEF Begins, Bare
  <2> QED BY <2>1 DEF Begins, SizesFit, Steady, Contents
<1>14. FreeText'
  <2>1. OfFiles' \subseteq OfFiles
    <3> SUFFICES ASSUME NEW f \in inode_bits', itable'[f].mode = "file",
                        NEW b \in OwnedBy(itable'[f].ext)
                 PROVE  b \in OfFiles
      BY DEF OfFiles
    <3>1. f # i
      BY DEF Begins, Bare, OwnedBy
    <3>2. f \in inode_bits /\ f \in Ino /\ itable'[f] = itable[f]
      BY <3>1 DEF Begins, Steady, TypeOK
    <3> QED BY <3>2 DEF OfFiles
  <2>2. ASSUME NEW b \in Region, data'[b] # data[b]
        PROVE  \E e \in LiveDirs' : b \in OwnedBy(itable'[e].ext)
    <3>1. PICK p \in Vacant(itable[d].ext, data) :
            data' = WithEntry(data, p, [ino |-> -1, name |-> n])
      BY <2>2 DEF Begins
    <3>2. p \in Spots /\ p[2] \in OwnedBy(itable[d].ext)
      BY <1>1, ExtentFacts DEF Vacant
    <3>3. b = p[2]
      BY <2>2, <3>1, <3>2, PutAt, Types DEF Steady
    <3>4. itable'[d] = itable[d] /\ d \in LiveDirs'
      BY <1>1 DEF Begins, LiveDirs, InUse
    <3> QED BY <3>2, <3>3, <3>4
  <2>3. block_bits \ block_bits' \subseteq OfFiles
    BY DEF Begins
  <2> QED BY <2>1, <2>2, <2>3, FreeTextKept
<1> QED BY <1>8, <1>9, <1>10, <1>11, <1>12, <1>13, <1>14 DEF WellNamed, Contents

\* The images between the bit of a new inode and its last member.
Started(g, i) ==
  /\ g \in ImageType
  /\ g.inode_bits = inode_bits \cup {i} /\ g.block_bits = block_bits
  /\ g.data = data /\ Bare(g.itable[i])
  /\ \A j \in Ino \ {i} : g.itable[j] = itable[j]

LEMMA StartedField ==
  ASSUME NEW g, NEW i \in Ino, Started(g, i), NEW f, NEW v,
         << <<"itable", i, f>>, v >> \in Store,
         \/ f = "mode"
         \/ f = "ext" /\ v = <<>>
         \/ f \in {"size", "num_entries"} /\ v = 0
  PROVE  Started(Put(g, << <<"itable", i, f>>, v >>), i)
<1> DEFINE h == Put(g, << <<"itable", i, f>>, v >>)
<1>1. FieldSet(h, g, i, f, v)
  BY FieldPut DEF Started
<1>2. g.itable[i] \in Inode
  BY ImageParts DEF Started
<1> HIDE DEF h
<1>3. Bare(h.itable[i])
  BY <1>1, <1>2, OwnedByEmpty DEF FieldSet, WithField, Bare, Inode, Started
<1>4. Started(h, i)
  BY <1>1, <1>3 DEF FieldSet, SameCounts, Started
<1> QED BY <1>4 DEF h

LEMMA TakenStarts ==
  ASSUME CrashTypes, NEW i \in Ino \ inode_bits, Bare(itable[i]),
         NEW mode \in {"dir", "file"}, NEW k \in 1 .. 6
  PROVE  Started(Images(Image, TakenInode(i, mode))[k], i)
<1> DEFINE s1 == << <<"inode_bits">>, inode_bits \cup {i} >>
           s2 == << <<"free_inodes_count">>, free_inodes_count - 1 >>
           s3 == << <<"itable", i, "mode">>, mode >>
           s4 == << <<"itable", i, "size">>, 0 >>
           s5 == << <<"itable", i, "ext">>, <<>> >>
           s6 == << <<"itable", i, "num_entries">>, 0 >>
           s == << s1, s2, s3, s4, s5, s6 >>
           Img(j) == Images(Image, s)[j]
<1>1. /\ s1 \in Store /\ s2 \in Store /\ s3 \in Store
      /\ s4 \in Store /\ s5 \in Store /\ s6 \in Store
  <2>1. inode_bits \cup {i} \in SUBSET Ino /\ free_inodes_count - 1 \in Int
    BY CrashFacts DEF TypeOK
  <2>2. s1 \in Store /\ s2 \in Store
    BY <2>1 DEF Store, BitStores, CountStores
  <2>3. s3 \in Calm /\ s4 \in Calm /\ s5 \in Calm /\ s6 \in Calm
    BY DEF Calm, Emptied, ModeStores, SizeStores, EntriesStores
  <2> QED BY <2>2, <2>3, MildIs
<1>2. TakenInode(i, mode) = s
  BY DEF TakenInode
<1>3. Image \in ImageType /\ Image.inode_bits = inode_bits
      /\ Image.block_bits = block_bits /\ Image.itable = itable
      /\ Image.data = data
  BY CrashFacts
<1>4. Started(Put(Image, s1), i)
  <2> DEFINE g == Put(Image, s1)
  <2>1. g \in ImageType
    BY <1>1, <1>3, PutTyped
  <2>2. g = [Image EXCEPT !.inode_bits = inode_bits \cup {i}]
    BY PutLeaf
  <2> HIDE DEF g
  <2>3. /\ g.inode_bits = inode_bits \cup {i} /\ g.block_bits = block_bits
        /\ g.data = data /\ g.itable = itable
    BY <1>3, <2>2 DEF ImageType
  <2>4. Started(g, i)
    BY <2>1, <2>3 DEF Started
  <2> QED BY <2>4 DEF g
<1>5. ASSUME NEW h, Started(h, i) PROVE Started(Put(h, s2), i)
  <2> DEFINE g == Put(h, s2)
  <2>1. g \in ImageType
    BY <1>1, <1>5, PutTyped DEF Started
  <2>2. g = [h EXCEPT !.free_inodes_count = free_inodes_count - 1]
    BY PutLeaf
  <2> HIDE DEF g
  <2>3. /\ g.inode_bits = h.inode_bits /\ g.block_bits = h.block_bits
        /\ g.data = h.data /\ g.itable = h.itable
    BY <1>5, <2>2 DEF ImageType, Started
  <2>4. Started(g, i)
    BY <1>5, <2>1, <2>3 DEF Started
  <2> QED BY <2>4 DEF g
<1>6. ASSUME NEW h, Started(h, i)
      PROVE  /\ Started(Put(h, s3), i) /\ Started(Put(h, s4), i)
             /\ Started(Put(h, s5), i) /\ Started(Put(h, s6), i)
  BY <1>1, <1>6, StartedField
<1>7. Len(s) = 6 /\ s[1] = s1 /\ s[2] = s2 /\ s[3] = s3
      /\ s[4] = s4 /\ s[5] = s5 /\ s[6] = s6
  OBVIOUS
<1> HIDE DEF s1, s2, s3, s4, s5, s6, s
<1>8. Img(0) = Image /\ \A j \in 1 .. 6 : Img(j) = Put(Img(j - 1), s[j])
  BY <1>7, ImagesUnfold
<1>9. /\ Img(1) = Put(Img(0), s1) /\ Img(2) = Put(Img(1), s2)
      /\ Img(3) = Put(Img(2), s3) /\ Img(4) = Put(Img(3), s4)
      /\ Img(5) = Put(Img(4), s5) /\ Img(6) = Put(Img(5), s6)
  <2> HIDE DEF After
  <2> QED BY <1>7, <1>8
<1>10. \A j \in 1 .. 6 : Started(Img(j), i)
  <2> HIDE DEF After
  <2>1. Started(Img(1), i) /\ Started(Img(2), i)
    BY <1>4, <1>5, <1>8, <1>9
  <2>2. /\ Started(Img(3), i) /\ Started(Img(4), i)
        /\ Started(Img(5), i) /\ Started(Img(6), i)
    BY <1>6, <1>9, <2>1
  <2> QED BY <2>1, <2>2
<1> QED BY <1>2, <1>10

\* The images of the entry before it is counted.
EntryImages(img, e, p, n, i) ==
  /\ \A k \in 1 .. 2 :
       /\ Images(img, e)[k].itable = img.itable
       /\ SameCounts(Images(img, e)[k], img)
  /\ Images(img, e)[1].data = WithEntry(img.data, p, [ino |-> -1, name |-> n])
  /\ Images(img, e)[2].data = WithEntry(img.data, p, [ino |-> i, name |-> n])

LEMMA EntryStarts ==
  ASSUME NEW img \in ImageType, NEW d, NEW before \in Int,
         NEW p \in Spots, NEW n \in Names, NEW i \in Ino,
         NEW e, e = EntryStores(d, before, p[2], p[3], n, i)
  PROVE  EntryImages(img, e, p, n, i)
<1> DEFINE b == p[2]
           k == p[3]
           old == [ino |-> -1, name |-> n]
           new == [ino |-> i, name |-> n]
           x == << <<"data", b, k>>, old >>
           y == << <<"data", b, k>>, new >>
           z == << <<"itable", d, "num_entries">>, before + 1 >>
           s == << x, y, z >>
           g == Images(img, s)[1]
           h == Images(img, s)[2]
<1>1. x \in Store /\ y \in Store
  <2>1. old \in Entry /\ new \in Entry
    BY ConstantTypes DEF Entry
  <2>2. b \in Region /\ k \in Slots
    BY SpotsType
  <2> HIDE DEF old, new, b, k
  <2> QED BY <2>1, <2>2 DEF Store, DataStores, SlotStores
<1>2. e = s
  BY DEF EntryStores
<1>3. Len(s) = 3 /\ s[1] = x /\ s[2] = y
  OBVIOUS
<1> HIDE DEF old, new, s
<1>4. Images(img, s)[0] = img /\ g = Put(Images(img, s)[0], s[1]) /\ h = Put(g, s[2])
  <2>1. Len(s) \in Nat
    BY <1>3
  <2>2. /\ Images(img, s)[0] = img
        /\ \A j \in 1 .. Len(s) : Images(img, s)[j] = Put(Images(img, s)[j - 1], s[j])
    BY <2>1, ImagesUnfold
  <2>3. 1 \in 1 .. Len(s) /\ 2 \in 1 .. Len(s) /\ 1 - 1 = 0 /\ 2 - 1 = 1
    BY <1>3
  <2> QED BY <2>2, <2>3
<1>5. g = Put(img, x) /\ h = Put(g, y)
  BY <1>3, <1>4
<1> HIDE DEF g, h
<1>6. SlotSet(g, img, b, k, old)
  BY <1>1, <1>5, SlotPut
<1>7. SlotSet(h, g, b, k, new)
  <2>1. g \in ImageType
    BY <1>6 DEF SlotSet
  <2> QED BY <1>1, <1>5, <2>1, SlotPut
<1>8. b \in Region /\ k \in Slots /\ img.data \in DataType
  BY SpotsType, ImageParts
<1>9. h.data = [img.data EXCEPT ![b][k] = new]
  BY <1>6, <1>7, <1>8 DEF DataType, SlotSet
<1>10. /\ g.data = WithEntry(img.data, p, old) /\ h.data = WithEntry(img.data, p, new)
       /\ g.itable = img.itable /\ h.itable = img.itable
       /\ SameCounts(g, img) /\ SameCounts(h, img)
  BY <1>6, <1>7, <1>9 DEF SlotSet, SameCounts, WithEntry
<1>11. \A j \in 1 .. 2 : Images(img, s)[j] = g \/ Images(img, s)[j] = h
  <2>1. \A j \in 1 .. 2 : j = 1 \/ j = 2
    OBVIOUS
  <2> QED BY <2>1 DEF g, h
<1>12. Images(img, s)[1] = g /\ Images(img, s)[2] = h
  BY DEF g, h
<1> QED BY <1>2, <1>10, <1>11, <1>12 DEF EntryImages, old, new

LEMMA CreatedIsBare == \A mode : Bare(Created(mode))
BY OwnedByEmpty DEF Bare, Created

LEMMA KillBegins ==
  ASSUME CrashTypes, Steady, FreeBare, NEW d \in LiveDirs, NEW n \in Names,
         NEW i \in Ino, NEW mode \in {"dir", "file"}, MakeStored(d, n, i, mode),
         kills' # kills, cut' \subseteq {"entry"}
  PROVE  /\ Lookup(d, n) = -1
         /\ \/ Begins(d, n, i)
            \/ \E p : /\ Joins(d, n, i, mode, p) /\ EntersBlocks(d)
                      /\ itable'[d].num_entries = itable[d].num_entries
<1> DEFINE t == WithInode(i, mode)
           V == Vacant(t[d].ext, data)
           p == FirstOf(V)
           taken == TakenInode(i, mode)
           entry == EntryStores(d, t[d].num_entries, p[2], p[3], n, i)
           h == Final(Image, taken)
<1>1. /\ d \in Ino /\ i \in Ino \ inode_bits /\ i # d /\ Lookup(d, n) = -1
  BY LiveSpots DEF MakeStored, NewPath, LiveDirs, InUse
<1>2. /\ t[d] = itable[d] /\ t[i] = Created(mode)
      /\ \A e \in Ino \ {i} : t[e] = itable[e]
  BY <1>1 DEF WithInode, Steady, TypeOK
<1>3. /\ h \in ImageType /\ h.data = data /\ h.itable = t
      /\ h.inode_bits = inode_bits \cup {i} /\ h.block_bits = block_bits
      /\ taken \in Seq(Store) /\ t[d].num_entries \in Int
      /\ t[d].ext \in Seq(Extent) /\ Len(t[d].ext) <= 1
  BY <1>1, NewInodeFacts
<1>4. Len(taken) = 6
  BY DEF TakenInode
<1>5. \A k \in 1 .. 6 : Started(Images(Image, taken)[k], i)
  BY <1>1, TakenStarts DEF FreeBare
<1>6. ASSUME NEW g, Started(g, i), Becomes(g) PROVE Begins(d, n, i)
  BY <1>1, <1>6 DEF Started, Becomes, Begins
<1>7. ASSUME NEW kind, NEW s, Call(kind, s)
      PROVE  /\ kind = "entry"
             /\ \E k \in 1 .. (Len(s) - 1) : Becomes(Images(Image, s)[k])
  BY <1>7 DEF Call
<1>8. \/ V # {} /\ Call("entry", taken \o entry)
      \/ \E s : Call("block", s)
      \/ Call("entry", taken)
  BY DEF MakeStored
<1>9. CASE Call("entry", taken)
  <2>1. PICK k \in 1 .. (Len(taken) - 1) : Becomes(Images(Image, taken)[k])
    BY <1>7, <1>9
  <2>2. k \in 1 .. 6
    BY <1>4
  <2>3. Begins(d, n, i)
    BY <1>5, <1>6, <2>1, <2>2
  <2> QED BY <1>1, <2>3
<1>10. CASE V # {} /\ Call("entry", taken \o entry)
  <2> HIDE DEF t, taken, h
  <2>1. V \in SUBSET Spots
    BY <1>3, PlacesAreSpots DEF Vacant
  <2>2. p \in V /\ p \in Spots
    BY <1>10, <2>1, FirstOfExists
  <2>3. entry \in Seq(Store) /\ Len(entry) = 3
    <3>1. entry \in Seq(Quiet)
      BY <1>1, <1>3, <2>2, SpotsType, EntryQuiet
    <3> QED BY <3>1, QuietStores DEF EntryStores
  <2>4. EntryImages(h, entry, p, n, i)
    <3> HIDE DEF p
    <3> QED BY <1>1, <1>3, <2>2, EntryStarts
  <2> HIDE DEF V, p, entry
  <2>5. PICK k \in 1 .. (Len(taken \o entry) - 1) :
          Becomes(Images(Image, taken \o entry)[k])
    BY <1>7, <1>10
  <2>6. k \in 1 .. 8
    <3>1. Len(taken \o entry) = 9
      <4>1. Len(taken \o entry) = Len(taken) + Len(entry)
        BY <1>3, <2>3, ConcatProperties, Zenon
      <4> QED BY <1>4, <2>3, <4>1
    <3> QED BY <3>1
  <2>7. /\ \A j \in 1 .. 6 : Images(Image, taken \o entry)[j] = Images(Image, taken)[j]
        /\ \A j \in 1 .. 2 : Images(Image, taken \o entry)[6 + j] = Images(h, entry)[j]
    <3>1. ASSUME NEW j \in 0 .. Len(taken)
          PROVE  Images(Image, taken \o entry)[j] = Images(Image, taken)[j]
      BY <1>3, <2>3, ImagesJoin
    <3>2. ASSUME NEW j \in 0 .. Len(entry)
          PROVE  Images(Image, taken \o entry)[Len(taken) + j] = Images(h, entry)[j]
      <4>1. \A img : \A s, u \in Seq(Store) : \A m \in 0 .. Len(u) :
              Images(img, s \o u)[Len(s) + m] = Images(Final(img, s), u)[m]
        BY ImagesJoin
      <4>2. taken \in Seq(Store) /\ entry \in Seq(Store)
        BY <1>3, <2>3
      <4>3. \A m \in 0 .. Len(entry) :
              Images(Image, taken \o entry)[Len(taken) + m]
                = Images(Final(Image, taken), entry)[m]
        BY <4>1, <4>2
      <4>4. h = Final(Image, taken)
        BY DEF h
      <4> QED BY <4>3, <4>4
    <3> QED BY <1>4, <2>3, <3>1, <3>2
  <2>8. CASE k \in 1 .. 6
    <3>1. Becomes(Images(Image, taken)[k])
      BY <2>5, <2>7, <2>8
    <3> QED BY <1>1, <1>5, <1>6, <2>8, <3>1
  \* The name is there, and the number perhaps.
  <2>9. CASE k \in 7 .. 8
    <3> DEFINE j == k - 6
               g == Images(h, entry)[j]
    <3>1. j \in 1 .. 2 /\ 6 + j = k
      BY <2>9
    <3>2. Becomes(g)
      BY <2>5, <2>7, <3>1
    <3>3. /\ g.itable = t /\ g.inode_bits = inode_bits \cup {i}
          /\ g.block_bits = block_bits
      BY <1>3, <2>4, <3>1 DEF EntryImages, SameCounts
    <3>4. /\ itable' = t /\ inode_bits' = inode_bits \cup {i}
          /\ block_bits' = block_bits /\ data' = g.data
      BY <3>2, <3>3 DEF Becomes
    <3>5. CASE j = 1
      <4>1. data' = WithEntry(data, p, [ino |-> -1, name |-> n])
        BY <1>3, <2>4, <3>4, <3>5 DEF EntryImages
      <4>2. p \in Vacant(itable[d].ext, data)
        BY <1>2, <2>2 DEF V
      <4>3. Begins(d, n, i)
        BY <1>1, <1>2, <3>4, <4>1, <4>2, CreatedIsBare DEF Begins
      <4> QED BY <1>1, <4>3
    <3>6. CASE j = 2
      <4>1. data' = WithEntry(data, p, [ino |-> i, name |-> n])
        BY <1>3, <2>4, <3>4, <3>6 DEF EntryImages
      <4>2. p = FirstOf(Vacant(itable[d].ext, data)) /\ Vacant(itable[d].ext, data) # {}
        BY <1>2, <1>10 DEF V, p
      <4>3. /\ itable'[i] = Created(mode) /\ itable'[d] = itable[d]
            /\ \A e \in Ino \ {d, i} : itable'[e] = itable[e]
        BY <1>2, <3>4
      <4>4. Joins(d, n, i, mode, p) /\ EntersBlocks(d)
        BY <1>1, <3>4, <4>1, <4>2, <4>3, PlaceJoins
      <4> QED BY <1>1, <4>3, <4>4
    <3> QED BY <3>1, <3>5, <3>6
  <2> QED BY <2>6, <2>8, <2>9
<1>11. CASE \E s : Call("block", s)
  BY <1>7, <1>11
<1> QED BY <1>8, <1>9, <1>10, <1>11

\* Kills that leave every name where it was.
NamesStand ==
  cut \subseteq {"entry"} /\ Up => WellNamed /\ Contents /\ ShortBy(kills) /\ FreeBare

LEMMA KillNamed ==
  ASSUME CrashTypes, Steady, FreeBare, StoredCall, kills' # kills,
         cut' \subseteq {"entry"}, TypeOK', Exclusive', Up'
  PROVE  /\ WellNamed' /\ Contents' /\ FreeBare'
         /\ \A k \in Nat : ShortBy(k) => ShortBy(k + 1)'
<1>1. Dirs \subseteq LiveDirs
  BY DirsLive
<1>2. ASSUME NEW kind, NEW s, Call(kind, s), kind # "entry"
      PROVE  FALSE
  BY <1>2 DEF Call
<1>3. \E d \in Dirs, n \in Names, i \in Ino, mode \in {"dir", "file"} :
        MakeStored(d, n, i, mode)
  <2>1. ASSUME NEW d, NEW n, NEW i, RmdirStored(d, n, i) \/ UnlinkStored(d, n, i)
        PROVE  \E kind \in {"rmdir", "unlink"} : \E s : Call(kind, s)
    BY <2>1 DEF RmdirStored, UnlinkStored
  <2>2. ASSUME NEW f, ClearStored(f) \/ \E s \in Sizes : GrowStored(f, s)
        PROVE  \E kind \in {"grow", "clear"} : \E s : Call(kind, s)
    BY <2>2 DEF ClearStored, GrowStored
  <2> QED BY <1>2, <2>1, <2>2 DEF StoredCall
<1>4. PICK d \in LiveDirs, n \in Names, i \in Ino, mode \in {"dir", "file"} :
        MakeStored(d, n, i, mode)
  BY <1>1, <1>3
<1>5. /\ Lookup(d, n) = -1
      /\ \/ Begins(d, n, i)
         \/ \E p : /\ Joins(d, n, i, mode, p) /\ EntersBlocks(d)
                   /\ itable'[d].num_entries = itable[d].num_entries
  BY <1>4, KillBegins
<1>6. CASE Begins(d, n, i)
  <2>1. FreeBare'
    BY <1>6 DEF Begins, FreeBare
  <2>2. /\ WellNamed' /\ Contents' /\ \A k \in Nat : ShortBy(k) => ShortBy(k)'
    BY <1>5, <1>6, BeginsKeeps
  <2>3. \A k \in Nat : ShortBy(k)' => ShortBy(k + 1)'
    BY DEF ShortBy
  <2> QED BY <2>1, <2>2, <2>3
<1>7. ASSUME NEW p, Joins(d, n, i, mode, p), EntersBlocks(d),
             itable'[d].num_entries = itable[d].num_entries
      PROVE  /\ WellNamed' /\ Contents' /\ FreeBare'
             /\ \A k \in Nat : ShortBy(k) => ShortBy(k + 1)'
  <2>1. FreeBare'
    BY <1>7 DEF Joins, FreeBare, LiveDirs, InUse
  <2>2. Contents'
    BY <1>7, JoinsContents
  <2>3. itable[d].num_entries \in Int
    BY LiveSpots, Types, InodeFields DEF Steady
  <2>4. itable'[d].num_entries = itable[d].num_entries + 1 - 1 /\ 1 \in 0 .. 1
    BY <1>7, <2>3
  <2>5. WellNamed' /\ \A k \in Nat : ShortBy(k) => ShortBy(k + 1)'
    BY <1>5, <1>7, <2>4, JoinsDirectories
  <2> QED BY <2>1, <2>2, <2>5
<1> QED BY <1>5, <1>6, <1>7

LEMMA NamesStandStep ==
  ASSUME Followed, OwnersStand, NamesStand, [CrashNext]_crashvars
  PROVE  NamesStand'
<1> SUFFICES ASSUME cut' \subseteq {"entry"}, Up'
             PROVE  WellNamed' /\ Contents' /\ ShortBy(kills)' /\ FreeBare'
  BY DEF NamesStand
<1>0. cut \subseteq cut' /\ StoredNext
  BY AnyStays
<1>1. /\ Standing /\ CrashTypes /\ Drifted /\ Running
      /\ kills \in Nat /\ TypeOK
  <2>1. Standing
    BY <1>0 DEF Followed
  <2> QED BY <2>1, CrashFacts DEF Standing, CrashTypes
<1>2. CASE UNCHANGED crashvars
  <2>1. /\ UNCHANGED <<inode_bits, block_bits, itable, data, kills>>
        /\ WellNamed /\ Contents /\ ShortBy(kills) /\ FreeBare
    BY <1>2 DEF NamesStand, crashvars, vars, bitmaps, counters, Up
  <2>2. LiveDirs' = LiveDirs /\ \A d : Live(d)' = Live(d)
    BY <2>1 DEF LiveDirs, InUse, Live
  <2>3. WellNamed'
    BY <2>1, <2>2 DEF WellNamed, RootInUse, EntriesInUse, OneEntryEach, EntriesFirst
  <2>4. Contents'
    BY <2>1 DEF Contents, SizesFit, FreeText, OfFiles
  <2>5. ShortBy(kills)' /\ FreeBare'
    BY <2>1, <2>2 DEF ShortBy, FreeBare
  <2> QED BY <2>3, <2>4, <2>5
<1>3. CASE StoredCall
  <2>1. Up /\ kills' \in {kills, kills + 1}
    BY <1>1, <1>3, StepBecomes DEF Up
  <2>2. cut \subseteq {"entry"}
    BY <1>0
  <2>3. WellNamed /\ Contents /\ ShortBy(kills) /\ FreeBare
    BY <2>1, <2>2 DEF NamesStand
  <2>4. Steady
    BY <1>1, <2>1, <2>2, <2>3 DEF OwnersStand, Steady
  <2>5. TypeOK' /\ Exclusive'
    <3>1. Standing' /\ OwnersStand'
      BY <1>0, <1>1, StandingStep, OwnersStandStep
    <3> QED BY <3>1 DEF Standing, CrashTypes, OwnersStand
  <2>6. CASE kills' = kills
    <3>1. WholeCall
      BY <1>1, <1>3, <2>6, StepIsWhole
    <3>2. /\ WellNamed' /\ Contents' /\ FreeBare'
          /\ \A k \in Nat : ShortBy(k) => ShortBy(k)'
      BY <2>3, <2>4, <2>5, <3>1, WholeNamed
    <3>3. \A k \in Nat : ShortBy(k)' /\ kills' = k => ShortBy(kills)'
      BY DEF ShortBy
    <3> QED BY <1>1, <2>3, <2>6, <3>2, <3>3
  <2>7. CASE kills' = kills + 1
    <3>1. kills' # kills /\ kills + 1 \in Nat
      BY <1>1, <2>7
    <3>2. /\ WellNamed' /\ Contents' /\ FreeBare'
          /\ \A k \in Nat : ShortBy(k) => ShortBy(k + 1)'
      BY <1>1, <1>3, <2>3, <2>4, <2>5, <3>1, KillNamed
    <3>3. \A k \in Nat : ShortBy(k)' /\ kills' = k => ShortBy(kills)'
      BY DEF ShortBy
    <3> QED BY <1>1, <2>3, <2>7, <3>1, <3>2, <3>3
  <2> QED BY <2>1, <2>6, <2>7
<1>4. CASE Ends
  BY <1>1, <1>4, EndsKeeps DEF Up
<1> QED BY <1>0, <1>2, <1>3, <1>4 DEF StoredNext

\* As long as only mkdir and create were killed, where they need no new block,
\* every name leads where its entry says, no inode has two, and the count of a
\* directory falls short by one for a kill at most, whatever was done since on
\* the image that they have left (a1fs.c:304-330, a1fs_helper.c:375-386).
THEOREM NamesAlwaysSurvive == CrashSpec => []NamesSurvive
<1>1. CrashInit => NamesStand
  <2> SUFFICES ASSUME CrashInit PROVE NamesStand
    OBVIOUS
  <2>1. Init /\ kills = 0
    BY DEF CrashInit
  <2>2. Up => WellNamed /\ Contents /\ ShortBy(0)
    BY <2>1, InitTidy DEF Tidy, Exact
  <2>3. FreeBare
    <3> SUFFICES ASSUME NEW i \in Ino \ {0} PROVE Bare(itable[i])
      BY <2>1 DEF Init, FreeBare
    <3> DEFINE zero == <<[start |-> 0, count |-> 0]>>
    <3>1. /\ itable[i].ext = zero
          /\ itable[i].size = 0 /\ itable[i].num_entries = 0
      BY <2>1 DEF Init, Created
    <3>2. Pairs(zero) = {}
      BY DEF Pairs, Run
    <3> QED BY <3>1, <3>2 DEF Bare
  <2> QED BY <2>1, <2>2, <2>3 DEF NamesStand
<1>2. Followed /\ OwnersStand /\ NamesStand /\ [CrashNext]_crashvars
        => OwnersStand' /\ NamesStand'
  BY OwnersStandStep, NamesStandStep
<1>3. Followed /\ OwnersStand /\ NamesStand => NamesSurvive
  <2> SUFFICES ASSUME Followed, OwnersStand, NamesStand, cut \subseteq {"entry"}, Up
               PROVE  /\ NoDangling /\ Unshadowed
                      /\ \A d \in LiveDirs :
                           Cardinality(Live(d)) - itable[d].num_entries \in 0 .. kills
    BY DEF NamesSurvive, NoDangling, Unshadowed
  <2>1. WellNamed /\ Contents /\ ShortBy(kills)
    BY DEF NamesStand
  <2>2. Steady
    BY <2>1, CrashFacts DEF Followed, Standing, OwnersStand, Steady
  <2>3. NoDangling
    <3> SUFFICES ASSUME NEW d \in LiveDirs, NEW e \in LiveDirs,
                        NEW p \in Live(d), NEW q \in Live(e)
                 PROVE  /\ At(data, p).ino \in InUse \ {0}
                        /\ <<d, p>> # <<e, q>> => At(data, p).ino # At(data, q).ino
      BY DEF NoDangling
    <3> QED BY <2>1 DEF WellNamed, EntriesInUse, OneEntryEach, InUse
  <2>4. Unshadowed
    BY <2>2, LookupFinds DEF Unshadowed
  <2> QED BY <2>1, <2>3, <2>4 DEF ShortBy
<1>4. CrashInit => OwnersStand
  BY InitInside, InitExclusive DEF CrashInit, OwnersStand
<1> QED BY <1>1, <1>2, <1>3, <1>4, FollowedInvariant, PTL DEF CrashSpec
=============================================================================

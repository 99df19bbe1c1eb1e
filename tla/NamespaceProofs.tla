-------------------------- MODULE NamespaceProofs ---------------------------
(***************************************************************************)
(* Theorems about Namespace: the tree of names is well formed for every    *)
(* set of nodes and names.                                                 *)
(***************************************************************************)
EXTENDS Namespace, TLAPS

\* The contents of a file as a length and what stands at each place.
LEMMA ContentsAre ==
  ASSUME NEW c
  PROVE  c \in Contents <=>
           \E s \in Lengths \cup {0} : c \in [0 .. (s - 1) -> Values \cup {Zero}]
BY DEF Contents

LEMMA EmptyIsContents ==
  ASSUME NEW c, c = [u \in {} |-> Zero]
  PROVE  c \in Contents
<1>1. 0 .. (0 - 1) = {}
  OBVIOUS
<1>2. c \in [0 .. (0 - 1) -> Values \cup {Zero}]
  BY <1>1
<1> QED BY <1>2, ContentsAre

-----------------------------------------------------------------------------
(* What each operation makes of TypeOK.                                    *)

LEMMA MakeTyped ==
  ASSUME TypeOK, NEW d \in Node, NEW n \in Names, NEW i \in Node,
         NEW k \in {"dir", "file"}, Make(d, n, i, k)
  PROVE  TypeOK'
<1>1. /\ DOMAIN kind' = DOMAIN kind \cup {i}
      /\ kind' \in [DOMAIN kind' -> {"dir", "file"}]
      /\ \A j \in DOMAIN kind : kind'[j] = kind[j]
      /\ kind'[i] = k
      /\ i \notin DOMAIN kind
  BY DEF Make, TypeOK
<1>2. entries' \in SUBSET Entries
  BY DEF Make, TypeOK, Entries
<1>3. /\ DOMAIN content' = {j \in DOMAIN kind' : kind'[j] = "file"}
      /\ \A j \in DOMAIN content' : content'[j] \in Contents
  <2>1. CASE k = "dir"
    BY <1>1, <2>1 DEF Make, TypeOK
  <2>2. CASE k = "file"
    <3>1. content' = [j \in DOMAIN content \cup {i} |->
                        IF j = i THEN [u \in {} |-> Zero] ELSE content[j]]
      BY <2>2 DEF Make
    <3>2. [u \in {} |-> Zero] \in Contents
      BY EmptyIsContents
    <3> QED BY <1>1, <2>2, <3>1, <3>2 DEF TypeOK
  <2> QED BY <2>1, <2>2
<1>4. Contents' = Contents /\ Entries' = Entries
  BY DEF Contents, Entries
<1> QED BY <1>1, <1>2, <1>3, <1>4 DEF TypeOK

LEMMA RemoveTyped ==
  ASSUME TypeOK, OneName, NEW d \in Node, NEW n \in Names, NEW i \in Node,
         Remove(d, n, i)
  PROVE  TypeOK'
<1>1. i # Root
  BY DEF Remove, OneName
<1>2. kind' = [j \in DOMAIN kind \ {i} |-> kind[j]]
  BY DEF Remove
<1>3. content' = [j \in DOMAIN content \ {i} |-> content[j]]
  BY DEF Remove
<1>4. entries' \in SUBSET Entries
  BY DEF Remove, TypeOK
<1>5. Contents' = Contents /\ Entries' = Entries
  BY DEF Contents, Entries
<1> QED BY <1>1, <1>2, <1>3, <1>4, <1>5 DEF TypeOK

LEMMA ResizeTyped ==
  ASSUME TypeOK, NEW i \in Node, NEW s \in Lengths, Resize(i, s),
         UNCHANGED <<kind, entries>>
  PROVE  TypeOK'
<1> DEFINE new == [u \in 0 .. (s - 1) |->
                     IF u \in DOMAIN content[i] THEN content[i][u] ELSE Zero]
<1>1. PICK l \in Lengths \cup {0} :
        content[i] \in [0 .. (l - 1) -> Values \cup {Zero}]
  BY ContentsAre DEF TypeOK, Resize
<1>2. new \in [0 .. (s - 1) -> Values \cup {Zero}]
  BY <1>1
<1>3. new \in Contents
  BY <1>2, ContentsAre
<1>4. content' = [content EXCEPT ![i] = new]
  BY DEF Resize
<1>5. Contents' = Contents /\ Entries' = Entries
  BY DEF Contents, Entries
<1> HIDE DEF new
<1> QED BY <1>3, <1>4, <1>5 DEF TypeOK, Resize

LEMMA WriteTyped ==
  ASSUME NamespaceAssumption, TypeOK, NEW i \in Node, NEW s \in Lengths,
         NEW lo \in 0 .. s, NEW v \in Values, Write(i, lo, s, v),
         UNCHANGED <<kind, entries>>
  PROVE  TypeOK'
<1> USE DEF NamespaceAssumption
<1> DEFINE new == [u \in DOMAIN content[i] \cup 0 .. (s - 1) |->
                     IF u \in lo .. (s - 1) THEN v
                     ELSE IF u \in DOMAIN content[i] THEN content[i][u] ELSE Zero]
<1>1. PICK l \in Lengths \cup {0} :
        content[i] \in [0 .. (l - 1) -> Values \cup {Zero}]
  BY ContentsAre DEF TypeOK, Write
<1>2. PICK m \in {l, s} : 0 .. (l - 1) \cup 0 .. (s - 1) = 0 .. (m - 1)
  <2>1. CASE l >= s
    BY <2>1
  <2>2. CASE l < s
    BY <2>2
  <2> QED BY <2>1, <2>2
<1>3. new \in [0 .. (m - 1) -> Values \cup {Zero}]
  BY <1>1, <1>2
<1>4. new \in Contents
  BY <1>3, ContentsAre
<1>5. content' = [content EXCEPT ![i] = new]
  BY DEF Write
<1>6. Contents' = Contents /\ Entries' = Entries
  BY DEF Contents, Entries
<1> HIDE DEF new
<1> QED BY <1>4, <1>5, <1>6 DEF TypeOK, Write

-----------------------------------------------------------------------------
(* The tree.                                                               *)

Tree == TypeOK /\ OneName /\ Rooted

LEMMA MakeTree ==
  ASSUME Tree, NEW d \in Node, NEW n \in Names, NEW i \in Node,
         NEW k \in {"dir", "file"}, Make(d, n, i, k)
  PROVE  OneName' /\ Rooted'
<1> DEFINE e == [dir |-> d, name |-> n, node |-> i]
<1>1. /\ DOMAIN kind' = DOMAIN kind \cup {i}
      /\ \A j \in DOMAIN kind : kind'[j] = kind[j]
      /\ i \notin DOMAIN kind
      /\ entries' = entries \cup {e}
      /\ d \in DOMAIN kind /\ kind[d] = "dir"
      /\ \A f \in entries : ~ (f.dir = d /\ f.name = n)
  BY DEF Make
<1>2. e.dir = d /\ e.name = n /\ e.node = i
  OBVIOUS
<1> HIDE DEF e
<1>3. OneName'
  BY <1>1, <1>2 DEF OneName, Tree, TypeOK
<1>4. Rooted'
  <2> SUFFICES ASSUME NEW S \in SUBSET (DOMAIN kind' \ {Root}), S # {}
               PROVE  \E f \in entries' : /\ f.node \in S
                                          /\ f.dir \in DOMAIN kind' \ S
    BY DEF Rooted
  <2>1. CASE S = {i}
    BY <1>1, <1>2, <2>1
  <2>2. CASE S # {i}
    <3>1. S \ {i} \in SUBSET (DOMAIN kind \ {Root}) /\ S \ {i} # {}
      BY <1>1, <2>2
    <3>2. PICK f \in entries : /\ f.node \in S \ {i}
                               /\ f.dir \in DOMAIN kind \ (S \ {i})
      BY <3>1 DEF Tree, Rooted
    <3> QED BY <1>1, <3>2
  <2> QED BY <2>1, <2>2
<1> QED BY <1>3, <1>4

LEMMA RemoveTree ==
  ASSUME Tree, NEW d \in Node, NEW n \in Names, NEW i \in Node,
         Remove(d, n, i)
  PROVE  OneName' /\ Rooted'
<1> DEFINE e == [dir |-> d, name |-> n, node |-> i]
<1>1. /\ DOMAIN kind' = DOMAIN kind \ {i}
      /\ \A j \in DOMAIN kind' : kind'[j] = kind[j]
      /\ entries' = entries \ {e}
      /\ e \in entries
      /\ \A f \in entries : f.dir # i
  BY DEF Remove
<1>2. e.node = i
  OBVIOUS
<1> HIDE DEF e
<1>3. \A f \in entries : f.node = i => f = e
  BY <1>1, <1>2 DEF Tree, OneName
<1>4. OneName'
  BY <1>1, <1>2, <1>3 DEF OneName, Tree, TypeOK
<1>5. Rooted'
  <2> SUFFICES ASSUME NEW S \in SUBSET (DOMAIN kind' \ {Root}), S # {}
               PROVE  \E f \in entries' : /\ f.node \in S
                                          /\ f.dir \in DOMAIN kind' \ S
    BY DEF Rooted
  <2>1. PICK f \in entries : f.node \in S /\ f.dir \in DOMAIN kind \ S
    BY <1>1 DEF Tree, Rooted
  <2> QED BY <1>1, <1>2, <2>1
<1> QED BY <1>4, <1>5

\* The tree of names stays a tree: every node is well typed and has one name,
\* in a directory, and no part of the tree is cut off.
THEOREM NamesFormATree ==
  ASSUME NamespaceAssumption
  PROVE  Spec => [](TypeOK /\ OneName /\ Rooted)
<1>1. Init => Tree
  BY DEF NamespaceAssumption, Init, Tree, TypeOK, OneName, Rooted
<1>2. Tree /\ [Next]_vars => Tree'
  <2> SUFFICES ASSUME Tree, [Next]_vars
               PROVE  Tree'
    OBVIOUS
  <2>1. ASSUME NEW d \in DOMAIN kind, NEW n \in Names,
               NEW i \in Node \ DOMAIN kind, NEW k \in {"dir", "file"},
               Make(d, n, i, k)
        PROVE  Tree'
    <3>1. d \in Node
      BY DEF Tree, TypeOK
    <3> QED BY <2>1, <3>1, MakeTyped, MakeTree DEF Tree
  <2>2. ASSUME NEW e \in entries, Remove(e.dir, e.name, e.node)
        PROVE  Tree'
    <3>1. e.dir \in Node /\ e.name \in Names /\ e.node \in Node
      BY DEF Tree, TypeOK, Entries
    <3> QED BY <2>2, <3>1, RemoveTyped, RemoveTree DEF Tree
  <2>3. ASSUME UNCHANGED <<kind, entries>>, NEW i \in DOMAIN content,
               NEW s \in Lengths, Resize(i, s)
        PROVE  Tree'
    <3>1. i \in Node
      BY DEF Tree, TypeOK
    <3>2. TypeOK'
      BY <2>3, <3>1, ResizeTyped DEF Tree
    <3> QED BY <2>3, <3>2 DEF Tree, OneName, Rooted
  <2>4. ASSUME UNCHANGED <<kind, entries>>, NEW i \in DOMAIN content,
               NEW s \in Lengths, NEW lo \in 0 .. s, NEW v \in Values,
               Write(i, lo, s, v)
        PROVE  Tree'
    <3>1. i \in Node
      BY DEF Tree, TypeOK
    <3>2. TypeOK'
      BY <2>4, <3>1, WriteTyped DEF Tree
    <3> QED BY <2>4, <3>2 DEF Tree, OneName, Rooted
  <2>5. CASE UNCHANGED vars
    BY <2>5 DEF vars, Tree, TypeOK, OneName, Rooted, Contents, Entries
  <2> QED BY <2>1, <2>2, <2>3, <2>4, <2>5 DEF Next
<1>3. Tree => TypeOK /\ OneName /\ Rooted
  BY DEF Tree
<1> QED BY <1>1, <1>2, <1>3, PTL DEF Spec
=============================================================================

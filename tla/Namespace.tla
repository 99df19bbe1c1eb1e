----------------------------- MODULE Namespace ------------------------------
(***************************************************************************)
(* What the comments on the handlers of a1fs.c promise their callers: a    *)
(* tree of names and files that hold what was written to them, zeros where *)
(* nothing was.  Every call is one step, and a call that fails is none.    *)
(* Blocks, extents, bitmaps and counters do not exist here.                *)
(***************************************************************************)
EXTENDS Integers

CONSTANTS
  Node,     \* what a name can stand for
  Root,     \* the node of "/"
  Names,
  Lengths,  \* file sizes that callers ask for
  Values,   \* what a write puts into a unit of a file
  Zero      \* the value of a unit that was never written

\* What the constants must be; an image's do (A1fsAssumption).
NamespaceAssumption ==
  /\ Root \in Node
  /\ Lengths \subseteq Nat

VARIABLES
  kind,     \* "dir" or "file", for every node that exists
  entries,  \* the names in use
  content   \* the units of every file

vars == <<kind, entries, content>>

Entries == [dir : Node, name : Names, node : Node]

Init ==
  /\ kind = [i \in {Root} |-> "dir"]
  /\ entries = {}
  /\ content = [i \in {} |-> {}]

\* mkdir and create.
Make(d, n, i, k) ==
  /\ d \in DOMAIN kind /\ kind[d] = "dir"
  /\ \A e \in entries : ~ (e.dir = d /\ e.name = n)
  /\ i \notin DOMAIN kind
  /\ kind' = [j \in DOMAIN kind \cup {i} |-> IF j = i THEN k ELSE kind[j]]
  /\ entries' = entries \cup {[dir |-> d, name |-> n, node |-> i]}
  /\ content' = IF k = "dir" THEN content
                ELSE [j \in DOMAIN content \cup {i} |->
                        IF j = i THEN [u \in {} |-> Zero] ELSE content[j]]

\* rmdir and unlink.
Remove(d, n, i) ==
  LET e == [dir |-> d, name |-> n, node |-> i]
  IN  /\ e \in entries
      /\ \A f \in entries : f.dir # i     \* "ENOTEMPTY" (a1fs.c:347)
      /\ kind' = [j \in DOMAIN kind \ {i} |-> kind[j]]
      /\ entries' = entries \ {e}
      /\ content' = [j \in DOMAIN content \ {i} |-> content[j]]

\* truncate: "the new uninitialized range at the end must be filled with
\* zeros" (a1fs.c:650).
Resize(i, s) ==
  /\ i \in DOMAIN content
  /\ content' = [content EXCEPT ![i] =
       [u \in 0 .. (s - 1) |-> IF u \in DOMAIN @ THEN @[u] ELSE Zero]]

\* write, of the same value to the units lo .. hi - 1; a hole before them is
\* "filled with zeros" (a1fs.c:937).
Write(i, lo, hi, v) ==
  /\ i \in DOMAIN content
  /\ content' = [content EXCEPT ![i] =
       [u \in DOMAIN @ \cup 0 .. (hi - 1) |->
          IF u \in lo .. (hi - 1) THEN v
          ELSE IF u \in DOMAIN @ THEN @[u] ELSE Zero]]

Next ==
  \/ /\ UNCHANGED <<kind, entries>>
     /\ \E i \in DOMAIN content, s \in Lengths :
          \/ Resize(i, s)
          \/ \E lo \in 0 .. s, v \in Values : Write(i, lo, s, v)
  \/ \E e \in entries : Remove(e.dir, e.name, e.node)
  \/ \E d \in DOMAIN kind, n \in Names, i \in Node \ DOMAIN kind :
       \E k \in {"dir", "file"} : Make(d, n, i, k)

Spec == Init /\ [][Next]_vars

-----------------------------------------------------------------------------
Contents == UNION {[0 .. (s - 1) -> Values \cup {Zero}] : s \in Lengths \cup {0}}

TypeOK ==
  /\ DOMAIN kind \in SUBSET Node /\ Root \in DOMAIN kind
  /\ kind \in [DOMAIN kind -> {"dir", "file"}]
  /\ entries \in SUBSET Entries
  /\ DOMAIN content = {i \in DOMAIN kind : kind[i] = "file"}
  /\ \A i \in DOMAIN content : content[i] \in Contents

\* Every node but the root has one name, which is in a directory that exists.
OneName ==
  /\ kind[Root] = "dir"
  /\ \A e \in entries :
       /\ e.dir \in DOMAIN kind /\ kind[e.dir] = "dir"
       /\ e.node \in DOMAIN kind \ {Root}
  /\ \A e, f \in entries :
       e.node = f.node \/ (e.dir = f.dir /\ e.name = f.name) => e = f
  /\ \A i \in DOMAIN kind \ {Root} : \E e \in entries : e.node = i

\* Every node is below the root: no set of others is cut off from the rest of
\* the tree (what rmdir's refusal of directories that hold entries is for,
\* a1fs.c:360).
Rooted ==
  \A S \in SUBSET (DOMAIN kind \ {Root}) :
    S # {} => \E e \in entries : e.node \in S /\ e.dir \in DOMAIN kind \ S
=============================================================================

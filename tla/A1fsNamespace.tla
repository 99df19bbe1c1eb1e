--------------------------- MODULE A1fsNamespace ----------------------------
(***************************************************************************)
(* In orderly use the image implements Namespace: the live entries of the  *)
(* directories in use are its names, and a file's content is read off the  *)
(* blocks of its extent.                                                   *)
(***************************************************************************)
EXTENDS A1fs

NamesInUse ==
  UNION {{[dir |-> d, name |-> At(data, p).name, node |-> At(data, p).ino] :
            p \in Live(d)} : d \in LiveDirs}

Nodes == {0} \cup {e.node : e \in NamesInUse}

\* In orderly use an inode has one extent.
Units(i) ==
  [u \in 0 .. (itable[i].size - 1) |->
     data[itable[i].ext[1].start + (u \div BlockUnits)][u % BlockUnits]]

NS == INSTANCE Namespace WITH
  Node <- Ino, Root <- 0, Lengths <- Sizes, Values <- Payload, Zero <- Blank,
  kind <- [i \in Nodes |-> itable[i].mode],
  entries <- NamesInUse,
  content <- [i \in {j \in Nodes : itable[j].mode = "file"} |-> Units(i)]

\* In orderly use every step of the image is a step of the name space or
\* changes nothing a caller can see: a name appears and goes away at once with
\* its inode, no call touches the names and the contents of others, a file is
\* zero where nothing was written even though its blocks held something else
\* (a1fs.c:288-611, 664-841, 955-1030).
ImplementsNamespace == NS!Spec
=============================================================================

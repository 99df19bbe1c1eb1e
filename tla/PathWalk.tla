------------------------------ MODULE PathWalk ------------------------------
(***************************************************************************)
(* get_inode_num (a1fs_helper.c), one path component a step, over any      *)
(* directory tree: inode_lookup is an arbitrary function, as it answers    *)
(* for names of directories, for stale names, and even inside a file.      *)
(***************************************************************************)
EXTENDS Integers, Sequences

CONSTANTS
  Ino,    \* inode numbers; 0 is the root's
  Names,  \* what strtok can return
  Paths   \* the paths that are asked for, as their components

ASSUME PathWalkAssumption ==
  /\ Ino \subseteq Nat /\ 0 \in Ino
  /\ Paths \subseteq Seq(Names)

Missing == -1
Answers == Ino \cup {Missing}

VARIABLES
  inode_lookup,  \* what inode_lookup answers, for a directory and a name
  path,          \* the argument
  k,             \* components that strtok has returned
  curr_inode, par_inode,
  pc             \* "loop" or "done"

vars == <<inode_lookup, path, k, curr_inode, par_inode, pc>>
input == <<inode_lookup, path>>

Init ==
  /\ inode_lookup \in [Ino \X Names -> Answers]
  /\ path \in Paths
  /\ k = 0
  /\ curr_inode = 0 /\ par_inode = 0
  /\ pc = "loop"

\* inode_lookup has an answer for a parent that does not exist.
Lookup(p, n) == IF p = Missing THEN Missing ELSE inode_lookup[<<p, n>>]

\* Mutant: takes what was not found for the parent, too.
Parent_Any(curr) == curr

\* Mutant: every name is looked up in the root.
Parent_Late(curr) == par_inode

\* The last component that was found is taken for the parent of the next one.
Parent(curr) == IF curr # Missing THEN curr ELSE par_inode

\* Mutant: the token is not advanced.
NextToken_Not == k

NextToken == k + 1

Step ==
  /\ pc = "loop" /\ k < Len(path)
  /\ par_inode' = Parent(curr_inode)
  /\ curr_inode' = Lookup(par_inode', path[k + 1])
  /\ k' = NextToken
  /\ UNCHANGED <<input, pc>>

Return ==
  /\ pc = "loop" /\ k = Len(path)
  /\ pc' = "done"
  /\ UNCHANGED <<input, k, curr_inode, par_inode>>

Next == Step \/ Return

Spec == Init /\ [][Next]_vars

\* One thread, nothing to wait for.
FairSpec == Spec /\ WF_vars(Next)

-----------------------------------------------------------------------------
\* What the prefixes of the path stand for: t[n] for its first n components.
Resolves(t) ==
  /\ t[0] = 0
  /\ \A n \in 0 .. (Len(path) - 1) :
       t[n + 1] = IF t[n] = Missing THEN Missing
                  ELSE inode_lookup[<<t[n], path[n + 1]>>]

PrefixesExist(t) == \A n \in 0 .. (Len(path) - 1) : t[n] # Missing

Resolutions == {t \in [0 .. Len(path) -> Answers] : Resolves(t)}

\* The walk keeps its place in the path, and looks names up in inodes only.
TypeOK ==
  /\ inode_lookup \in [Ino \X Names -> Answers]
  /\ path \in Paths
  /\ k \in 0 .. Len(path)
  /\ curr_inode \in Answers
  /\ par_inode \in Ino
  /\ pc \in {"loop", "done"}

\* A handler that FUSE calls, all but the last component having been found,
\* is told what the path stands for, and the directory that its last name is
\* in (a1fs_helper.c:3-34; a1fs.c:322 enters the new name there).
WalkResolves ==
  pc = "done" => \A t \in Resolutions :
    PrefixesExist(t) =>
      /\ curr_inode = t[Len(path)]
      /\ Len(path) > 0 => par_inode = t[Len(path) - 1]

\* The walk ends (a1fs_helper.c:14-28).
WalkReturns == <>(pc = "done")

\* "ENOENT  a component of the path does not exist." (a1fs.c:152): a path with
\* a component that does not exist has no inode.
MissingIsMissing ==
  pc = "done" => \A t \in Resolutions :
    ~ PrefixesExist(t) => curr_inode = Missing

=============================================================================

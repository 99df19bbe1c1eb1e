--------------------------- MODULE PathWalkProofs ---------------------------
(***************************************************************************)
(* Theorem: get_inode_num resolves every path of any length in any tree,   *)
(* as long as only its last component is missing.                          *)
(***************************************************************************)
EXTENDS PathWalk, TLAPS

\* Where the walk is on the resolution t of a path whose prefixes exist.
OnTheWay(t) ==
  PrefixesExist(t) =>
    /\ curr_inode = t[k]
    /\ k > 0 => par_inode = t[k - 1]

WalkInv ==
  /\ TypeOK
  /\ pc = "done" => k = Len(path)
  /\ \A t \in Resolutions : OnTheWay(t)

LEMMA InitWalk == Init => WalkInv
<1> SUFFICES ASSUME Init
             PROVE  WalkInv
  OBVIOUS
<1>1. path \in Seq(Names) /\ Len(path) \in Nat
  BY PathWalkAssumption DEF Init
<1>2. TypeOK
  BY <1>1, PathWalkAssumption DEF Init, TypeOK, Answers
<1>3. \A t \in Resolutions : OnTheWay(t)
  BY DEF Init, Resolutions, Resolves, OnTheWay
<1> QED BY <1>2, <1>3 DEF Init, WalkInv

LEMMA StepWalk ==
  ASSUME WalkInv, Step
  PROVE  WalkInv'
<1>1. /\ path \in Seq(Names) /\ Len(path) \in Nat
      /\ k \in 0 .. (Len(path) - 1) /\ k \in Nat
  BY PathWalkAssumption DEF WalkInv, TypeOK, Step
<1>2. path[k + 1] \in Names
  BY <1>1
<1>3. /\ par_inode' \in Ino
      /\ par_inode' # Missing
  BY PathWalkAssumption DEF WalkInv, TypeOK, Step, Parent, Answers, Missing
<1>4. curr_inode' = inode_lookup[<<par_inode', path[k + 1]>>]
  BY <1>3 DEF Step, Lookup
<1>5. curr_inode' \in Answers
  BY <1>2, <1>3, <1>4 DEF WalkInv, TypeOK
<1>6. TypeOK'
  BY <1>1, <1>3, <1>5 DEF WalkInv, TypeOK, Step, NextToken, input
<1>7. ASSUME NEW t \in Resolutions, PrefixesExist(t)
      PROVE  curr_inode' = t[k + 1] /\ par_inode' = t[k]
  <2>1. curr_inode = t[k] /\ t[k] # Missing
    BY <1>1, <1>7 DEF WalkInv, OnTheWay, PrefixesExist
  <2>2. par_inode' = t[k]
    BY <2>1 DEF Step, Parent
  <2>3. t[k + 1] = inode_lookup[<<t[k], path[k + 1]>>]
    BY <1>1, <2>1 DEF Resolutions, Resolves
  <2> QED BY <1>4, <2>2, <2>3
<1>8. \A t \in Resolutions' : OnTheWay(t)'
  <2>1. Resolutions' = Resolutions
    BY DEF Step, input, Resolutions, Resolves
  <2>2. \A t : PrefixesExist(t)' = PrefixesExist(t)
    BY DEF Step, input, PrefixesExist
  <2>3. k' = k + 1 /\ k' > 0 /\ k' - 1 = k
    BY <1>1 DEF Step, NextToken
  <2> QED BY <1>7, <2>1, <2>2, <2>3 DEF OnTheWay
<1> QED BY <1>6, <1>8 DEF WalkInv, Step

LEMMA WalkInvariant == Spec => []WalkInv
<1>1. WalkInv /\ [Next]_vars => WalkInv'
  <2> SUFFICES ASSUME WalkInv, [Next]_vars
               PROVE  WalkInv'
    OBVIOUS
  <2>1. CASE Return
    BY <2>1 DEF Return, input, WalkInv, TypeOK, Resolutions, Resolves, OnTheWay,
                PrefixesExist
  <2>2. CASE UNCHANGED vars
    BY <2>2 DEF vars, WalkInv, TypeOK, Resolutions, Resolves, OnTheWay,
                PrefixesExist
  <2> QED BY <2>1, <2>2, StepWalk DEF Next
<1> QED BY <1>1, InitWalk, PTL DEF Spec

\* The walk takes one step for each component of the path, and the parent it
\* keeps is always an inode, however many components are missing
\* (a1fs_helper.c:3-34).
THEOREM WalkTypeCorrect == Spec => []TypeOK
<1>1. WalkInv => TypeOK
  BY DEF WalkInv
<1> QED BY <1>1, WalkInvariant, PTL

\* Whatever the tree, a path of which at most the last component is missing is
\* resolved to what it stands for, and its parent to the directory it is in.
THEOREM WalkCorrect == Spec => []WalkResolves
<1>1. WalkInv => WalkResolves
  BY DEF WalkInv, OnTheWay, WalkResolves
<1> QED BY <1>1, WalkInvariant, PTL
=============================================================================

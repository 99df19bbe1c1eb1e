------------------------------ MODULE MCCalls -------------------------------
(***************************************************************************)
(* Small instances of Calls for TLC.                                       *)
(***************************************************************************)
EXTENDS Calls, TLC

CONSTANTS etc, tmp

MCNames == {etc, tmp}
MCSymmetry == Permutations(MCNames)
MCText == {[ino |-> NInodes, name |-> NoName]}

\* No guard and no property looks at the last answer before a step: states
\* that differ in it only are explored once.
MCView == <<vars, used, todo>>
=============================================================================

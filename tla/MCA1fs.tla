------------------------------- MODULE MCA1fs -------------------------------
(***************************************************************************)
(* Small instances of A1fs for TLC.                                        *)
(***************************************************************************)
EXTENDS A1fs, TLC

CONSTANTS etc, tmp

MCNames == {etc, tmp}
MCSymmetry == Permutations(MCNames)

\* What a user's bytes spell in the place of a directory entry: text (no inode
\* number of the image) with a name that is also the name of a file, or zeros.
MCPayload == {[ino |-> NInodes, name |-> etc], [ino |-> NInodes, name |-> NoName]}

\* Text that spells no name.
MCText == {[ino |-> NInodes, name |-> NoName]}

\* For runs whose properties do not depend on what files hold.
MCNoPayload == {}
=============================================================================

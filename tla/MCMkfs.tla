------------------------------- MODULE MCMkfs -------------------------------
(***************************************************************************)
(* Small instances of Mkfs for TLC.                                        *)
(***************************************************************************)
EXTENDS Mkfs

\* Below -1, the least number of blocks mkfs asks for, and not.
MCNoise == {-2, 0}
=============================================================================

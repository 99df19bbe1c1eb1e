------------------------------ MODULE MCCrash -------------------------------
(***************************************************************************)
(* Small instances of Crash for TLC.                                       *)
(***************************************************************************)
EXTENDS Crash, TLC

CONSTANTS etc, tmp

MCNames == {etc, tmp}
MCSymmetry == Permutations(MCNames)
=============================================================================

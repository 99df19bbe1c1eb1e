----------------------------- MODULE MCPathWalk -----------------------------
(***************************************************************************)
(* Small instances of PathWalk for TLC.                                    *)
(***************************************************************************)
EXTENDS PathWalk

CONSTANTS etc, tmp

MCNames == {etc, tmp}
MCPaths == UNION {[1 .. n -> MCNames] : n \in 0 .. 3}
=============================================================================

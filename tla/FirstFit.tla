------------------------------ MODULE FirstFit ------------------------------
(***************************************************************************)
(* The data-block branch of get_available_bit (util.h), one loop iteration *)
(* per step.  The superblock counter, the bitmap and the request are       *)
(* arbitrary: the counter can disagree with the bitmap, as it does once    *)
(* a1fs_unlink or a1fs_rmdir has run (see A1fs).                           *)
(***************************************************************************)
EXTENDS Bitmap

VARIABLES
  bitmap,       \* the set of 1 bits, never changed by the scan
  free,         \* sb->sb_free_blocks_count
  extent_size,  \* the number of contiguous blocks asked for
  i,            \* the bit being observed
  count,        \* contiguous clear bits seen just before i
  avail,        \* avail_db_index: where that run of clear bits starts
  pc,           \* "guard", "loop" or "done"
  ret           \* the value returned

vars == <<bitmap, free, extent_size, i, count, avail, pc, ret>>
input == <<bitmap, free, extent_size>>

Init ==
  /\ bitmap \in SUBSET (0 .. MaxIndex)
  /\ free \in 0 .. TotalBlocks
  /\ extent_size \in 0 .. TotalBlocks
  /\ i = 0 /\ count = 0 /\ avail = 0
  /\ pc = "guard"
  /\ ret = 0

CheckSpace ==
  /\ pc = "guard"
  /\ IF free < extent_size
     THEN pc' = "done" /\ ret' = -1
     ELSE pc' = "loop" /\ UNCHANGED ret
  /\ UNCHANGED <<input, i, count, avail>>

\* Mutant: examines max_index, too.
Looping_TooFar == pc = "loop" /\ count # extent_size /\ i <= MaxIndex

Looping == pc = "loop" /\ count # extent_size /\ i < MaxIndex

\* Mutant: forgets to restart the count at an occupied bit.
SkipOccupied_KeepCount ==
  /\ Looping
  /\ i \in bitmap
  /\ i' = i + 1
  /\ avail' = i + 1
  /\ UNCHANGED <<input, count, pc, ret>>

SkipOccupied ==
  /\ Looping
  /\ i \in bitmap
  /\ count' = 0
  /\ i' = i + 1
  /\ avail' = i + 1
  /\ UNCHANGED <<input, pc, ret>>

\* Mutant: an occupied-bit test that never advances on a clear bit.
CountFree_Stuck ==
  /\ Looping
  /\ i \notin bitmap
  /\ UNCHANGED vars

CountFree ==
  /\ Looping
  /\ i \notin bitmap
  /\ i' = i + 1
  /\ count' = count + 1
  /\ UNCHANGED <<input, avail, pc, ret>>

Return ==
  /\ pc = "loop"
  /\ ~ Looping
  /\ pc' = "done"
  /\ ret' = IF i = MaxIndex /\ extent_size # 1 THEN -1 ELSE avail
  /\ UNCHANGED <<input, i, count, avail>>

Next == CheckSpace \/ SkipOccupied \/ CountFree \/ Return

Spec == Init /\ [][Next]_vars

\* The loop is straight-line code of one thread: it keeps running.
FairSpec == Spec /\ WF_vars(Next)

-----------------------------------------------------------------------------
\* The scan's variables stay in range; in particular every bit it examines
\* is below max_index (util.h:108).
TypeOK ==
  /\ bitmap \in SUBSET (0 .. MaxIndex)
  /\ free \in Nat
  /\ extent_size \in Nat
  /\ i \in 0 .. MaxIndex
  /\ count \in Nat
  /\ avail \in 0 .. MaxIndex
  /\ pc \in {"guard", "loop", "done"}
  /\ ret \in Int

\* Whatever the bitmap, the loop returns exactly what the relation used by the
\* file-system model says: the first fit, -1, or max_index (util.h:69-131).
ScanCorrect ==
  pc = "done" => GetAvailableBlock(bitmap, free, extent_size, ret)

\* The scan always comes back to its caller (util.h:108-119).
ScanReturns == <>(pc = "done")

=============================================================================

--------------------------- MODULE FirstFitProofs ---------------------------
(***************************************************************************)
(* The scan of get_available_bit returns what GetAvailableBlock says, for  *)
(* every size of image, every bitmap, every counter and every request.     *)
(***************************************************************************)
EXTENDS FirstFit, TLAPS

\* The loop invariant: the `count' bits from avail to i are clear, no run of
\* the requested length starts below avail, and none has been found yet.
ScanSoFar ==
  /\ avail + count = i
  /\ Run(avail, count) \cap bitmap = {}
  /\ count <= extent_size
  /\ \A t \in 0 .. (avail - 1) : ~ FreeRun(bitmap, t, extent_size)

IInv ==
  /\ TypeOK
  /\ pc = "loop" => ScanSoFar /\ free >= extent_size
  /\ pc = "guard" => i = 0 /\ count = 0 /\ avail = 0
  /\ ScanCorrect

LEMMA MaxIndexType == MaxIndex \in Nat /\ MaxIndex >= 4
BY TotalBlocksAssumption DEF MaxIndex

\* The scan's variables stay in range from the start (util.h:97-107).
LEMMA InitOK == Init => IInv
BY MaxIndexType, TotalBlocksAssumption
DEF Init, IInv, TypeOK, ScanSoFar, ScanCorrect

\* A request that is larger than the counter fails at once (util.h:73).
LEMMA CheckSpaceOK == IInv /\ CheckSpace => IInv'
<1> SUFFICES ASSUME IInv, CheckSpace PROVE IInv'
  OBVIOUS
<1> USE MaxIndexType
<1>1. TypeOK'
  BY DEF IInv, TypeOK, CheckSpace, input
<1>2. CASE free < extent_size
  BY <1>1, <1>2 DEF IInv, CheckSpace, ScanCorrect, GetAvailableBlock, input
<1>3. CASE ~ (free < extent_size)
  <2>1. pc' = "loop" /\ i' = 0 /\ count' = 0 /\ avail' = 0
    BY <1>3 DEF IInv, CheckSpace
  <2>2. ScanSoFar'
    BY <2>1, <1>1 DEF ScanSoFar, Run, TypeOK
  <2> QED
    BY <1>1, <1>3, <2>1, <2>2 DEF IInv, TypeOK, CheckSpace, ScanCorrect, input
<1> QED
  BY <1>2, <1>3

\* An occupied bit rules out every run that would have contained it.
LEMMA SkipOccupiedOK == IInv /\ SkipOccupied => IInv'
<1> SUFFICES ASSUME IInv, SkipOccupied PROVE IInv'
  OBVIOUS
<1> USE MaxIndexType
<1>1. TypeOK'
  BY DEF IInv, TypeOK, SkipOccupied, Looping, input
<1>2. ScanSoFar'
  <2>1. ASSUME NEW t \in 0 .. i PROVE ~ FreeRun(bitmap, t, extent_size)
    <3>1. CASE t < avail
      BY <3>1 DEF IInv, TypeOK, ScanSoFar, SkipOccupied, Looping
    <3>2. CASE t >= avail
      <4>1. i \in Run(t, extent_size)
        BY <3>2 DEF IInv, TypeOK, ScanSoFar, SkipOccupied, Looping, Run
      <4> QED
        BY <4>1 DEF FreeRun, SkipOccupied
    <3> QED
      BY <3>1, <3>2 DEF IInv, TypeOK
  <2>2. \A t \in 0 .. (avail' - 1) : ~ FreeRun(bitmap', t, extent_size')
    BY <2>1 DEF SkipOccupied, input, IInv, TypeOK
  <2>3. avail' + count' = i' /\ count' <= extent_size' /\ Run(avail', count') = {}
    BY DEF SkipOccupied, input, IInv, TypeOK, Run
  <2> QED
    BY <2>2, <2>3 DEF ScanSoFar
<1> QED
  BY <1>1, <1>2 DEF IInv, SkipOccupied, Looping, ScanCorrect, input

\* A clear bit makes the run one longer.
LEMMA CountFreeOK == IInv /\ CountFree => IInv'
<1> SUFFICES ASSUME IInv, CountFree PROVE IInv'
  OBVIOUS
<1> USE MaxIndexType
<1>1. TypeOK'
  BY DEF IInv, TypeOK, CountFree, Looping, input
<1>2. ScanSoFar'
  <2>1. Run(avail, count + 1) = Run(avail, count) \cup {i}
    BY DEF IInv, TypeOK, ScanSoFar, CountFree, Looping, Run
  <2>2. Run(avail', count') \cap bitmap' = {}
    BY <2>1 DEF IInv, ScanSoFar, CountFree, Looping, input
  <2>3. avail' + count' = i' /\ count' <= extent_size'
    BY DEF IInv, TypeOK, ScanSoFar, CountFree, Looping, input
  <2> QED
    BY <2>2, <2>3 DEF ScanSoFar, CountFree, Looping, input, IInv
<1> QED
  BY <1>1, <1>2 DEF IInv, CountFree, Looping, ScanCorrect, input

\* What the loop returns when it ends, by the reason why it ended.
LEMMA ReturnOK == IInv /\ Return => IInv'
<1> SUFFICES ASSUME IInv, Return PROVE IInv'
  OBVIOUS
<1> USE MaxIndexType
<1>1. TypeOK'
  BY DEF IInv, TypeOK, Return, input
<1>2. /\ ScanSoFar /\ TypeOK /\ free >= extent_size
      /\ count = extent_size \/ i = MaxIndex
  BY DEF IInv, Return, Looping, TypeOK
<1>3. GetAvailableBlock(bitmap, free, extent_size, ret')
  <2>1. CASE count = extent_size /\ (extent_size = 1 \/ i # MaxIndex)
    <3>1. ret' = avail
      BY <2>1 DEF Return
    <3>2. LowestRun(bitmap, extent_size, avail)
      BY <1>2, <2>1 DEF LowestRun, ScanSoFar, TypeOK, FreeRun
    <3>3. extent_size = 1 \/ avail + extent_size # MaxIndex
      BY <1>2, <2>1 DEF ScanSoFar, TypeOK
    <3> QED
      BY <1>2, <3>1, <3>2, <3>3 DEF GetAvailableBlock, TypeOK
  <2>2. CASE i = MaxIndex /\ extent_size # 1
    <3>1. ret' = -1
      BY <2>2 DEF Return
    <3>2. ASSUME NEW t \in 0 .. (MaxIndex - extent_size - 1)
          PROVE  ~ FreeRun(bitmap, t, extent_size)
      BY <1>2, <2>2 DEF ScanSoFar, TypeOK
    <3> QED
      BY <1>2, <2>2, <3>1, <3>2 DEF GetAvailableBlock, TypeOK
  <2>3. CASE i = MaxIndex /\ extent_size = 1 /\ count # extent_size
    <3>1. ret' = MaxIndex
      BY <1>2, <2>3 DEF Return, ScanSoFar, TypeOK
    <3>2. ASSUME NEW t \in 0 .. (MaxIndex - 1) PROVE t \in bitmap
      <4>1. ~ FreeRun(bitmap, t, 1)
        BY <1>2, <2>3 DEF ScanSoFar, TypeOK
      <4>2. Run(t, 1) = {t}
        BY DEF Run
      <4> QED
        BY <4>1, <4>2 DEF FreeRun
    <3> QED
      BY <1>2, <2>3, <3>1, <3>2 DEF GetAvailableBlock, TypeOK
  <2> QED
    BY <1>2, <2>1, <2>2, <2>3
<1>4. ScanCorrect'
  BY <1>3 DEF ScanCorrect, Return, input
<1> QED
  BY <1>1, <1>4 DEF IInv, Return

LEMMA StepOK == IInv /\ [Next]_vars => IInv'
<1>1. IInv /\ UNCHANGED vars => IInv'
  BY DEF vars, IInv, TypeOK, ScanSoFar, ScanCorrect
<1> QED
  BY <1>1, CheckSpaceOK, SkipOccupiedOK, CountFreeOK, ReturnOK DEF Next

LEMMA LoopInvariant == Spec => []IInv
BY InitOK, StepOK, PTL DEF Spec

\* The scan keeps its index, its run and its result in range, whatever it is
\* asked for: it looks at no bit from max_index on (util.h:69-131).
THEOREM ScanTypeCorrect == Spec => []TypeOK
<1>1. IInv => TypeOK
  BY DEF IInv
<1> QED
  BY <1>1, LoopInvariant, PTL

\* The scan returns the first fit, -1 or max_index exactly as
\* GetAvailableBlock says (util.h:69-131).
THEOREM ScanInvariant == Spec => []ScanCorrect
<1>1. IInv => ScanCorrect
  BY DEF IInv
<1> QED
  BY <1>1, LoopInvariant, PTL
=============================================================================

-------------------------- MODULE UioLayout_proofs --------------------------
(***************************************************************************)
(* Proofs about UioLayout, for every size of the mapping and the display.  *)
(***************************************************************************)
EXTENDS UioLayout, TLAPS

(* Rounding down and up to 128 bytes.                                      *)
LEMMA AlignDown ==
  ASSUME NEW x \in Nat
  PROVE  /\ ALIGN_DN(x) \in Nat /\ ALIGN_DN(x) % 128 = 0
         /\ ALIGN_DN(x) <= x /\ x < ALIGN_DN(x) + 128
  BY DEF ALIGN_DN

LEMMA FramesStart == pointerOffset = 128 /\ framesOffset = 1152
  BY DEF pointerOffset, framesOffset, HeaderSize, PointerDataSize, ALIGN_UP,
         ALIGN_DN

(* The slots of a mapping of at least one page.                            *)
LEMMA FrameSizeBounds ==
  ASSUME NEW size \in Nat, size >= 4096
  PROVE  /\ frameSize(size) \in Nat /\ frameSize(size) % 128 = 0
         /\ 1152 + 2 * frameSize(size) <= size
<1> DEFINE half == (size - 1152) \div 2
<1>1. half \in Nat /\ 2 * half <= size - 1152
  OBVIOUS
<1>2. frameSize(size) = ALIGN_DN(half)
  BY FramesStart DEF frameSize
<1> HIDE DEF half
<1>3. QED
  BY <1>1, <1>2, AlignDown

(* Types are preserved.                                                    *)
THEOREM LayoutTypeCorrect == Spec => []TypeOK
<1> USE LayoutAssumption DEF LayoutAssumption
<1>1. Init => TypeOK
  <2> SUFFICES ASSUME Init PROVE TypeOK
    OBVIOUS
  <2>1. placed \in Seq(Nat) /\ rows \in Seq(Nat)
    BY DEF Init
  <2>2. frame_id \in 0 .. 1 /\ stride \in Nat /\ dataPos \in Nat /\ pitch \in Nat
    BY DEF Init
  <2>3. copying \in BOOLEAN
    BY DEF Init
  <2>4. QED
    BY <2>1, <2>2, <2>3 DEF Init, TypeOK
<1>2. TypeOK /\ [Next]_vars => TypeOK'
  <2> SUFFICES ASSUME TypeOK, [Next]_vars PROVE TypeOK'
    OBVIOUS
  <2>1. shmSize \in Nat /\ frameSize(shmSize) \in Nat
    BY FrameSizeBounds DEF TypeOK
  <2>2. CASE \E pad \in Paddings : BeginFrame(pad)
    BY <2>2 DEF TypeOK, BeginFrame
  <2>7. CASE LockFails
    BY <2>7 DEF TypeOK, LockFails, NextSlot
  <2>3. CASE CopyRow
    <3>1. mWidth \in Nat /\ Len(placed) \in Nat /\ frame_id \in {0, 1}
      BY DEF TypeOK
    <3>2. frame_id * frameSize(shmSize) \in Nat
      BY <2>1, <3>1
    <3>3. Len(placed) * (mWidth * 4) \in Nat
      BY <3>1
    <3>4. RowTarget(Len(placed)) \in Nat
      BY <3>2, <3>3, FramesStart DEF RowTarget, frameOffset
    <3>5. QED
      BY <2>3, <3>4 DEF CopyRow, TypeOK
  <2>4. CASE Describe
    <3>1. frame_id \in {0, 1} /\ frame_id' \in 0 .. 1
      BY <2>4 DEF Describe, NextSlot, TypeOK
    <3>2. dataPos' \in Nat
      <4>1. frame_id * frameSize(shmSize) \in Nat
        BY <2>1, <3>1
      <4>2. dataPos' = framesOffset + frame_id * frameSize(shmSize)
        BY <2>4 DEF Describe, NextSlot, frameOffset
      <4>3. QED
        BY <4>1, <4>2, FramesStart
    <3>3. pitch' \in Nat
      BY <2>4 DEF Describe, NextSlot, TypeOK
    <3>4. QED
      BY <2>4, <3>1, <3>2, <3>3 DEF Describe, NextSlot, TypeOK
  <2>5. CASE UNCHANGED vars
    BY <2>5 DEF vars, TypeOK
  <2>6. QED
    BY <2>2, <2>3, <2>4, <2>5, <2>7 DEF Next
<1>3. QED
  BY <1>1, <1>2, PTL DEF Spec

(* Header, pointer area and both slots are laid out without overlap inside *)
(* the mapping, for every size the device can report.                      *)
THEOREM LayoutSound == Spec => []SlotsInMapping
<1>1. TypeOK => SlotsInMapping
  <2> SUFFICES ASSUME TypeOK PROVE SlotsInMapping
    OBVIOUS
  <2>1. shmSize \in Nat /\ shmSize >= 4096
    BY LayoutAssumption DEF LayoutAssumption, TypeOK
  <2>2. QED
    BY <2>1, FrameSizeBounds, FramesStart
       DEF SlotsInMapping, frameOffset, HeaderSize, PointerDataSize
<1>2. QED
  BY <1>1, LayoutTypeCorrect, PTL
-----------------------------------------------------------------------------
(* The rows of a frame lie one after the other from the start of a slot,   *)
(* those of the advertised frame in the slot the next frame does not go to *)
(* unless locks failed.                                                    *)
RowsAt(s, slot) ==
  /\ Len(s) <= mHeight
  /\ \A i \in 1 .. Len(s) : s[i] = frameOffset(shmSize, slot) + (i - 1) * RowBytes

Advertised == IF missed THEN frame_id ELSE NextSlot(frame_id)

RowInv ==
  /\ RowsAt(rows, Advertised)
  /\ IF copying THEN RowsAt(placed, frame_id) ELSE placed = rows
  /\ rows # <<>> => /\ dataPos = frameOffset(shmSize, Advertised)
                    /\ pitch = RowBytes

LEMMA OtherSlot ==
  ASSUME NEW s \in 0 .. 1
  PROVE  NextSlot(s) \in 0 .. 1 /\ NextSlot(s) # s /\ NextSlot(NextSlot(s)) = s
  BY DEF NextSlot

(* Row i of n rows of w bytes ends within them.                            *)
LEMMA RowEnds ==
  ASSUME NEW i \in Nat, NEW n \in Nat, NEW w \in Nat, i < n
  PROVE  i * w \in Nat /\ i * w + w <= n * w
<1>1. PICK k \in Nat : n = i + 1 + k
  <2>1. n - (i + 1) \in Nat /\ n = i + 1 + (n - (i + 1))
    OBVIOUS
  <2>2. QED
    BY <2>1
<1>2. n * w = i * w + w + k * w
  BY <1>1
<1>3. i * w \in Nat /\ k * w \in Nat
  OBVIOUS
<1>4. QED
  BY <1>2, <1>3

LEMMA RowInSlot ==
  ASSUME TypeOK, FrameFits, NEW slot \in 0 .. 1, NEW s \in Seq(Nat), RowsAt(s, slot),
         NEW i \in DOMAIN s
  PROVE  /\ s[i] \in Nat
         /\ frameOffset(shmSize, slot) <= s[i]
         /\ s[i] + RowBytes <= frameOffset(shmSize, slot) + frameSize(shmSize)
<1>1. RowBytes \in Nat /\ mHeight \in Nat
  BY LayoutAssumption DEF LayoutAssumption, TypeOK, RowBytes
<1>2. i \in 1 .. Len(s) /\ Len(s) \in Nat
  OBVIOUS
<1>3. i - 1 \in Nat /\ i - 1 < mHeight
  BY <1>1, <1>2 DEF RowsAt
<1>4. (i - 1) * RowBytes \in Nat /\ (i - 1) * RowBytes + RowBytes <= frameSize(shmSize)
  <2>1. mHeight * RowBytes \in Nat /\ mHeight * RowBytes <= frameSize(shmSize)
    BY <1>1 DEF FrameFits
  <2>2. frameSize(shmSize) \in Nat
    BY LayoutAssumption, FrameSizeBounds DEF LayoutAssumption, TypeOK
  <2>3. /\ (i - 1) * RowBytes \in Nat
        /\ (i - 1) * RowBytes + RowBytes <= mHeight * RowBytes
    BY <1>1, <1>3, RowEnds
  <2>4. QED
    BY <1>1, <2>1, <2>2, <2>3
<1>5. s[i] = frameOffset(shmSize, slot) + (i - 1) * RowBytes /\ s[i] \in Nat
  BY <1>2 DEF RowsAt
<1>6. frameOffset(shmSize, slot) \in Nat
  <2>1. frameSize(shmSize) \in Nat
    BY LayoutAssumption, FrameSizeBounds DEF LayoutAssumption, TypeOK
  <2>2. QED
    BY <2>1, FramesStart DEF frameOffset
<1>7. frameSize(shmSize) \in Nat
  BY LayoutAssumption, FrameSizeBounds DEF LayoutAssumption, TypeOK
<1>8. QED
  BY <1>1, <1>4, <1>5, <1>6, <1>7

LEMMA RowInductive ==
  ASSUME TypeOK, RowInv, [Next]_vars PROVE RowInv'
<1> USE DEF TypeOK
<1>1. ASSUME NEW pad \in Paddings, BeginFrame(pad) PROVE RowInv'
  <2>1. /\ copying' /\ placed' = <<>>
        /\ UNCHANGED <<shmSize, mWidth, mHeight, frame_id, dataPos, pitch, rows,
                       missed>>
    BY <1>1 DEF BeginFrame
  <2>2. RowsAt(placed, frame_id)'
    <3>1. Len(placed') = 0 /\ mHeight' \in Nat
      BY <2>1, LayoutAssumption DEF LayoutAssumption
    <3>2. QED
      BY <3>1 DEF RowsAt
  <2>3. QED
    BY <2>1, <2>2 DEF RowInv, RowsAt, RowBytes, Advertised
<1>6. CASE LockFails
  <2>1. /\ ~copying /\ ~copying' /\ frame_id' = NextSlot(frame_id) /\ missed' = ~missed
        /\ UNCHANGED <<shmSize, mWidth, mHeight, placed, dataPos, pitch, rows>>
    BY <1>6 DEF LockFails
  <2>2. Advertised' = Advertised
    BY <2>1, OtherSlot DEF Advertised
  <2>3. QED
    BY <2>1, <2>2 DEF RowInv, RowsAt, RowBytes
<1>2. CASE CopyRow
  <2>1. /\ copying /\ copying' /\ Len(placed) < mHeight
        /\ placed' = Append(placed, frameOffset(shmSize, frame_id) + Len(placed) * RowBytes)
        /\ UNCHANGED <<shmSize, mWidth, mHeight, frame_id, dataPos, pitch, rows,
                       missed>>
    BY <1>2 DEF CopyRow, RowTarget, RowBytes
  <2>2. /\ Len(placed) \in Nat /\ Len(placed') = Len(placed) + 1
        /\ \A i \in 1 .. Len(placed) : placed'[i] = placed[i]
        /\ placed'[Len(placed) + 1]
             = frameOffset(shmSize, frame_id) + Len(placed) * RowBytes
    BY <2>1
  <2>3. mHeight \in Nat
    BY LayoutAssumption DEF LayoutAssumption
  <2>4. RowsAt(placed, frame_id)'
    <3>1. ASSUME NEW i \in 1 .. Len(placed')
          PROVE  placed'[i] = frameOffset(shmSize, frame_id) + (i - 1) * RowBytes
      <4>1. CASE i \in 1 .. Len(placed)
        BY <2>1, <2>2, <4>1 DEF RowInv, RowsAt
      <4>2. CASE i = Len(placed) + 1
        <5>1. i - 1 = Len(placed)
          BY <2>2, <4>2
        <5>2. QED
          BY <2>2, <4>2, <5>1
      <4>3. Len(placed) \in Nat /\ Len(placed') = Len(placed) + 1
        BY <2>2
      <4>4. i \in 1 .. Len(placed) \/ i = Len(placed) + 1
        BY <4>3
      <4>5. QED
        BY <4>1, <4>2, <4>4
    <3>2. Len(placed') <= mHeight
      BY <2>1, <2>2, <2>3
    <3>3. RowBytes' = RowBytes /\ mHeight' = mHeight /\ shmSize' = shmSize
          /\ frame_id' = frame_id
      BY <2>1 DEF RowBytes
    <3>4. QED
      BY <3>1, <3>2, <3>3 DEF RowsAt
  <2>5. QED
    BY <2>1, <2>4 DEF RowInv, RowsAt, RowBytes, Advertised
<1>3. CASE Describe
  <2>1. /\ copying /\ copying' = FALSE /\ placed' = placed /\ rows' = placed
        /\ dataPos' = frameOffset(shmSize, frame_id) /\ pitch' = RowBytes
        /\ frame_id' = NextSlot(frame_id) /\ missed' = FALSE
        /\ UNCHANGED <<shmSize, mWidth, mHeight>>
    BY <1>3 DEF Describe, RowBytes
  <2>2. Advertised' = frame_id
    BY <2>1, OtherSlot DEF Advertised
  <2>3. RowBytes' = RowBytes
    BY <2>1 DEF RowBytes
  <2>4. RowsAt(placed, frame_id)
    BY <2>1 DEF RowInv
  <2>5. RowsAt(rows, Advertised)'
    BY <2>1, <2>2, <2>3, <2>4 DEF RowsAt
  <2>6. QED
    BY <2>1, <2>2, <2>3, <2>5 DEF RowInv
<1>4. CASE UNCHANGED vars
  BY <1>4 DEF vars, RowInv, RowsAt, RowBytes, Advertised
<1>5. QED
  BY <1>1, <1>2, <1>3, <1>4, <1>6 DEF Next

(* When a frame fits a slot, no row of the frame being copied leaves the   *)
(* mapping, nor touches the advertised frame unless an odd number of locks *)
(* failed since, for every stride of the source buffer; and the advertised *)
(* pitch leads from row to row.                                            *)
THEOREM RowsWherePromised == Spec => []RowsPlaced
<1>1. Init => RowInv
  <2> SUFFICES ASSUME Init PROVE RowInv
    OBVIOUS
  <2>1. placed = <<>> /\ rows = <<>> /\ ~copying /\ mHeight \in Nat
    BY LayoutAssumption DEF Init, LayoutAssumption
  <2>2. Len(rows) = 0
    BY <2>1
  <2>3. QED
    BY <2>1, <2>2 DEF RowInv, RowsAt
<1>2. TypeOK /\ RowInv /\ [Next]_vars => RowInv'
  BY RowInductive
<1>3. TypeOK /\ RowInv => RowsPlaced
  <2> SUFFICES ASSUME TypeOK, RowInv PROVE RowsPlaced
    OBVIOUS
  <2> DEFINE other == Advertised
             fs == frameSize(shmSize)
  <2>1. frame_id \in 0 .. 1 /\ other \in 0 .. 1 /\ (~missed => other # frame_id)
    BY OtherSlot DEF TypeOK, Advertised
  <2>2. /\ shmSize \in Nat /\ fs \in Nat /\ 1152 + 2 * fs <= shmSize
        /\ frameOffset(shmSize, 0) = 1152 /\ frameOffset(shmSize, 1) = 1152 + fs
    BY LayoutAssumption, FrameSizeBounds, FramesStart
       DEF LayoutAssumption, TypeOK, frameOffset
  <2>3. RowBytes \in Nat
    BY LayoutAssumption DEF LayoutAssumption, TypeOK, RowBytes
  <2>4. ASSUME FrameFits, NEW slot \in 0 .. 1, NEW s \in Seq(Nat), RowsAt(s, slot),
               NEW i \in DOMAIN s
        PROVE  s[i] >= framesOffset /\ s[i] + RowBytes <= shmSize
    <3>1. /\ s[i] \in Nat /\ frameOffset(shmSize, slot) <= s[i]
          /\ s[i] + RowBytes <= frameOffset(shmSize, slot) + fs
      BY <2>4, RowInSlot
    <3> HIDE DEF fs
    <3>2. slot = 0 \/ slot = 1
      OBVIOUS
    <3>3. QED
      BY <2>2, <2>3, <3>1, <3>2, FramesStart
  <2>5. ASSUME FrameFits, copying, ~missed, NEW i \in DOMAIN placed, NEW j \in DOMAIN rows
        PROVE  placed[i] + RowBytes <= rows[j] \/ rows[j] + RowBytes <= placed[i]
    <3>1. /\ placed[i] \in Nat /\ frameOffset(shmSize, frame_id) <= placed[i]
          /\ placed[i] + RowBytes <= frameOffset(shmSize, frame_id) + fs
      BY <2>1, <2>5, RowInSlot DEF RowInv, TypeOK
    <3>2. /\ rows[j] \in Nat /\ frameOffset(shmSize, other) <= rows[j]
          /\ rows[j] + RowBytes <= frameOffset(shmSize, other) + fs
      BY <2>1, <2>5, RowInSlot DEF RowInv, TypeOK
    <3>3. (frame_id = 0 /\ other = 1) \/ (frame_id = 1 /\ other = 0)
      BY <2>1, <2>5
    <3> HIDE DEF fs, other
    <3>4. QED
      BY <2>2, <2>3, <3>1, <3>2, <3>3
  <2>6. \A i \in DOMAIN rows : rows[i] = dataPos + (i - 1) * pitch
    <3>1. DOMAIN rows = 1 .. Len(rows)
      BY DEF TypeOK
    <3>2. ASSUME NEW i \in 1 .. Len(rows) PROVE rows[i] = dataPos + (i - 1) * pitch
      <4>1. rows # <<>>
        BY <3>2
      <4>2. dataPos = frameOffset(shmSize, other) /\ pitch = RowBytes
        BY <4>1 DEF RowInv
      <4>3. QED
        <5>1. rows[i] = frameOffset(shmSize, other) + (i - 1) * RowBytes
          BY <3>2 DEF RowInv, RowsAt
        <5> HIDE DEF other
        <5>2. QED
          BY <4>2, <5>1
    <3>3. QED
      BY <3>1, <3>2
  <2>7. ASSUME FrameFits, NEW i \in DOMAIN placed
        PROVE  placed[i] >= framesOffset /\ placed[i] + RowBytes <= shmSize
    <3>1. CASE copying
      BY <2>1, <2>4, <2>7, <3>1 DEF RowInv, TypeOK
    <3>2. CASE ~copying
      BY <2>1, <2>4, <2>7, <3>2 DEF RowInv, TypeOK
    <3>3. QED
      BY <3>1, <3>2
  <2>8. QED
    BY <2>5, <2>6, <2>7 DEF RowsPlaced
<1>4. QED
  BY <1>1, <1>2, <1>3, LayoutTypeCorrect, PTL DEF Spec
=============================================================================

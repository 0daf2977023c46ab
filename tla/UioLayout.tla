----------------------------- MODULE UioLayout -----------------------------
(***************************************************************************)
(* The byte layout of the uio mapping: where UioDisplay::init puts the     *)
(* header, the pointer area and the two frame slots, and which bytes the   *)
(* row loop of postFb reads and writes.  UioDisplay treats a slot as one   *)
(* value; this module shows when that is right.  Sizes are in bytes and    *)
(* below 2^32, where the unsigned ints of struct app hold them exactly.    *)
(***************************************************************************)
EXTENDS Integers, Sequences

CONSTANTS
  ShmSizes,  \* sizes of the mapping (maps/map0/size)
  Widths,    \* mWidth
  Heights,   \* mHeight
  Paddings   \* pixels the gralloc adds to a row: stride - width

(* A uio map is a whole number of pages, so never below 4096 bytes.        *)
ASSUME LayoutAssumption ==
  /\ ShmSizes \subseteq {s \in Nat : s >= 4096}
  /\ Widths \subseteq Nat \ {0}
  /\ Heights \subseteq Nat \ {0}
  /\ Paddings \subseteq Nat

VARIABLES
  shmSize, mWidth, mHeight,  \* fixed once the display exists
  frame_id,                  \* slot being filled
  stride,                    \* stride lockBuffer reports, in pixels
  copying,                   \* in the row loop of postFb
  placed,                    \* where the rows of this frame were written
  dataPos, pitch, rows,      \* the descriptor, and where its rows are
  missed                     \* history: an odd number of locks failed since
                             \* the last described frame

vars == <<shmSize, mWidth, mHeight, frame_id, stride, copying, placed, dataPos,
          pitch, rows, missed>>

-----------------------------------------------------------------------------
ALIGN_DN(x) == x - (x % 128)
ALIGN_UP(x) == ALIGN_DN(x + 127)

HeaderSize == 64           \* sizeof(KVMFRHeader)
PointerDataSize == 1024
pointerOffset == ALIGN_UP(HeaderSize)
framesOffset == ALIGN_UP(pointerOffset + PointerDataSize)

frameSizeUp(size) == ALIGN_UP((size - framesOffset) \div 2)
frameSize(size) == ALIGN_DN((size - framesOffset) \div 2)

frameOffset(size, i) == framesOffset + i * frameSize(size)

(* Where the loop writes row i, counted from 0.                            *)
RowTargetStrided(i) == frameOffset(shmSize, frame_id) + i * (stride * 4)
RowTarget(i) == frameOffset(shmSize, frame_id) + i * (mWidth * 4)
RowBytes == mWidth * 4

(* The slot of the next frame.                                             *)
NextSlot(id) == (id + 1) % 2

(* Nothing in the code checks this: the sizes come from two system         *)
(* properties and from the device.                                         *)
FrameFits == mHeight * RowBytes <= frameSize(shmSize)

-----------------------------------------------------------------------------
Init ==
  /\ shmSize \in ShmSizes /\ mWidth \in Widths /\ mHeight \in Heights
  /\ frame_id = 0 /\ stride = 0
  /\ copying = FALSE /\ placed = <<>>
  /\ dataPos = 0 /\ pitch = 0 /\ rows = <<>> /\ missed = FALSE

(* A buffer is locked and the copy starts.                                 *)
BeginFrame(pad) ==
  /\ ~copying
  /\ copying' = TRUE /\ placed' = <<>>
  /\ stride' = mWidth + pad
  /\ UNCHANGED <<shmSize, mWidth, mHeight, frame_id, dataPos, pitch, rows, missed>>

(* The buffer cannot be locked: nothing is copied or described, but the    *)
(* next frame goes to the other slot, that is, where the advertised one is.*)
LockFails ==
  /\ ~copying
  /\ frame_id' = NextSlot(frame_id)
  /\ missed' = ~missed
  /\ UNCHANGED <<shmSize, mWidth, mHeight, stride, copying, placed, dataPos,
                 pitch, rows>>

CopyRow ==
  /\ copying /\ Len(placed) < mHeight
  /\ placed' = Append(placed, RowTarget(Len(placed)))
  /\ UNCHANGED <<shmSize, mWidth, mHeight, frame_id, stride, copying, dataPos,
                 pitch, rows, missed>>

(* The descriptor is filled in and the next frame goes to the other slot.  *)
Describe ==
  /\ copying /\ Len(placed) = mHeight
  /\ copying' = FALSE
  /\ dataPos' = frameOffset(shmSize, frame_id)
  /\ pitch' = mWidth * 4
  /\ rows' = placed
  /\ frame_id' = NextSlot(frame_id) /\ missed' = FALSE
  /\ UNCHANGED <<shmSize, mWidth, mHeight, stride, placed>>

Next == (\E pad \in Paddings : BeginFrame(pad)) \/ LockFails \/ CopyRow \/ Describe

Spec == Init /\ [][Next]_vars

-----------------------------------------------------------------------------
TypeOK ==
  /\ shmSize \in ShmSizes /\ mWidth \in Widths /\ mHeight \in Heights
  /\ frame_id \in 0 .. 1 /\ stride \in Nat
  /\ copying \in BOOLEAN /\ missed \in BOOLEAN
  /\ placed \in Seq(Nat) /\ rows \in Seq(Nat)
  /\ dataPos \in Nat /\ pitch \in Nat

(* Both slots lie inside the mapping, aligned, behind the header and the   *)
(* pointer area, and do not overlap, whatever size the device reports.     *)
SlotsInMapping ==
  /\ pointerOffset >= HeaderSize
  /\ frameOffset(shmSize, 0) >= pointerOffset + PointerDataSize
  /\ frameSize(shmSize) >= 0 /\ frameSize(shmSize) % 128 = 0
  /\ frameOffset(shmSize, 0) + frameSize(shmSize) <= frameOffset(shmSize, 1)
  /\ frameOffset(shmSize, 1) + frameSize(shmSize) <= shmSize

(* When a frame fits a slot, no row of the frame being copied leaves the   *)
(* mapping, nor does one touch a byte of the advertised frame unless an    *)
(* odd number of locks failed since that was described; and a client that  *)
(* steps from dataPos by the advertised pitch meets the rows where postFb  *)
(* put them, for every stride of the source buffer.                        *)
RowsPlaced ==
  /\ FrameFits =>
       \A i \in DOMAIN placed :
         /\ placed[i] >= framesOffset /\ placed[i] + RowBytes <= shmSize
         /\ copying /\ ~missed => \A j \in DOMAIN rows :
              placed[i] + RowBytes <= rows[j] \/ rows[j] + RowBytes <= placed[i]
  /\ \A i \in DOMAIN rows : rows[i] = dataPos + (i - 1) * pitch
=============================================================================

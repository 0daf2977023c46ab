------------------------------ MODULE Hwc2Layer ------------------------------
(***************************************************************************)
(* Hwc2Layer: what the display remembers of one layer.  A layer is a       *)
(* record, a hook of the class an operator that returns the new record.    *)
(* mLayerBuffer.bufferId is always mBuffer, and mInfo repeats the members  *)
(* mTransform and mZOrder: each is one field here.  setBlendMode and       *)
(* setPlaneAlpha have the shape of setTransform, setSourceCrop that of     *)
(* setDisplayFrame, setTaskInfo that of setZOrder; dataspace, damage and   *)
(* visible region are stored and never read.                               *)
(***************************************************************************)
EXTENDS Naturals

NoBuffer == "null"    \* nullptr
NoFence == "none"     \* -1
NoFrame == "zeroed"   \* the rectangle memset leaves in mInfo
NoRemote == 0         \* nullptr
Black == <<0, 0, 0>>  \* colours are <<red, green, blue>>

(* mDstFrame has no initializer: it starts as what the memory held.        *)
NewLayer(garbage) ==
  [mType |-> "Invalid", mValidatedType |-> "Invalid",
   mBuffers |-> {}, mBuffer |-> NoBuffer, bufferChanged |-> FALSE,
   mAcquireFence |-> NoFence, mDstFrame |-> garbage, mColor |-> Black,
   mRemoteDisplay |-> NoRemote,
   mInfo |-> [transform |-> 0, dstFrame |-> NoFrame,
              color |-> Black, z |-> 0, changed |-> TRUE]]

setRemoteDisplay(l, r) == [l EXCEPT !.mRemoteDisplay = r]

(* A buffer is announced when this layer sees it for the first time, to    *)
(* the remote the layer was created with.                                  *)
Announces(l, b) == b \notin l.mBuffers /\ l.mRemoteDisplay # NoRemote

setBuffer(l, b, fence) ==
  [l EXCEPT !.mAcquireFence = fence, !.mBuffers = @ \union {b}, !.mBuffer = b,
            !.bufferChanged = @ \/ l.mBuffer # b]

setTransformUnmarked(l, v) == [l EXCEPT !.mInfo.transform = v]
setTransform(l, v) ==
  IF l.mInfo.transform = v THEN l
  ELSE [l EXCEPT !.mInfo.transform = v, !.mInfo.changed = TRUE]

setDisplayFrame(l, v) ==
  IF l.mDstFrame = v THEN l
  ELSE [l EXCEPT !.mDstFrame = v, !.mInfo.dstFrame = v, !.mInfo.changed = TRUE]

(* Green goes where blue should.                                           *)
Packed(c) == <<c[1], c[2], c[2]>>

setColor(l, c) ==
  IF l.mColor = c THEN l
  ELSE [l EXCEPT !.mColor = c, !.mInfo.color = Packed(c), !.mInfo.changed = TRUE]

setZOrder(l, v) == [l EXCEPT !.mInfo.z = v]

setCompositionType(l, t) == [l EXCEPT !.mType = t]

(* The types the display hands back to SurfaceFlinger.                     *)
ValidTypeDevice(t) == IF t = "Device" THEN "Client" ELSE t
ValidType(t) == IF t \in {"Device", "SolidColor", "Cursor", "Sideband"} THEN "Client" ELSE t
setValidatedType(l) == [l EXCEPT !.mValidatedType = ValidType(l.mType)]
typeChanged(l) == l.mValidatedType # l.mType
acceptTypeChange(l) == [l EXCEPT !.mType = l.mValidatedType]

setUnchanged(l) == [l EXCEPT !.mInfo.changed = FALSE, !.bufferChanged = FALSE]
=============================================================================

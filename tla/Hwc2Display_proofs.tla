------------------------- MODULE Hwc2Display_proofs -------------------------
(***************************************************************************)
(* Proofs about Hwc2Display, for any number of layers, buffers, fences and *)
(* remotes, and every order of SurfaceFlinger's calls, attach and detach.  *)
(* A layer and the view of a remote are records: the first lemmas say what *)
(* each hook and each request does to the fields, and the others use these *)
(* instead of the definitions.                                             *)
(***************************************************************************)
EXTENDS Hwc2Display, FirstLast, TLAPS

(* Ids that are chosen exist.                                              *)
LEMMA ChosenIds ==
  ASSUME NEW S \in SUBSET LayerIds, S # {}
  PROVE  FirstId(S) \in S /\ LastId(S) \in S
<1>1. MaxId \in Nat
  BY DisplayAssumption DEF DisplayAssumption
<1>2. (\E i \in S : \A j \in S : i <= j) /\ \E i \in S : \A j \in S : j <= i
  BY <1>1, FirstExists, LastExists DEF LayerIds
<1>3. QED
  BY <1>2 DEF FirstId, LastId

-----------------------------------------------------------------------------
(* The hooks of Hwc2Layer.                                                 *)
LEMMA NewLayerType ==
  ASSUME NEW garbage \in Frames \union {NoFrame}, NEW r \in 0 .. MaxRemote
  PROVE  LET l == setRemoteDisplay(NewLayer(garbage), r) IN
         /\ l \in Layers
         /\ l.mType = "Invalid" /\ l.mBuffers = {} /\ l.mBuffer = NoBuffer
         /\ l.bufferChanged = FALSE /\ l.mAcquireFence = NoFence
         /\ l.mRemoteDisplay = r /\ l.mInfo.changed = TRUE
<1>1. 0 \in Orders /\ 0 \in Transforms
  BY DisplayAssumption DEF DisplayAssumption
<1>2. Black \in PackedColors
  <2>1. Packed(Black) = Black
    BY DEF Packed, Black
  <2>2. QED
    BY <2>1 DEF PackedColors
<1>3. QED
  BY <1>1, <1>2 DEF NewLayer, setRemoteDisplay, Layers, Infos

LEMMA SetBufferType ==
  ASSUME NEW l \in Layers, NEW b \in Buffers, NEW fence \in Fences \union {NoFence}
  PROVE  LET k == setBuffer(l, b, fence) IN
         /\ k \in Layers
         /\ k.mType = l.mType /\ k.mValidatedType = l.mValidatedType
         /\ k.mBuffers = l.mBuffers \union {b} /\ k.mBuffer = b
         /\ k.bufferChanged = (l.bufferChanged \/ l.mBuffer # b)
         /\ k.mAcquireFence = fence
         /\ k.mRemoteDisplay = l.mRemoteDisplay /\ k.mInfo = l.mInfo
<1> DEFINE k == setBuffer(l, b, fence)
<1>1. /\ k.mType = l.mType /\ k.mValidatedType = l.mValidatedType
      /\ k.mBuffers = l.mBuffers \union {b} /\ k.mBuffer = b
      /\ k.mAcquireFence = fence
      /\ k.mRemoteDisplay = l.mRemoteDisplay /\ k.mInfo = l.mInfo
  BY DEF setBuffer, Layers
<1>2. k.bufferChanged = (l.bufferChanged \/ l.mBuffer # b)
  BY DEF setBuffer, Layers
<1>3. k \in Layers
  BY DEF setBuffer, Layers
<1>4. QED
  BY <1>1, <1>2, <1>3

(* The other hooks mark what they change, but for the z order, and leave   *)
(* buffers and fences alone.                                               *)
Tweaked(l, k) ==
  /\ k \in Layers
  /\ k.mBuffers = l.mBuffers /\ k.mBuffer = l.mBuffer
  /\ k.bufferChanged = l.bufferChanged /\ k.mAcquireFence = l.mAcquireFence
  /\ k.mRemoteDisplay = l.mRemoteDisplay
  /\ \/ k.mInfo.changed = TRUE
     \/ k.mInfo.changed = l.mInfo.changed
        /\ \E z \in Orders : k.mInfo = [l.mInfo EXCEPT !.z = z]

LEMMA HooksTweak ==
  ASSUME NEW l \in Layers
  PROVE  /\ \A v \in Transforms : Tweaked(l, setTransform(l, v))
         /\ \A v \in Frames : Tweaked(l, setDisplayFrame(l, v))
         /\ \A v \in Colors : Tweaked(l, setColor(l, v))
         /\ \A v \in Orders : Tweaked(l, setZOrder(l, v))
         /\ \A v \in Types : Tweaked(l, setCompositionType(l, v))
<1>1. l.mInfo \in Infos /\ l.mInfo.z \in Orders
  BY DEF Layers, Infos
<1>2. l.mInfo = [l.mInfo EXCEPT !.z = l.mInfo.z]
  BY <1>1 DEF Infos
<1>3. ASSUME NEW k \in Layers, k.mInfo = l.mInfo, k.mBuffers = l.mBuffers,
             k.mBuffer = l.mBuffer, k.bufferChanged = l.bufferChanged,
             k.mAcquireFence = l.mAcquireFence, k.mRemoteDisplay = l.mRemoteDisplay
      PROVE  Tweaked(l, k)
  BY <1>1, <1>2, <1>3 DEF Tweaked
<1>4. Tweaked(l, l)
  BY <1>3
<1>5. ASSUME NEW v \in Transforms PROVE Tweaked(l, setTransform(l, v))
  <2>1. CASE l.mInfo.transform = v
    BY <1>4, <2>1 DEF setTransform
  <2>2. CASE l.mInfo.transform # v
    <3> DEFINE info == [l.mInfo EXCEPT !.transform = v, !.changed = TRUE]
               k == [l EXCEPT !.mInfo = info]
    <3>1. info \in Infos /\ info.changed = TRUE
      BY <1>1 DEF Infos
    <3>2. setTransform(l, v) = k
      BY <2>2 DEF setTransform, Layers
    <3> HIDE DEF info
    <3>3. Tweaked(l, k)
      BY <3>1 DEF Tweaked, Layers
    <3>4. QED
      BY <3>2, <3>3
  <2>3. QED
    BY <2>1, <2>2
<1>6. ASSUME NEW v \in Frames PROVE Tweaked(l, setDisplayFrame(l, v))
  <2>1. CASE l.mDstFrame = v
    BY <1>4, <2>1 DEF setDisplayFrame
  <2>2. CASE l.mDstFrame # v
    <3> DEFINE info == [l.mInfo EXCEPT !.dstFrame = v, !.changed = TRUE]
               k == [l EXCEPT !.mDstFrame = v, !.mInfo = info]
    <3>1. info \in Infos /\ info.changed = TRUE
      BY <1>1 DEF Infos
    <3>2. setDisplayFrame(l, v) = k
      BY <2>2 DEF setDisplayFrame, Layers
    <3> HIDE DEF info
    <3>3. Tweaked(l, k)
      BY <3>1 DEF Tweaked, Layers
    <3>4. QED
      BY <3>2, <3>3
  <2>3. QED
    BY <2>1, <2>2
<1>7. ASSUME NEW v \in Colors PROVE Tweaked(l, setColor(l, v))
  <2>1. CASE l.mColor = v
    BY <1>4, <2>1 DEF setColor
  <2>2. CASE l.mColor # v
    <3> DEFINE info == [l.mInfo EXCEPT !.color = Packed(v), !.changed = TRUE]
               k == [l EXCEPT !.mColor = v, !.mInfo = info]
    <3>1. Packed(v) \in PackedColors
      BY DEF PackedColors
    <3>2. info \in Infos /\ info.changed = TRUE
      BY <1>1, <3>1 DEF Infos
    <3>3. setColor(l, v) = k
      BY <2>2 DEF setColor, Layers
    <3> HIDE DEF info
    <3>4. Tweaked(l, k)
      BY <3>2 DEF Tweaked, Layers
    <3>5. QED
      BY <3>3, <3>4
  <2>3. QED
    BY <2>1, <2>2
<1>8. ASSUME NEW v \in Orders PROVE Tweaked(l, setZOrder(l, v))
  <2> DEFINE info == [l.mInfo EXCEPT !.z = v]
             k == [l EXCEPT !.mInfo = info]
  <2>1. info \in Infos /\ info.changed = l.mInfo.changed
    BY <1>1 DEF Infos
  <2>2. setZOrder(l, v) = k
    BY DEF setZOrder, Layers
  <2>3. k \in Layers
    <3> HIDE DEF info
    <3>1. QED
      BY <2>1 DEF Layers
  <2>4. k.mInfo = info
    BY DEF Layers
  <2>5. Tweaked(l, k)
    <3>1. /\ k.mBuffers = l.mBuffers /\ k.mBuffer = l.mBuffer
          /\ k.bufferChanged = l.bufferChanged /\ k.mAcquireFence = l.mAcquireFence
          /\ k.mRemoteDisplay = l.mRemoteDisplay
      <4> HIDE DEF info
      <4>1. QED
        BY DEF Layers
    <3>2. \E z \in Orders : k.mInfo = [l.mInfo EXCEPT !.z = z]
      BY <2>4
    <3> HIDE DEF k, info
    <3>3. QED
      BY <2>1, <2>3, <2>4, <3>1, <3>2 DEF Tweaked
  <2>6. QED
    BY <2>2, <2>5
<1>9. ASSUME NEW v \in Types PROVE Tweaked(l, setCompositionType(l, v))
  <2>1. /\ setCompositionType(l, v) \in Layers
        /\ setCompositionType(l, v).mInfo = l.mInfo
        /\ setCompositionType(l, v).mBuffers = l.mBuffers
        /\ setCompositionType(l, v).mBuffer = l.mBuffer
        /\ setCompositionType(l, v).bufferChanged = l.bufferChanged
        /\ setCompositionType(l, v).mAcquireFence = l.mAcquireFence
        /\ setCompositionType(l, v).mRemoteDisplay = l.mRemoteDisplay
    BY DEF setCompositionType, Layers
  <2>2. QED
    BY <1>3, <2>1
<1>10. QED
  BY <1>5, <1>6, <1>7, <1>8, <1>9

(* What SurfaceFlinger asked for is remembered, but for the frame the      *)
(* uninitialised mDstFrame held already.                                   *)
FrameRemembered(l, a) ==
  \/ /\ l.mInfo.dstFrame = a.dstFrame
     /\ \/ l.mDstFrame = a.dstFrame
        \/ a.dstFrame = NoFrame /\ l.mDstFrame = a.born
  \/ l.mInfo.dstFrame = NoFrame /\ a.dstFrame = a.born /\ l.mDstFrame = a.born

Remembers(l, a) ==
  /\ l.mInfo.transform = a.transform
  /\ l.mColor = a.color /\ l.mInfo.color = Packed(a.color)
  /\ l.mBuffer = a.buffer
  /\ FrameRemembered(l, a)

(* A hook that is asked for c instead of a turns l into k.                 *)
Heeded(l, a, k, c) ==
  a \in Asks => c \in Asks /\ (Remembers(l, a) => Remembers(k, c))

(* Nothing that was asked for changes.                                     *)
SameDrawn(l, k) ==
  /\ k.mColor = l.mColor /\ k.mDstFrame = l.mDstFrame /\ k.mBuffer = l.mBuffer
  /\ k.mInfo.transform = l.mInfo.transform /\ k.mInfo.color = l.mInfo.color
  /\ k.mInfo.dstFrame = l.mInfo.dstFrame

LEMMA SameRemembered ==
  ASSUME NEW l, NEW k, NEW a, SameDrawn(l, k), Remembers(l, a)
  PROVE  Remembers(k, a)
  BY DEF SameDrawn, Remembers, FrameRemembered

LEMMA HooksKeep ==
  ASSUME NEW l \in Layers
  PROVE  /\ \A v \in Orders : SameDrawn(l, setZOrder(l, v))
         /\ \A v \in Types : SameDrawn(l, setCompositionType(l, v))
         /\ SameDrawn(l, setValidatedType(l)) /\ SameDrawn(l, acceptTypeChange(l))
         /\ SameDrawn(l, setUnchanged(l))
<1>1. l.mInfo \in Infos
  BY DEF Layers
<1>2. ASSUME NEW info, info.transform = l.mInfo.transform,
             info.color = l.mInfo.color, info.dstFrame = l.mInfo.dstFrame
      PROVE  /\ SameDrawn(l, [l EXCEPT !.mInfo = info])
             /\ SameDrawn(l, [l EXCEPT !.mInfo = info, !.bufferChanged = FALSE])
  BY <1>2 DEF SameDrawn, Layers
<1>3. ASSUME NEW v \in Orders PROVE SameDrawn(l, setZOrder(l, v))
  <2> DEFINE info == [l.mInfo EXCEPT !.z = v]
  <2>1. /\ info.transform = l.mInfo.transform
        /\ info.color = l.mInfo.color /\ info.dstFrame = l.mInfo.dstFrame
    BY <1>1 DEF Infos
  <2>2. setZOrder(l, v) = [l EXCEPT !.mInfo = info]
    BY DEF setZOrder, Layers
  <2> HIDE DEF info
  <2>3. QED
    BY <1>2, <2>1, <2>2
<1>4. SameDrawn(l, setUnchanged(l))
  <2> DEFINE info == [l.mInfo EXCEPT !.changed = FALSE]
  <2>1. /\ info.transform = l.mInfo.transform
        /\ info.color = l.mInfo.color /\ info.dstFrame = l.mInfo.dstFrame
    BY <1>1 DEF Infos
  <2>2. setUnchanged(l) = [l EXCEPT !.mInfo = info, !.bufferChanged = FALSE]
    BY DEF setUnchanged, Layers
  <2> HIDE DEF info
  <2>3. QED
    BY <1>2, <2>1, <2>2
<1>5. ASSUME NEW v \in Types PROVE SameDrawn(l, setCompositionType(l, v))
  BY DEF setCompositionType, SameDrawn, Layers
<1>6. SameDrawn(l, setValidatedType(l)) /\ SameDrawn(l, acceptTypeChange(l))
  BY DEF setValidatedType, acceptTypeChange, SameDrawn, Layers
<1>7. QED
  BY <1>3, <1>4, <1>5, <1>6

LEMMA HooksHeed ==
  ASSUME NEW l \in Layers, NEW a
  PROVE  /\ \A v \in Transforms :
              Heeded(l, a, setTransform(l, v), [a EXCEPT !.transform = v])
         /\ \A v \in Frames :
              Heeded(l, a, setDisplayFrame(l, v), [a EXCEPT !.dstFrame = v])
         /\ \A v \in Colors : Heeded(l, a, setColor(l, v), [a EXCEPT !.color = v])
         /\ \A v \in Orders : Heeded(l, a, setZOrder(l, v), a)
         /\ \A v \in Types : Heeded(l, a, setCompositionType(l, v), a)
<1>1. l.mInfo \in Infos
  BY DEF Layers
<1>2. ASSUME NEW v \in Transforms
      PROVE  Heeded(l, a, setTransform(l, v), [a EXCEPT !.transform = v])
  <2> SUFFICES ASSUME a \in Asks
               PROVE  LET c == [a EXCEPT !.transform = v] IN
                      c \in Asks /\ (Remembers(l, a) => Remembers(setTransform(l, v), c))
    BY DEF Heeded
  <2> DEFINE c == [a EXCEPT !.transform = v]
  <2>1. /\ c \in Asks /\ c.transform = v /\ c.dstFrame = a.dstFrame
        /\ c.color = a.color /\ c.buffer = a.buffer /\ c.born = a.born
    BY DEF Asks
  <2>2. LET k == setTransform(l, v) IN
        /\ k.mInfo.transform = v /\ k.mInfo.color = l.mInfo.color
        /\ k.mInfo.dstFrame = l.mInfo.dstFrame
        /\ k.mColor = l.mColor /\ k.mDstFrame = l.mDstFrame /\ k.mBuffer = l.mBuffer
    BY <1>1 DEF setTransform, Layers, Infos
  <2> HIDE DEF c
  <2>3. QED
    BY <2>1, <2>2 DEF Remembers, FrameRemembered, c
<1>3. ASSUME NEW v \in Frames
      PROVE  Heeded(l, a, setDisplayFrame(l, v), [a EXCEPT !.dstFrame = v])
  <2> SUFFICES ASSUME a \in Asks
               PROVE  LET c == [a EXCEPT !.dstFrame = v] IN
                      c \in Asks /\ (Remembers(l, a) => Remembers(setDisplayFrame(l, v), c))
    BY DEF Heeded
  <2> DEFINE c == [a EXCEPT !.dstFrame = v]
  <2>1. /\ c \in Asks /\ c.transform = a.transform /\ c.dstFrame = v
        /\ c.color = a.color /\ c.buffer = a.buffer /\ c.born = a.born
    BY DEF Asks
  <2>2. LET k == setDisplayFrame(l, v) IN
        /\ k.mInfo.transform = l.mInfo.transform /\ k.mInfo.color = l.mInfo.color
        /\ k.mInfo.dstFrame = (IF l.mDstFrame = v THEN l.mInfo.dstFrame ELSE v)
        /\ k.mColor = l.mColor /\ k.mDstFrame = v /\ k.mBuffer = l.mBuffer
    BY <1>1 DEF setDisplayFrame, Layers, Infos
  <2>3. PICK k : k = setDisplayFrame(l, v)
    OBVIOUS
  <2> HIDE DEF c
  <2>4. ASSUME Remembers(l, a) PROVE FrameRemembered(k, c)
    <3>1. FrameRemembered(l, a)
      BY <2>4 DEF Remembers
    <3>2. QED
      BY <2>1, <2>2, <2>3, <3>1 DEF FrameRemembered
  <2>5. Remembers(l, a) => Remembers(k, c)
    BY <2>1, <2>2, <2>3, <2>4 DEF Remembers
  <2>6. c \in Asks /\ (Remembers(l, a) => Remembers(setDisplayFrame(l, v), c))
    BY <2>1, <2>3, <2>5
  <2>7. QED
    BY <2>6 DEF c
<1>4. ASSUME NEW v \in Colors
      PROVE  Heeded(l, a, setColor(l, v), [a EXCEPT !.color = v])
  <2> SUFFICES ASSUME a \in Asks
               PROVE  LET c == [a EXCEPT !.color = v] IN
                      c \in Asks /\ (Remembers(l, a) => Remembers(setColor(l, v), c))
    BY DEF Heeded
  <2> DEFINE c == [a EXCEPT !.color = v]
  <2>1. /\ c \in Asks /\ c.transform = a.transform /\ c.dstFrame = a.dstFrame
        /\ c.color = v /\ c.buffer = a.buffer /\ c.born = a.born
    BY DEF Asks
  <2>2. LET k == setColor(l, v) IN
        /\ k.mInfo.transform = l.mInfo.transform
        /\ k.mInfo.dstFrame = l.mInfo.dstFrame
        /\ k.mInfo.color = (IF l.mColor = v THEN l.mInfo.color ELSE Packed(v))
        /\ k.mColor = v /\ k.mDstFrame = l.mDstFrame /\ k.mBuffer = l.mBuffer
    BY <1>1 DEF setColor, Layers, Infos
  <2> HIDE DEF c
  <2>3. QED
    BY <2>1, <2>2 DEF Remembers, FrameRemembered, c
<1>5. QED
  BY <1>2, <1>3, <1>4, HooksKeep, SameRemembered DEF Heeded

(* Validation and presentation change types and marks only.                *)
LEMMA ValidatedType ==
  ASSUME NEW l \in Layers
  PROVE  LET k == setValidatedType(l) IN
         /\ k \in Layers /\ k.mType = l.mType
         /\ k.mValidatedType \in {"Client", "Invalid"}
         /\ k.mBuffers = l.mBuffers /\ k.mBuffer = l.mBuffer
         /\ k.bufferChanged = l.bufferChanged /\ k.mAcquireFence = l.mAcquireFence
         /\ k.mRemoteDisplay = l.mRemoteDisplay /\ k.mInfo = l.mInfo
<1>1. ValidType(l.mType) \in {"Client", "Invalid"}
  BY DisplayAssumption DEF DisplayAssumption, ValidType, Layers
<1>2. QED
  BY <1>1 DEF setValidatedType, Layers

LEMMA AcceptedType ==
  ASSUME NEW l \in Layers
  PROVE  LET k == acceptTypeChange(l) IN
         /\ k \in Layers
         /\ k.mType = l.mValidatedType /\ k.mValidatedType = l.mValidatedType
         /\ k.mBuffers = l.mBuffers /\ k.mBuffer = l.mBuffer
         /\ k.bufferChanged = l.bufferChanged /\ k.mAcquireFence = l.mAcquireFence
         /\ k.mRemoteDisplay = l.mRemoteDisplay /\ k.mInfo = l.mInfo
  BY DEF acceptTypeChange, Layers

LEMMA UnchangedType ==
  ASSUME NEW l \in Layers
  PROVE  LET k == setUnchanged(l) IN
         /\ k \in Layers
         /\ k.mType = l.mType /\ k.mValidatedType = l.mValidatedType
         /\ k.mBuffers = l.mBuffers /\ k.mBuffer = l.mBuffer
         /\ k.bufferChanged = FALSE /\ k.mAcquireFence = l.mAcquireFence
         /\ k.mRemoteDisplay = l.mRemoteDisplay
         /\ k.mInfo = [l.mInfo EXCEPT !.changed = FALSE]
<1> DEFINE info == [l.mInfo EXCEPT !.changed = FALSE]
<1>1. info \in Infos
  BY DEF Layers, Infos
<1>2. setUnchanged(l) = [l EXCEPT !.mInfo = info, !.bufferChanged = FALSE]
  BY DEF setUnchanged, Layers
<1> HIDE DEF info
<1>3. [l EXCEPT !.mInfo = info, !.bufferChanged = FALSE] \in Layers
  BY <1>1 DEF Layers
<1>4. QED
  BY <1>1, <1>2, <1>3 DEF info, Layers

-----------------------------------------------------------------------------
(* The requests of RemoteView.                                             *)
PeerTyped(p) == \E D, E \in SUBSET LayerIds : p \in Peers(D, E)

(* Same(p, q, F): q differs from p in the fields F at most.                *)
Same(p, q, F) ==
  /\ "mode" \in F \/ q.mode = p.mode
  /\ "buffers" \in F \/ q.buffers = p.buffers
  /\ "rotation" \in F \/ q.rotation = p.rotation
  /\ "layers" \in F \/ q.layers = p.layers
  /\ "infos" \in F \/ q.infos = p.infos
  /\ "shown" \in F \/ q.shown = p.shown
  /\ "requests" \in F \/ q.requests = p.requests

LEMMA PeerFields ==
  ASSUME NEW p, PeerTyped(p)
  PROVE  /\ p.mode \in 0 .. 2 /\ p.buffers \subseteq Buffers \union Targets
         /\ p.rotation \in 0 .. 3 /\ p.layers \subseteq LayerIds
         /\ p.infos \in [DOMAIN p.infos -> Infos] /\ DOMAIN p.infos \subseteq LayerIds
         /\ p.shown \in [DOMAIN p.shown -> Buffers] /\ DOMAIN p.shown \subseteq LayerIds
         /\ p.requests \subseteq {"fb", "layers"}
         /\ p \in Peers(DOMAIN p.infos, DOMAIN p.shown)
  BY DEF PeerTyped, Peers

LEMMA FreshType ==
  ASSUME NEW mode \in 0 .. 2
  PROVE  LET p == Fresh(mode) IN
         /\ PeerTyped(p)
         /\ p.mode = mode /\ p.buffers = {} /\ p.rotation = 0 /\ p.layers = {}
         /\ DOMAIN p.shown = {} /\ DOMAIN p.infos = {} /\ p.requests = {}
<1> DEFINE p == Fresh(mode)
<1>1. <<>> \in [{} -> Infos] /\ <<>> \in [{} -> Buffers]
  OBVIOUS
<1>2. p \in Peers({}, {})
  BY <1>1 DEF Fresh, Peers
<1>3. PeerTyped(p)
  BY <1>2 DEF PeerTyped
<1>4. QED
  BY <1>1, <1>3 DEF Fresh

LEMMA CreateBufferType ==
  ASSUME NEW p, PeerTyped(p), NEW b \in Buffers \union Targets
  PROVE  LET q == createBuffer(p, b) IN
         /\ PeerTyped(q)
         /\ q.buffers = p.buffers \union {b} /\ Same(p, q, {"buffers"})
<1>1. createBuffer(p, b) \in Peers(DOMAIN p.infos, DOMAIN p.shown)
  BY PeerFields DEF createBuffer, Peers
<1>2. QED
  BY <1>1, PeerFields DEF createBuffer, PeerTyped, Peers, Same

LEMMA DisplayBufferType ==
  ASSUME NEW p, PeerTyped(p)
  PROVE  LET q == displayBuffer(p) IN
         /\ PeerTyped(q)
         /\ q.requests = p.requests \union {"fb"} /\ Same(p, q, {"requests"})
<1>1. displayBuffer(p) \in Peers(DOMAIN p.infos, DOMAIN p.shown)
  BY PeerFields DEF displayBuffer, Peers
<1>2. QED
  BY <1>1, PeerFields DEF displayBuffer, PeerTyped, Peers, Same

LEMMA SetRotationType ==
  ASSUME NEW p, PeerTyped(p), NEW r \in 0 .. 3
  PROVE  LET q == setRotation(p, r) IN
         /\ PeerTyped(q)
         /\ q.rotation = r /\ q.requests = p.requests \union {"fb"}
         /\ Same(p, q, {"rotation", "requests"})
<1>1. setRotation(p, r) \in Peers(DOMAIN p.infos, DOMAIN p.shown)
  BY PeerFields DEF setRotation, Peers
<1>2. QED
  BY <1>1, PeerFields DEF setRotation, PeerTyped, Peers, Same

LEMMA CreateLayerType ==
  ASSUME NEW p, PeerTyped(p), NEW id \in LayerIds
  PROVE  LET q == createLayer(p, id) IN
         /\ PeerTyped(q)
         /\ q.layers = p.layers \union {id}
         /\ q.requests = p.requests \union {"layers"}
         /\ Same(p, q, {"layers", "requests"})
<1>1. createLayer(p, id) \in Peers(DOMAIN p.infos, DOMAIN p.shown)
  BY PeerFields DEF createLayer, Peers
<1>2. QED
  BY <1>1, PeerFields DEF createLayer, PeerTyped, Peers, Same

LEMMA RemoveLayerType ==
  ASSUME NEW p, PeerTyped(p), NEW id
  PROVE  LET q == removeLayer(p, id) IN
         /\ PeerTyped(q)
         /\ q.layers = p.layers \ {id}
         /\ q.requests = p.requests \union {"layers"}
         /\ DOMAIN q.infos = DOMAIN p.infos \ {id}
         /\ \A i \in DOMAIN q.infos : q.infos[i] = p.infos[i]
         /\ DOMAIN q.shown = DOMAIN p.shown \ {id}
         /\ \A i \in DOMAIN q.shown : q.shown[i] = p.shown[i]
         /\ Same(p, q, {"layers", "requests", "infos", "shown"})
<1> DEFINE D == DOMAIN p.infos \ {id}
           E == DOMAIN p.shown \ {id}
           f == [i \in D |-> p.infos[i]]
           g == [i \in E |-> p.shown[i]]
           q == [p EXCEPT !.layers = p.layers \ {id},
                          !.requests = p.requests \union {"layers"},
                          !.infos = f, !.shown = g]
<1>1. removeLayer(p, id) = q
  BY PeerFields DEF removeLayer, Restrict, Peers
<1>2. f \in [D -> Infos] /\ g \in [E -> Buffers]
  BY PeerFields
<1>3. D \in SUBSET LayerIds /\ E \in SUBSET LayerIds
  BY PeerFields
<1>4. /\ DOMAIN f = D /\ \A i \in D : f[i] = p.infos[i]
      /\ DOMAIN g = E /\ \A i \in E : g[i] = p.shown[i]
  OBVIOUS
<1> HIDE DEF f, g, D, E
<1>5. /\ q.layers = p.layers \ {id} /\ q.requests = p.requests \union {"layers"}
      /\ q.infos = f /\ q.shown = g
      /\ q.mode = p.mode /\ q.buffers = p.buffers /\ q.rotation = p.rotation
  BY PeerFields DEF Peers
<1>6. q \in Peers(D, E)
  <2>1. p \in Peers(DOMAIN p.infos, DOMAIN p.shown) /\ p.layers \ {id} \subseteq LayerIds
        /\ p.requests \union {"layers"} \subseteq {"fb", "layers"}
    BY PeerFields
  <2>2. QED
    BY <1>2, <2>1 DEF Peers
<1> HIDE DEF q
<1>7. PeerTyped(q)
  BY <1>3, <1>6 DEF PeerTyped
<1>8. QED
  BY <1>1, <1>4, <1>5, <1>7 DEF D, E, Same

LEMMA UpdateLayersType ==
  ASSUME NEW p, PeerTyped(p), NEW M \in SUBSET LayerIds, NEW new \in [M -> Infos]
  PROVE  LET q == updateLayers(p, new) IN
         /\ PeerTyped(q) /\ q.infos = Told(p, p.infos, new)
         /\ q.requests = p.requests \union {"layers"}
         /\ Same(p, q, {"requests", "infos"})
<1> DEFINE f == Told(p, p.infos, new)
           K == DOMAIN p.infos \union (M \intersect p.layers)
           q == [p EXCEPT !.infos = f, !.requests = p.requests \union {"layers"}]
<1>1. updateLayers(p, new) = q
  BY PeerFields DEF updateLayers, Peers
<1>2. f \in [K -> Infos] /\ K \in SUBSET LayerIds
  <2>1. p.infos \in [DOMAIN p.infos -> Infos] /\ DOMAIN p.infos \in SUBSET LayerIds
    BY PeerFields
  <2>2. QED
    BY <2>1 DEF Told
<1> HIDE DEF f, K
<1>3. q \in Peers(K, DOMAIN p.shown)
  <2>1. p \in Peers(DOMAIN p.infos, DOMAIN p.shown)
        /\ p.requests \union {"layers"} \subseteq {"fb", "layers"}
    BY PeerFields
  <2>2. QED
    BY <1>2, <2>1 DEF Peers
<1>4. PeerTyped(q)
  <2> HIDE DEF q
  <2>1. QED
    BY <1>2, <1>3, PeerFields DEF PeerTyped
<1>5. q.infos = f /\ q.requests = p.requests \union {"layers"}
      /\ Same(p, q, {"requests", "infos"})
  BY PeerFields DEF Peers, Same
<1> HIDE DEF q
<1>6. QED
  BY <1>1, <1>4, <1>5 DEF f

LEMMA PresentLayersType ==
  ASSUME NEW p, PeerTyped(p), NEW M \in SUBSET LayerIds, NEW new \in [M -> Buffers]
  PROVE  LET q == presentLayers(p, new) IN
         /\ PeerTyped(q) /\ q.shown = Told(p, p.shown, new)
         /\ q.requests = p.requests \union {"layers"}
         /\ Same(p, q, {"requests", "shown"})
<1> DEFINE f == Told(p, p.shown, new)
           K == DOMAIN p.shown \union (M \intersect p.layers)
           q == [p EXCEPT !.shown = f, !.requests = p.requests \union {"layers"}]
<1>1. presentLayers(p, new) = q
  BY PeerFields DEF presentLayers, Peers
<1>2. f \in [K -> Buffers] /\ K \in SUBSET LayerIds
  <2>1. p.shown \in [DOMAIN p.shown -> Buffers] /\ DOMAIN p.shown \in SUBSET LayerIds
    BY PeerFields
  <2>2. QED
    BY <2>1 DEF Told
<1> HIDE DEF f, K
<1>3. q \in Peers(DOMAIN p.infos, K)
  <2>1. p \in Peers(DOMAIN p.infos, DOMAIN p.shown)
        /\ p.requests \union {"layers"} \subseteq {"fb", "layers"}
    BY PeerFields
  <2>2. QED
    BY <1>2, <2>1 DEF Peers
<1>4. PeerTyped(q)
  <2> HIDE DEF q
  <2>1. QED
    BY <1>2, <1>3, PeerFields DEF PeerTyped
<1>5. q.shown = f /\ q.requests = p.requests \union {"layers"}
      /\ Same(p, q, {"requests", "shown"})
  BY PeerFields DEF Peers, Same
<1> HIDE DEF q
<1>6. QED
  BY <1>1, <1>4, <1>5 DEF f

LEMMA RequestType ==
  ASSUME NEW p, PeerTyped(p), PeerTyped(peer)
  PROVE  /\ PeerTyped(Request(p)) /\ Same(p, Request(p), {"requests"})
         /\ Request(p).requests = IF attaching THEN peer.requests ELSE p.requests
<1>1. CASE attaching
  <2> DEFINE q == [p EXCEPT !.requests = peer.requests]
  <2>1. q \in Peers(DOMAIN p.infos, DOMAIN p.shown)
    <3>1. peer.requests \subseteq {"fb", "layers"}
      BY PeerFields
    <3>2. QED
      BY <3>1, PeerFields DEF Peers
  <2>2. q.requests = peer.requests /\ Same(p, q, {"requests"})
    BY PeerFields DEF Peers, Same
  <2> HIDE DEF q
  <2>3. QED
    BY <1>1, <2>1, <2>2, PeerFields DEF PeerTyped, Request, q
<1>2. CASE ~attaching
  BY <1>2 DEF Request, Same
<1>3. QED
  BY <1>1, <1>2

-----------------------------------------------------------------------------
(* Type correctness needs that a layer marked for a flip has a buffer,     *)
(* since the remote is shown buffers only.                                 *)
FlipsHaveBuffers == \A i \in Alive : mLayers[i].bufferChanged => mLayers[i].mBuffer # NoBuffer

LayersTyped == mLayers \in [Alive -> Layers] /\ Alive \subseteq LayerIds

ScalarsTyped ==
  /\ uio \in Uio
  /\ mLayerIndex \in 0 .. MaxId + 1
  /\ remotes \in 0 .. MaxRemote /\ mRemoteDisplay \in {NoRemote, remotes}
  /\ mMode \in 0 .. 2 /\ mTransform \in Transforms
  /\ mFbTarget \in Targets \union {NoBuffer} /\ mFbtBuffers \subseteq Targets
  /\ mFbAcquireFenceFd \in Fences \union {NoFence}
  /\ phase \in {"edit", "validated", "accepted"}
  /\ attaching \in BOOLEAN /\ olderTarget \in BOOLEAN
  /\ older \subseteq Alive /\ open \subseteq Fences

Typed == LayersTyped /\ PeerTyped(peer) /\ ScalarsTyped /\ FlipsHaveBuffers

AskedTyped == asked \in [Alive -> Asks]

LEMMA TypedIsTypeOK == Typed /\ AskedTyped <=> TypeOK /\ FlipsHaveBuffers
<1>1. LayersTyped <=> \E D \in SUBSET LayerIds : mLayers \in [D -> Layers]
  <2>1. ASSUME NEW D \in SUBSET LayerIds, mLayers \in [D -> Layers] PROVE LayersTyped
    <3>1. Alive = D
      BY <2>1 DEF Alive
    <3>2. QED
      BY <2>1, <3>1 DEF LayersTyped
  <2>2. QED
    BY <2>1 DEF LayersTyped
<1>2. QED
  BY <1>1 DEF Typed, AskedTyped, TypeOK, ScalarsTyped, PeerTyped

(* What a request is made from is typed.                                   *)
LEMMA PresentedTyped ==
  ASSUME Typed
  PROVE  /\ Updates \in SUBSET LayerIds /\ Flips \in SUBSET LayerIds
         /\ [i \in Updates |-> Sent(mLayers[i].mInfo)] \in [Updates -> Infos]
         /\ [i \in Flips |-> mLayers[i].mBuffer] \in [Flips -> Buffers]
         /\ NewTransform \in Transforms
<1>1. Updates \in SUBSET LayerIds /\ Flips \in SUBSET LayerIds
  BY DEF Typed, LayersTyped, Updates, Flips
<1>2. ASSUME NEW i \in Updates PROVE Sent(mLayers[i].mInfo) \in Infos
  BY DEF Updates, Sent, Typed, LayersTyped, Layers, Infos
<1>3. ASSUME NEW i \in Flips PROVE mLayers[i].mBuffer \in Buffers
  BY DEF Flips, Typed, LayersTyped, FlipsHaveBuffers, Layers
<1>4. NewTransform \in Transforms
  <2>1. ASSUME NEW i \in Alive PROVE Transform(i) \in Transforms
    BY DEF Transform, Typed, LayersTyped, Layers, Infos
  <2>2. Alive # {} => LastId(Alive) \in Alive
    BY ChosenIds DEF Typed, LayersTyped
  <2>3. 0 \in Transforms /\ mTransform \in Transforms
    BY DisplayAssumption DEF DisplayAssumption, Typed, ScalarsTyped
  <2>4. QED
    BY <2>1, <2>2, <2>3 DEF NewTransform
<1>5. QED
  BY <1>1, <1>2, <1>3, <1>4

LEMMA CheckedTyped == ASSUME Typed PROVE CheckedTransform \in Transforms
<1>1. ASSUME NEW i \in Alive PROVE Transform(i) \in Transforms
  BY DEF Transform, Typed, LayersTyped, Layers, Infos
<1>2. Rotated # {} => FirstId(Rotated) \in Rotated
  BY ChosenIds DEF Rotated, Typed, LayersTyped
<1>3. 0 \in Transforms
  BY DisplayAssumption DEF DisplayAssumption
<1>4. QED
  BY <1>1, <1>2, <1>3 DEF CheckedTransform, Rotated

LEMMA RotationType == \A tr : Rotation(tr) \in 0 .. 3
  BY DEF Rotation

(* What present tells the remote.                                          *)
LEMMA WithFbFields ==
  ASSUME Typed
  PROVE  LET q == WithFb(peer) IN
         /\ PeerTyped(q) /\ Same(peer, q, {"rotation", "requests"})
         /\ q.rotation = IF NewTransform # mTransform THEN Rotation(NewTransform)
                                                      ELSE peer.rotation
         /\ q.requests = peer.requests \union {"fb"}
<1> DEFINE d == displayBuffer(peer)
<1>1. /\ PeerTyped(d) /\ d.requests = peer.requests \union {"fb"}
      /\ Same(peer, d, {"requests"})
  BY DisplayBufferType DEF Typed
<1>2. CASE NewTransform = mTransform
  BY <1>1, <1>2 DEF WithFb, Same
<1>3. CASE NewTransform # mTransform
  <2> DEFINE q == setRotation(d, Rotation(NewTransform))
  <2> HIDE DEF d
  <2>1. /\ PeerTyped(q) /\ q.rotation = Rotation(NewTransform)
        /\ q.requests = d.requests \union {"fb"}
        /\ Same(d, q, {"rotation", "requests"})
    BY <1>1, SetRotationType, RotationType
  <2>2. WithFb(peer) = q
    BY <1>3 DEF WithFb, d
  <2> HIDE DEF q
  <2>3. QED
    BY <1>1, <1>3, <2>1, <2>2 DEF Same
<1>4. QED
  BY <1>2, <1>3

LEMMA WithUpdatesFields ==
  ASSUME Typed, NEW p, PeerTyped(p)
  PROVE  LET q == WithUpdates(p) IN
         /\ PeerTyped(q) /\ Same(p, q, {"infos", "requests"})
         /\ q.requests \subseteq p.requests \union {"layers"}
         /\ p.requests \subseteq q.requests
         /\ DOMAIN p.infos \subseteq DOMAIN q.infos
         /\ \A i \in DOMAIN p.infos \ Updates : q.infos[i] = p.infos[i]
         /\ \A i \in Updates \intersect p.layers :
              i \in DOMAIN q.infos /\ q.infos[i] = Sent(mLayers[i].mInfo)
         /\ DOMAIN q.infos \subseteq DOMAIN p.infos \union p.layers
<1>1. CASE Updates = {}
  BY <1>1 DEF WithUpdates, Same
<1>2. CASE Updates # {}
  <2> DEFINE new == [i \in Updates |-> Sent(mLayers[i].mInfo)]
             q == updateLayers(p, new)
             f == Told(p, p.infos, new)
             K == DOMAIN p.infos \union (Updates \intersect p.layers)
  <2>1. Updates \in SUBSET LayerIds /\ new \in [Updates -> Infos]
    BY PresentedTyped
  <2>2. \A i \in Updates : new[i] = Sent(mLayers[i].mInfo)
    OBVIOUS
  <2>3. DOMAIN new = Updates
    OBVIOUS
  <2> HIDE DEF new
  <2>4. /\ PeerTyped(q) /\ q.infos = f /\ q.requests = p.requests \union {"layers"}
        /\ Same(p, q, {"requests", "infos"})
    BY <2>1, UpdateLayersType
  <2>5. f = [i \in K |-> IF i \in Updates THEN new[i] ELSE p.infos[i]]
    BY <2>3 DEF Told
  <2>6. WithUpdates(p) = q
    BY <1>2 DEF WithUpdates, new
  <2> HIDE DEF q, f
  <2>7. DOMAIN q.infos = K
        /\ \A i \in K : q.infos[i] = IF i \in Updates THEN new[i] ELSE p.infos[i]
    BY <2>4, <2>5
  <2>8. QED
    BY <2>2, <2>4, <2>6, <2>7 DEF Same
<1>3. QED
  BY <1>1, <1>2

LEMMA WithLayersFields ==
  ASSUME Typed, NEW p, PeerTyped(p)
  PROVE  LET q == WithLayers(p) IN
         /\ PeerTyped(q) /\ Same(p, q, {"infos", "shown", "requests"})
         /\ q.requests \subseteq p.requests \union {"layers"}
         /\ p.requests \subseteq q.requests
         /\ DOMAIN p.infos \subseteq DOMAIN q.infos
         /\ DOMAIN q.infos \subseteq DOMAIN p.infos \union p.layers
         /\ \A i \in DOMAIN p.infos \ Updates : q.infos[i] = p.infos[i]
         /\ \A i \in Updates \intersect p.layers :
              i \in DOMAIN q.infos /\ q.infos[i] = Sent(mLayers[i].mInfo)
         /\ DOMAIN q.shown = DOMAIN p.shown \union (Flips \intersect p.layers)
         /\ \A i \in DOMAIN q.shown :
              q.shown[i] = IF i \in Flips THEN mLayers[i].mBuffer ELSE p.shown[i]
<1> DEFINE u == WithUpdates(p)
<1>1. /\ PeerTyped(u) /\ Same(p, u, {"infos", "requests"})
      /\ u.requests \subseteq p.requests \union {"layers"}
      /\ p.requests \subseteq u.requests
      /\ DOMAIN p.infos \subseteq DOMAIN u.infos
      /\ DOMAIN u.infos \subseteq DOMAIN p.infos \union p.layers
      /\ \A i \in DOMAIN p.infos \ Updates : u.infos[i] = p.infos[i]
      /\ \A i \in Updates \intersect p.layers :
           i \in DOMAIN u.infos /\ u.infos[i] = Sent(mLayers[i].mInfo)
  BY WithUpdatesFields
<1> HIDE DEF u
<1>2. u.shown = p.shown /\ u.layers = p.layers
  BY <1>1 DEF Same
<1>3. CASE Flips = {}
  <2>1. WithLayers(p) = u
    BY <1>3 DEF WithLayers, u
  <2>2. QED
    BY <1>1, <1>2, <1>3, <2>1 DEF Same
<1>4. CASE Flips # {}
  <2> DEFINE new == [i \in Flips |-> mLayers[i].mBuffer]
             q == presentLayers(u, new)
             f == Told(u, u.shown, new)
             K == DOMAIN p.shown \union (Flips \intersect p.layers)
  <2>1. Flips \in SUBSET LayerIds /\ new \in [Flips -> Buffers]
    BY PresentedTyped
  <2>2. DOMAIN new = Flips /\ \A i \in Flips : new[i] = mLayers[i].mBuffer
    OBVIOUS
  <2> HIDE DEF new
  <2>3. /\ PeerTyped(q) /\ q.shown = f /\ q.requests = u.requests \union {"layers"}
        /\ Same(u, q, {"requests", "shown"})
    BY <1>1, <2>1, PresentLayersType
  <2>4. f = [i \in K |-> IF i \in Flips THEN new[i] ELSE p.shown[i]]
    BY <1>2, <2>2 DEF Told
  <2>5. WithLayers(p) = q
    BY <1>4 DEF WithLayers, new, u
  <2> HIDE DEF q, f
  <2>6. DOMAIN q.shown = K
        /\ \A i \in K : q.shown[i] = IF i \in Flips THEN mLayers[i].mBuffer ELSE p.shown[i]
    BY <2>2, <2>3, <2>4
  <2>7. Same(p, q, {"infos", "shown", "requests"}) /\ q.infos = u.infos
    BY <1>1, <2>3 DEF Same
  <2>8. q.requests \subseteq p.requests \union {"layers"} /\ p.requests \subseteq q.requests
    BY <1>1, <2>3
  <2>9. QED
    BY <1>1, <2>3, <2>5, <2>6, <2>7, <2>8
<1>5. QED
  BY <1>3, <1>4

-----------------------------------------------------------------------------
(* What each step does to the layers and to the view of the remote.        *)

(* Alike: buffers, fence and remote are the same.                          *)
Alike(l, k) ==
  /\ k.mBuffers = l.mBuffers /\ k.mBuffer = l.mBuffer
  /\ k.mAcquireFence = l.mAcquireFence /\ k.mRemoteDisplay = l.mRemoteDisplay

LEMMA CreateLayerStep ==
  ASSUME Typed, CreateLayer
  PROVE  /\ mLayerIndex \in LayerIds
         /\ LayersTyped' /\ Alive' = Alive \union {mLayerIndex}
         /\ \A i \in Alive : mLayers'[i] = mLayers[i]
         /\ mLayerIndex \notin Alive =>
              LET l == mLayers'[mLayerIndex] IN
              /\ l.mType = "Invalid" /\ l.mBuffers = {} /\ l.mBuffer = NoBuffer
              /\ l.bufferChanged = FALSE /\ l.mAcquireFence = NoFence
              /\ l.mRemoteDisplay = mRemoteDisplay /\ l.mInfo.changed = TRUE
         /\ PeerTyped(peer') /\ Same(peer, peer', {"layers", "requests"})
         /\ peer'.layers = IF ShowsLayers THEN peer.layers \union {mLayerIndex}
                                          ELSE peer.layers
         /\ peer'.requests = IF ShowsLayers /\ ~attaching
                               THEN peer.requests \union {"layers"} ELSE peer.requests
<1>1. mLayerIndex \in LayerIds /\ mRemoteDisplay \in 0 .. MaxRemote
  BY DisplayAssumption
     DEF DisplayAssumption, CreateLayer, Typed, ScalarsTyped, LayerIds, NoRemote
<1>2. PICK garbage \in Frames \union {NoFrame} :
        mLayers' = [i \in Alive \union {mLayerIndex} |->
                     IF i \in Alive THEN mLayers[i]
                     ELSE setRemoteDisplay(NewLayer(garbage), mRemoteDisplay)]
  BY DEF CreateLayer
<1> DEFINE l == setRemoteDisplay(NewLayer(garbage), mRemoteDisplay)
<1>3. /\ l \in Layers
      /\ l.mType = "Invalid" /\ l.mBuffers = {} /\ l.mBuffer = NoBuffer
      /\ l.bufferChanged = FALSE /\ l.mAcquireFence = NoFence
      /\ l.mRemoteDisplay = mRemoteDisplay /\ l.mInfo.changed = TRUE
  BY <1>1, NewLayerType
<1> HIDE DEF l
<1>4. mLayers' = [i \in Alive \union {mLayerIndex} |->
                   IF i \in Alive THEN mLayers[i] ELSE l]
  BY <1>2 DEF l
<1>5. Alive' = Alive \union {mLayerIndex}
  BY <1>4 DEF Alive
<1>6. LayersTyped'
  <2>1. mLayers' \in [Alive' -> Layers] /\ Alive' \subseteq LayerIds
    BY <1>1, <1>3, <1>4, <1>5 DEF Typed, LayersTyped
  <2>2. QED
    BY <2>1 DEF LayersTyped
<1>7. (\A i \in Alive : mLayers'[i] = mLayers[i])
      /\ (mLayerIndex \notin Alive => mLayers'[mLayerIndex] = l)
  BY <1>4
<1>8. /\ PeerTyped(peer') /\ Same(peer, peer', {"layers", "requests"})
      /\ peer'.layers = IF ShowsLayers THEN peer.layers \union {mLayerIndex}
                                       ELSE peer.layers
      /\ peer'.requests = IF ShowsLayers /\ ~attaching
                               THEN peer.requests \union {"layers"} ELSE peer.requests
  <2>1. CASE ~ShowsLayers
    BY <2>1 DEF CreateLayer, Typed, Same
  <2>2. CASE ShowsLayers
    <3> DEFINE c == createLayer(peer, mLayerIndex)
    <3>1. /\ PeerTyped(c) /\ c.layers = peer.layers \union {mLayerIndex}
          /\ c.requests = peer.requests \union {"layers"}
          /\ Same(peer, c, {"layers", "requests"})
      BY <1>1, CreateLayerType DEF Typed
    <3> HIDE DEF c
    <3>2. peer' = Request(c)
      BY <2>2 DEF CreateLayer, c
    <3>3. /\ PeerTyped(Request(c)) /\ Same(c, Request(c), {"requests"})
          /\ Request(c).requests = IF attaching THEN peer.requests ELSE c.requests
      BY <3>1, RequestType DEF Typed
    <3>4. QED
      BY <2>2, <3>1, <3>2, <3>3 DEF Same
  <2>3. QED
    BY <2>1, <2>2
<1>9. QED
  BY <1>1, <1>3, <1>5, <1>6, <1>7, <1>8

LEMMA DestroyLayerStep ==
  ASSUME Typed, NEW id \in Alive, DestroyLayer(id)
  PROVE  /\ LayersTyped' /\ Alive' = Alive \ {id}
         /\ \A i \in Alive' : mLayers'[i] = mLayers[i]
         /\ PeerTyped(peer')
         /\ Same(peer, peer', {"layers", "requests", "infos", "shown"})
         /\ DOMAIN peer'.infos \subseteq DOMAIN peer.infos
         /\ DOMAIN peer'.shown \subseteq DOMAIN peer.shown
         /\ \A i \in Alive' : i \in DOMAIN peer.infos =>
              i \in DOMAIN peer'.infos /\ peer'.infos[i] = peer.infos[i]
         /\ \A i \in Alive' : i \in DOMAIN peer.shown =>
              i \in DOMAIN peer'.shown /\ peer'.shown[i] = peer.shown[i]
         /\ peer'.layers = IF ShowsLayers THEN peer.layers \ {id} ELSE peer.layers
         /\ peer'.requests = IF ShowsLayers /\ ~attaching
                               THEN peer.requests \union {"layers"} ELSE peer.requests
<1>1. mLayers' = [i \in Alive \ {id} |-> mLayers[i]]
  BY DEF DestroyLayer, Restrict
<1>2. Alive' = Alive \ {id}
  BY <1>1 DEF Alive
<1>3. LayersTyped'
  <2>1. mLayers' \in [Alive' -> Layers] /\ Alive' \subseteq LayerIds
    BY <1>1, <1>2 DEF Typed, LayersTyped
  <2>2. QED
    BY <2>1 DEF LayersTyped
<1>4. \A i \in Alive' : mLayers'[i] = mLayers[i]
  BY <1>1, <1>2
<1>5. CASE ~ShowsLayers
  <2>1. peer' = peer
    BY <1>5 DEF DestroyLayer
  <2>2. QED
    BY <1>2, <1>3, <1>4, <1>5, <2>1 DEF Typed, Same
<1>6. CASE ShowsLayers
  <2> DEFINE c == removeLayer(peer, id)
  <2>1. /\ PeerTyped(c)
        /\ c.layers = peer.layers \ {id}
        /\ c.requests = peer.requests \union {"layers"}
        /\ DOMAIN c.infos = DOMAIN peer.infos \ {id}
        /\ \A i \in DOMAIN c.infos : c.infos[i] = peer.infos[i]
        /\ DOMAIN c.shown = DOMAIN peer.shown \ {id}
        /\ \A i \in DOMAIN c.shown : c.shown[i] = peer.shown[i]
        /\ Same(peer, c, {"layers", "requests", "infos", "shown"})
    BY RemoveLayerType DEF Typed
  <2> HIDE DEF c
  <2>2. peer' = Request(c)
    BY <1>6 DEF DestroyLayer, c
  <2>3. /\ PeerTyped(Request(c)) /\ Same(c, Request(c), {"requests"})
        /\ Request(c).requests = IF attaching THEN peer.requests ELSE c.requests
    BY <2>1, RequestType DEF Typed
  <2>4. /\ peer'.infos = c.infos /\ peer'.shown = c.shown /\ peer'.layers = c.layers
        /\ Same(peer, peer', {"layers", "requests", "infos", "shown"})
    BY <2>1, <2>2, <2>3 DEF Same
  <2>5. peer'.requests = IF ShowsLayers /\ ~attaching
                          THEN peer.requests \union {"layers"} ELSE peer.requests
    BY <1>6, <2>1, <2>2, <2>3
  <2>6. /\ \A i \in Alive' : i \in DOMAIN peer.infos =>
              i \in DOMAIN peer'.infos /\ peer'.infos[i] = peer.infos[i]
        /\ \A i \in Alive' : i \in DOMAIN peer.shown =>
              i \in DOMAIN peer'.shown /\ peer'.shown[i] = peer.shown[i]
    BY <1>2, <2>1, <2>4
  <2>7. QED
    BY <1>2, <1>3, <1>4, <1>6, <2>1, <2>2, <2>3, <2>4, <2>5, <2>6
<1>7. QED
  BY <1>5, <1>6

LEMMA SetBufferStep ==
  ASSUME Typed, NEW id \in Alive, SetBuffer(id)
  PROVE  \E b \in Buffers, fence \in (Fences \ open) \union {NoFence} :
         /\ LayersTyped' /\ Alive' = Alive
         /\ \A i \in Alive \ {id} : mLayers'[i] = mLayers[i]
         /\ mLayers'[id].mBuffers = mLayers[id].mBuffers \union {b}
         /\ mLayers'[id].mBuffer = b /\ mLayers'[id].mAcquireFence = fence
         /\ mLayers'[id].mRemoteDisplay = mLayers[id].mRemoteDisplay
         /\ mLayers'[id].mInfo = mLayers[id].mInfo
         /\ mLayers'[id].bufferChanged =
              (mLayers[id].bufferChanged \/ mLayers[id].mBuffer # b)
         /\ open' = (open \ {mLayers[id].mAcquireFence}) \union ({fence} \ {NoFence})
         /\ PeerTyped(peer') /\ Same(peer, peer', {"buffers"})
         /\ peer.buffers \subseteq peer'.buffers
         /\ Attached /\ mLayers[id].mRemoteDisplay = mRemoteDisplay =>
              b \in mLayers[id].mBuffers \union peer'.buffers
<1>1. PICK b \in Buffers, fence \in NewFence :
        /\ mLayers' = [mLayers EXCEPT ![id] = setBuffer(mLayers[id], b, fence)]
        /\ open' = (open \ Closed(id)) \union ({fence} \ {NoFence})
        /\ \/ /\ Announces(mLayers[id], b) /\ Attached
              /\ peer' = createBuffer(peer, b)
           \/ /\ Announces(mLayers[id], b) =>
                   mLayers[id].mRemoteDisplay # mRemoteDisplay
              /\ UNCHANGED peer
  BY DEF SetBuffer
<1> DEFINE k == setBuffer(mLayers[id], b, fence)
<1>2. mLayers[id] \in Layers /\ fence \in Fences \union {NoFence}
  BY DEF Typed, LayersTyped, NewFence
<1>3. /\ k \in Layers
      /\ k.mBuffers = mLayers[id].mBuffers \union {b} /\ k.mBuffer = b
      /\ k.bufferChanged = (mLayers[id].bufferChanged \/ mLayers[id].mBuffer # b)
      /\ k.mAcquireFence = fence
      /\ k.mRemoteDisplay = mLayers[id].mRemoteDisplay /\ k.mInfo = mLayers[id].mInfo
  BY <1>2, SetBufferType
<1> HIDE DEF k
<1>4. mLayers' = [mLayers EXCEPT ![id] = k]
  BY <1>1 DEF k
<1>5. /\ LayersTyped' /\ Alive' = Alive
      /\ mLayers'[id] = k /\ \A i \in Alive \ {id} : mLayers'[i] = mLayers[i]
  <2>1. DOMAIN mLayers' = DOMAIN mLayers
    BY <1>4
  <2>2. mLayers' \in [Alive -> Layers] /\ Alive \subseteq LayerIds
    BY <1>3, <1>4 DEF Typed, LayersTyped
  <2>3. mLayers'[id] = k /\ \A i \in Alive \ {id} : mLayers'[i] = mLayers[i]
    BY <1>4 DEF Alive, Typed, LayersTyped
  <2>4. QED
    BY <2>1, <2>2, <2>3 DEF Alive, LayersTyped
<1>6. /\ PeerTyped(peer') /\ Same(peer, peer', {"buffers"})
      /\ peer.buffers \subseteq peer'.buffers
      /\ Attached /\ mLayers[id].mRemoteDisplay = mRemoteDisplay =>
              b \in mLayers[id].mBuffers \union peer'.buffers
  <2>1. CASE peer' = createBuffer(peer, b)
    BY <2>1, CreateBufferType DEF Typed
  <2>2. CASE /\ Announces(mLayers[id], b) =>
                   mLayers[id].mRemoteDisplay # mRemoteDisplay
             /\ UNCHANGED peer
    <3>1. Attached /\ mLayers[id].mRemoteDisplay = mRemoteDisplay =>
              b \in mLayers[id].mBuffers
      BY <2>2 DEF Announces, Attached
    <3>2. QED
      BY <2>2, <3>1 DEF Typed, Same
  <2>3. QED
    BY <1>1, <2>1, <2>2
<1>7. open' = (open \ {mLayers[id].mAcquireFence}) \union ({fence} \ {NoFence})
  BY <1>1 DEF Closed
<1>8. fence \in (Fences \ open) \union {NoFence}
  BY DEF NewFence
<1>9. QED
  BY <1>3, <1>5, <1>6, <1>7, <1>8

LEMMA SetStateStep ==
  ASSUME Typed, NEW id \in Alive, SetState(id)
  PROVE  /\ LayersTyped' /\ Alive' = Alive
         /\ \A i \in Alive \ {id} : mLayers'[i] = mLayers[i]
         /\ Tweaked(mLayers[id], mLayers'[id])
         /\ \E c : /\ Heeded(mLayers[id], asked[id], mLayers'[id], c)
                   /\ asked' = [asked EXCEPT ![id] = c]
         /\ phase' = "edit"
         /\ UNCHANGED <<uio, mLayerIndex, mTransform, target, remote, peer, older, open>>
<1>1. mLayers[id] \in Layers
  BY DEF Typed, LayersTyped
<1>2. PICK k, c : /\ Tweaked(mLayers[id], k) /\ Heeded(mLayers[id], asked[id], k, c)
                  /\ Set(id, k, c)
  <2> DEFINE l == mLayers[id]
             a == asked[id]
  <2>1. SUFFICES \E k, c : Tweaked(l, k) /\ Heeded(l, a, k, c) /\ Set(id, k, c)
    OBVIOUS
  <2>2. CASE \E v \in Transforms : Set(id, setTransform(l, v), [a EXCEPT !.transform = v])
    BY <1>1, <2>2, HooksTweak, HooksHeed
  <2>3. CASE \E v \in Frames : Set(id, setDisplayFrame(l, v), [a EXCEPT !.dstFrame = v])
    BY <1>1, <2>3, HooksTweak, HooksHeed
  <2>4. CASE \E v \in Colors : Set(id, setColor(l, v), [a EXCEPT !.color = v])
    BY <1>1, <2>4, HooksTweak, HooksHeed
  <2>5. CASE \E v \in Orders : Set(id, setZOrder(l, v), a)
    BY <1>1, <2>5, HooksTweak, HooksHeed
  <2>6. CASE \E v \in Types : Set(id, setCompositionType(l, v), a)
    BY <1>1, <2>6, HooksTweak, HooksHeed
  <2>7. QED
    BY <2>2, <2>3, <2>4, <2>5, <2>6 DEF SetState
<1>3. mLayers' = [mLayers EXCEPT ![id] = k] /\ k \in Layers
  BY <1>2 DEF Set, Tweaked
<1>4. DOMAIN mLayers' = DOMAIN mLayers
  BY <1>3
<1>5. mLayers' \in [Alive -> Layers] /\ Alive \subseteq LayerIds
  BY <1>3 DEF Typed, LayersTyped
<1>6. mLayers'[id] = k /\ \A i \in Alive \ {id} : mLayers'[i] = mLayers[i]
  BY <1>3 DEF Alive, Typed, LayersTyped
<1>7. QED
  BY <1>2, <1>4, <1>5, <1>6 DEF Alive, LayersTyped, Set

LEMMA ValidateStep ==
  ASSUME Typed, Validate
  PROVE  /\ LayersTyped' /\ Alive' = Alive /\ CheckedTransform \in Transforms
         /\ \A i \in Alive :
              /\ Alike(mLayers[i], mLayers'[i]) /\ mLayers'[i].mInfo = mLayers[i].mInfo
              /\ mLayers'[i].bufferChanged = mLayers[i].bufferChanged
              /\ mLayers'[i].mType = mLayers[i].mType
              /\ mLayers'[i].mValidatedType \in {"Client", "Invalid"}
<1>1. mLayers' = [i \in Alive |-> setValidatedType(mLayers[i])]
  BY DEF Validate, Each
<1>2. \A i \in Alive : mLayers[i] \in Layers
  BY DEF Typed, LayersTyped
<1>3. Alive' = Alive /\ \A i \in Alive : mLayers'[i] = setValidatedType(mLayers[i])
  BY <1>1 DEF Alive
<1>4. \A i \in Alive : setValidatedType(mLayers[i]) \in Layers
  BY <1>2, ValidatedType
<1>5. mLayers' \in [Alive' -> Layers] /\ Alive' \subseteq LayerIds
  BY <1>1, <1>3, <1>4 DEF Typed, LayersTyped
<1>6. QED
  BY <1>2, <1>3, <1>5, ValidatedType, CheckedTyped DEF Alike, LayersTyped

LEMMA AcceptChangesStep ==
  ASSUME Typed, AcceptChanges
  PROVE  /\ LayersTyped' /\ Alive' = Alive
         /\ \A i \in Alive :
              /\ Alike(mLayers[i], mLayers'[i]) /\ mLayers'[i].mInfo = mLayers[i].mInfo
              /\ mLayers'[i].bufferChanged = mLayers[i].bufferChanged
              /\ mLayers'[i].mType = mLayers[i].mValidatedType
<1>1. mLayers' = [i \in Alive |-> acceptTypeChange(mLayers[i])]
  BY DEF AcceptChanges, Each
<1>2. \A i \in Alive : mLayers[i] \in Layers
  BY DEF Typed, LayersTyped
<1>3. Alive' = Alive /\ \A i \in Alive : mLayers'[i] = acceptTypeChange(mLayers[i])
  BY <1>1 DEF Alive
<1>4. \A i \in Alive : acceptTypeChange(mLayers[i]) \in Layers
  BY <1>2, AcceptedType
<1>5. mLayers' \in [Alive' -> Layers] /\ Alive' \subseteq LayerIds
  BY <1>1, <1>3, <1>4 DEF Typed, LayersTyped
<1>6. QED
  BY <1>2, <1>3, <1>5, AcceptedType DEF Alike, LayersTyped

LEMMA SetClientTargetStep ==
  ASSUME Typed, SetClientTarget
  PROVE  \E fence \in (Fences \ open) \union {NoFence} :
         /\ mFbAcquireFenceFd' = fence
         /\ open' = (open \ {mFbAcquireFenceFd}) \union ({fence} \ {NoFence})
         /\ mFbTarget' \in Targets
         /\ mFbtBuffers \subseteq mFbtBuffers' /\ mFbtBuffers' \subseteq Targets
         /\ ~Attached => mFbtBuffers' = mFbtBuffers
         /\ Attached => mFbTarget' \in mFbtBuffers'
         /\ PeerTyped(peer') /\ Same(peer, peer', {"buffers"})
         /\ peer.buffers \subseteq peer'.buffers
         /\ mFbtBuffers' \subseteq mFbtBuffers \union peer'.buffers
<1>1. PICK b \in Targets, fence \in NewFence :
       /\ mFbTarget' = b
       /\ mFbAcquireFenceFd' = fence
       /\ open' = (open \ {mFbAcquireFenceFd}) \union ({fence} \ {NoFence})
       /\ IF Attached /\ b \notin mFbtBuffers
            THEN /\ mFbtBuffers' = mFbtBuffers \union {b}
                 /\ peer' = createBuffer(peer, b)
            ELSE UNCHANGED <<mFbtBuffers, peer>>
  BY DEF SetClientTarget
<1>2. /\ PeerTyped(peer') /\ Same(peer, peer', {"buffers"})
      /\ peer.buffers \subseteq peer'.buffers
      /\ mFbtBuffers' \subseteq mFbtBuffers \union peer'.buffers
  <2>1. CASE Attached /\ b \notin mFbtBuffers
    BY <1>1, <2>1, CreateBufferType DEF Typed
  <2>2. CASE ~(Attached /\ b \notin mFbtBuffers)
    BY <1>1, <2>2 DEF Typed, Same
  <2>3. QED
    BY <2>1, <2>2
<1>3. QED
  BY <1>1, <1>2 DEF NewFence, Typed, ScalarsTyped

LEMMA PresentStep ==
  ASSUME Typed, Present
  PROVE  /\ LayersTyped' /\ Alive' = Alive
         /\ \A i \in Alive : Alike(mLayers[i], mLayers'[i])
         /\ \A i \in Alive : mLayers'[i].mInfo =
              IF ShowsLayers THEN [mLayers[i].mInfo EXCEPT !.changed = FALSE]
                             ELSE mLayers[i].mInfo
         /\ \A i \in Alive : mLayers'[i].bufferChanged =
              (mLayers[i].bufferChanged /\ ~ShowsLayers)
         /\ mTransform' = (IF ShowsFb THEN NewTransform ELSE mTransform)
         /\ mTransform' \in Transforms
         /\ PeerTyped(peer')
         /\ Same(peer, peer', {"rotation", "infos", "shown", "requests"})
         /\ peer'.rotation = (IF ShowsFb /\ NewTransform # mTransform
                                THEN Rotation(NewTransform) ELSE peer.rotation)
         /\ "fb" \in peer'.requests => "fb" \in peer.requests \/ (~attaching /\ ShowsFb)
         /\ "layers" \in peer'.requests =>
              "layers" \in peer.requests \/ (~attaching /\ ShowsLayers)
         /\ ~ShowsLayers => peer'.infos = peer.infos /\ peer'.shown = peer.shown
         /\ ShowsLayers =>
              /\ DOMAIN peer.infos \subseteq DOMAIN peer'.infos
              /\ DOMAIN peer'.infos \subseteq DOMAIN peer.infos \union peer.layers
              /\ \A i \in DOMAIN peer.infos \ Updates : peer'.infos[i] = peer.infos[i]
              /\ \A i \in Updates \intersect peer.layers :
                   i \in DOMAIN peer'.infos /\ peer'.infos[i] = Sent(mLayers[i].mInfo)
              /\ DOMAIN peer'.shown = DOMAIN peer.shown \union (Flips \intersect peer.layers)
              /\ \A i \in DOMAIN peer'.shown : peer'.shown[i] =
                   IF i \in Flips THEN mLayers[i].mBuffer ELSE peer.shown[i]
<1> DEFINE p == IF ShowsFb THEN WithFb(peer) ELSE peer
           q == IF ShowsLayers THEN WithLayers(p) ELSE p
<1>1. /\ PeerTyped(p) /\ Same(peer, p, {"rotation", "requests"})
      /\ p.rotation = (IF ShowsFb /\ NewTransform # mTransform
                          THEN Rotation(NewTransform) ELSE peer.rotation)
      /\ p.requests = IF ShowsFb THEN peer.requests \union {"fb"} ELSE peer.requests
  <2>1. CASE ShowsFb
    BY <2>1, WithFbFields
  <2>2. CASE ~ShowsFb
    BY <2>2 DEF Typed, Same
  <2>3. QED
    BY <2>1, <2>2
<1> HIDE DEF p
<1>2. p.infos = peer.infos /\ p.shown = peer.shown /\ p.layers = peer.layers
  BY <1>1 DEF Same
<1>3. /\ PeerTyped(q) /\ Same(p, q, {"infos", "shown", "requests"})
      /\ q.requests \subseteq IF ShowsLayers THEN p.requests \union {"layers"} ELSE p.requests
      /\ ~ShowsLayers => q.infos = p.infos /\ q.shown = p.shown
      /\ ShowsLayers =>
              /\ DOMAIN p.infos \subseteq DOMAIN q.infos
              /\ DOMAIN q.infos \subseteq DOMAIN p.infos \union p.layers
              /\ \A i \in DOMAIN p.infos \ Updates : q.infos[i] = p.infos[i]
              /\ \A i \in Updates \intersect p.layers :
                   i \in DOMAIN q.infos /\ q.infos[i] = Sent(mLayers[i].mInfo)
              /\ DOMAIN q.shown = DOMAIN p.shown \union (Flips \intersect p.layers)
              /\ \A i \in DOMAIN q.shown : q.shown[i] =
                   IF i \in Flips THEN mLayers[i].mBuffer ELSE p.shown[i]
  <2>1. CASE ShowsLayers
    BY <1>1, <2>1, WithLayersFields
  <2>2. CASE ~ShowsLayers
    BY <1>1, <2>2 DEF Same
  <2>3. QED
    BY <2>1, <2>2
<1>4. peer' = Request(q)
  BY DEF Present, q, p
<1> HIDE DEF q
<1>5. /\ PeerTyped(peer') /\ Same(q, peer', {"requests"})
      /\ peer'.requests = IF attaching THEN peer.requests ELSE q.requests
  BY <1>3, <1>4, RequestType DEF Typed
<1>6. /\ Same(peer, peer', {"rotation", "infos", "shown", "requests"})
      /\ peer'.rotation = p.rotation /\ peer'.infos = q.infos /\ peer'.shown = q.shown
  BY <1>1, <1>3, <1>5 DEF Same
<1>7. /\ "fb" \in peer'.requests => "fb" \in peer.requests \/ (~attaching /\ ShowsFb)
      /\ "layers" \in peer'.requests =>
              "layers" \in peer.requests \/ (~attaching /\ ShowsLayers)
  BY <1>1, <1>3, <1>5
<1>8. mLayers' = IF ShowsLayers THEN [i \in Alive |-> setUnchanged(mLayers[i])] ELSE mLayers
  BY DEF Present, Each
<1>9. \A i \in Alive : mLayers[i] \in Layers
  BY DEF Typed, LayersTyped
<1>10. /\ LayersTyped' /\ Alive' = Alive
       /\ \A i \in Alive : Alike(mLayers[i], mLayers'[i])
       /\ \A i \in Alive : mLayers'[i].mInfo =
              IF ShowsLayers THEN [mLayers[i].mInfo EXCEPT !.changed = FALSE]
                             ELSE mLayers[i].mInfo
       /\ \A i \in Alive : mLayers'[i].bufferChanged =
              (mLayers[i].bufferChanged /\ ~ShowsLayers)
  <2>1. CASE ~ShowsLayers
    <3>1. mLayers' = mLayers /\ Alive' = Alive
      BY <1>8, <2>1 DEF Alive
    <3>2. \A i \in Alive : mLayers[i].bufferChanged \in BOOLEAN
      BY <1>9 DEF Layers
    <3>3. QED
      BY <2>1, <3>1, <3>2 DEF Alike, Typed, LayersTyped
  <2>2. CASE ShowsLayers
    <3>1. Alive' = Alive /\ \A i \in Alive : mLayers'[i] = setUnchanged(mLayers[i])
      BY <1>8, <2>2 DEF Alive
    <3>2. \A i \in Alive : setUnchanged(mLayers[i]) \in Layers
      BY <1>9, UnchangedType
    <3>3. mLayers' \in [Alive' -> Layers] /\ Alive' \subseteq LayerIds
      BY <1>8, <2>2, <3>1, <3>2 DEF Typed, LayersTyped
    <3>4. \A i \in Alive : /\ Alike(mLayers[i], mLayers'[i])
                            /\ mLayers'[i].bufferChanged = FALSE
                            /\ mLayers'[i].mInfo = [mLayers[i].mInfo EXCEPT !.changed = FALSE]
      <4> SUFFICES ASSUME NEW i \in Alive
                   PROVE  /\ Alike(mLayers[i], mLayers'[i])
                          /\ mLayers'[i].bufferChanged = FALSE
                          /\ mLayers'[i].mInfo = [mLayers[i].mInfo EXCEPT !.changed = FALSE]
        OBVIOUS
      <4>1. mLayers[i] \in Layers /\ mLayers'[i] = setUnchanged(mLayers[i])
        BY <1>9, <3>1
      <4> DEFINE k == setUnchanged(mLayers[i])
      <4>2. /\ k.mBuffers = mLayers[i].mBuffers /\ k.mBuffer = mLayers[i].mBuffer
            /\ k.bufferChanged = FALSE /\ k.mAcquireFence = mLayers[i].mAcquireFence
            /\ k.mRemoteDisplay = mLayers[i].mRemoteDisplay
            /\ k.mInfo = [mLayers[i].mInfo EXCEPT !.changed = FALSE]
        BY <4>1, UnchangedType
      <4> HIDE DEF k
      <4>3. mLayers'[i] = k
        BY <4>1 DEF k
      <4>4. QED
        BY <4>2, <4>3 DEF Alike
    <3>5. LayersTyped'
      BY <3>3 DEF LayersTyped
    <3>6. \A i \in Alive : mLayers'[i].bufferChanged =
            (mLayers[i].bufferChanged /\ ~ShowsLayers)
      BY ONLY <2>2, <3>4
    <3>7. \A i \in Alive : mLayers'[i].mInfo =
              IF ShowsLayers THEN [mLayers[i].mInfo EXCEPT !.changed = FALSE]
                             ELSE mLayers[i].mInfo
      BY ONLY <2>2, <3>4
    <3>8. QED
      BY <3>1, <3>4, <3>5, <3>6, <3>7
  <2>3. QED
    BY <2>1, <2>2
<1>11. mTransform' = (IF ShowsFb THEN NewTransform ELSE mTransform) /\ mTransform' \in Transforms
  BY PresentedTyped DEF Present, Typed, ScalarsTyped
<1>12. QED
  BY <1>1, <1>2, <1>3, <1>5, <1>6, <1>7, <1>10, <1>11

(* The socket thread starts and ends with a view that is empty.            *)
LEMMA AttachPointerStep ==
  ASSUME AttachPointer
  PROVE  /\ PeerTyped(peer') /\ peer'.mode \in 0 .. 2 /\ peer'.buffers = {}
         /\ peer'.rotation = 0 /\ peer'.layers = {} /\ peer'.requests = {}
         /\ DOMAIN peer'.infos = {} /\ DOMAIN peer'.shown = {}
<1>1. PICK mode \in Modes : peer' = Fresh(mode)
  BY DEF AttachPointer
<1>2. mode \in 0 .. 2
  BY DisplayAssumption DEF DisplayAssumption
<1>3. QED
  BY <1>1, <1>2, FreshType

LEMMA DetachStep ==
  ASSUME Detach
  PROVE  /\ PeerTyped(peer') /\ peer'.mode = 0 /\ peer'.buffers = {}
         /\ peer'.rotation = 0 /\ peer'.layers = {} /\ peer'.requests = {}
         /\ DOMAIN peer'.infos = {} /\ DOMAIN peer'.shown = {}
<1>1. peer' = Fresh(0)
  BY DEF Detach
<1>2. QED
  BY <1>1, FreshType

-----------------------------------------------------------------------------
(* Type correctness.                                                       *)
LEMMA TypedInit == Init => Typed
<1> SUFFICES ASSUME Init PROVE Typed
  OBVIOUS
<1>1. Alive = {} /\ mLayers \in [{} -> Layers]
  BY DEF Init, Alive
<1>2. PeerTyped(peer)
  BY FreshType DEF Init
<1>3. ScalarsTyped
  <2>1. 0 \in 0 .. MaxRemote /\ 0 \in 0 .. MaxId + 1 /\ 0 \in Transforms
    BY DisplayAssumption DEF DisplayAssumption
  <2>2. /\ mLayerIndex \in 0 .. MaxId + 1 /\ remotes \in 0 .. MaxRemote
        /\ mRemoteDisplay \in {NoRemote, remotes} /\ mMode \in 0 .. 2
        /\ mTransform \in Transforms
    BY <2>1 DEF Init
  <2>3. attaching \in BOOLEAN /\ olderTarget \in BOOLEAN /\ uio \in Uio
    BY DEF Init
  <2>4. /\ mFbTarget \in Targets \union {NoBuffer} /\ mFbtBuffers \subseteq Targets
        /\ mFbAcquireFenceFd \in Fences \union {NoFence}
        /\ older \subseteq Alive /\ open \subseteq Fences
    BY DEF Init
  <2>5. phase \in {"edit", "validated", "accepted"}
    BY DEF Init
  <2>6. QED
    BY <2>2, <2>3, <2>4, <2>5 DEF ScalarsTyped
<1>4. QED
  BY <1>1, <1>2, <1>3 DEF Typed, LayersTyped, FlipsHaveBuffers

LEMMA TypedNext == Typed /\ [Next]_vars => Typed'
<1> SUFFICES ASSUME Typed, [Next]_vars PROVE Typed'
  OBVIOUS
<1> USE DEF Typed
<1>1. CASE CreateLayer
  <2>1. /\ mLayerIndex \in LayerIds
        /\ LayersTyped' /\ Alive' = Alive \union {mLayerIndex} /\ PeerTyped(peer')
        /\ \A i \in Alive : mLayers'[i] = mLayers[i]
        /\ mLayerIndex \notin Alive => mLayers'[mLayerIndex].bufferChanged = FALSE
    BY <1>1, CreateLayerStep
  <2>2. ScalarsTyped'
    BY <1>1, <2>1, DisplayAssumption
       DEF DisplayAssumption, CreateLayer, ScalarsTyped, target, remote, LayerIds
  <2>3. FlipsHaveBuffers'
    BY <2>1 DEF FlipsHaveBuffers
  <2>4. QED
    BY <2>1, <2>2, <2>3 DEF PeerTyped, Peers
<1>2. ASSUME NEW id \in Alive, DestroyLayer(id) PROVE Typed'
  <2>1. LayersTyped' /\ PeerTyped(peer')
        /\ Alive' = Alive \ {id} /\ \A i \in Alive' : mLayers'[i] = mLayers[i]
    BY <1>2, DestroyLayerStep
  <2>2. ScalarsTyped'
    BY <1>2, <2>1 DEF DestroyLayer, ScalarsTyped, target, remote
  <2>3. FlipsHaveBuffers'
    BY <2>1 DEF FlipsHaveBuffers
  <2>4. QED
    BY <2>1, <2>2, <2>3 DEF PeerTyped, Peers
<1>3. ASSUME NEW id \in Alive, SetBuffer(id) PROVE Typed'
  <2>1. PICK b \in Buffers, fence \in (Fences \ open) \union {NoFence} :
        /\ LayersTyped' /\ Alive' = Alive
        /\ \A i \in Alive \ {id} : mLayers'[i] = mLayers[i]
        /\ mLayers'[id].mBuffer = b
        /\ open' = (open \ {mLayers[id].mAcquireFence}) \union ({fence} \ {NoFence})
        /\ PeerTyped(peer')
    BY <1>3, SetBufferStep
  <2>2. ScalarsTyped'
    BY <1>3, <2>1 DEF SetBuffer, ScalarsTyped, target, remote
  <2>3. FlipsHaveBuffers'
    BY <2>1, DisplayAssumption DEF DisplayAssumption, FlipsHaveBuffers
  <2>4. QED
    BY <2>1, <2>2, <2>3 DEF PeerTyped, Peers
<1>4. ASSUME NEW id \in Alive, SetState(id) PROVE Typed'
  <2>1. /\ LayersTyped' /\ Alive' = Alive
        /\ \A i \in Alive \ {id} : mLayers'[i] = mLayers[i]
        /\ Tweaked(mLayers[id], mLayers'[id]) /\ phase' = "edit"
        /\ UNCHANGED <<uio, mLayerIndex, mTransform, target, remote, peer, older, open>>
    BY <1>4, SetStateStep
  <2>2. ScalarsTyped'
    BY <2>1 DEF ScalarsTyped, target, remote
  <2>3. FlipsHaveBuffers'
    BY <2>1 DEF FlipsHaveBuffers, Tweaked
  <2>4. QED
    BY <2>1, <2>2, <2>3 DEF PeerTyped, Peers
<1>5. CASE Validate
  <2>1. /\ LayersTyped' /\ Alive' = Alive /\ CheckedTransform \in Transforms
        /\ \A i \in Alive : Alike(mLayers[i], mLayers'[i])
                            /\ mLayers'[i].bufferChanged = mLayers[i].bufferChanged
    BY <1>5, ValidateStep
  <2>2. ScalarsTyped'
    BY <1>5, <2>1 DEF Validate, ScalarsTyped, target, remote
  <2>3. FlipsHaveBuffers'
    BY <2>1 DEF FlipsHaveBuffers, Alike
  <2>4. peer' = peer
    BY <1>5 DEF Validate
  <2>5. QED
    BY <2>1, <2>2, <2>3, <2>4 DEF PeerTyped, Peers
<1>6. CASE AcceptChanges
  <2>1. /\ LayersTyped' /\ Alive' = Alive
        /\ \A i \in Alive : Alike(mLayers[i], mLayers'[i])
                            /\ mLayers'[i].bufferChanged = mLayers[i].bufferChanged
    BY <1>6, AcceptChangesStep
  <2>2. ScalarsTyped'
    BY <1>6, <2>1 DEF AcceptChanges, ScalarsTyped, target, remote
  <2>3. FlipsHaveBuffers'
    BY <2>1 DEF FlipsHaveBuffers, Alike
  <2>4. peer' = peer
    BY <1>6 DEF AcceptChanges
  <2>5. QED
    BY <2>1, <2>2, <2>3, <2>4 DEF PeerTyped, Peers
<1>7. CASE SetClientTarget
  <2>1. PICK fence \in (Fences \ open) \union {NoFence} :
        /\ mFbAcquireFenceFd' = fence
        /\ open' = (open \ {mFbAcquireFenceFd}) \union ({fence} \ {NoFence})
        /\ mFbTarget' \in Targets /\ mFbtBuffers' \subseteq Targets
        /\ PeerTyped(peer')
    BY <1>7, SetClientTargetStep
  <2>2. mLayers' = mLayers /\ Alive' = Alive
    BY <1>7 DEF SetClientTarget, Alive
  <2>3. ScalarsTyped'
    BY <1>7, <2>1, <2>2 DEF SetClientTarget, ScalarsTyped, remote
  <2>4. QED
    BY <2>1, <2>2, <2>3 DEF PeerTyped, Peers, LayersTyped, FlipsHaveBuffers
<1>8. CASE Present
  <2>1. /\ LayersTyped' /\ Alive' = Alive /\ mTransform' \in Transforms
        /\ PeerTyped(peer')
        /\ \A i \in Alive : Alike(mLayers[i], mLayers'[i])
        /\ \A i \in Alive : mLayers'[i].bufferChanged =
              (mLayers[i].bufferChanged /\ ~ShowsLayers)
    BY <1>8, PresentStep
  <2>2. ScalarsTyped'
    BY <1>8, <2>1 DEF Present, ScalarsTyped, target, remote
  <2>3. FlipsHaveBuffers'
    BY <2>1 DEF FlipsHaveBuffers, Alike
  <2>4. QED
    BY <2>1, <2>2, <2>3 DEF PeerTyped, Peers
<1>9. CASE AttachPointer
  <2>1. PeerTyped(peer')
    BY <1>9, AttachPointerStep
  <2>2. mLayers' = mLayers /\ Alive' = Alive
    BY <1>9 DEF AttachPointer, Alive
  <2>3. ScalarsTyped'
    BY <1>9, <2>2, DisplayAssumption DEF DisplayAssumption, AttachPointer, ScalarsTyped
  <2>4. QED
    BY <2>1, <2>2, <2>3 DEF PeerTyped, Peers, LayersTyped, FlipsHaveBuffers
<1>10. CASE AttachMode
  <2>1. mLayers' = mLayers /\ Alive' = Alive /\ peer' = peer
    BY <1>10 DEF AttachMode, Alive
  <2>2. ScalarsTyped'
    BY <1>10, <2>1, PeerFields DEF AttachMode, ScalarsTyped, target
  <2>3. QED
    BY <2>1, <2>2 DEF PeerTyped, Peers, LayersTyped, FlipsHaveBuffers
<1>11. CASE Detach
  <2>1. PeerTyped(peer')
    BY <1>11, DetachStep
  <2>2. mLayers' = mLayers /\ Alive' = Alive
    BY <1>11 DEF Detach, Alive
  <2>3. ScalarsTyped'
    BY <1>11, <2>2, DisplayAssumption
       DEF DisplayAssumption, Detach, ScalarsTyped, FbtBuffersLeft, TransformLeft
  <2>4. QED
    BY <2>1, <2>2, <2>3 DEF PeerTyped, Peers, LayersTyped, FlipsHaveBuffers
<1>12. CASE UNCHANGED vars
  <2>1. mLayers' = mLayers /\ Alive' = Alive /\ peer' = peer
    BY <1>12 DEF vars, Alive
  <2>2. ScalarsTyped'
    BY <1>12, <2>1 DEF vars, target, remote, ScalarsTyped
  <2>3. QED
    BY <2>1, <2>2 DEF PeerTyped, Peers, LayersTyped, FlipsHaveBuffers
<1>13. QED
  BY <1>1, <1>2, <1>3, <1>4, <1>5, <1>6, <1>7, <1>8, <1>9, <1>10, <1>11, <1>12
     DEF Next, SurfaceFlinger

(* A layer remembers what SurfaceFlinger asked for.                        *)
Remembered == \A i \in Alive : Remembers(mLayers[i], asked[i])

LEMMA RememberedInit == Init => AskedTyped /\ Remembered
  BY DEF Init, AskedTyped, Remembered, Alive

LEMMA RememberedNext ==
  Typed /\ AskedTyped /\ Remembered /\ [Next]_vars => (AskedTyped /\ Remembered)'
<1> SUFFICES ASSUME Typed, AskedTyped, Remembered, [Next]_vars
             PROVE  (AskedTyped /\ Remembered)'
  OBVIOUS
<1>0. \A i \in Alive : mLayers[i] \in Layers /\ asked[i] \in Asks
  BY DEF Typed, LayersTyped, AskedTyped
<1>1. ASSUME Alive' = Alive, asked' = asked,
             \A i \in Alive : SameDrawn(mLayers[i], mLayers'[i])
      PROVE  (AskedTyped /\ Remembered)'
  BY <1>1, SameRemembered DEF AskedTyped, Remembered
<1>2. CASE CreateLayer
  <2>1. PICK garbage \in Frames \union {NoFrame} :
          /\ mLayers' = [i \in Alive \union {mLayerIndex} |->
                IF i \in Alive THEN mLayers[i]
                ELSE setRemoteDisplay(NewLayer(garbage), mRemoteDisplay)]
          /\ asked' = [i \in Alive \union {mLayerIndex} |->
                IF i \in Alive THEN asked[i] ELSE NothingAsked(garbage)]
    BY <1>2 DEF CreateLayer
  <2> DEFINE l == setRemoteDisplay(NewLayer(garbage), mRemoteDisplay)
             a == NothingAsked(garbage)
  <2>2. a \in Asks
    BY DisplayAssumption DEF DisplayAssumption, NothingAsked, Asks
  <2>3. Remembers(l, a)
    <3>1. Packed(Black) = Black
      BY DEF Packed, Black
    <3>2. QED
      BY <3>1 DEF setRemoteDisplay, NewLayer, NothingAsked, Remembers, FrameRemembered
  <2> HIDE DEF l, a
  <2>4. Alive' = Alive \union {mLayerIndex}
    BY <2>1 DEF Alive
  <2>5. \A i \in Alive' : /\ mLayers'[i] = IF i \in Alive THEN mLayers[i] ELSE l
                          /\ asked'[i] = IF i \in Alive THEN asked[i] ELSE a
    BY <2>1, <2>4 DEF l, a
  <2>6. AskedTyped'
    BY <1>0, <2>1, <2>2, <2>4, <2>5 DEF AskedTyped
  <2>7. Remembered'
    BY <2>3, <2>5 DEF Remembered
  <2>8. QED
    BY <2>6, <2>7
<1>3. ASSUME NEW id \in Alive, DestroyLayer(id) PROVE (AskedTyped /\ Remembered)'
  <2>1. Alive' = Alive \ {id} /\ \A i \in Alive' : mLayers'[i] = mLayers[i]
    BY <1>3, DestroyLayerStep
  <2>2. asked' = [i \in Alive \ {id} |-> asked[i]]
    BY <1>3 DEF DestroyLayer, Restrict
  <2>3. QED
    BY <1>0, <2>1, <2>2 DEF AskedTyped, Remembered
<1>4. ASSUME NEW id \in Alive, SetBuffer(id) PROVE (AskedTyped /\ Remembered)'
  <2>1. PICK b \in Buffers, fence \in NewFence :
          /\ mLayers' = [mLayers EXCEPT ![id] = setBuffer(mLayers[id], b, fence)]
          /\ asked' = [asked EXCEPT ![id].buffer = b]
    BY <1>4 DEF SetBuffer
  <2> DEFINE k == setBuffer(mLayers[id], b, fence)
             c == [asked[id] EXCEPT !.buffer = b]
  <2>2. /\ k.mInfo = mLayers[id].mInfo /\ k.mBuffer = b
        /\ k.mColor = mLayers[id].mColor /\ k.mDstFrame = mLayers[id].mDstFrame
    BY <1>0 DEF setBuffer, Layers
  <2>3. /\ c \in Asks /\ c.transform = asked[id].transform
        /\ c.dstFrame = asked[id].dstFrame /\ c.color = asked[id].color
        /\ c.buffer = b /\ c.born = asked[id].born
    BY <1>0 DEF Asks
  <2> HIDE DEF k, c
  <2>4. Remembers(k, c)
    BY <2>2, <2>3 DEF Remembered, Remembers, FrameRemembered
  <2>5. mLayers' = [mLayers EXCEPT ![id] = k] /\ asked' = [asked EXCEPT ![id] = c]
    BY <2>1 DEF k, c
  <2>6. Alive' = Alive
    BY <2>5 DEF Alive
  <2>7. \A i \in Alive : /\ mLayers'[i] = IF i = id THEN k ELSE mLayers[i]
                         /\ asked'[i] = IF i = id THEN c ELSE asked[i]
    BY <2>5 DEF Alive, AskedTyped
  <2>8. QED
    BY <2>3, <2>4, <2>5, <2>6, <2>7 DEF AskedTyped, Remembered
<1>5. ASSUME NEW id \in Alive, SetState(id) PROVE (AskedTyped /\ Remembered)'
  <2>1. /\ Alive' = Alive /\ \A i \in Alive \ {id} : mLayers'[i] = mLayers[i]
        /\ \E c : /\ Heeded(mLayers[id], asked[id], mLayers'[id], c)
                  /\ asked' = [asked EXCEPT ![id] = c]
    BY <1>5, SetStateStep
  <2>2. PICK c : /\ Heeded(mLayers[id], asked[id], mLayers'[id], c)
                 /\ asked' = [asked EXCEPT ![id] = c]
    BY <2>1
  <2>3. c \in Asks /\ Remembers(mLayers'[id], c)
    BY <1>0, <2>2 DEF Heeded, Remembered
  <2>4. \A i \in Alive : asked'[i] = IF i = id THEN c ELSE asked[i]
    BY <2>2 DEF AskedTyped
  <2>5. QED
    BY <2>1, <2>2, <2>3, <2>4 DEF AskedTyped, Remembered
<1>6. CASE Validate \/ AcceptChanges \/ Present
  <2>2. CASE Validate
    <3>1. mLayers' = [i \in Alive |-> setValidatedType(mLayers[i])] /\ asked' = asked
      BY <2>2 DEF Validate, Each
    <3>2. Alive' = Alive /\ \A i \in Alive : SameDrawn(mLayers[i], mLayers'[i])
      BY <1>0, <3>1, HooksKeep DEF Alive
    <3>3. QED
      BY <1>1, <3>1, <3>2
  <2>3. CASE AcceptChanges
    <3>1. mLayers' = [i \in Alive |-> acceptTypeChange(mLayers[i])] /\ asked' = asked
      BY <2>3 DEF AcceptChanges, Each
    <3>2. Alive' = Alive /\ \A i \in Alive : SameDrawn(mLayers[i], mLayers'[i])
      BY <1>0, <3>1, HooksKeep DEF Alive
    <3>3. QED
      BY <1>1, <3>1, <3>2
  <2>4. CASE Present
    <3>1. /\ mLayers' = (IF ShowsLayers THEN [i \in Alive |-> setUnchanged(mLayers[i])]
                                        ELSE mLayers)
          /\ asked' = asked
      BY <2>4 DEF Present, Each
    <3>2. Alive' = Alive /\ \A i \in Alive : SameDrawn(mLayers[i], mLayers'[i])
      BY <1>0, <3>1, HooksKeep DEF Alive, SameDrawn
    <3>3. QED
      BY <1>1, <3>1, <3>2
  <2>5. QED
    BY <1>6, <2>2, <2>3, <2>4
<1>7. CASE \/ SetClientTarget \/ AttachPointer \/ AttachMode \/ Detach
           \/ UNCHANGED vars
  <2>1. mLayers' = mLayers /\ asked' = asked
    BY <1>7 DEF SetClientTarget, AttachPointer, AttachMode, Detach, vars
  <2>2. QED
    BY <2>1 DEF AskedTyped, Remembered, Alive
<1>8. QED
  BY <1>2, <1>3, <1>4, <1>5, <1>6, <1>7 DEF Next, SurfaceFlinger

(* Every reachable state of a display and of the view of its remote is     *)
(* well formed: ids, buffers, states and modes are of their kinds, older   *)
(* layers exist, and no remote is shown a layer's missing buffer.          *)
THEOREM DisplayTyped == Spec => []TypeOK
<1>1. Typed /\ AskedTyped => TypeOK
  BY TypedIsTypeOK
<1>2. QED
  BY <1>1, TypedInit, TypedNext, RememberedInit, RememberedNext, PTL DEF Spec
-----------------------------------------------------------------------------
(* Fences.                                                                 *)
LEMMA FencesKept ==
  ASSUME FencesOwned, Alive' = Alive, open' = open,
         mFbAcquireFenceFd' = mFbAcquireFenceFd,
         \A i \in Alive : mLayers'[i].mAcquireFence = mLayers[i].mAcquireFence
  PROVE  FencesOwned'
  BY DEF FencesOwned

LEMMA FencesNext == Typed /\ FencesOwned /\ [Next]_vars => FencesOwned'
<1> SUFFICES ASSUME Typed, FencesOwned, [Next]_vars PROVE FencesOwned'
  OBVIOUS
<1>1. CASE CreateLayer
  <2>1. /\ Alive' = Alive \union {mLayerIndex}
        /\ \A i \in Alive : mLayers'[i] = mLayers[i]
        /\ mLayerIndex \notin Alive => mLayers'[mLayerIndex].mAcquireFence = NoFence
    BY <1>1, CreateLayerStep
  <2>2. open' = open /\ mFbAcquireFenceFd' = mFbAcquireFenceFd
    BY <1>1 DEF CreateLayer, target
  <2>3. QED
    BY <2>1, <2>2 DEF FencesOwned
<1>2. ASSUME NEW id \in Alive, DestroyLayer(id) PROVE FencesOwned'
  <2>1. Alive' = Alive \ {id} /\ \A i \in Alive' : mLayers'[i] = mLayers[i]
    BY <1>2, DestroyLayerStep
  <2>2. /\ open' = open \ {mLayers[id].mAcquireFence}
        /\ mFbAcquireFenceFd' = mFbAcquireFenceFd
    BY <1>2 DEF DestroyLayer, Closed, target
  <2>3. QED
    BY <2>1, <2>2 DEF FencesOwned
<1>3. ASSUME NEW id \in Alive, SetBuffer(id) PROVE FencesOwned'
  <2>1. PICK b \in Buffers, fence \in (Fences \ open) \union {NoFence} :
        /\ Alive' = Alive /\ \A i \in Alive \ {id} : mLayers'[i] = mLayers[i]
        /\ mLayers'[id].mAcquireFence = fence
        /\ open' = (open \ {mLayers[id].mAcquireFence}) \union ({fence} \ {NoFence})
    BY <1>3, SetBufferStep
  <2>2. mFbAcquireFenceFd' = mFbAcquireFenceFd
    BY <1>3 DEF SetBuffer, target
  <2>3. ASSUME NEW i \in Alive', NEW j \in Alive', mLayers'[i].mAcquireFence # NoFence
        PROVE  /\ mLayers'[i].mAcquireFence # mFbAcquireFenceFd'
               /\ i # j => mLayers'[i].mAcquireFence # mLayers'[j].mAcquireFence
    BY <2>1, <2>2, <2>3 DEF FencesOwned
  <2>4. \A f : f \in open' <=>
                 /\ f # NoFence
                 /\ f = mFbAcquireFenceFd' \/ \E i \in Alive' : f = mLayers'[i].mAcquireFence
    BY <2>1, <2>2 DEF FencesOwned
  <2>5. QED
    BY <2>3, <2>4 DEF FencesOwned
<1>4. ASSUME NEW id \in Alive, SetState(id) PROVE FencesOwned'
  <2>1. /\ Alive' = Alive /\ open' = open /\ mFbAcquireFenceFd' = mFbAcquireFenceFd
        /\ \A i \in Alive \ {id} : mLayers'[i] = mLayers[i]
        /\ mLayers'[id].mAcquireFence = mLayers[id].mAcquireFence
    BY <1>4, SetStateStep DEF Tweaked, target
  <2>2. QED
    BY <2>1, FencesKept
<1>5. CASE Validate
  <2>1. Alive' = Alive /\ \A i \in Alive : Alike(mLayers[i], mLayers'[i])
    BY <1>5, ValidateStep
  <2>2. QED
    BY <1>5, <2>1, FencesKept DEF Validate, target, Alike
<1>6. CASE AcceptChanges
  <2>1. Alive' = Alive /\ \A i \in Alive : Alike(mLayers[i], mLayers'[i])
    BY <1>6, AcceptChangesStep
  <2>2. QED
    BY <1>6, <2>1, FencesKept DEF AcceptChanges, target, Alike
<1>7. CASE SetClientTarget
  <2>1. PICK fence \in (Fences \ open) \union {NoFence} :
        /\ mFbAcquireFenceFd' = fence
        /\ open' = (open \ {mFbAcquireFenceFd}) \union ({fence} \ {NoFence})
    BY <1>7, SetClientTargetStep
  <2>2. mLayers' = mLayers /\ Alive' = Alive
    BY <1>7 DEF SetClientTarget, Alive
  <2>3. ASSUME NEW i \in Alive, NEW j \in Alive, mLayers[i].mAcquireFence # NoFence
        PROVE  /\ mLayers[i].mAcquireFence # fence
               /\ i # j => mLayers[i].mAcquireFence # mLayers[j].mAcquireFence
    BY <2>3 DEF FencesOwned
  <2>4. \A f : f \in open' <=>
                 /\ f # NoFence
                 /\ f = fence \/ \E i \in Alive : f = mLayers[i].mAcquireFence
    BY <2>1 DEF FencesOwned
  <2>5. QED
    BY <2>1, <2>2, <2>3, <2>4 DEF FencesOwned
<1>8. CASE Present
  <2>1. Alive' = Alive /\ \A i \in Alive : Alike(mLayers[i], mLayers'[i])
    BY <1>8, PresentStep
  <2>2. QED
    BY <1>8, <2>1, FencesKept DEF Present, target, Alike
<1>9. CASE AttachPointer \/ AttachMode \/ Detach \/ UNCHANGED vars
  <2>1. /\ mLayers' = mLayers /\ open' = open /\ mFbAcquireFenceFd' = mFbAcquireFenceFd
    BY <1>9 DEF AttachPointer, AttachMode, Detach, vars, target
  <2>2. QED
    BY <2>1 DEF FencesOwned, Alive
<1>10. QED
  BY <1>1, <1>2, <1>3, <1>4, <1>5, <1>6, <1>7, <1>8, <1>9 DEF Next, SurfaceFlinger

(* No order of the hooks leaks a fence descriptor or closes one twice: the *)
(* open ones are always those a layer or the client target holds, and no   *)
(* two hold the same (setBuffer, setAcquireFence, setClientTarget and the  *)
(* destructors of Hwc2Layer).                                              *)
THEOREM FencesAreOwned == Spec => []FencesOwned
<1>1. Init => FencesOwned
  BY DEF Init, FencesOwned, Alive
<1>2. QED
  BY <1>1, TypedInit, TypedNext, FencesNext, PTL DEF Spec

-----------------------------------------------------------------------------
(* Composition types.  Validation leaves types present can handle; when it *)
(* finds nothing to change, the layers have them already, else they get    *)
(* them by acceptChanges.                                                  *)
ValidatedIsComposable ==
  phase = "validated" => \A i \in Alive : mLayers[i].mValidatedType \in {"Client", "Invalid"}

LEMMA ComposedNext ==
  Typed /\ ValidatedIsComposable /\ AcceptedIsComposed /\ [Next]_vars
    => (ValidatedIsComposable /\ AcceptedIsComposed)'
<1> SUFFICES ASSUME Typed, ValidatedIsComposable, AcceptedIsComposed, [Next]_vars
             PROVE  (ValidatedIsComposable /\ AcceptedIsComposed)'
  OBVIOUS
<1> USE DEF ValidatedIsComposable, AcceptedIsComposed
<1>1. CASE CreateLayer \/ Present \/ \E i \in Alive : DestroyLayer(i) \/ SetBuffer(i) \/ SetState(i)
  <2>1. phase' = "edit"
    BY <1>1, SetStateStep DEF CreateLayer, Present, DestroyLayer, SetBuffer
  <2>2. QED
    BY <2>1
<1>2. CASE Validate
  <2>1. /\ Alive' = Alive
        /\ \A i \in Alive : mLayers'[i].mValidatedType \in {"Client", "Invalid"}
    BY <1>2, ValidateStep
  <2>2. phase' = "accepted" =>
          \A i \in Alive : mLayers'[i].mType = mLayers'[i].mValidatedType
    <3>1. phase' = "accepted" => ChangedTypes(mLayers') = {}
      BY <1>2 DEF Validate
    <3>2. Alive = DOMAIN mLayers'
      BY <2>1 DEF Alive
    <3>3. QED
      BY <3>1, <3>2 DEF ChangedTypes, typeChanged
  <2>3. QED
    BY <2>1, <2>2
<1>3. CASE AcceptChanges
  <2>1. /\ Alive' = Alive
        /\ \A i \in Alive : mLayers'[i].mType = mLayers[i].mValidatedType
    BY <1>3, AcceptChangesStep
  <2>2. phase = "validated" /\ phase' = "accepted"
    BY <1>3 DEF AcceptChanges
  <2>3. QED
    BY <2>1, <2>2
<1>4. CASE SetClientTarget \/ AttachPointer \/ AttachMode \/ Detach \/ UNCHANGED vars
  <2>1. mLayers' = mLayers /\ phase' = phase
    BY <1>4 DEF SetClientTarget, AttachPointer, AttachMode, Detach, vars
  <2>2. QED
    BY <2>1 DEF Alive
<1>5. QED
  BY <1>1, <1>2, <1>3, <1>4 DEF Next, SurfaceFlinger

(* What is presented was composed by SurfaceFlinger: once it has validated *)
(* and accepted, and until it edits again, no layer is of a type present   *)
(* would have to compose itself (getChangedCompositionTypes, presentDisplay).*)
THEOREM AcceptedAreComposed == Spec => []AcceptedIsComposed
<1>1. Init => ValidatedIsComposable /\ AcceptedIsComposed
  BY DEF Init, ValidatedIsComposable, AcceptedIsComposed
<1>2. QED
  BY <1>1, TypedInit, TypedNext, ComposedNext, PTL DEF Spec

-----------------------------------------------------------------------------
(* Rotation.  A display without a remote has forgotten what the last one   *)
(* was told, which is what the next one starts with.                       *)
TransformForgotten == ~Attached /\ ~uio => mTransform = 0

LEMMA RotationNext ==
  Typed /\ TransformForgotten /\ RotationKnown /\ [Next]_vars
    => (TransformForgotten /\ RotationKnown)'
<1> SUFFICES ASSUME Typed, TransformForgotten, RotationKnown, [Next]_vars
             PROVE  (TransformForgotten /\ RotationKnown)'
  OBVIOUS
<1>1. ASSUME uio' = uio, mRemoteDisplay' = mRemoteDisplay,
             ~uio => mTransform' = mTransform, peer'.rotation = peer.rotation
      PROVE  (TransformForgotten /\ RotationKnown)'
  BY <1>1 DEF TransformForgotten, RotationKnown, Attached
<1>2. CASE CreateLayer
  <2>1. peer'.rotation = peer.rotation
    BY <1>2, CreateLayerStep DEF Same
  <2>2. QED
    BY <1>1, <1>2, <2>1 DEF CreateLayer, remote
<1>3. ASSUME NEW id \in Alive, DestroyLayer(id)
      PROVE  (TransformForgotten /\ RotationKnown)'
  <2>1. peer'.rotation = peer.rotation
    BY <1>3, DestroyLayerStep DEF Same
  <2>2. QED
    BY <1>1, <1>3, <2>1 DEF DestroyLayer, remote
<1>4. ASSUME NEW id \in Alive, SetBuffer(id)
      PROVE  (TransformForgotten /\ RotationKnown)'
  <2>1. peer'.rotation = peer.rotation
    BY <1>4, SetBufferStep DEF Same
  <2>2. QED
    BY <1>1, <1>4, <2>1 DEF SetBuffer, remote
<1>5. ASSUME NEW id \in Alive, SetState(id)
      PROVE  (TransformForgotten /\ RotationKnown)'
  BY <1>1, <1>5, SetStateStep DEF remote
<1>6. CASE SetClientTarget
  <2>1. peer'.rotation = peer.rotation
    BY <1>6, SetClientTargetStep DEF Same
  <2>2. QED
    BY <1>1, <1>6, <2>1 DEF SetClientTarget, remote
<1>7. CASE Validate \/ AcceptChanges
  BY <1>1, <1>7 DEF Validate, AcceptChanges, remote
<1>8. CASE Present
  <2>1. /\ mTransform' = (IF ShowsFb THEN NewTransform ELSE mTransform)
        /\ peer'.rotation = (IF ShowsFb /\ NewTransform # mTransform
                               THEN Rotation(NewTransform) ELSE peer.rotation)
    BY <1>8, PresentStep
  <2>2. uio' = uio /\ mRemoteDisplay' = mRemoteDisplay
    BY <1>8 DEF Present, remote
  <2>3. QED
    BY <2>1, <2>2 DEF TransformForgotten, RotationKnown, Attached, ShowsFb
<1>9. CASE AttachPointer
  <2>1. peer'.rotation = 0 /\ Rotation(0) = 0
    BY <1>9, AttachPointerStep DEF Rotation
  <2>2. /\ ~Attached /\ Attached' /\ uio' = uio /\ mTransform' = mTransform
    BY <1>9 DEF AttachPointer, Attached, NoRemote, Typed, ScalarsTyped
  <2>3. QED
    BY <2>1, <2>2 DEF TransformForgotten, RotationKnown
<1>10. CASE AttachMode
  BY <1>1, <1>10 DEF AttachMode
<1>11. CASE Detach
  BY <1>11 DEF Detach, TransformForgotten, RotationKnown, Attached, TransformLeft
<1>12. CASE UNCHANGED vars
  BY <1>1, <1>12 DEF vars, remote
<1>13. QED
  BY <1>2, <1>3, <1>4, <1>5, <1>6, <1>7, <1>8, <1>9, <1>10, <1>11, <1>12
     DEF Next, SurfaceFlinger

(* Without a UioDisplay mTransform is what the attached remote was told,   *)
(* whatever remotes were there before (detachRemoteDisplay resets it).     *)
THEOREM RotationIsKnown == Spec => []RotationKnown
<1>1. Init => TransformForgotten /\ RotationKnown
  BY DEF Init, TransformForgotten, RotationKnown, Attached
<1>2. QED
  BY <1>1, TypedInit, TypedNext, RotationNext, PTL DEF Spec

(* A present that shows the framebuffer leaves the remote with the         *)
(* rotation of the layers, if they all have the same (updateRotation).     *)
THEOREM RotationIsFollowed == Spec => RotationFollows
<1> DEFINE Follows ==
      Present /\ ShowsFb /\ ~uio =>
        \A t \in Transforms : Alive # {} /\ (\A i \in Alive : Transform(i) = t)
          => peer'.rotation = Rotation(t)
<1>1. Init => TransformForgotten /\ RotationKnown
  BY DEF Init, TransformForgotten, RotationKnown, Attached
<1>2. Typed /\ RotationKnown => Follows
  <2> SUFFICES ASSUME Typed, RotationKnown, Present, ShowsFb, ~uio,
                      NEW t \in Transforms, Alive # {}, \A i \in Alive : Transform(i) = t
               PROVE  peer'.rotation = Rotation(t)
    OBVIOUS
  <2>1. peer'.rotation = (IF NewTransform # mTransform THEN Rotation(NewTransform)
                                                       ELSE peer.rotation)
    BY PresentStep
  <2>2. peer.rotation = Rotation(mTransform)
    BY DEF RotationKnown, ShowsFb
  <2>3. NewTransform = t
    <3>1. LastId(Alive) \in Alive
      BY ChosenIds DEF Typed, LayersTyped
    <3>2. QED
      BY <3>1 DEF NewTransform, Steady
  <2>4. QED
    BY <2>1, <2>2, <2>3
<1>3. Typed /\ RotationKnown => [Follows]_vars
  BY <1>2
<1>4. Spec => [][Follows]_vars
  <2> HIDE DEF Follows
  <2>1. QED
    BY <1>1, <1>3, TypedInit, TypedNext, RotationNext, PTL DEF Spec
<1>5. QED
  BY <1>4 DEF RotationFollows
-----------------------------------------------------------------------------
(* Ids.  Layers get the ids 0, 1, 2, ... and remotes come one after the    *)
(* other, so that a new layer and a new remote are not known to anybody.   *)
IdsUsed ==
  \A i \in Alive \union peer.layers \union DOMAIN peer.infos \union DOMAIN peer.shown :
    i < mLayerIndex

RemotesCame == \A i \in Alive : mLayers[i].mRemoteDisplay <= remotes

BuffersSeen == \A i \in Alive : mLayers[i].mBuffer \in mLayers[i].mBuffers \union {NoBuffer}

Numbered == IdsUsed /\ RemotesCame /\ BuffersSeen

LEMMA NumberedInit == Init => Numbered
<1>1. Init => Alive = {}
  BY DEF Init, Alive
<1>2. Init => peer.layers = {} /\ DOMAIN peer.infos = {} /\ DOMAIN peer.shown = {}
  BY FreshType DEF Init
<1>3. QED
  BY <1>1, <1>2 DEF Numbered, IdsUsed, RemotesCame, BuffersSeen

LEMMA NumberedKept ==
  ASSUME Numbered, Alive' = Alive, mLayerIndex' = mLayerIndex, remotes' = remotes,
         \A i \in Alive : Alike(mLayers[i], mLayers'[i]),
         peer'.layers \subseteq peer.layers,
         DOMAIN peer'.infos \subseteq DOMAIN peer.infos \union peer.layers,
         DOMAIN peer'.shown \subseteq DOMAIN peer.shown \union peer.layers
  PROVE  Numbered'
  BY DEF Numbered, IdsUsed, RemotesCame, BuffersSeen, Alike

LEMMA NumberedNext == Typed /\ Numbered /\ [Next]_vars => Numbered'
<1> SUFFICES ASSUME Typed, Numbered, [Next]_vars PROVE Numbered'
  OBVIOUS
<1>1. CASE CreateLayer
  <2>1. /\ Alive' = Alive \union {mLayerIndex}
        /\ \A i \in Alive : mLayers'[i] = mLayers[i]
        /\ mLayerIndex \notin Alive =>
             /\ mLayers'[mLayerIndex].mBuffer = NoBuffer
             /\ mLayers'[mLayerIndex].mRemoteDisplay = mRemoteDisplay
        /\ peer'.infos = peer.infos /\ peer'.shown = peer.shown
        /\ peer'.layers \subseteq peer.layers \union {mLayerIndex}
    BY <1>1, CreateLayerStep DEF Same
  <2>2. mLayerIndex' = mLayerIndex + 1 /\ remotes' = remotes
    BY <1>1 DEF CreateLayer, remote
  <2>3. mLayerIndex \in Nat /\ mRemoteDisplay <= remotes
    BY DisplayAssumption DEF DisplayAssumption, Typed, ScalarsTyped, NoRemote
  <2>4. /\ Alive \subseteq Nat /\ peer.layers \subseteq Nat
        /\ DOMAIN peer.infos \subseteq Nat /\ DOMAIN peer.shown \subseteq Nat
    BY PeerFields DEF Typed, LayersTyped, LayerIds
  <2>5. IdsUsed'
    BY <2>1, <2>2, <2>3, <2>4 DEF Numbered, IdsUsed
  <2>6. RemotesCame'
    BY <2>1, <2>2, <2>3 DEF Numbered, RemotesCame
  <2>7. BuffersSeen'
    BY <2>1 DEF Numbered, BuffersSeen
  <2>8. QED
    BY <2>5, <2>6, <2>7 DEF Numbered
<1>2. ASSUME NEW id \in Alive, DestroyLayer(id) PROVE Numbered'
  <2>1. /\ Alive' = Alive \ {id} /\ \A i \in Alive' : mLayers'[i] = mLayers[i]
        /\ DOMAIN peer'.infos \subseteq DOMAIN peer.infos
        /\ DOMAIN peer'.shown \subseteq DOMAIN peer.shown
        /\ peer'.layers \subseteq peer.layers
    BY <1>2, DestroyLayerStep
  <2>2. mLayerIndex' = mLayerIndex /\ remotes' = remotes
    BY <1>2 DEF DestroyLayer, remote
  <2>3. QED
    BY <2>1, <2>2 DEF Numbered, IdsUsed, RemotesCame, BuffersSeen
<1>3. ASSUME NEW id \in Alive, SetBuffer(id) PROVE Numbered'
  <2>1. PICK b \in Buffers :
        /\ Alive' = Alive /\ \A i \in Alive \ {id} : mLayers'[i] = mLayers[i]
        /\ mLayers'[id].mBuffers = mLayers[id].mBuffers \union {b}
        /\ mLayers'[id].mBuffer = b
        /\ mLayers'[id].mRemoteDisplay = mLayers[id].mRemoteDisplay
        /\ Same(peer, peer', {"buffers"})
    BY <1>3, SetBufferStep
  <2>2. mLayerIndex' = mLayerIndex /\ remotes' = remotes
    BY <1>3 DEF SetBuffer, remote
  <2>3. IdsUsed'
    BY <2>1, <2>2 DEF Numbered, IdsUsed, Same
  <2>4. RemotesCame' /\ BuffersSeen'
    BY <2>1, <2>2 DEF Numbered, RemotesCame, BuffersSeen
  <2>5. QED
    BY <2>3, <2>4 DEF Numbered
<1>4. ASSUME NEW id \in Alive, SetState(id) PROVE Numbered'
  <2>1. /\ Alive' = Alive /\ \A i \in Alive : Alike(mLayers[i], mLayers'[i])
        /\ mLayerIndex' = mLayerIndex /\ remotes' = remotes /\ peer' = peer
    BY <1>4, SetStateStep DEF Tweaked, Alike, remote
  <2>2. QED
    BY <2>1, NumberedKept
<1>5. CASE Validate \/ AcceptChanges
  <2>1. Alive' = Alive /\ \A i \in Alive : Alike(mLayers[i], mLayers'[i])
    BY <1>5, ValidateStep, AcceptChangesStep
  <2>2. mLayerIndex' = mLayerIndex /\ remotes' = remotes /\ peer' = peer
    BY <1>5 DEF Validate, AcceptChanges, remote
  <2>3. QED
    BY <2>1, <2>2, NumberedKept
<1>6. CASE SetClientTarget
  <2>1. Same(peer, peer', {"buffers"})
    BY <1>6, SetClientTargetStep
  <2>2. mLayerIndex' = mLayerIndex /\ remotes' = remotes /\ mLayers' = mLayers
    BY <1>6 DEF SetClientTarget, remote
  <2>3. QED
    BY <2>1, <2>2, NumberedKept DEF Alive, Alike, Same
<1>7. CASE Present
  <2>1. Alive' = Alive /\ \A i \in Alive : Alike(mLayers[i], mLayers'[i])
    BY <1>7, PresentStep
  <2>2. mLayerIndex' = mLayerIndex /\ remotes' = remotes
    BY <1>7 DEF Present, remote
  <2>3. /\ peer'.layers = peer.layers
        /\ DOMAIN peer'.infos \subseteq DOMAIN peer.infos \union peer.layers
        /\ DOMAIN peer'.shown \subseteq DOMAIN peer.shown \union peer.layers
    BY <1>7, PresentStep DEF Same
  <2>4. QED
    BY <2>1, <2>2, <2>3, NumberedKept
<1>8. CASE AttachPointer
  <2>1. peer'.layers = {} /\ DOMAIN peer'.infos = {} /\ DOMAIN peer'.shown = {}
    BY <1>8, AttachPointerStep
  <2>2. mLayerIndex' = mLayerIndex /\ remotes' = remotes + 1 /\ mLayers' = mLayers
    BY <1>8 DEF AttachPointer
  <2>3. remotes \in Nat
    BY DisplayAssumption DEF DisplayAssumption, Typed, ScalarsTyped
  <2>4. \A i \in Alive : mLayers[i].mRemoteDisplay \in Nat
    BY DisplayAssumption DEF DisplayAssumption, Typed, LayersTyped, Layers
  <2>5. RemotesCame'
    BY <2>2, <2>3, <2>4 DEF Numbered, RemotesCame, Alive
  <2>6. IdsUsed' /\ BuffersSeen'
    BY <2>1, <2>2 DEF Numbered, IdsUsed, BuffersSeen, Alive
  <2>7. QED
    BY <2>5, <2>6 DEF Numbered
<1>9. CASE Detach
  <2>1. peer'.layers = {} /\ DOMAIN peer'.infos = {} /\ DOMAIN peer'.shown = {}
    BY <1>9, DetachStep
  <2>2. mLayerIndex' = mLayerIndex /\ remotes' = remotes /\ mLayers' = mLayers
    BY <1>9 DEF Detach
  <2>3. QED
    BY <2>1, <2>2 DEF Numbered, IdsUsed, RemotesCame, BuffersSeen, Alive
<1>10. CASE AttachMode \/ UNCHANGED vars
  <2>1. /\ mLayerIndex' = mLayerIndex /\ remotes' = remotes
        /\ mLayers' = mLayers /\ peer' = peer
    BY <1>10 DEF AttachMode, vars, remote
  <2>2. QED
    BY <2>1 DEF Numbered, IdsUsed, RemotesCame, BuffersSeen, Alive
<1>11. QED
  BY <1>1, <1>2, <1>3, <1>4, <1>5, <1>6, <1>7, <1>8, <1>9, <1>10
     DEF Next, SurfaceFlinger

-----------------------------------------------------------------------------
(* Buffers.  The targets on record are those the attached remote was told  *)
(* of, and none are while there is no remote.                              *)
TargetsTold == mFbtBuffers \subseteq IF Attached THEN peer.buffers ELSE {}

LEMMA AnnouncedKept ==
  ASSUME TargetsTold, Announced, Alive' = Alive,
         UNCHANGED <<mRemoteDisplay, mFbtBuffers, mFbTarget, olderTarget>>,
         \A i \in Alive : Alike(mLayers[i], mLayers'[i]),
         \A i \in Alive : Shown(i)' \in {Shown(i), mLayers[i].mBuffer},
         BuffersSeen, peer'.buffers = peer.buffers
  PROVE  (TargetsTold /\ Announced)'
<1>1. TargetsTold'
  BY DEF TargetsTold, Attached
<1>2. ASSUME NEW i \in Alive, Attached, mLayers'[i].mRemoteDisplay = mRemoteDisplay
      PROVE  mLayers'[i].mBuffers \union ({Shown(i)'} \ {NoBuffer}) \subseteq peer'.buffers
  <2>1. mLayers[i].mBuffers \union ({Shown(i)} \ {NoBuffer}) \subseteq peer.buffers
    BY <1>2 DEF Announced, Alike
  <2>2. QED
    BY <2>1 DEF Alike, BuffersSeen
<1>3. QED
  BY <1>1, <1>2 DEF Announced, Attached

LEMMA AnnouncedNext ==
  Typed /\ Numbered /\ TargetsTold /\ Announced /\ [Next]_vars
    => (TargetsTold /\ Announced)'
<1> SUFFICES ASSUME Typed, Numbered, TargetsTold, Announced, [Next]_vars
             PROVE  (TargetsTold /\ Announced)'
  OBVIOUS
<1>0. BuffersSeen
  BY DEF Numbered
<1>1. CASE CreateLayer
  <2>1. /\ Alive' = Alive \union {mLayerIndex}
        /\ \A i \in Alive : mLayers'[i] = mLayers[i]
        /\ mLayerIndex \notin Alive => mLayers'[mLayerIndex].mBuffers = {}
        /\ peer'.shown = peer.shown /\ peer'.buffers = peer.buffers
    BY <1>1, CreateLayerStep DEF Same
  <2>2. UNCHANGED <<mRemoteDisplay, mFbtBuffers, mFbTarget, olderTarget>>
    BY <1>1 DEF CreateLayer, remote, target
  <2>3. mLayerIndex \notin DOMAIN peer.shown /\ \A i \in Alive' : Shown(i)' = Shown(i)
    BY <2>1, DisplayAssumption
       DEF DisplayAssumption, Numbered, IdsUsed, Shown, Typed, ScalarsTyped
  <2>4. Shown(mLayerIndex) = NoBuffer
    BY <2>3 DEF Shown
  <2>5. TargetsTold'
    BY <2>1, <2>2 DEF TargetsTold, Attached
  <2>6. ASSUME NEW i \in Alive', Attached, mLayers'[i].mRemoteDisplay = mRemoteDisplay
        PROVE  mLayers'[i].mBuffers \union ({Shown(i)'} \ {NoBuffer}) \subseteq peer'.buffers
    BY <2>1, <2>3, <2>4, <2>6 DEF Announced
  <2>7. QED
    BY <2>1, <2>2, <2>5, <2>6 DEF Announced, Attached
<1>2. ASSUME NEW id \in Alive, DestroyLayer(id) PROVE (TargetsTold /\ Announced)'
  <2>1. /\ Alive' = Alive \ {id} /\ \A i \in Alive' : mLayers'[i] = mLayers[i]
        /\ DOMAIN peer'.shown \subseteq DOMAIN peer.shown
        /\ \A i \in Alive' : i \in DOMAIN peer.shown =>
             i \in DOMAIN peer'.shown /\ peer'.shown[i] = peer.shown[i]
        /\ peer'.buffers = peer.buffers
    BY <1>2, DestroyLayerStep DEF Same
  <2>2. UNCHANGED <<mRemoteDisplay, mFbtBuffers, mFbTarget, olderTarget>>
    BY <1>2 DEF DestroyLayer, remote, target
  <2>3. \A i \in Alive' : Shown(i)' = Shown(i)
    BY <2>1 DEF Shown
  <2>4. QED
    BY <2>1, <2>2, <2>3 DEF TargetsTold, Announced, Attached
<1>3. ASSUME NEW id \in Alive, SetBuffer(id) PROVE (TargetsTold /\ Announced)'
  <2>1. PICK b \in Buffers :
        /\ Alive' = Alive /\ \A i \in Alive \ {id} : mLayers'[i] = mLayers[i]
        /\ mLayers'[id].mBuffers = mLayers[id].mBuffers \union {b}
        /\ mLayers'[id].mRemoteDisplay = mLayers[id].mRemoteDisplay
        /\ Same(peer, peer', {"buffers"}) /\ peer.buffers \subseteq peer'.buffers
        /\ Attached /\ mLayers[id].mRemoteDisplay = mRemoteDisplay =>
              b \in mLayers[id].mBuffers \union peer'.buffers
    BY <1>3, SetBufferStep
  <2>2. UNCHANGED <<mRemoteDisplay, mFbtBuffers, mFbTarget, olderTarget>>
    BY <1>3 DEF SetBuffer, remote, target
  <2>3. \A i \in Alive : Shown(i)' = Shown(i)
    BY <2>1 DEF Shown, Same
  <2>4. TargetsTold'
    BY <2>1, <2>2 DEF TargetsTold, Attached
  <2>5. ASSUME NEW i \in Alive, Attached, mLayers'[i].mRemoteDisplay = mRemoteDisplay
        PROVE  mLayers'[i].mBuffers \union ({Shown(i)'} \ {NoBuffer}) \subseteq peer'.buffers
    BY <2>1, <2>3, <2>5 DEF Announced
  <2>6. QED
    BY <2>1, <2>2, <2>4, <2>5 DEF Announced, Attached
<1>4. ASSUME NEW id \in Alive, SetState(id) PROVE (TargetsTold /\ Announced)'
  <2>1. /\ Alive' = Alive /\ \A i \in Alive : Alike(mLayers[i], mLayers'[i])
        /\ UNCHANGED <<mRemoteDisplay, mFbtBuffers, mFbTarget, olderTarget, peer>>
    BY <1>4, SetStateStep DEF Tweaked, Alike, remote, target
  <2>2. \A i \in Alive : Shown(i)' = Shown(i)
    BY <2>1 DEF Shown
  <2>3. QED
    BY <1>0, <2>1, <2>2, AnnouncedKept
<1>5. CASE Validate \/ AcceptChanges
  <2>1. Alive' = Alive /\ \A i \in Alive : Alike(mLayers[i], mLayers'[i])
    BY <1>5, ValidateStep, AcceptChangesStep
  <2>2. UNCHANGED <<mRemoteDisplay, mFbtBuffers, mFbTarget, olderTarget, peer>>
    BY <1>5 DEF Validate, AcceptChanges, remote, target
  <2>3. \A i \in Alive : Shown(i)' = Shown(i)
    BY <2>2 DEF Shown
  <2>4. QED
    BY <1>0, <2>1, <2>2, <2>3, AnnouncedKept
<1>6. CASE SetClientTarget
  <2>1. /\ ~Attached => mFbtBuffers' = mFbtBuffers
        /\ Attached => mFbTarget' \in mFbtBuffers'
        /\ Same(peer, peer', {"buffers"}) /\ peer.buffers \subseteq peer'.buffers
        /\ mFbtBuffers' \subseteq mFbtBuffers \union peer'.buffers
    BY <1>6, SetClientTargetStep
  <2>2. mLayers' = mLayers /\ mRemoteDisplay' = mRemoteDisplay /\ olderTarget' = ~Attached
    BY <1>6 DEF SetClientTarget, remote
  <2>3. TargetsTold'
    BY <2>1, <2>2 DEF TargetsTold, Attached
  <2>4. \A i \in Alive : Shown(i)' = Shown(i)
    BY <2>1 DEF Shown, Same
  <2>5. Attached => mFbTarget' \in peer'.buffers
    BY <2>1, <2>2, <2>3 DEF TargetsTold, Attached
  <2>6. ASSUME NEW i \in Alive, Attached, mLayers[i].mRemoteDisplay = mRemoteDisplay
        PROVE  mLayers[i].mBuffers \union ({Shown(i)'} \ {NoBuffer}) \subseteq peer'.buffers
    BY <2>1, <2>4, <2>6 DEF Announced
  <2>7. QED
    BY <2>2, <2>3, <2>5, <2>6 DEF Announced, Attached, Alive
<1>7. CASE Present
  <2>1. Alive' = Alive /\ \A i \in Alive : Alike(mLayers[i], mLayers'[i])
    BY <1>7, PresentStep
  <2>2. /\ UNCHANGED <<mRemoteDisplay, mFbtBuffers, mFbTarget, olderTarget>>
        /\ peer'.buffers = peer.buffers
    BY <1>7, PresentStep DEF Present, remote, target, Same
  <2>3. \A i \in Alive : Shown(i)' \in {Shown(i), mLayers[i].mBuffer}
    <3>1. /\ ~ShowsLayers => peer'.shown = peer.shown
          /\ ShowsLayers =>
               /\ DOMAIN peer'.shown = DOMAIN peer.shown \union (Flips \intersect peer.layers)
               /\ \A i \in DOMAIN peer'.shown : peer'.shown[i] =
                    IF i \in Flips THEN mLayers[i].mBuffer ELSE peer.shown[i]
      BY <1>7, PresentStep
    <3>2. QED
      BY <3>1 DEF Shown
  <2>4. QED
    BY <1>0, <2>1, <2>2, <2>3, AnnouncedKept
<1>8. CASE AttachPointer
  <2>1. DOMAIN peer'.shown = {} /\ peer'.buffers = {}
    BY <1>8, AttachPointerStep
  <2>2. /\ mLayers' = mLayers /\ mFbtBuffers' = mFbtBuffers /\ mRemoteDisplay' = remotes + 1
        /\ ~Attached /\ olderTarget'
    BY <1>8 DEF AttachPointer
  <2>3. remotes \in Nat /\ \A i \in Alive : mLayers[i].mRemoteDisplay \in Nat
    BY DisplayAssumption DEF DisplayAssumption, Typed, ScalarsTyped, LayersTyped, Layers
  <2>4. \A i \in Alive : mLayers'[i].mRemoteDisplay # mRemoteDisplay'
    BY <2>2, <2>3 DEF Numbered, RemotesCame
  <2>5. TargetsTold'
    BY <2>2 DEF TargetsTold
  <2>6. QED
    BY <2>2, <2>4, <2>5 DEF Announced, Alive
<1>9. CASE Detach
  <2>1. mFbtBuffers' = {} /\ ~Attached'
    BY <1>9 DEF Detach, Attached, FbtBuffersLeft
  <2>2. QED
    BY <2>1 DEF TargetsTold, Announced
<1>10. CASE AttachMode \/ UNCHANGED vars
  <2>1. /\ mLayers' = mLayers
        /\ UNCHANGED <<mRemoteDisplay, mFbtBuffers, mFbTarget, olderTarget, peer>>
    BY <1>10 DEF AttachMode, vars, remote, target
  <2>2. Alive' = Alive /\ \A i \in Alive : Shown(i)' = Shown(i)
    BY <2>1 DEF Shown, Alive
  <2>3. QED
    BY <1>0, <2>1, <2>2, AnnouncedKept DEF Alike
<1>11. QED
  BY <1>1, <1>2, <1>3, <1>4, <1>5, <1>6, <1>7, <1>8, <1>9, <1>10
     DEF Next, SurfaceFlinger

(* Client targets set since the remote came and buffers of layers created  *)
(* since then are announced to it before it is asked to show them          *)
(* (setClientTarget, Hwc2Layer::setBuffer).  Nothing is claimed of a       *)
(* target that was set before, which present shows all the same, nor of    *)
(* older layers.                                                           *)
THEOREM BuffersAreAnnounced == Spec => []Announced
<1>1. Init => TargetsTold /\ Announced
  BY DEF Init, TargetsTold, Announced, Attached
<1>2. QED
  BY <1>1, TypedInit, TypedNext, NumberedInit, NumberedNext, AnnouncedNext, PTL DEF Spec
-----------------------------------------------------------------------------
(* Modes.  attach stores the mode last: from then on it is the mode the    *)
(* remote asked for.  Meanwhile the mode of the remote before decides what *)
(* the new one is told of layers, which can only be all or nothing.        *)
AttachHandsOver ==
  /\ attaching => /\ Attached
                  /\ peer.layers \subseteq Alive
                  /\ mMode = 0 => peer.layers = {}
  /\ Settled => mMode = peer.mode

LEMMA HandsOverInit == Init => AttachHandsOver
  BY DEF Init, AttachHandsOver, Attached, Settled

LEMMA HandsOverNext == Typed /\ AttachHandsOver /\ [Next]_vars => AttachHandsOver'
<1> SUFFICES ASSUME Typed, AttachHandsOver, [Next]_vars PROVE AttachHandsOver'
  OBVIOUS
<1> USE DEF AttachHandsOver, Attached, Settled
<1>0. mMode \in 0 .. 2
  BY DEF Typed, ScalarsTyped
<1>1. ASSUME UNCHANGED <<mRemoteDisplay, mMode, attaching>>, Alive' = Alive,
             peer'.mode = peer.mode, peer'.layers = peer.layers
      PROVE  AttachHandsOver'
  BY <1>1
<1>2. CASE CreateLayer
  <2>1. /\ Alive' = Alive \union {mLayerIndex} /\ peer'.mode = peer.mode
        /\ peer'.layers = IF ShowsLayers THEN peer.layers \union {mLayerIndex}
                                         ELSE peer.layers
    BY <1>2, CreateLayerStep DEF Same
  <2>2. UNCHANGED <<mRemoteDisplay, mMode, attaching>>
    BY <1>2 DEF CreateLayer, remote
  <2>3. QED
    BY <2>1, <2>2 DEF ShowsLayers
<1>3. ASSUME NEW id \in Alive, DestroyLayer(id) PROVE AttachHandsOver'
  <2>1. /\ Alive' = Alive \ {id} /\ peer'.mode = peer.mode
        /\ peer'.layers = IF ShowsLayers THEN peer.layers \ {id} ELSE peer.layers
    BY <1>3, DestroyLayerStep DEF Same
  <2>2. UNCHANGED <<mRemoteDisplay, mMode, attaching>>
    BY <1>3 DEF DestroyLayer, remote
  <2>3. CASE attaching
    <3>1. peer'.layers \subseteq Alive'
      BY <1>0, <2>1, <2>3 DEF ShowsLayers
    <3>2. QED
      BY <2>1, <2>2, <2>3, <3>1
  <2>4. CASE ~attaching
    BY <2>1, <2>2, <2>4
  <2>5. QED
    BY <2>3, <2>4
<1>4. ASSUME NEW id \in Alive, SetBuffer(id) PROVE AttachHandsOver'
  <2>1. Alive' = Alive /\ Same(peer, peer', {"buffers"})
    BY <1>4, SetBufferStep
  <2>2. QED
    BY <1>1, <1>4, <2>1 DEF SetBuffer, remote, Same
<1>5. ASSUME NEW id \in Alive, SetState(id) PROVE AttachHandsOver'
  BY <1>1, <1>5, SetStateStep DEF remote
<1>6. CASE Validate \/ AcceptChanges
  <2>1. Alive' = Alive
    BY <1>6, ValidateStep, AcceptChangesStep
  <2>2. QED
    BY <1>1, <1>6, <2>1 DEF Validate, AcceptChanges, remote
<1>7. CASE SetClientTarget
  <2>1. Same(peer, peer', {"buffers"})
    BY <1>7, SetClientTargetStep
  <2>2. QED
    BY <1>1, <1>7, <2>1 DEF SetClientTarget, remote, Same, Alive
<1>8. CASE Present
  <2>1. Alive' = Alive /\ Same(peer, peer', {"rotation", "infos", "shown", "requests"})
    BY <1>8, PresentStep
  <2>2. QED
    BY <1>1, <1>8, <2>1 DEF Present, remote, Same
<1>9. CASE AttachPointer
  <2>1. peer'.layers = {}
    BY <1>9, AttachPointerStep
  <2>2. attaching' /\ mRemoteDisplay' # NoRemote
    BY <1>9, DisplayAssumption
       DEF DisplayAssumption, AttachPointer, NoRemote, Typed, ScalarsTyped
  <2>3. QED
    BY <2>1, <2>2
<1>10. CASE AttachMode
  BY <1>10 DEF AttachMode
<1>11. CASE Detach
  BY <1>11 DEF Detach
<1>12. CASE UNCHANGED vars
  BY <1>1, <1>12 DEF vars, remote, Alive
<1>13. QED
  BY <1>2, <1>3, <1>4, <1>5, <1>6, <1>7, <1>8, <1>9, <1>10, <1>11, <1>12
     DEF Next, SurfaceFlinger

LEMMA ModeNext ==
  Typed /\ AttachHandsOver /\ RespectsMode /\ [Next]_vars => RespectsMode'
<1> SUFFICES ASSUME Typed, AttachHandsOver, RespectsMode, [Next]_vars PROVE RespectsMode'
  OBVIOUS
<1>1. ASSUME peer'.mode = peer.mode,
             "fb" \in peer'.requests => "fb" \in peer.requests \/ (~attaching /\ ShowsFb),
             "layers" \in peer'.requests =>
               "layers" \in peer.requests \/ (~attaching /\ ShowsLayers)
      PROVE  RespectsMode'
  BY <1>1 DEF RespectsMode, AttachHandsOver, Settled, ShowsFb, ShowsLayers
<1>2. CASE CreateLayer
  <2>1. /\ peer'.mode = peer.mode
        /\ peer'.requests = IF ShowsLayers /\ ~attaching
                               THEN peer.requests \union {"layers"} ELSE peer.requests
    BY <1>2, CreateLayerStep DEF Same
  <2>2. QED
    BY <1>1, <2>1
<1>3. ASSUME NEW id \in Alive, DestroyLayer(id) PROVE RespectsMode'
  <2>1. /\ peer'.mode = peer.mode
        /\ peer'.requests = IF ShowsLayers /\ ~attaching
                               THEN peer.requests \union {"layers"} ELSE peer.requests
    BY <1>3, DestroyLayerStep DEF Same
  <2>2. QED
    BY <1>1, <2>1
<1>4. ASSUME NEW id \in Alive, SetBuffer(id) PROVE RespectsMode'
  BY <1>1, <1>4, SetBufferStep DEF Same
<1>5. ASSUME NEW id \in Alive, SetState(id) PROVE RespectsMode'
  BY <1>1, <1>5, SetStateStep
<1>6. CASE SetClientTarget
  BY <1>1, <1>6, SetClientTargetStep DEF Same
<1>7. CASE Present
  BY <1>1, <1>7, PresentStep DEF Same
<1>8. CASE AttachPointer \/ Detach
  <2>1. peer'.requests = {}
    BY <1>8, AttachPointerStep, DetachStep
  <2>2. QED
    BY <2>1 DEF RespectsMode
<1>9. CASE Validate \/ AcceptChanges \/ AttachMode \/ UNCHANGED vars
  BY <1>1, <1>9 DEF Validate, AcceptChanges, AttachMode, vars
<1>10. QED
  BY <1>2, <1>3, <1>4, <1>5, <1>6, <1>7, <1>8, <1>9 DEF Next, SurfaceFlinger

(* A remote that has been attached gets requests of the kinds it asked     *)
(* for and no others, also when it follows one of another mode.            *)
THEOREM ModeIsRespected == Spec => []RespectsMode
<1>1. Init => RespectsMode
  BY FreshType DEF Init, RespectsMode
<1>2. QED
  BY <1>1, TypedInit, TypedNext, HandsOverInit, HandsOverNext, ModeNext, PTL DEF Spec

-----------------------------------------------------------------------------
(* Layers.                                                                 *)
LEMMA KnownNext ==
  Typed /\ AttachHandsOver /\ LayersKnown /\ [Next]_vars => LayersKnown'
<1> SUFFICES ASSUME Typed, AttachHandsOver, LayersKnown, [Next]_vars PROVE LayersKnown'
  OBVIOUS
<1>0. Settled /\ peer.mode > 0 => ShowsLayers
  BY DEF AttachHandsOver, Settled, ShowsLayers
<1>1. ASSUME UNCHANGED <<mRemoteDisplay, attaching, older>>, Alive' = Alive,
             peer'.mode = peer.mode, peer'.layers = peer.layers
      PROVE  LayersKnown'
  BY <1>1 DEF LayersKnown, Settled, Attached
<1>2. CASE CreateLayer
  <2>1. /\ Alive' = Alive \union {mLayerIndex} /\ peer'.mode = peer.mode
        /\ peer'.layers = IF ShowsLayers THEN peer.layers \union {mLayerIndex}
                                         ELSE peer.layers
    BY <1>2, CreateLayerStep DEF Same
  <2>2. UNCHANGED <<mRemoteDisplay, attaching, older>>
    BY <1>2 DEF CreateLayer, remote
  <2>3. QED
    BY <1>0, <2>1, <2>2 DEF LayersKnown, Settled, Attached
<1>3. ASSUME NEW id \in Alive, DestroyLayer(id) PROVE LayersKnown'
  <2>1. /\ Alive' = Alive \ {id} /\ peer'.mode = peer.mode
        /\ peer'.layers = IF ShowsLayers THEN peer.layers \ {id} ELSE peer.layers
    BY <1>3, DestroyLayerStep DEF Same
  <2>2. UNCHANGED <<mRemoteDisplay, attaching>> /\ older' = older \ {id}
    BY <1>3 DEF DestroyLayer, remote
  <2>3. QED
    BY <1>0, <2>1, <2>2 DEF LayersKnown, Settled, Attached
<1>4. ASSUME NEW id \in Alive, SetBuffer(id) PROVE LayersKnown'
  <2>1. Alive' = Alive /\ Same(peer, peer', {"buffers"})
    BY <1>4, SetBufferStep
  <2>2. QED
    BY <1>1, <1>4, <2>1 DEF SetBuffer, remote, Same
<1>5. ASSUME NEW id \in Alive, SetState(id) PROVE LayersKnown'
  BY <1>1, <1>5, SetStateStep DEF remote
<1>6. CASE Validate \/ AcceptChanges
  <2>1. Alive' = Alive
    BY <1>6, ValidateStep, AcceptChangesStep
  <2>2. QED
    BY <1>1, <1>6, <2>1 DEF Validate, AcceptChanges, remote
<1>7. CASE SetClientTarget
  <2>1. Same(peer, peer', {"buffers"})
    BY <1>7, SetClientTargetStep
  <2>2. QED
    BY <1>1, <1>7, <2>1 DEF SetClientTarget, remote, Same, Alive
<1>8. CASE Present
  <2>1. Alive' = Alive /\ Same(peer, peer', {"rotation", "infos", "shown", "requests"})
    BY <1>8, PresentStep
  <2>2. QED
    BY <1>1, <1>8, <2>1 DEF Present, remote, Same
<1>9. CASE AttachPointer \/ Detach
  <2>1. ~Settled'
    BY <1>9 DEF AttachPointer, Detach, Settled, Attached
  <2>2. QED
    BY <2>1 DEF LayersKnown
<1>10. CASE AttachMode
  <2>1. peer.layers \subseteq Alive /\ peer' = peer /\ older' = Alive /\ mLayers' = mLayers
    BY <1>10 DEF AttachMode, AttachHandsOver
  <2>2. QED
    BY <2>1 DEF LayersKnown, Alive
<1>11. CASE UNCHANGED vars
  BY <1>1, <1>11 DEF vars, remote, Alive
<1>12. QED
  BY <1>2, <1>3, <1>4, <1>5, <1>6, <1>7, <1>8, <1>9, <1>10, <1>11
     DEF Next, SurfaceFlinger

(* A remote that shows layers knows each layer created since it came and   *)
(* none that is gone, through every change of remote and of mode.          *)
THEOREM LayersAreKnown == Spec => []LayersKnown
<1>1. Init => LayersKnown
  BY DEF Init, LayersKnown, Settled, Attached
<1>2. QED
  BY <1>1, TypedInit, TypedNext, HandsOverInit, HandsOverNext, KnownNext, PTL DEF Spec

(* A layer is copied: marked, or the remote has its state and its buffer.  *)
InfoCopied(i) ==
  \/ mLayers[i].mInfo.changed
  \/ /\ i \in DOMAIN peer.infos
     /\ \E z \in Orders : peer.infos[i] = [Sent(mLayers[i].mInfo) EXCEPT !.z = z]

BufferCopied(i) == mLayers[i].bufferChanged \/ Shown(i) = mLayers[i].mBuffer

Copied ==
  Settled /\ peer.mode > 0 => \A i \in Alive \ older : InfoCopied(i) /\ BufferCopied(i)

(* What a mark hides, and what a new z order changes, in a copy.           *)
LEMMA SentFields ==
  ASSUME NEW info \in Infos
  PROVE  /\ Sent([info EXCEPT !.changed = FALSE]) = Sent(info)
         /\ Sent(info) = [Sent(info) EXCEPT !.z = info.z] /\ info.z \in Orders
<1>1. Sent([info EXCEPT !.changed = FALSE]) = Sent(info)
  BY DEF Sent, Infos
<1>2. Sent(info) = [Sent(info) EXCEPT !.z = info.z] /\ info.z \in Orders
  BY DEF Sent, Infos
<1>3. QED
  BY <1>1, <1>2

LEMMA SentButZ ==
  ASSUME NEW info \in Infos, NEW z \in Orders, NEW y \in Orders,
         NEW k, k = [info EXCEPT !.z = z]
  PROVE  [Sent(k) EXCEPT !.z = y] = [Sent(info) EXCEPT !.z = y]
  BY DEF Sent, Infos

LEMMA CopiedNext ==
  Typed /\ Numbered /\ AttachHandsOver /\ LayersKnown /\ Copied /\ [Next]_vars => Copied'
<1> SUFFICES ASSUME Typed, Numbered, AttachHandsOver, LayersKnown, Copied, [Next]_vars
             PROVE  Copied'
  OBVIOUS
<1>0. Settled /\ peer.mode > 0 => ShowsLayers
  BY DEF AttachHandsOver, Settled, ShowsLayers
<1>1. ASSUME UNCHANGED <<mRemoteDisplay, attaching, older>>, Alive' = Alive,
             peer'.mode = peer.mode,
             ASSUME NEW i \in Alive, InfoCopied(i), BufferCopied(i)
             PROVE  (InfoCopied(i) /\ BufferCopied(i))'
      PROVE  Copied'
  BY <1>1 DEF Copied, Settled, Attached
<1>2. ASSUME UNCHANGED <<mRemoteDisplay, attaching, older, mLayers>>,
             Same(peer, peer', {"buffers"})
      PROVE  Copied'
  <2>1. /\ peer'.mode = peer.mode /\ peer'.infos = peer.infos /\ peer'.shown = peer.shown
        /\ mLayers' = mLayers
    BY <1>2 DEF Same
  <2>2. ASSUME NEW i \in Alive, InfoCopied(i), BufferCopied(i)
        PROVE  (InfoCopied(i) /\ BufferCopied(i))'
    BY <2>1, <2>2 DEF InfoCopied, BufferCopied, Shown
  <2>3. QED
    BY <1>1, <1>2, <2>1, <2>2 DEF Alive
<1>3. CASE CreateLayer
  <2>1. /\ Alive' = Alive \union {mLayerIndex}
        /\ \A i \in Alive : mLayers'[i] = mLayers[i]
        /\ mLayerIndex \notin Alive =>
             LET l == mLayers'[mLayerIndex] IN
             l.mBuffer = NoBuffer /\ l.mInfo.changed = TRUE
        /\ peer'.mode = peer.mode /\ peer'.infos = peer.infos /\ peer'.shown = peer.shown
    BY <1>3, CreateLayerStep DEF Same
  <2>2. UNCHANGED <<mRemoteDisplay, attaching, older>>
    BY <1>3 DEF CreateLayer, remote
  <2>3. mLayerIndex \notin DOMAIN peer.shown
    BY DisplayAssumption DEF DisplayAssumption, Numbered, IdsUsed, Typed, ScalarsTyped
  <2>4. ASSUME NEW i \in Alive' \ Alive PROVE (InfoCopied(i) /\ BufferCopied(i))'
    <3>1. i = mLayerIndex
      BY <2>1
    <3>2. mLayers'[i].mInfo.changed = TRUE /\ mLayers'[i].mBuffer = NoBuffer
      BY <2>1, <3>1
    <3>3. i \notin DOMAIN peer'.shown
      BY <2>1, <2>3, <3>1
    <3>4. QED
      BY <3>2, <3>3 DEF InfoCopied, BufferCopied, Shown
  <2>5. ASSUME NEW i \in Alive, InfoCopied(i), BufferCopied(i)
        PROVE  (InfoCopied(i) /\ BufferCopied(i))'
    BY <2>1, <2>5 DEF InfoCopied, BufferCopied, Shown
  <2>6. QED
    BY <2>1, <2>2, <2>4, <2>5 DEF Copied, Settled, Attached
<1>4. ASSUME NEW id \in Alive, DestroyLayer(id) PROVE Copied'
  <2>1. /\ Alive' = Alive \ {id} /\ \A i \in Alive' : mLayers'[i] = mLayers[i]
        /\ DOMAIN peer'.shown \subseteq DOMAIN peer.shown
        /\ \A i \in Alive' : i \in DOMAIN peer.infos =>
              i \in DOMAIN peer'.infos /\ peer'.infos[i] = peer.infos[i]
        /\ \A i \in Alive' : i \in DOMAIN peer.shown =>
              i \in DOMAIN peer'.shown /\ peer'.shown[i] = peer.shown[i]
        /\ peer'.mode = peer.mode
    BY <1>4, DestroyLayerStep DEF Same
  <2>2. UNCHANGED <<mRemoteDisplay, attaching>> /\ older' = older \ {id}
    BY <1>4 DEF DestroyLayer, remote
  <2>3. ASSUME NEW i \in Alive', InfoCopied(i), BufferCopied(i)
        PROVE  (InfoCopied(i) /\ BufferCopied(i))'
    BY <2>1, <2>3 DEF InfoCopied, BufferCopied, Shown
  <2>4. QED
    BY <2>1, <2>2, <2>3 DEF Copied, Settled, Attached
<1>5. ASSUME NEW id \in Alive, SetBuffer(id) PROVE Copied'
  <2>1. PICK b \in Buffers :
        /\ Alive' = Alive /\ \A i \in Alive \ {id} : mLayers'[i] = mLayers[i]
        /\ mLayers'[id].mBuffer = b
        /\ mLayers'[id].mInfo = mLayers[id].mInfo
        /\ mLayers'[id].bufferChanged =
             (mLayers[id].bufferChanged \/ mLayers[id].mBuffer # b)
        /\ Same(peer, peer', {"buffers"})
    BY <1>5, SetBufferStep
  <2>2. UNCHANGED <<mRemoteDisplay, attaching, older>>
    BY <1>5 DEF SetBuffer, remote
  <2>3. peer'.infos = peer.infos /\ peer'.shown = peer.shown /\ peer'.mode = peer.mode
    BY <2>1 DEF Same
  <2>4. ASSUME NEW i \in Alive, InfoCopied(i), BufferCopied(i)
        PROVE  (InfoCopied(i) /\ BufferCopied(i))'
    <3>1. mLayers'[i].mInfo = mLayers[i].mInfo
      BY <2>1
    <3>2. InfoCopied(i)'
      BY <2>3, <2>4, <3>1 DEF InfoCopied
    <3>3. BufferCopied(i)'
      BY <2>1, <2>3, <2>4 DEF BufferCopied, Shown
    <3>4. QED
      BY <3>2, <3>3
  <2>5. QED
    BY <1>1, <2>1, <2>2, <2>3, <2>4
<1>6. ASSUME NEW id \in Alive, SetState(id) PROVE Copied'
  <2>1. /\ Alive' = Alive /\ \A i \in Alive \ {id} : mLayers'[i] = mLayers[i]
        /\ Tweaked(mLayers[id], mLayers'[id])
        /\ UNCHANGED <<mRemoteDisplay, attaching, older, peer>>
    BY <1>6, SetStateStep DEF remote
  <2>2. mLayers[id].mInfo \in Infos
    BY DEF Typed, LayersTyped, Layers
  <2>3. ASSUME NEW i \in Alive, InfoCopied(i), BufferCopied(i)
        PROVE  (InfoCopied(i) /\ BufferCopied(i))'
    <3>1. BufferCopied(i)'
      BY <2>1, <2>3 DEF BufferCopied, Shown, Tweaked
    <3>2. CASE i # id \/ mLayers'[i].mInfo.changed = TRUE
      BY <2>1, <2>3, <3>1, <3>2 DEF InfoCopied
    <3>3. CASE i = id /\ mLayers'[id].mInfo.changed # TRUE
      <4>1. PICK z \in Orders : mLayers'[id].mInfo = [mLayers[id].mInfo EXCEPT !.z = z]
        BY <2>1, <3>3 DEF Tweaked
      <4>2. \A y \in Orders : [Sent(mLayers'[id].mInfo) EXCEPT !.z = y]
                              = [Sent(mLayers[id].mInfo) EXCEPT !.z = y]
        BY <2>2, <4>1, SentButZ
      <4>3. mLayers'[id].mInfo.changed = mLayers[id].mInfo.changed
        BY <2>1, <3>3 DEF Tweaked
      <4>4. InfoCopied(i)'
        BY <2>1, <2>3, <3>3, <4>2, <4>3 DEF InfoCopied
      <4>5. QED
        BY <3>1, <4>4
    <3>4. QED
      BY <3>2, <3>3
  <2>4. QED
    BY <1>1, <2>1, <2>3
<1>7. CASE Validate \/ AcceptChanges
  <2>1. /\ Alive' = Alive
        /\ \A i \in Alive : /\ Alike(mLayers[i], mLayers'[i])
                            /\ mLayers'[i].mInfo = mLayers[i].mInfo
                            /\ mLayers'[i].bufferChanged = mLayers[i].bufferChanged
    BY <1>7, ValidateStep, AcceptChangesStep
  <2>2. UNCHANGED <<mRemoteDisplay, attaching, older, peer>>
    BY <1>7 DEF Validate, AcceptChanges, remote
  <2>3. ASSUME NEW i \in Alive, InfoCopied(i), BufferCopied(i)
        PROVE  (InfoCopied(i) /\ BufferCopied(i))'
    BY <2>1, <2>2, <2>3 DEF InfoCopied, BufferCopied, Shown, Alike
  <2>4. QED
    BY <1>1, <2>1, <2>2, <2>3
<1>8. CASE SetClientTarget
  BY <1>2, <1>8, SetClientTargetStep DEF SetClientTarget, remote
<1>9. CASE Present
  <2>1. /\ Alive' = Alive /\ peer'.mode = peer.mode
        /\ UNCHANGED <<mRemoteDisplay, attaching, older>>
    BY <1>9, PresentStep DEF Same, Present, remote
  <2>2. CASE ~(Settled /\ peer.mode > 0)
    BY <2>1, <2>2 DEF Copied, Settled, Attached
  <2>3. CASE Settled /\ peer.mode > 0
    <3>1. ShowsLayers
      BY <1>0, <2>3
    <3>2. ASSUME NEW i \in Alive \ older PROVE (InfoCopied(i) /\ BufferCopied(i))'
      <4>1. i \in peer.layers /\ InfoCopied(i) /\ BufferCopied(i)
        BY <2>3, <3>2 DEF LayersKnown, Copied
      <4>2. mLayers[i].mInfo \in Infos
        BY DEF Typed, LayersTyped, Layers
      <4>3. /\ mLayers'[i].mInfo = [mLayers[i].mInfo EXCEPT !.changed = FALSE]
            /\ mLayers'[i].mBuffer = mLayers[i].mBuffer
        BY <1>9, <3>1, PresentStep DEF Alike
      <4>4. Sent(mLayers'[i].mInfo) = Sent(mLayers[i].mInfo)
        BY <4>2, <4>3, SentFields DEF Infos
      <4>5. i \in DOMAIN peer'.infos
            /\ \E z \in Orders : peer'.infos[i] = [Sent(mLayers[i].mInfo) EXCEPT !.z = z]
        <5>1. CASE i \in Updates
          <6>1. i \in DOMAIN peer'.infos /\ peer'.infos[i] = Sent(mLayers[i].mInfo)
            BY <1>9, <3>1, <4>1, <5>1, PresentStep
          <6>2. peer'.infos[i] = [Sent(mLayers[i].mInfo) EXCEPT !.z = mLayers[i].mInfo.z]
                /\ mLayers[i].mInfo.z \in Orders
            BY <4>2, <6>1, SentFields
          <6>3. QED
            BY <6>1, <6>2
        <5>2. CASE i \notin Updates
          <6>1. ~mLayers[i].mInfo.changed
            BY <5>2 DEF Updates
          <6>2. i \in DOMAIN peer.infos
                /\ \E z \in Orders : peer.infos[i] = [Sent(mLayers[i].mInfo) EXCEPT !.z = z]
            BY <4>1, <6>1 DEF InfoCopied
          <6>3. i \in DOMAIN peer'.infos /\ peer'.infos[i] = peer.infos[i]
            BY <1>9, <3>1, <5>2, <6>2, PresentStep
          <6>4. QED
            BY <6>2, <6>3
        <5>3. QED
          BY <5>1, <5>2
      <4>6. InfoCopied(i)'
        BY <4>4, <4>5 DEF InfoCopied
      <4>7. /\ DOMAIN peer'.shown = DOMAIN peer.shown \union (Flips \intersect peer.layers)
            /\ \A j \in DOMAIN peer'.shown : peer'.shown[j] =
                 IF j \in Flips THEN mLayers[j].mBuffer ELSE peer.shown[j]
        BY <1>9, <3>1, PresentStep
      <4>8. Shown(i)' = mLayers[i].mBuffer
        <5>1. CASE i \in Flips
          BY <4>1, <4>7, <5>1 DEF Shown
        <5>2. CASE i \notin Flips
          BY <4>1, <4>7, <5>2 DEF Shown, Flips, BufferCopied
        <5>3. QED
          BY <5>1, <5>2
      <4>9. QED
        BY <4>3, <4>6, <4>8 DEF BufferCopied
    <3>3. QED
      BY <2>1, <3>2 DEF Copied
  <2>4. QED
    BY <2>2, <2>3
<1>10. CASE AttachPointer \/ Detach
  <2>1. ~Settled'
    BY <1>10 DEF AttachPointer, Detach, Settled, Attached
  <2>2. QED
    BY <2>1 DEF Copied
<1>11. CASE AttachMode
  BY <1>11 DEF AttachMode, Copied, Alive
<1>12. CASE UNCHANGED vars
  BY <1>2, <1>12 DEF vars, remote, Same
<1>13. QED
  BY <1>3, <1>4, <1>5, <1>6, <1>7, <1>8, <1>9, <1>10, <1>11, <1>12
     DEF Next, SurfaceFlinger

LEMMA SentCurrent ==
  ASSUME Typed, Remembered, Copied
  PROVE  CopyCurrent
<1> SUFFICES ASSUME Settled, peer.mode > 0, NEW i \in Alive \ older
             PROVE  /\ \/ mLayers[i].mInfo.changed
                       \/ /\ i \in DOMAIN peer.infos
                          /\ peer.infos[i].transform = asked[i].transform
                          /\ FrameSent(i) /\ ColorSent(i)
                    /\ mLayers[i].bufferChanged \/ Shown(i) = asked[i].buffer
  BY DEF CopyCurrent
<1>1. InfoCopied(i) /\ BufferCopied(i) /\ Remembers(mLayers[i], asked[i])
  BY DEF Copied, Remembered
<1>2. mLayers[i].bufferChanged \/ Shown(i) = asked[i].buffer
  BY <1>1 DEF BufferCopied, Remembers
<1>3. ASSUME ~mLayers[i].mInfo.changed
      PROVE  /\ i \in DOMAIN peer.infos
             /\ peer.infos[i].transform = asked[i].transform
             /\ FrameSent(i) /\ ColorSent(i)
  <2> DEFINE info == mLayers[i].mInfo
  <2>1. info \in Infos
    BY DEF Typed, LayersTyped, Layers
  <2>2. /\ i \in DOMAIN peer.infos
        /\ \E z \in Orders : peer.infos[i] = [Sent(info) EXCEPT !.z = z]
    BY <1>1, <1>3 DEF InfoCopied
  <2>3. /\ peer.infos[i].transform = info.transform
        /\ peer.infos[i].dstFrame = info.dstFrame
        /\ peer.infos[i].color = info.color
    BY <2>1, <2>2 DEF Sent, Infos
  <2>4. FrameSent(i)
    BY <1>1, <2>3 DEF Remembers, FrameRemembered, FrameSent
  <2>5. ColorSent(i)
    <3>1. peer.infos[i].color = Packed(asked[i].color)
      BY <1>1, <2>3 DEF Remembers
    <3>2. \A c : \A k \in {1, 2} : Packed(c)[k] = c[k]
      BY DEF Packed
    <3>3. QED
      BY <3>1, <3>2 DEF ColorSent
  <2>6. peer.infos[i].transform = asked[i].transform
    BY <1>1, <2>3 DEF Remembers
  <2>7. QED
    BY <2>2, <2>4, <2>5, <2>6
<1>4. QED
  BY <1>2, <1>3

(* Whatever SurfaceFlinger sets, and however often remotes and modes       *)
(* change, a remote that shows layers has the transform, the frame, red    *)
(* and green of the colour and the buffer last set of each layer created   *)
(* since it came, but for what is marked for the next present and for a    *)
(* frame that was set while the uninitialised member held the same.        *)
THEOREM CopyIsCurrent == Spec => []CopyCurrent
<1>1. Init => Copied /\ LayersKnown
  BY DEF Init, Copied, LayersKnown, Settled, Attached
<1>2. Typed /\ Remembered /\ Copied => CopyCurrent
  BY SentCurrent
<1>3. QED
  BY <1>1, <1>2, TypedInit, TypedNext, RememberedInit, RememberedNext, NumberedInit,
     NumberedNext, HandsOverInit, HandsOverNext, KnownNext, CopiedNext, PTL DEF Spec
=============================================================================

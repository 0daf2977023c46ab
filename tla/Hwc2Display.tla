----------------------------- MODULE Hwc2Display -----------------------------
(***************************************************************************)
(* Hwc2Display with its layers, and what the attached remote knows of      *)
(* them.  SurfaceFlinger calls the hooks one at a time; the socket thread  *)
(* of the remote display manager attaches and detaches remotes between its *)
(* calls (RemoteDisplayMgr has the detach within a call).  attach stores   *)
(* the pointer first and the mode last, with calls in between.             *)
(***************************************************************************)
EXTENDS Hwc2Layer, RemoteView, FiniteSets

CONSTANTS
  MaxRemote,   \* bound: remotes that come, one after the other
  Modes,       \* modes they ask for
  MaxId,       \* bound: largest layer id
  MaxAlive,    \* bound: layers that exist at a time
  Targets,     \* framebuffers SurfaceFlinger composes into
  Buffers,     \* buffers of layers
  Fences,      \* file descriptors
  Transforms, Frames, Colors, Orders, Types,
  Uio          \* whether there may be a UioDisplay

ASSUME DisplayAssumption ==
  /\ MaxRemote \in Nat /\ MaxId \in Nat /\ MaxAlive \in Nat
  /\ Modes \subseteq 0 .. 2
  /\ NoBuffer \notin Buffers \union Targets /\ NoFence \notin Fences /\ NoFrame \notin Frames
  /\ 0 \in Orders
  /\ Transforms \subseteq 0 .. 7 /\ 0 \in Transforms
  /\ Types \subseteq {"Client", "Device", "SolidColor", "Cursor", "Sideband"}
  /\ Uio \subseteq BOOLEAN

LayerIds == 0 .. MaxId
Remotes == 1 .. MaxRemote

VARIABLES
  uio,          \* mUioDisplay # nullptr
  mLayers, mLayerIndex,
  mRemoteDisplay, mMode, mTransform,
  mFbTarget, mFbtBuffers, mFbAcquireFenceFd,
  phase,        \* SurfaceFlinger: "edit", "validated", "accepted"
  attaching,    \* the socket thread is within attach
  remotes,      \* remotes that have come so far
  peer,         \* what the attached remote knows
  older,        \* layers that were there when attach finished
  olderTarget,  \* mFbTarget was set before attach
  open,         \* fence descriptors this process holds open
  asked         \* what SurfaceFlinger last set of each layer, for the properties:
                \* no action reads it but to keep it

target == <<mFbTarget, mFbtBuffers, mFbAcquireFenceFd, olderTarget>>
remote == <<mRemoteDisplay, mMode, attaching, remotes>>
vars == <<uio, mLayers, mLayerIndex, mTransform, target, remote, phase, peer,
          older, open, asked>>

Init ==
  /\ uio \in Uio
  /\ mLayers = <<>> /\ mLayerIndex = 0
  /\ mRemoteDisplay = NoRemote /\ mMode = 0 /\ mTransform = 0
  /\ mFbTarget = NoBuffer /\ mFbtBuffers = {} /\ mFbAcquireFenceFd = NoFence
  /\ phase = "edit" /\ attaching = FALSE /\ remotes = 0
  /\ peer = Fresh(0)
  /\ older = {} /\ olderTarget = TRUE /\ open = {} /\ asked = <<>>

Alive == DOMAIN mLayers
Attached == mRemoteDisplay # NoRemote

(* A request reaches the attached remote, if there is one.  What comes     *)
(* while attach is at work is not counted in requests.                     *)
Request(p) == IF attaching THEN [p EXCEPT !.requests = peer.requests] ELSE p

-----------------------------------------------------------------------------
(* Layers.                                                                 *)
ShowsLayersFromMode2 == Attached /\ mMode > 1
ShowsLayers == Attached /\ mMode > 0

(* Nothing is set of a new layer; its mDstFrame is born with garbage.      *)
NothingAsked(garbage) ==
  [transform |-> 0, dstFrame |-> NoFrame, color |-> Black, buffer |-> NoBuffer,
   born |-> garbage]

CreateLayer ==
  /\ mLayerIndex <= MaxId /\ Cardinality(Alive) < MaxAlive
  /\ \E garbage \in Frames \union {NoFrame} :
       /\ mLayers' = [i \in Alive \union {mLayerIndex} |->
                        IF i \in Alive THEN mLayers[i]
                        ELSE setRemoteDisplay(NewLayer(garbage), mRemoteDisplay)]
       /\ asked' = [i \in Alive \union {mLayerIndex} |->
                      IF i \in Alive THEN asked[i] ELSE NothingAsked(garbage)]
  /\ mLayerIndex' = mLayerIndex + 1
  /\ peer' = IF ShowsLayers THEN Request(createLayer(peer, mLayerIndex))
                            ELSE peer
  /\ phase' = "edit"
  /\ UNCHANGED <<uio, mTransform, target, remote, older, open>>

(* The destructor of the layer closes its fence.                           *)
ClosedNever(i) == {}
Closed(i) == {mLayers[i].mAcquireFence}
DestroyLayer(i) ==
  /\ mLayers' = Restrict(mLayers, Alive \ {i})
  /\ asked' = Restrict(asked, Alive \ {i})
  /\ peer' = IF ShowsLayers THEN Request(removeLayer(peer, i))
                            ELSE peer
  /\ older' = older \ {i}
  /\ open' = open \ Closed(i)
  /\ phase' = "edit"
  /\ UNCHANGED <<uio, mLayerIndex, mTransform, target, remote>>

(* A fence SurfaceFlinger passes is a descriptor that was not open before. *)
NewFence == (Fences \ open) \union {NoFence}

(* An older layer still points to the remote it was created with, which is *)
(* gone: what a call on it does is undefined.  Either nothing comes of it, *)
(* or the next remote lives at the same address.                           *)
SetBuffer(i) ==
  /\ \E b \in Buffers, fence \in NewFence :
       LET l == mLayers[i] IN
       /\ mLayers' = [mLayers EXCEPT ![i] = setBuffer(l, b, fence)]
       /\ asked' = [asked EXCEPT ![i].buffer = b]
       /\ open' = (open \ Closed(i)) \union ({fence} \ {NoFence})
       /\ \/ /\ Announces(l, b) /\ Attached
             /\ peer' = createBuffer(peer, b)
          \/ /\ Announces(l, b) => l.mRemoteDisplay # mRemoteDisplay
             /\ UNCHANGED peer
  /\ phase' = "edit"
  /\ UNCHANGED <<uio, mLayerIndex, mTransform, target, remote, older>>

Set(i, l, a) ==
  /\ mLayers' = [mLayers EXCEPT ![i] = l]
  /\ asked' = [asked EXCEPT ![i] = a]
  /\ phase' = "edit"
  /\ UNCHANGED <<uio, mLayerIndex, mTransform, target, remote, peer, older, open>>

SetState(i) ==
  LET l == mLayers[i]
      a == asked[i]
  IN
  \/ \E v \in Transforms : Set(i, setTransform(l, v), [a EXCEPT !.transform = v])
  \/ \E v \in Frames : Set(i, setDisplayFrame(l, v), [a EXCEPT !.dstFrame = v])
  \/ \E v \in Colors : Set(i, setColor(l, v), [a EXCEPT !.color = v])
  \/ \E v \in Orders : Set(i, setZOrder(l, v), a)
  \/ \E v \in Types : Set(i, setCompositionType(l, v), a)

-----------------------------------------------------------------------------
(* A frame: validate, acceptChanges if there are any, setClientTarget at   *)
(* any time, present.                                                      *)
Each(Op(_)) == [i \in Alive |-> Op(mLayers[i])]

Transform(i) == mLayers[i].mInfo.transform
LastId(S) == CHOOSE i \in S : \A j \in S : j <= i
FirstId(S) == CHOOSE i \in S : \A j \in S : i <= j

(* HAL_TRANSFORM_ROT_90 is 4, HAL_TRANSFORM_ROT_180 is 3.                  *)
Rotation(tr) == CASE tr = 0 -> 0 [] tr = 4 -> 1 [] tr = 3 -> 2 [] OTHER -> 3

(* checkRotation: the first transform that is not 0.                       *)
Rotated == {i \in Alive : Transform(i) # 0}
CheckedRotation == Rotation(IF Rotated = {} THEN 0 ELSE Transform(FirstId(Rotated)))
CheckedTransform == IF Rotated = {} THEN 0 ELSE Transform(FirstId(Rotated))

(* getChangedCompositionTypes.                                             *)
ChangedTypes(layers) == {i \in DOMAIN layers : typeChanged(layers[i])}

Validate ==
  /\ phase = "edit"
  /\ mLayers' = Each(setValidatedType)
  /\ phase' = IF ChangedTypes(mLayers') # {} THEN "validated" ELSE "accepted"
  /\ mTransform' = IF uio THEN CheckedTransform ELSE mTransform
  /\ UNCHANGED <<uio, mLayerIndex, target, remote, peer, older, open,
                 asked>>

AcceptChanges ==
  /\ phase = "validated"
  /\ mLayers' = Each(acceptTypeChange)
  /\ phase' = "accepted"
  /\ UNCHANGED <<uio, mLayerIndex, mTransform, target, remote, peer, older, open,
                 asked>>

SetClientTarget ==
  /\ \E b \in Targets, fence \in NewFence :
       /\ mFbTarget' = b
       /\ mFbAcquireFenceFd' = fence
       /\ open' = (open \ {mFbAcquireFenceFd}) \union ({fence} \ {NoFence})
       /\ IF Attached /\ b \notin mFbtBuffers
            THEN /\ mFbtBuffers' = mFbtBuffers \union {b}
                 /\ peer' = createBuffer(peer, b)
            ELSE UNCHANGED <<mFbtBuffers, peer>>
  /\ olderTarget' = ~Attached
  /\ UNCHANGED <<uio, mLayers, mLayerIndex, mTransform, remote, phase, older, asked>>

(* updateRotation: no news as long as a layer with a buffer has the        *)
(* transform the remote was last told of, else that of the last layer.     *)
SteadyAnyhow == \E i \in Alive : mLayers[i].mBuffer # NoBuffer
Steady == \E i \in Alive : mLayers[i].mBuffer # NoBuffer /\ Transform(i) = mTransform
NewTransform == IF Steady THEN mTransform
                ELSE IF Alive = {} THEN 0 ELSE Transform(LastId(Alive))

ShowsFbAnyhow == Attached /\ mFbTarget # NoBuffer
ShowsFb == Attached /\ mMode \in {0, 2} /\ mFbTarget # NoBuffer

WithFb(p) ==
  LET q == displayBuffer(p) IN
    IF NewTransform # mTransform THEN setRotation(q, Rotation(NewTransform)) ELSE q

Updates == {i \in Alive : mLayers[i].mInfo.changed}
Flips == {i \in Alive : mLayers[i].bufferChanged}
Sent(info) == [info EXCEPT !.changed = TRUE]
WithUpdates(p) ==
  IF Updates = {} THEN p
  ELSE updateLayers(p, [i \in Updates |-> Sent(mLayers[i].mInfo)])
WithLayers(p) ==
  IF Flips = {} THEN WithUpdates(p)
  ELSE presentLayers(WithUpdates(p), [i \in Flips |-> mLayers[i].mBuffer])

Present ==
  /\ phase = "accepted"
  /\ LET p == IF ShowsFb THEN WithFb(peer) ELSE peer IN
       peer' = Request(IF ShowsLayers THEN WithLayers(p) ELSE p)
  /\ mTransform' = IF ShowsFb THEN NewTransform ELSE mTransform
  /\ mLayers' = IF ShowsLayers THEN Each(setUnchanged) ELSE mLayers
  /\ phase' = "edit"
  /\ UNCHANGED <<uio, mLayerIndex, target, remote, older, open, asked>>

SurfaceFlinger ==
  \/ CreateLayer \/ Validate \/ AcceptChanges \/ SetClientTarget \/ Present
  \/ \E i \in Alive : DestroyLayer(i) \/ SetBuffer(i) \/ SetState(i)

-----------------------------------------------------------------------------
(* The socket thread.  Only a display without a remote is attached to.     *)
AttachPointer ==
  /\ ~Attached /\ remotes < MaxRemote
  /\ remotes' = remotes + 1
  /\ mRemoteDisplay' = remotes + 1
  /\ attaching' = TRUE
  /\ \E mode \in Modes : peer' = Fresh(mode)
  /\ olderTarget' = TRUE
  /\ UNCHANGED <<uio, mLayers, mLayerIndex, mMode, mTransform, mFbTarget,
                 mFbtBuffers, mFbAcquireFenceFd, phase, older, open, asked>>

AttachMode ==
  /\ attaching
  /\ mMode' = peer.mode
  /\ attaching' = FALSE
  /\ older' = Alive
  /\ UNCHANGED <<uio, mLayers, mLayerIndex, mRemoteDisplay, mTransform, target,
                 remotes, phase, peer, open, asked>>

(* What detach leaves of the targets announced and of the transform told.  *)
FbtBuffersKept == mFbtBuffers
FbtBuffersLeft == {}
TransformKept == mTransform
TransformLeft == 0

Detach ==
  /\ Attached /\ ~attaching
  /\ mRemoteDisplay' = NoRemote
  /\ mFbtBuffers' = FbtBuffersLeft /\ mTransform' = TransformLeft
  /\ peer' = Fresh(0)
  /\ older' = {}
  /\ UNCHANGED <<uio, mLayers, mLayerIndex, mMode, mFbTarget, mFbAcquireFenceFd,
                 olderTarget, attaching, remotes, phase, open, asked>>

Next == SurfaceFlinger \/ AttachPointer \/ AttachMode \/ Detach

Spec == Init /\ [][Next]_vars

-----------------------------------------------------------------------------
PackedColors == {Packed(c) : c \in Colors \union {Black}}
Infos == [transform : Transforms, dstFrame : Frames \union {NoFrame},
          color : PackedColors, z : Orders, changed : BOOLEAN]
Layers == [mType : Types \union {"Invalid", "Client"},
           mValidatedType : Types \union {"Invalid", "Client"},
           mBuffers : SUBSET Buffers, mBuffer : Buffers \union {NoBuffer},
           bufferChanged : BOOLEAN, mAcquireFence : Fences \union {NoFence},
           mDstFrame : Frames \union {NoFrame}, mColor : Colors \union {Black},
           mRemoteDisplay : 0 .. MaxRemote, mInfo : Infos]
Asks == [transform : Transforms, dstFrame : Frames \union {NoFrame},
         color : Colors \union {Black}, buffer : Buffers \union {NoBuffer},
         born : Frames \union {NoFrame}]
Peers(D, E) ==
         [mode : 0 .. 2, buffers : SUBSET (Buffers \union Targets), rotation : 0 .. 3,
          layers : SUBSET LayerIds, infos : [D -> Infos],
          shown : [E -> Buffers], requests : SUBSET {"fb", "layers"}]

TypeOK ==
  /\ uio \in Uio
  /\ \E D \in SUBSET LayerIds : mLayers \in [D -> Layers]
  /\ asked \in [Alive -> Asks]
  /\ mLayerIndex \in 0 .. MaxId + 1
  /\ remotes \in 0 .. MaxRemote /\ mRemoteDisplay \in {NoRemote, remotes}
  /\ mMode \in 0 .. 2 /\ mTransform \in Transforms
  /\ mFbTarget \in Targets \union {NoBuffer} /\ mFbtBuffers \subseteq Targets
  /\ mFbAcquireFenceFd \in Fences \union {NoFence}
  /\ phase \in {"edit", "validated", "accepted"}
  /\ attaching \in BOOLEAN /\ olderTarget \in BOOLEAN
  /\ older \subseteq Alive /\ open \subseteq Fences
  /\ \E D, E \in SUBSET LayerIds : peer \in Peers(D, E)

Shown(i) == IF i \in DOMAIN peer.shown THEN peer.shown[i] ELSE NoBuffer
Settled == Attached /\ ~attaching

(* A frame is not sent when it is the one the uninitialised mDstFrame      *)
(* happened to hold (Hwc2Layer.cpp:131): the remote keeps the zeroed one.  *)
(* Of a colour red and green arrive; blue is sent as green (:107).         *)
FrameSent(i) ==
  \/ peer.infos[i].dstFrame = asked[i].dstFrame
  \/ peer.infos[i].dstFrame = NoFrame /\ asked[i].dstFrame = asked[i].born

ColorSent(i) == \A k \in {1, 2} : peer.infos[i].color[k] = asked[i].color[k]

(* What the remote has of a layer is what SurfaceFlinger last set, its     *)
(* buffer included, unless the layer is marked for the next present.       *)
(* The exceptions: layers that were there before the remote; the z order,  *)
(* which is sent only along with another change; and those above.          *)
CopyCurrent ==
  Settled /\ peer.mode > 0 =>
    \A i \in Alive \ older :
      /\ \/ mLayers[i].mInfo.changed
         \/ /\ i \in DOMAIN peer.infos
            /\ peer.infos[i].transform = asked[i].transform
            /\ FrameSent(i) /\ ColorSent(i)
      /\ mLayers[i].bufferChanged \/ Shown(i) = asked[i].buffer

(* A remote that shows layers knows every layer that was created since it  *)
(* was attached, and no layer that is destroyed.                           *)
LayersKnown ==
  Settled /\ peer.mode > 0 =>
    Alive \ older \subseteq peer.layers /\ peer.layers \subseteq Alive

(* A buffer is announced before the remote is asked to show it: the client *)
(* target if it was set since the attach began, and the buffers of a layer *)
(* created since then, across all the remotes a layer outlives.            *)
Announced ==
  Attached =>
    /\ ~olderTarget => mFbTarget \in peer.buffers
    /\ \A i \in Alive : mLayers[i].mRemoteDisplay = mRemoteDisplay =>
         mLayers[i].mBuffers \union ({Shown(i)} \ {NoBuffer}) \subseteq peer.buffers

(* "0 - legacy, 1 -layers only, 2 - both fb and layers": a remote gets no  *)
(* other requests, once attach has stored its mode.                        *)
RespectsMode ==
  /\ "fb" \in peer.requests => peer.mode \in {0, 2}
  /\ "layers" \in peer.requests => peer.mode > 0

(* Of the fences it was passed the process holds open exactly those that   *)
(* a layer or the client target waits for, each in one place: none leaks,  *)
(* none is closed twice.                                                   *)
FencesOwned ==
  /\ open = ({mLayers[i].mAcquireFence : i \in Alive} \union {mFbAcquireFenceFd})
              \ {NoFence}
  /\ \A i, j \in Alive :
       mLayers[i].mAcquireFence # NoFence =>
         /\ mLayers[i].mAcquireFence # mFbAcquireFenceFd
         /\ i # j => mLayers[i].mAcquireFence # mLayers[j].mAcquireFence

(* What is presented was composed: present can only show the client        *)
(* target, so every layer with a type is a client layer by then.           *)
AcceptedIsComposed ==
  phase = "accepted" => \A i \in Alive : mLayers[i].mType \in {"Client", "Invalid"}

(* Without a UioDisplay mTransform is the transform the attached remote    *)
(* was last told of, also when it replaces another remote.                 *)
RotationKnown == Attached /\ ~uio => peer.rotation = Rotation(mTransform)

(* Without a UioDisplay the framebuffer is shown the way the layers are,   *)
(* when all of them are turned alike.                                      *)
RotationFollows ==
  [][Present /\ ShowsFb /\ ~uio =>
       \A t \in Transforms : Alive # {} /\ (\A i \in Alive : Transform(i) = t)
         => peer'.rotation = Rotation(t)]_vars
=============================================================================

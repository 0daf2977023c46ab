-------------------------- MODULE Hwc2Device_proofs --------------------------
(***************************************************************************)
(* Proofs about Hwc2Device, for every set of remotes, every build and      *)
(* every interleaving of the two threads, overlapping or not.  That a      *)
(* remote is attached where it knows, and the refinement of IRemoteDevice, *)
(* are proved for remotes that acknowledge their display info once; what   *)
(* SurfaceFlinger is told of displays and sizes, for devices where remotes *)
(* do not meet local displays beside the primary one (OneNode).            *)
(***************************************************************************)
EXTENDS Hwc2Device, TLAPS

(* A pending event is an element of Events.                                *)
LEMMA EvType ==
  ASSUME TypeOK, NEW t \in Threads
  PROVE  /\ ev[t].id \in Ids /\ ev[t].on \in BOOLEAN
         /\ [id |-> ev[t].id, on |-> ev[t].on] \in Events
  BY DEF TypeOK, Events

LEMMA HotplugType ==
  ASSUME TypeOK, NEW t \in Threads, NEW i \in Ids, NEW c \in BOOLEAN,
         Hotplug(t, i, c)
  PROVE  ev' \in [Threads -> [id : Ids, on : BOOLEAN,
                              at : {"none", "check", "push", "call"}]]
  BY DEF TypeOK, Hotplug

LEMMA TellType ==
  ASSUME TypeOK, NEW i \in Ids, NEW c \in BOOLEAN, Tell(i, c)
  PROVE  /\ told' \subseteq Ids /\ repeated' \in BOOLEAN
         /\ known' \in [Ids -> Sizes] /\ silent' \subseteq Ids
<1>1. told' \subseteq Ids
  BY DEF TypeOK, Tell
<1>2. repeated' \in BOOLEAN
  BY DEF TypeOK, Tell
<1>3. known' \in [Ids -> Sizes] /\ silent' \subseteq Ids
  BY DEF TypeOK, Tell
<1>4. QED
  BY <1>1, <1>2, <1>3

LEMMA AttachType ==
  ASSUME TypeOK, NEW i \in Ids, NEW rd \in Remotes, attach(i, rd)
  PROVE  /\ mDisplays' \in [Ids -> Remotes \union {Absent, Local}]
         /\ size' \in [Ids -> Sizes]
<1>1. SizeOf[rd] \in Sizes
  BY DEF Sizes
<1>2. QED
  BY <1>1 DEF TypeOK, attach

LEMMA EmplaceType ==
  ASSUME TypeOK, NEW i \in Ids
  PROVE  emplace(i) \in [Ids -> Remotes \union {Absent, Local}]
  BY DEF TypeOK, emplace

LEMMA IdsFacts == Primary \in Ids /\ MaxId \in Nat /\ MaxId >= 1
  BY DeviceAssumption DEF DeviceAssumption, Ids, Primary

LEMMA NodesBound ==
  ASSUME TypeOK PROVE UioNodes \in 0 .. MaxId + 1
  BY DeviceAssumption DEF DeviceAssumption, TypeOK, UioNodes

(* Type correctness.                                                       *)
THEOREM DeviceTypeCorrect == Spec => []TypeOK
<1> USE IdsFacts
<1>1. Init => TypeOK
  <2> SUFFICES ASSUME Init PROVE TypeOK
    OBVIOUS
  <2>1. mDisplays \in [Ids -> Remotes \union {Absent, Local}]
        /\ status \in [Remotes -> {"new", "up", "gone"}]
        /\ displayId \in [Remotes -> Ids]
    BY DEF Init, Primary
  <2>2. mPendingHotplugs \in Seq(Events) /\ flushing \in Seq(Events)
    BY DEF Init
  <2>3. ev \in [Threads -> [id : Ids, on : BOOLEAN,
                            at : {"none", "check", "push", "call"}]]
    BY DEF Init, NoEvent, Primary
  <2>4. sid \in Ids /\ srd \in Remotes \union {Absent} /\ told \subseteq Ids
    BY DEF Init, Primary
  <2>5. sNextId \in 1 .. MaxId + 1 /\ node \in 0 .. MaxId + 1
    BY DEF Init
  <2>6. size \in [Ids -> Sizes] /\ known \in [Ids -> Sizes] /\ silent \subseteq Ids
    BY DEF Init, Sizes
  <2>7. QED
    BY <2>1, <2>2, <2>3, <2>4, <2>5, <2>6 DEF Init, TypeOK
<1>2. TypeOK /\ [Next]_vars => TypeOK'
  <2> SUFFICES ASSUME TypeOK, [Next]_vars PROVE TypeOK'
    OBVIOUS
  <2> USE DEF device, view, hotplugs, main, socket
  <2>1. ASSUME NEW t \in Threads, Step(t)
        PROVE  overlap' \in BOOLEAN /\ build' \in Builds
    BY <2>1 DEF Step, TypeOK
  <2>2. ASSUME NEW t \in Threads, OnHotplug(t) PROVE TypeOK'
    <3>1. CASE CheckCallback(t)
      BY <2>1, <3>1 DEF CheckCallback, TypeOK
    <3>2. CASE PushPending(t)
      BY <2>1, <3>2, EvType DEF PushPending, TypeOK, NoEvent, Primary
    <3>3. CASE CallHotplug(t)
      BY <2>1, <3>3, EvType, TellType DEF CallHotplug, TypeOK, NoEvent, Primary
    <3>4. QED
      BY <2>2, <3>1, <3>2, <3>3 DEF OnHotplug
  <2>3. CASE ConnectFails
    BY <2>3, EmplaceType, HotplugType, NodesBound
       DEF ConnectFails, TypeOK, Threads
  <2>4. CASE ConnectSucceeds
    BY <2>1, <2>4, NodesBound DEF ConnectSucceeds, TypeOK, Threads
  <2>5. CASE AddLocal
    <3>1. node - 1 \in Ids /\ node' \in 0 .. MaxId + 1
      BY <2>5 DEF AddLocal, TypeOK, Ids
    <3>2. mDisplays' \in [Ids -> Remotes \union {Absent, Local}]
      BY <2>5, <3>1, EmplaceType DEF AddLocal
    <3>3. ev' \in [Threads -> [id : Ids, on : BOOLEAN,
                              at : {"none", "check", "push", "call"}]]
      BY <2>5, <3>1, HotplugType DEF AddLocal, Threads
    <3>4. QED
      BY <2>1, <2>5, <3>1, <3>2, <3>3 DEF AddLocal, TypeOK, Threads
  <2>6. CASE InitReturns
    BY <2>1, <2>6 DEF InitReturns, TypeOK, Threads
  <2>7. CASE RegisterCallback
    BY <2>1, <2>7 DEF RegisterCallback, ToDeliver, TypeOK, Threads
  <2>8. CASE FlushOne
    <3>1. Head(flushing) \in Events /\ flushing' \in Seq(Events)
      BY <2>8 DEF FlushOne, TypeOK
    <3>2. Head(flushing).id \in Ids /\ Head(flushing).on \in BOOLEAN
      BY <3>1 DEF Events
    <3>3. /\ told' \subseteq Ids /\ repeated' \in BOOLEAN
          /\ known' \in [Ids -> Sizes] /\ silent' \subseteq Ids
      BY <2>8, <3>2, TellType DEF FlushOne
    <3>4. QED
      BY <2>1, <2>8, <3>1, <3>3 DEF FlushOne, TypeOK, Threads
  <2>9. CASE ClearPending
    BY <2>1, <2>9 DEF ClearPending, LeftQueued, TypeOK, Threads
  <2>10. CASE UnregisterCallback
    BY <2>1, <2>10 DEF UnregisterCallback, TypeOK, Threads
  <2>11. ASSUME NEW rd \in Remotes, AttachPrimary(rd) PROVE TypeOK'
    BY <2>1, <2>11, AttachType DEF AttachPrimary, TypeOK, Threads
  <2>12. ASSUME NEW rd \in Remotes, ReconfigPrimary(rd) PROVE TypeOK'
    BY <2>1, <2>12, HotplugType DEF ReconfigPrimary, TypeOK, Threads
  <2>13. CASE Reattach
    BY <2>1, <2>13, HotplugType, AttachType DEF Reattach, TypeOK, Threads
  <2>14. ASSUME NEW rd \in Remotes, AddDisplay(rd) PROVE TypeOK'
    <3>1. sNextId \in Ids /\ sNextId' \in 1 .. MaxId + 1
      BY <2>14 DEF AddDisplay, NextId, TypeOK, Ids
    <3>2. ev' \in [Threads -> [id : Ids, on : BOOLEAN,
                              at : {"none", "check", "push", "call"}]]
      BY <2>14, <3>1, HotplugType DEF AddDisplay, Threads
    <3>3. QED
      BY <2>1, <2>14, <3>1, <3>2, AttachType DEF AddDisplay, TypeOK, Threads
  <2>15. ASSUME NEW rd \in Remotes, RemoveRemote(rd) PROVE TypeOK'
    <3>1. displayId[rd] \in Ids
      BY DEF TypeOK
    <3>2. mDisplays' \in [Ids -> Remotes \union {Absent, Local}]
      BY <2>15, <3>1 DEF RemoveRemote, detach, TypeOK
    <3>3. ev' \in [Threads -> [id : Ids, on : BOOLEAN,
                              at : {"none", "check", "push", "call"}]]
          /\ spc' \in {"idle", "reattach", "erase", "return"} /\ sid' \in Ids
      <4>1. CASE Exists(displayId[rd]) /\ displayId[rd] # Primary
        BY <2>15, <3>1, <4>1, HotplugType DEF RemoveRemote, Threads
      <4>2. CASE ~(Exists(displayId[rd]) /\ displayId[rd] # Primary)
        BY <2>15, <4>2 DEF RemoveRemote, TypeOK
      <4>3. QED
        BY <4>1, <4>2
    <3>4. status' \in [Remotes -> {"new", "up", "gone"}]
      BY <2>15 DEF RemoveRemote, TypeOK
    <3>5. QED
      BY <2>1, <2>15, <3>2, <3>3, <3>4 DEF RemoveRemote, TypeOK, Threads
  <2>16. CASE EraseDisplay
    BY <2>1, <2>16, HotplugType DEF EraseDisplay, TypeOK, Threads, Sizes
  <2>17. CASE Return
    BY <2>1, <2>17 DEF Return, TypeOK, Threads, Primary
  <2>18. CASE UNCHANGED vars
    BY <2>18 DEF vars, TypeOK
  <2>19. QED
    BY <2>2, <2>3, <2>4, <2>5, <2>6, <2>7, <2>8, <2>9, <2>10, <2>11, <2>12,
       <2>13, <2>14, <2>15, <2>16, <2>17, <2>18 DEF Next, Main, Socket, Threads
<1>3. QED
  BY <1>1, <1>2, PTL DEF Spec

-----------------------------------------------------------------------------
(* Display ids handed to remotes are never reused, so a new display never  *)
(* takes the entry of an attached remote, though it may take a local one;  *)
(* a remote that was never attached has the id of the primary display.     *)
IdsUsed ==
  \A r \in Remotes : displayId[r] < sNextId
                    /\ (status[r] = "new" => displayId[r] = Primary)

(* A remote the socket thread is about to attach to the primary is not     *)
(* attached yet, and the primary is still free.                            *)
ReattachInv ==
  spc = "reattach" =>
    /\ srd \in Remotes /\ status[srd] = "new" /\ displayId[srd] = Primary
    /\ mDisplays[Primary] = Local

(* A display about to be erased has lost its remote.                       *)
EraseInv == spc = "erase" => sid # Primary /\ mDisplays[sid] \notin Remotes

AttachInv ==
  TypeOK /\ AttachedWhereItKnows /\ IdsUsed /\ ReattachInv /\ EraseInv

LEMMA NotRemotes ==
  /\ Absent \notin Remotes /\ Local \notin Remotes
  /\ Absent # Local
  BY DeviceAssumption DEF DeviceAssumption, Absent, Local

(* Creating a local display disturbs no attachment.                        *)
LEMMA EmplaceKeeps ==
  ASSUME AttachInv, NEW i \in Ids, mDisplays' = emplace(i),
         UNCHANGED <<sNextId, status, displayId, spc, sid, srd>>
  PROVE  AttachedWhereItKnows' /\ IdsUsed' /\ ReattachInv' /\ EraseInv'
<1>1. \A j \in Ids : mDisplays'[j] = mDisplays[j]
                     \/ (mDisplays[j] = Absent /\ mDisplays'[j] = Local)
  BY DEF emplace, AttachInv, TypeOK, Exists
<1>2. AttachedWhereItKnows'
  BY <1>1, NotRemotes DEF AttachInv, AttachedWhereItKnows
<1>3. IdsUsed'
  BY DEF AttachInv, IdsUsed
<1>4. ReattachInv'
  BY <1>1, NotRemotes, IdsFacts DEF AttachInv, ReattachInv
<1>5. EraseInv'
  BY <1>1, NotRemotes DEF AttachInv, EraseInv, TypeOK
<1>6. QED
  BY <1>2, <1>3, <1>4, <1>5

LEMMA AttachInductive ==
  ASSUME ~RepeatedAck, AttachInv, TypeOK', [Next]_vars
  PROVE  AttachInv'
<1> USE IdsFacts, NotRemotes DEF device, view, hotplugs, main, socket
<1>a. UNCHANGED <<device, socket>> => AttachInv'
  BY DEF AttachInv, AttachedWhereItKnows, IdsUsed, ReattachInv, EraseInv
<1>1. ASSUME NEW t \in Threads, OnHotplug(t) PROVE AttachInv'
  BY <1>a, <1>1 DEF OnHotplug, CheckCallback, PushPending, CallHotplug
<1>2. CASE ConnectFails
  BY <1>2, EmplaceKeeps DEF ConnectFails, AttachInv
<1>3. CASE AddLocal
  <2>1. node - 1 \in Ids
    BY <1>3 DEF AddLocal, AttachInv, TypeOK, Ids
  <2>2. QED
    BY <1>3, <2>1, EmplaceKeeps DEF AddLocal, AttachInv
<1>4. CASE ConnectSucceeds \/ InitReturns \/ RegisterCallback \/ FlushOne
           \/ ClearPending \/ UnregisterCallback
  BY <1>a, <1>4 DEF ConnectSucceeds, InitReturns, RegisterCallback, FlushOne,
                    ClearPending, UnregisterCallback
<1>5. ASSUME NEW rd \in Remotes, AttachPrimary(rd) PROVE AttachInv'
  <2> USE <1>5 DEF AttachPrimary, attach, CanAdd, AttachInv, TypeOK
  <2>1. AttachedWhereItKnows'
    BY DEF AttachedWhereItKnows, attachable
  <2>2. IdsUsed'
    BY DEF IdsUsed, Primary
  <2>3. QED
    BY <2>1, <2>2 DEF ReattachInv, EraseInv
<1>6. ASSUME NEW rd \in Remotes, ReconfigPrimary(rd) PROVE AttachInv'
  <2> USE <1>6 DEF ReconfigPrimary, CanAdd, AttachInv, TypeOK
  <2>1. AttachedWhereItKnows'
    BY DEF AttachedWhereItKnows
  <2>2. IdsUsed'
    BY DEF IdsUsed, Primary
  <2>3. ReattachInv' /\ EraseInv'
    BY DEF ReattachInv, EraseInv, attachable
  <2>4. QED
    BY <2>1, <2>2, <2>3
<1>7. CASE Reattach
  <2> USE <1>7 DEF Reattach, attach, AttachInv, TypeOK
  <2>1. AttachedWhereItKnows'
    BY DEF AttachedWhereItKnows, ReattachInv
  <2>2. IdsUsed'
    BY DEF IdsUsed
  <2>3. QED
    BY <2>1, <2>2 DEF ReattachInv, EraseInv
<1>8. ASSUME NEW rd \in Remotes, AddDisplay(rd) PROVE AttachInv'
  <2> USE <1>8 DEF AddDisplay, attach, CanAdd, AttachInv, TypeOK
  <2>1. sNextId \in Ids /\ sNextId' = sNextId + 1
    BY DEF NextId, Ids
  <2>2. AttachedWhereItKnows'
    BY <2>1 DEF AttachedWhereItKnows, IdsUsed
  <2>3. IdsUsed'
    BY <2>1 DEF IdsUsed, Ids
  <2>4. QED
    BY <2>2, <2>3 DEF ReattachInv, EraseInv
<1>9. ASSUME NEW rd \in Remotes, RemoveRemote(rd) PROVE AttachInv'
  <2> USE <1>9 DEF RemoveRemote, AttachInv, TypeOK
  <2>1. mDisplays' = IF mDisplays[displayId[rd]] = rd
                       THEN [mDisplays EXCEPT ![displayId[rd]] = Local]
                       ELSE mDisplays
    BY DEF detach, Exists
  <2>2. AttachedWhereItKnows'
    BY <2>1 DEF AttachedWhereItKnows
  <2>3. IdsUsed'
    BY DEF IdsUsed
  <2>4. ReattachInv'
    BY DEF ReattachInv
  <2>5. EraseInv'
    <3> SUFFICES ASSUME spc' = "erase"
                 PROVE  sid' # Primary /\ mDisplays'[sid'] \notin Remotes
      BY DEF EraseInv
    <3>1. sid' = displayId[rd] /\ displayId[rd] # Primary
      OBVIOUS
    <3>2. mDisplays[displayId[rd]] = rd
      BY <3>1 DEF AttachedWhereItKnows, IdsUsed
    <3>3. mDisplays'[displayId[rd]] = Local
      BY <2>1, <3>2
    <3>4. QED
      BY <3>1, <3>3
  <2>6. QED
    BY <2>2, <2>3, <2>4, <2>5
<1>10. CASE EraseDisplay
  <2>0. /\ mDisplays \in [Ids -> Remotes \union {Absent, Local}] /\ sid \in Ids
        /\ \/ mDisplays' = [mDisplays EXCEPT ![sid] = Absent]
           \/ /\ LastDisplay(sid)
              /\ mDisplays' = [mDisplays EXCEPT ![sid] = Absent, ![Primary] = Local]
        /\ mDisplays[sid] \notin Remotes
    BY <1>10 DEF EraseDisplay, AttachInv, TypeOK, EraseInv
  <2>1. \A j \in Ids : mDisplays'[j] = mDisplays[j]
                      \/ (mDisplays[j] \notin Remotes /\ mDisplays'[j] \notin Remotes)
    BY <2>0 DEF LastDisplay, Exists
  <2> USE <1>10 DEF EraseDisplay, AttachInv, TypeOK
  <2>2. AttachedWhereItKnows'
    BY <2>1 DEF AttachedWhereItKnows
  <2>3. QED
    BY <2>2 DEF IdsUsed, ReattachInv, EraseInv
<1>11. CASE Return
  BY <1>11 DEF Return, AttachInv, AttachedWhereItKnows, IdsUsed, ReattachInv,
               EraseInv
<1>12. CASE UNCHANGED vars
  BY <1>a, <1>12 DEF vars
<1>13. QED
  BY <1>1, <1>2, <1>3, <1>4, <1>5, <1>6, <1>7, <1>8, <1>9, <1>10, <1>11, <1>12
     DEF Next, Main, Socket, Threads

LEMMA AttachInvariant == ASSUME ~RepeatedAck PROVE Spec => []AttachInv
<1>1. Init /\ TypeOK => AttachInv
  BY NotRemotes DEF Init, AttachInv, AttachedWhereItKnows, IdsUsed,
                    ReattachInv, EraseInv, TypeOK
<1>2. AttachInv /\ TypeOK' /\ [Next]_vars => AttachInv'
  BY AttachInductive
<1>3. QED
  BY <1>1, <1>2, DeviceTypeCorrect, PTL DEF Spec

(* From its addition to its removal a remote is attached to exactly the    *)
(* display it knows, in every build and however the threads interleave.    *)
THEOREM AttachmentCorrect ==
  ASSUME ~RepeatedAck PROVE Spec => []AttachedWhereItKnows
<1>1. AttachInv => AttachedWhereItKnows
  BY DEF AttachInv
<1>2. QED
  BY <1>1, AttachInvariant, PTL

-----------------------------------------------------------------------------
(* The refinement: the device holds the remotes that are up.               *)
Held == {r \in Remotes : \E i \in Ids : mDisplays[i] = r}
Taken == {r \in Remotes : status[r] = "gone"}

LEMMA HeldAreUp ==
  ASSUME AttachInv PROVE Held = {r \in Remotes : status[r] = "up"}
  BY DEF AttachInv, AttachedWhereItKnows, TypeOK, Held

LEMMA DeviceStep ==
  ASSUME ~RepeatedAck, AttachInv, AttachInv', [Next]_vars
  PROVE  [Device!Next]_<<Held, Taken>>
<1> DEFINE Up == {r \in Remotes : status[r] = "up"}
<1>1. Held = Up /\ Held' = Up'
  <2>1. Held' = Up'
    BY DEF AttachInv, AttachedWhereItKnows, TypeOK, Held
  <2>2. QED
    BY <2>1, HeldAreUp
<1>2. status' = status => UNCHANGED <<Held, Taken>>
  BY <1>1 DEF Taken
<1>3. ASSUME NEW rd \in Remotes, status[rd] = "new",
             status' = [status EXCEPT ![rd] = "up"]
      PROVE  Device!addRemoteDisplay(rd)
  BY <1>1, <1>3 DEF Device!addRemoteDisplay, AttachInv, TypeOK, Held, Taken
<1>4. ASSUME NEW rd \in Remotes, status[rd] # "gone",
             status' = [status EXCEPT ![rd] = "gone"]
      PROVE  Device!removeRemoteDisplay(rd)
  BY <1>1, <1>4 DEF Device!removeRemoteDisplay, AttachInv, TypeOK, Held, Taken
<1>5. \/ status' = status
      \/ \E rd \in Remotes : /\ status[rd] = "new"
                             /\ status' = [status EXCEPT ![rd] = "up"]
      \/ \E rd \in Remotes : /\ status[rd] # "gone"
                             /\ status' = [status EXCEPT ![rd] = "gone"]
  <2> USE DEF device, view, hotplugs, main, socket
  <2>1. CASE Main
    BY <2>1 DEF Main, OnHotplug, CheckCallback, PushPending, CallHotplug,
                ConnectFails, ConnectSucceeds, AddLocal, InitReturns,
                RegisterCallback, FlushOne, ClearPending, UnregisterCallback
  <2>2. CASE Socket
    <3>1. ASSUME NEW rd \in Remotes, AttachPrimary(rd) \/ AddDisplay(rd)
          PROVE  status[rd] = "new" /\ status' = [status EXCEPT ![rd] = "up"]
      BY <3>1 DEF AttachPrimary, AddDisplay, CanAdd
    <3>2. ASSUME NEW rd \in Remotes, ReconfigPrimary(rd) PROVE status' = status
      BY <3>2 DEF ReconfigPrimary
    <3>3. ASSUME NEW rd \in Remotes, RemoveRemote(rd)
          PROVE  status[rd] # "gone" /\ status' = [status EXCEPT ![rd] = "gone"]
      BY <3>3 DEF RemoveRemote
    <3>4. ASSUME Reattach
          PROVE  /\ srd \in Remotes /\ status[srd] = "new"
                 /\ status' = [status EXCEPT ![srd] = "up"]
      BY <3>4 DEF Reattach, AttachInv, ReattachInv
    <3>5. ASSUME EraseDisplay \/ Return \/ OnHotplug("socket")
          PROVE  status' = status
      BY <3>5 DEF EraseDisplay, Return, OnHotplug, CheckCallback, PushPending,
                  CallHotplug
    <3>6. QED
      BY <2>2, <3>1, <3>2, <3>3, <3>4, <3>5 DEF Socket
  <2>3. CASE UNCHANGED vars
    BY <2>3 DEF vars
  <2>4. QED
    BY <2>1, <2>2, <2>3 DEF Next
<1>6. QED
  BY <1>2, <1>3, <1>4, <1>5 DEF Device!Next

(* The device keeps no pointer to a remote the manager has taken back: it  *)
(* implements the interface the manager relies on.                         *)
THEOREM DeviceImplementsInterface ==
  ASSUME ~RepeatedAck PROVE Spec => ImplementsIRemoteDevice
<1>1. Init => Device!Init
  BY NotRemotes DEF Init, Device!Init
<1>2. AttachInv /\ AttachInv' /\ [Next]_vars => [Device!Next]_<<Held, Taken>>
  BY DeviceStep
<1>3. QED
  BY <1>1, <1>2, AttachInvariant, PTL
     DEF Spec, ImplementsIRemoteDevice, Device!Spec, Device!vars, Held, Taken
-----------------------------------------------------------------------------
(* Every display but those of init has an id that was handed out.          *)
Numbered ==
  UioNodes <= 1 => node <= 1 /\ \A i \in Ids : Exists(i) => i < sNextId

(* The step of the map that all the actions share: it may create a local   *)
(* display, which is new to it, or lose one.                               *)
LEMMA EmplaceExists ==
  ASSUME TypeOK, NEW i \in Ids, mDisplays' = emplace(i)
  PROVE  \A j \in Ids : Exists(j)' <=> Exists(j) \/ j = i
  BY NotRemotes DEF TypeOK, emplace, Exists

LEMMA AttachExists ==
  ASSUME TypeOK, NEW i \in Ids, NEW rd \in Remotes, attach(i, rd)
  PROVE  \A j \in Ids : Exists(j)' <=> Exists(j) \/ j = i
  BY NotRemotes DEF TypeOK, attach, Exists

LEMMA RemoveExists ==
  ASSUME TypeOK, NEW rd \in Remotes, RemoveRemote(rd)
  PROVE  \A j \in Ids : Exists(j)' <=> Exists(j)
  BY NotRemotes DEF TypeOK, RemoveRemote, detach, Exists

LEMMA EraseExists ==
  ASSUME TypeOK, EraseDisplay
  PROVE  \/ /\ LastDisplay(sid) /\ Hotplug("socket", Primary, TRUE)
            /\ \A j \in Ids : Exists(j)' <=> j = Primary
         \/ /\ ~LastDisplay(sid) /\ UNCHANGED ev
            /\ \A j \in Ids : Exists(j)' <=> Exists(j) /\ j # sid
<1>1. CASE LastDisplay(sid)
  <2>1. mDisplays' = [mDisplays EXCEPT ![sid] = Absent, ![Primary] = Local]
        /\ Hotplug("socket", Primary, TRUE) /\ sid \in Ids
    BY <1>1 DEF EraseDisplay, TypeOK
  <2>2. \A j \in Ids : Exists(j)' <=> j = Primary
    BY <1>1, <2>1, NotRemotes, IdsFacts DEF LastDisplay, Exists, TypeOK
  <2>3. QED
    BY <1>1, <2>1, <2>2
<1>2. CASE ~LastDisplay(sid)
  BY <1>2 DEF EraseDisplay, TypeOK, Exists
<1>3. QED
  BY <1>1, <1>2

LEMMA NumberedNext == TypeOK /\ Numbered /\ [Next]_vars => Numbered'
<1> SUFFICES ASSUME TypeOK, Numbered, [Next]_vars PROVE Numbered'
  OBVIOUS
<1> USE IdsFacts DEF device, view, hotplugs, main, socket
<1>0. UNCHANGED build => UioNodes' = UioNodes
  BY DEF UioNodes
<1>1. CASE UNCHANGED <<build, mDisplays, sNextId, node>>
  BY <1>0, <1>1 DEF Numbered, Exists
<1>2. ASSUME NEW t \in Threads, OnHotplug(t) PROVE Numbered'
  BY <1>1, <1>2 DEF OnHotplug, CheckCallback, PushPending, CallHotplug, Step
<1>3. CASE ConnectFails
  <2>1. \A j \in Ids : Exists(j)' <=> Exists(j) \/ j = Primary
    BY <1>3, EmplaceExists DEF ConnectFails
  <2>2. Primary < sNextId /\ UNCHANGED <<build, sNextId>> /\ node' = UioNodes
    BY <1>3 DEF ConnectFails, TypeOK, Primary
  <2>3. QED
    BY <1>0, <2>1, <2>2 DEF Numbered
<1>4. CASE ConnectSucceeds
  <2>1. UNCHANGED <<build, mDisplays, sNextId>> /\ node' = UioNodes
    BY <1>4 DEF ConnectSucceeds, Step
  <2>2. QED
    BY <1>0, <2>1 DEF Numbered, Exists
<1>5. CASE AddLocal
  <2>1. ~(UioNodes <= 1) /\ UNCHANGED build
    BY <1>5 DEF AddLocal, Step, Numbered, TypeOK
  <2>2. QED
    BY <1>0, <2>1 DEF Numbered
<1>6. CASE InitReturns \/ RegisterCallback \/ FlushOne \/ ClearPending
           \/ UnregisterCallback
  BY <1>1, <1>6 DEF InitReturns, RegisterCallback, FlushOne, ClearPending,
                    UnregisterCallback, Step
<1>7. ASSUME NEW rd \in Remotes, AttachPrimary(rd) PROVE Numbered'
  <2>1. UNCHANGED <<build, sNextId, node>> /\ Primary < sNextId
    BY <1>7 DEF AttachPrimary, Step, TypeOK, Primary
  <2>2. \A j \in Ids : Exists(j)' <=> Exists(j) \/ j = Primary
    BY <1>7, AttachExists DEF AttachPrimary
  <2>3. QED
    BY <1>0, <2>1, <2>2 DEF Numbered
<1>8. ASSUME NEW rd \in Remotes, ReconfigPrimary(rd) PROVE Numbered'
  BY <1>1, <1>8 DEF ReconfigPrimary, Step
<1>9. CASE Reattach
  <2>1. UNCHANGED <<build, sNextId, node>> /\ Primary < sNextId
    BY <1>9 DEF Reattach, Step, TypeOK, Primary
  <2>2. \A j \in Ids : Exists(j)' <=> Exists(j) \/ j = Primary
    BY <1>9, AttachExists DEF Reattach, TypeOK
  <2>3. QED
    BY <1>0, <2>1, <2>2 DEF Numbered
<1>10. ASSUME NEW rd \in Remotes, AddDisplay(rd) PROVE Numbered'
  <2>1. UNCHANGED <<build, node>> /\ sNextId' = sNextId + 1 /\ sNextId \in Ids
    BY <1>10 DEF AddDisplay, NextId, Step, TypeOK, Ids
  <2>2. \A j \in Ids : Exists(j)' <=> Exists(j) \/ j = sNextId
    BY <1>10, <2>1, AttachExists DEF AddDisplay
  <2>3. QED
    BY <1>0, <2>1, <2>2 DEF Numbered, Ids
<1>11. ASSUME NEW rd \in Remotes, RemoveRemote(rd) PROVE Numbered'
  <2>1. UNCHANGED <<build, sNextId, node>>
    BY <1>11 DEF RemoveRemote, Step
  <2>2. QED
    BY <1>0, <1>11, <2>1, RemoveExists DEF Numbered
<1>12. CASE EraseDisplay
  <2>1. UNCHANGED <<build, sNextId, node>> /\ Primary < sNextId
    BY <1>12 DEF EraseDisplay, Step, TypeOK, Primary
  <2>2. QED
    BY <1>0, <1>12, <2>1, EraseExists DEF Numbered
<1>13. CASE Return \/ UNCHANGED vars
  BY <1>1, <1>13 DEF Return, Step, vars
<1>14. QED
  BY <1>2, <1>3, <1>4, <1>5, <1>6, <1>7, <1>8, <1>9, <1>10, <1>11, <1>12, <1>13
     DEF Next, Main, Socket, Threads

(* A display that is added for a remote takes an id no display has, when   *)
(* init made no local displays (addRemoteDisplay, "add new display").      *)
THEOREM NewDisplayIsNew == Spec => AddedDisplayIsNew
<1>1. Init => Numbered
  BY DEF Init, Numbered, Exists
<1>2. TypeOK /\ Numbered /\ [Next]_vars =>
        [UioNodes <= 1 /\ sNextId' # sNextId => ~Exists(sNextId)]_vars
  <2> SUFFICES ASSUME TypeOK, Numbered, [Next]_vars, UioNodes <= 1, sNextId' # sNextId
               PROVE  ~Exists(sNextId)
    OBVIOUS
  <2>1. \E rd \in Remotes : AddDisplay(rd)
    BY DEF Next, Main, Socket, OnHotplug, CheckCallback, PushPending, CallHotplug,
           ConnectFails, ConnectSucceeds, AddLocal, InitReturns, RegisterCallback,
           FlushOne, ClearPending, UnregisterCallback, AttachPrimary, ReconfigPrimary,
           Reattach, RemoveRemote, EraseDisplay, Return, vars, device
  <2>2. sNextId \in Ids
    BY <2>1 DEF AddDisplay, TypeOK, Ids
  <2>3. QED
    BY <2>2 DEF Numbered, Ids
<1>3. QED
  BY <1>1, <1>2, NumberedNext, DeviceTypeCorrect, PTL DEF Spec, AddedDisplayIsNew

-----------------------------------------------------------------------------
(* Once init has made a display, or a remote has got one of its own, there *)
(* is one: the last display that goes is replaced by a local primary.      *)
OneDisplay ==
  mpc # "connect" \/ (\E r \in Remotes : displayId[r] # Primary) =>
    \E i \in Ids : Exists(i)

LEMMA OneDisplayNext == TypeOK /\ OneDisplay /\ [Next]_vars => OneDisplay'
<1> SUFFICES ASSUME TypeOK, OneDisplay, [Next]_vars PROVE OneDisplay'
  OBVIOUS
<1> USE IdsFacts DEF device, view, hotplugs, main, socket
<1>1. CASE UNCHANGED <<mDisplays, mpc, displayId>>
  BY <1>1 DEF OneDisplay, Exists
<1>2. ASSUME NEW t \in Threads, OnHotplug(t) PROVE OneDisplay'
  BY <1>1, <1>2 DEF OnHotplug, CheckCallback, PushPending, CallHotplug
<1>3. ASSUME NEW i \in Ids, Exists(i)' PROVE OneDisplay'
  BY <1>3 DEF OneDisplay
<1>4. CASE ConnectFails
  BY <1>3, <1>4, EmplaceExists DEF ConnectFails
<1>5. CASE ConnectSucceeds
  BY <1>5 DEF ConnectSucceeds, Added, OneDisplay, Exists
<1>6. CASE AddLocal
  <2>1. node - 1 \in Ids
    BY <1>6 DEF AddLocal, TypeOK, Ids
  <2>2. QED
    BY <1>3, <1>6, <2>1, EmplaceExists DEF AddLocal
<1>7. CASE InitReturns \/ RegisterCallback \/ FlushOne \/ ClearPending
           \/ UnregisterCallback
  BY <1>7 DEF InitReturns, RegisterCallback, FlushOne, ClearPending,
              UnregisterCallback, OneDisplay, Exists
<1>8. ASSUME NEW rd \in Remotes, AttachPrimary(rd) PROVE OneDisplay'
  BY <1>3, <1>8, AttachExists DEF AttachPrimary
<1>9. ASSUME NEW rd \in Remotes, ReconfigPrimary(rd) PROVE OneDisplay'
  BY <1>9 DEF ReconfigPrimary, OneDisplay, Exists, attachable, TypeOK
<1>10. CASE Reattach
  BY <1>3, <1>10, AttachExists DEF Reattach, TypeOK
<1>11. ASSUME NEW rd \in Remotes, AddDisplay(rd) PROVE OneDisplay'
  <2>1. sNextId \in Ids
    BY <1>11 DEF AddDisplay, TypeOK, Ids
  <2>2. QED
    BY <1>3, <1>11, <2>1, AttachExists DEF AddDisplay
<1>12. ASSUME NEW rd \in Remotes, RemoveRemote(rd) PROVE OneDisplay'
  <2>1. UNCHANGED <<mpc, displayId>>
    BY <1>12 DEF RemoveRemote
  <2>2. QED
    BY <1>12, <2>1, RemoveExists DEF OneDisplay
<1>13. CASE EraseDisplay
  <2>1. CASE LastDisplay(sid)
    BY <1>3, <1>13, <2>1, EraseExists
  <2>2. CASE ~LastDisplay(sid)
    <3>1. PICK i \in Ids \ {sid} : Exists(i)
      BY <2>2 DEF LastDisplay
    <3>2. QED
      BY <1>3, <1>13, <2>2, <3>1, EraseExists
  <2>3. QED
    BY <2>1, <2>2
<1>14. CASE Return \/ UNCHANGED vars
  BY <1>1, <1>14 DEF Return, vars
<1>15. QED
  BY <1>2, <1>4, <1>5, <1>6, <1>7, <1>8, <1>9, <1>10, <1>11, <1>12, <1>13, <1>14
     DEF Next, Main, Socket, Threads

(* After init there is always a display, whatever remotes come and go in   *)
(* whatever order, and also while init runs beside them (init,             *)
(* addRemoteDisplay, removeRemoteDisplay).                                 *)
THEOREM AlwaysADisplay == Spec => []SomeDisplay
<1>1. Init => OneDisplay
  BY DEF Init, OneDisplay, Primary
<1>2. OneDisplay => SomeDisplay
  BY DEF OneDisplay, SomeDisplay
<1>3. QED
  BY <1>1, <1>2, OneDisplayNext, DeviceTypeCorrect, PTL DEF Spec
-----------------------------------------------------------------------------
(* Queues of events.  A queue leads from the displays SurfaceFlinger knows *)
(* to those it will know when every event of the queue tells it something  *)
(* new: there is a path of what it knows in between.                       *)
After(T, e) == IF e.on THEN T \union {e.id} ELSE T \ {e.id}
News(T, e) == e.on <=> e.id \notin T

Leads(q, T, D) ==
  \E path \in [0 .. Len(q) -> SUBSET Ids] :
    /\ path[0] = T /\ path[Len(q)] = D
    /\ \A k \in 1 .. Len(q) : /\ News(path[k - 1], q[k])
                              /\ path[k] = After(path[k - 1], q[k])

LEMMA LeadsEmpty ==
  ASSUME NEW T \in SUBSET Ids, NEW D \in SUBSET Ids
  PROVE  Leads(<<>>, T, D) <=> T = D
<1>1. Len(<<>>) = 0
  OBVIOUS
<1>2. Leads(<<>>, T, D) => T = D
  BY <1>1 DEF Leads
<1>3. ASSUME T = D PROVE Leads(<<>>, T, D)
  <2> DEFINE path == [k \in 0 .. 0 |-> T]
  <2>1. path \in [0 .. Len(<<>>) -> SUBSET Ids] /\ path[0] = T /\ path[Len(<<>>)] = D
    BY <1>1, <1>3
  <2> HIDE DEF path
  <2>2. 1 .. Len(<<>>) = {}
    BY <1>1
  <2>3. QED
    BY <2>1, <2>2 DEF Leads
<1>4. QED
  BY <1>2, <1>3

(* An event that is queued, and one that is delivered.                     *)
LEMMA LeadsAppend ==
  ASSUME NEW q \in Seq(Events), NEW e \in Events, NEW T \in SUBSET Ids,
         NEW D \in SUBSET Ids, Leads(q, T, D), News(D, e)
  PROVE  Leads(Append(q, e), T, After(D, e))
<1> DEFINE p == Append(q, e)
           n == Len(q)
<1>1. /\ n \in Nat /\ Len(p) = n + 1 /\ p[n + 1] = e
      /\ \A k \in 1 .. n : p[k] = q[k]
  OBVIOUS
<1>2. PICK path \in [0 .. n -> SUBSET Ids] :
        /\ path[0] = T /\ path[n] = D
        /\ \A k \in 1 .. n : /\ News(path[k - 1], q[k])
                             /\ path[k] = After(path[k - 1], q[k])
  BY DEF Leads
<1> HIDE DEF p, n
<1> DEFINE longer == [k \in 0 .. n + 1 |-> IF k = n + 1 THEN After(D, e) ELSE path[k]]
<1>3. After(D, e) \in SUBSET Ids
  BY DEF After, Events
<1>4. longer \in [0 .. Len(p) -> SUBSET Ids]
  BY <1>1, <1>3
<1>5. /\ longer[0] = T /\ longer[n] = D /\ longer[Len(p)] = After(D, e)
      /\ \A k \in 1 .. n : longer[k] = path[k] /\ longer[k - 1] = path[k - 1]
  BY <1>1, <1>2
<1> HIDE DEF longer
<1>6. ASSUME NEW k \in 1 .. Len(p)
      PROVE  News(longer[k - 1], p[k]) /\ longer[k] = After(longer[k - 1], p[k])
  <2>1. CASE k = n + 1
    <3>1. k - 1 = n
      BY <1>1, <2>1
    <3>2. QED
      BY <1>1, <1>5, <2>1, <3>1
  <2>2. CASE k # n + 1
    <3>1. k \in 1 .. n
      BY <1>1, <2>2
    <3>2. QED
      BY <1>1, <1>2, <1>5, <3>1
  <2>3. QED
    BY <2>1, <2>2
<1>7. QED
  BY <1>4, <1>5, <1>6 DEF Leads, p

LEMMA LeadsTail ==
  ASSUME NEW q \in Seq(Events), q # <<>>, NEW T \in SUBSET Ids,
         NEW D \in SUBSET Ids, Leads(q, T, D)
  PROVE  News(T, Head(q)) /\ Leads(Tail(q), After(T, Head(q)), D)
<1> DEFINE p == Tail(q)
           n == Len(p)
<1>1. /\ n \in Nat /\ Len(q) = n + 1 /\ Head(q) = q[1]
      /\ \A k \in 1 .. n : p[k] = q[k + 1]
  OBVIOUS
<1>2. PICK path \in [0 .. n + 1 -> SUBSET Ids] :
        /\ path[0] = T /\ path[n + 1] = D
        /\ \A k \in 1 .. n + 1 : /\ News(path[k - 1], q[k])
                                 /\ path[k] = After(path[k - 1], q[k])
  BY <1>1 DEF Leads
<1> HIDE DEF p, n
<1>3. News(T, Head(q)) /\ path[1] = After(T, Head(q))
  <2>1. 1 \in 1 .. n + 1 /\ 1 - 1 = 0
    BY <1>1
  <2>2. QED
    BY <1>1, <1>2, <2>1
<1> DEFINE rest == [k \in 0 .. n |-> path[k + 1]]
<1>4. /\ rest \in [0 .. n -> SUBSET Ids] /\ rest[0] = After(T, Head(q)) /\ rest[n] = D
  BY <1>1, <1>2, <1>3
<1>5. ASSUME NEW k \in 1 .. n
      PROVE  News(rest[k - 1], p[k]) /\ rest[k] = After(rest[k - 1], p[k])
  <2>1. /\ k + 1 \in 1 .. n + 1 /\ (k + 1) - 1 = k /\ rest[k - 1] = path[k]
        /\ rest[k] = path[k + 1]
    BY <1>1
  <2>2. News(path[(k + 1) - 1], q[k + 1]) /\ path[k + 1] = After(path[(k + 1) - 1], q[k + 1])
    BY <1>2, <2>1
  <2>3. QED
    BY <1>1, <2>1, <2>2
<1>6. QED
  BY <1>3, <1>4, <1>5 DEF Leads, p, n
-----------------------------------------------------------------------------
(* What SurfaceFlinger is told.  A display is wanted when it exists and no *)
(* thread has withdrawn it to attach a remote to it or to erase it; what   *)
(* is due is what the queue leads to before the event under way.           *)
Wanted == {i \in Ids : /\ Exists(i)
                       /\ ~(spc = "reattach" /\ i = Primary)
                       /\ ~(spc = "erase" /\ i = sid)}
UnderWay(i) == \E t \in Threads : ~Idle(t) /\ ev[t].id = i
Due == {i \in Ids : i \in Wanted <=> ~UnderWay(i)}
Undelivered == IF mpc = "flush" THEN flushing ELSE mPendingHotplugs

(* Where an event can be under way, whether or not the threads overlap,    *)
(* and what a process has done that has not got through its init.          *)
Calls ==
  /\ \A t \in Threads : Idle(t) \/ ev[t].at \in {"check", "push", "call"}
  /\ ~Idle("main") => mpc = "nodes"
  /\ ~Idle("socket") => spc # "idle"
  /\ mpc \in {"connect", "nodes"} => ~registered
  /\ mpc = "connect" => ~overlap

Untouched ==
  /\ EarlyReturn => spc = "idle" /\ \A rd \in Remotes : status[rd] = "new"
  /\ mpc = "connect" /\ (\A rd \in Remotes : status[rd] = "new") =>
       /\ spc = "idle" /\ mPendingHotplugs = <<>> /\ told = {}
       /\ \A i \in Ids : ~Exists(i)
  /\ EarlyReturn /\ mpc = "nodes" =>
       \A i \in Ids : Exists(i) => i = Primary \/ i >= node

(* While the threads do not overlap, the queue is empty or there is no     *)
(* callback, a thread's decision between the two is still right when it    *)
(* acts on it, and every event tells something new.                        *)
Spoken ==
  /\ mpc \in {"nodes", "flush"} => spc = "idle"
  /\ registered /\ mpc # "flush" => mPendingHotplugs = <<>>
  /\ \A t \in Threads : /\ ev[t].at = "call" => registered
                        /\ ev[t].at = "push" => ~registered
                        /\ ~Idle(t) => (ev[t].on <=> ev[t].id \in Wanted)
  /\ Leads(Undelivered, told, Due)
  /\ ~repeated

Told == Calls /\ Untouched /\ (~overlap => Spoken)

(* Remotes come only to a device with at most one uio node.                *)
OneNode == \A b \in Builds : b[1] \/ b[2] <= 1

LEMMA WhoIsIdle ==
  ASSUME Calls
  PROVE  /\ ev["main"].at \in {"check", "push", "call"} => mpc = "nodes"
         /\ ev["socket"].at \in {"check", "push", "call"} => spc # "idle"
         /\ \A t \in Threads : ev[t].at \in {"check", "push", "call"} => ~Idle(t)
         /\ mpc # "nodes" => Idle("main")
         /\ spc = "idle" => Idle("socket")
  BY DEF Calls, Idle, NoEvent, Threads

(* Nobody is in a call: what is due is what is wanted.                     *)
LEMMA DueIfIdle ==
  ASSUME Idle("main"), Idle("socket") PROVE Due = Wanted
  BY DEF Due, Wanted, UnderWay, Threads

LEMMA DueIfCalling ==
  ASSUME NEW t \in Threads, ~Idle(t), \A u \in Threads \ {t} : Idle(u)
  PROVE  Due = {i \in Ids : i \in Wanted <=> i # ev[t].id}
  BY DEF Due, UnderWay

(* A step that starts a call: the caller made a display that was not       *)
(* wanted a wanted one, or the other way round.                            *)
LEMMA SpokenStarts ==
  ASSUME TypeOK, Calls, Spoken, NEW t \in Threads, NEW i \in Ids, NEW c \in BOOLEAN,
         \A u \in Threads : Idle(u), Hotplug(t, i, c),
         UNCHANGED <<registered, told, repeated, Undelivered, mPendingHotplugs>>,
         mpc' \in {"nodes", "flush"} => spc' = "idle",
         mpc' = "flush" <=> mpc = "flush",
         i \in Wanted <=> ~c,
         Wanted' = IF c THEN Wanted \union {i} ELSE Wanted \ {i}
  PROVE  Spoken'
<1>1. /\ ev'[t] = [id |-> i, on |-> c, at |-> "check"]
      /\ \A u \in Threads \ {t} : ev'[u] = ev[u]
  BY DEF Hotplug, TypeOK
<1>2. (\A u \in Threads \ {t} : Idle(u)') /\ ~Idle(t)' /\ ev'[t].id = i /\ ev'[t].on = c
      /\ ev'[t].at = "check"
  BY <1>1 DEF Idle, NoEvent
<1>3. Due' = {j \in Ids : j \in Wanted' <=> j # i}
  BY <1>2 DEF Due, UnderWay
<1>4. Due = Wanted /\ Wanted \subseteq Ids
  BY DueIfIdle DEF Threads, Wanted
<1>5. Due' = Due
  BY <1>3, <1>4
<1>6. Leads(Undelivered, told, Due)'
  BY <1>5 DEF Spoken
<1>7. \A u \in Threads \ {t} : ev'[u].at = "none"
  BY <1>2 DEF Idle, NoEvent
<1>8. ASSUME NEW u \in Threads
      PROVE  /\ ev'[u].at = "call" => registered'
             /\ ev'[u].at = "push" => ~registered'
             /\ ~Idle(u)' => (ev'[u].on <=> ev'[u].id \in Wanted')
  <2>1. CASE u = t
    BY <1>2, <2>1
  <2>2. CASE u # t
    BY <1>2, <1>7, <2>2
  <2>3. QED
    BY <2>1, <2>2
<1>9. QED
  BY <1>6, <1>8 DEF Spoken

(* A step that says and wants nothing new.                                 *)
LEMMA SpokenKept ==
  ASSUME Spoken, UNCHANGED <<registered, told, repeated, ev, Wanted, Undelivered>>,
         mPendingHotplugs' = mPendingHotplugs,
         mpc' \in {"nodes", "flush"} => spc' = "idle",
         mpc' = "flush" <=> mpc = "flush"
  PROVE  Spoken'
<1>1. Due' = Due
  BY DEF Due, UnderWay, Idle
<1>2. Leads(Undelivered, told, Due)'
  BY <1>1 DEF Spoken
<1>3. \A t \in Threads : /\ ev'[t].at = "call" => registered'
                         /\ ev'[t].at = "push" => ~registered'
                         /\ ~Idle(t)' => (ev'[t].on <=> ev'[t].id \in Wanted')
  BY DEF Spoken, Idle
<1>4. QED
  BY <1>2, <1>3 DEF Spoken

(* What becomes of a call.                                                 *)
LEMMA SpokenCalls ==
  ASSUME TypeOK, Calls, Spoken, NEW t \in Threads, OnHotplug(t),
         \A u \in Threads \ {t} : Idle(u)
  PROVE  Spoken'
<1> USE DEF device, view, hotplugs, main, socket
<1>1. UNCHANGED <<mDisplays, spc, sid, mpc, flushing, registered>>
  BY DEF OnHotplug, CheckCallback, PushPending, CallHotplug
<1>2. Wanted' = Wanted /\ Wanted \subseteq Ids
  BY <1>1 DEF Wanted, Exists
<1>3. ~Idle(t) /\ ev[t].id \in Ids
  BY WhoIsIdle, EvType DEF OnHotplug, CheckCallback, PushPending, CallHotplug
<1>4. /\ Due = {i \in Ids : i \in Wanted <=> i # ev[t].id}
      /\ ev[t].on <=> ev[t].id \in Wanted
      /\ News(Due, ev[t]) /\ Wanted = After(Due, ev[t])
  <2>1. Due = {i \in Ids : i \in Wanted <=> i # ev[t].id}
    BY <1>3, DueIfCalling
  <2>2. ev[t].on <=> ev[t].id \in Wanted
    BY <1>3 DEF Spoken
  <2>3. ev[t].id \in Due <=> ev[t].id \notin Wanted
    BY <1>3, <2>1
  <2>4. Wanted = After(Due, ev[t])
    <3>1. CASE ev[t].on
      BY <1>2, <1>3, <2>1, <2>2, <3>1 DEF After
    <3>2. CASE ~ev[t].on
      BY <1>2, <1>3, <2>1, <2>2, <3>2 DEF After
    <3>3. QED
      BY <3>1, <3>2
  <2>5. QED
    BY <2>1, <2>2, <2>3, <2>4 DEF News
<1>5. mpc # "flush" /\ (mpc = "nodes" => spc = "idle")
  <2>1. CASE t = "main"
    BY <1>3, <2>1, WhoIsIdle DEF Spoken
  <2>2. CASE t = "socket"
    BY <1>3, <2>2, WhoIsIdle DEF Spoken
  <2>3. QED
    BY <2>1, <2>2 DEF Threads
<1>6. CASE CheckCallback(t)
  <2>1. /\ ev'[t] = [ev[t] EXCEPT !.at = IF registered THEN "call" ELSE "push"]
        /\ \A u \in Threads \ {t} : ev'[u] = ev[u]
        /\ UNCHANGED <<mPendingHotplugs, told, repeated>>
    BY <1>6 DEF CheckCallback, TypeOK
  <2>2. /\ ev'[t].id = ev[t].id /\ ev'[t].on = ev[t].on
        /\ ev'[t].at = IF registered THEN "call" ELSE "push"
    BY <2>1 DEF TypeOK
  <2>3. ~Idle(t)' /\ \A u \in Threads \ {t} : Idle(u)' /\ ev'[u].at = "none"
    BY <2>1, <2>2 DEF Idle, NoEvent
  <2>4. UNCHANGED <<Due, Undelivered>>
    <3>1. Due' = {i \in Ids : i \in Wanted' <=> i # ev'[t].id}
      BY <2>3 DEF Due, UnderWay
    <3>2. QED
      BY <1>1, <1>2, <1>4, <2>1, <2>2, <3>1 DEF Undelivered
  <2>5. Leads(Undelivered, told, Due)'
    BY <2>1, <2>4 DEF Spoken
  <2>6. ASSUME NEW u \in Threads
        PROVE  /\ ev'[u].at = "call" => registered'
               /\ ev'[u].at = "push" => ~registered'
               /\ ~Idle(u)' => (ev'[u].on <=> ev'[u].id \in Wanted')
    <3>1. CASE u = t
      BY <1>1, <1>2, <1>4, <2>2, <3>1
    <3>2. CASE u # t
      BY <2>3, <3>2
    <3>3. QED
      BY <3>1, <3>2
  <2>7. QED
    BY <1>1, <2>1, <2>5, <2>6 DEF Spoken
<1>7. CASE PushPending(t) \/ CallHotplug(t)
  <2>1. \A u \in Threads : ev'[u] = NoEvent
    BY <1>7 DEF PushPending, CallHotplug, TypeOK, Idle
  <2>2. Due' = Wanted
    BY <1>2, <2>1 DEF Due, UnderWay, Idle, Wanted
  <2>3. \A u \in Threads : Idle(u)' /\ ev'[u].at = "none"
    BY <2>1 DEF Idle, NoEvent
  <2>4. told \in SUBSET Ids /\ Due \in SUBSET Ids
    BY DEF TypeOK, Due
  <2>5. /\ Leads(Undelivered', told', Wanted) /\ ~repeated'
        /\ registered => mPendingHotplugs' = <<>>
    <3>1. CASE PushPending(t)
      <4> DEFINE e == [id |-> ev[t].id, on |-> ev[t].on]
      <4>1. e \in Events /\ News(Due, e) /\ After(Due, e) = Wanted
        BY <1>4, EvType DEF News, After
      <4>2. ~registered /\ UNCHANGED <<told, repeated>>
        BY <3>1 DEF PushPending, Spoken
      <4>3. mPendingHotplugs' = Append(mPendingHotplugs, e)
        BY <3>1 DEF PushPending
      <4>4. Undelivered = mPendingHotplugs /\ Undelivered' = mPendingHotplugs'
        BY <1>1, <1>5 DEF Undelivered
      <4>5. Leads(mPendingHotplugs, told, Due) /\ mPendingHotplugs \in Seq(Events)
        BY <4>4 DEF Spoken, TypeOK
      <4> HIDE DEF e
      <4>6. Leads(Append(mPendingHotplugs, e), told, After(Due, e))
        BY <2>4, <4>1, <4>5, LeadsAppend
      <4>7. QED
        BY <4>1, <4>2, <4>3, <4>4, <4>6 DEF Spoken
    <3>2. CASE CallHotplug(t)
      <4>1. registered /\ mPendingHotplugs = <<>> /\ mPendingHotplugs' = <<>>
            /\ Tell(ev[t].id, ev[t].on)
        BY <1>5, <3>2 DEF CallHotplug, Spoken
      <4>2. Undelivered = <<>> /\ Undelivered' = <<>>
        BY <1>1, <1>5, <4>1 DEF Undelivered
      <4>3. told = Due
        BY <2>4, <4>2, LeadsEmpty DEF Spoken
      <4>4. told' = After(told, ev[t]) /\ (repeated' <=> repeated \/ ~News(told, ev[t]))
        BY <4>1 DEF Tell, After, News
      <4>5. told' = Wanted /\ ~repeated'
        BY <1>4, <4>3, <4>4 DEF Spoken
      <4>6. QED
        BY <1>2, <4>1, <4>2, <4>5, LeadsEmpty
    <3>3. QED
      BY <1>7, <3>1, <3>2
  <2>6. Leads(Undelivered, told, Due)'
    BY <2>2, <2>5
  <2>7. QED
    BY <1>1, <1>5, <2>3, <2>5, <2>6 DEF Spoken
<1>8. QED
  BY <1>6, <1>7 DEF OnHotplug

(* Who is at work when a step is taken.                                    *)
LEMMA StepAlone ==
  /\ Step("main") => (overlap' <=> overlap \/ spc # "idle") /\ build' = build
  /\ Step("socket") => (overlap' <=> overlap \/ mpc \in {"nodes", "flush"}) /\ build' = build
<1>1. Threads \ {"main"} = {"socket"} /\ Threads \ {"socket"} = {"main"}
  BY DEF Threads
<1>2. Busy("main") = (mpc \in {"nodes", "flush"}) /\ Busy("socket") = (spc # "idle")
  BY DEF Busy
<1>3. QED
  BY <1>1, <1>2 DEF Step

LEMMA HotplugCalls ==
  ASSUME TypeOK, NEW t \in Threads, NEW i \in Ids, NEW c \in BOOLEAN, Hotplug(t, i, c)
  PROVE  ev'[t].at = "check" /\ ~Idle(t)' /\ \A u \in Threads \ {t} : ev'[u] = ev[u]
  BY DEF TypeOK, Hotplug, Idle, NoEvent

LEMMA CallsNext == TypeOK /\ Calls /\ [Next]_vars => Calls'
<1> SUFFICES ASSUME TypeOK, Calls, [Next]_vars PROVE Calls'
  OBVIOUS
<1> USE IdsFacts, StepAlone DEF device, view, hotplugs, main, socket
<1>1. ASSUME NEW t \in Threads, OnHotplug(t) PROVE Calls'
  <2>1. /\ UNCHANGED <<spc, mpc, registered>> /\ Step(t) /\ ~Idle(t)
        /\ \A u \in Threads \ {t} : ev'[u] = ev[u]
    BY <1>1, WhoIsIdle
       DEF OnHotplug, CheckCallback, PushPending, CallHotplug, TypeOK
  <2>2. Idle(t)' \/ ev'[t].at \in {"check", "push", "call"}
    BY <1>1 DEF OnHotplug, CheckCallback, PushPending, CallHotplug, TypeOK, Idle
  <2>3. mpc = "connect" => ~overlap'
    BY <2>1 DEF Calls, Threads
  <2>4. QED
    BY <2>1, <2>2, <2>3 DEF Calls, Idle, Threads
<1>2. CASE ConnectFails
  <2>1. ev'["main"].at = "check" /\ ev'["socket"] = ev["socket"]
    BY <1>2, HotplugCalls DEF ConnectFails, Threads
  <2>2. mpc' = "nodes" /\ UNCHANGED <<spc, registered>> /\ mpc = "connect"
    BY <1>2 DEF ConnectFails
  <2>3. QED
    BY <2>1, <2>2 DEF Calls, Idle, Threads
<1>3. CASE AddLocal
  <2>1. node - 1 \in Ids
    BY <1>3 DEF AddLocal, TypeOK, Ids
  <2>2. ev'["main"].at = "check" /\ ev'["socket"] = ev["socket"]
    BY <1>3, <2>1, HotplugCalls DEF AddLocal, Threads
  <2>3. mpc = "nodes" /\ UNCHANGED <<mpc, spc, registered>>
    BY <1>3 DEF AddLocal
  <2>4. QED
    BY <2>2, <2>3 DEF Calls, Idle, Threads
<1>4. CASE ConnectSucceeds \/ InitReturns \/ RegisterCallback \/ FlushOne \/ ClearPending
           \/ UnregisterCallback
  <2>1. ev' = ev /\ spc' = spc
    BY <1>4 DEF ConnectSucceeds, InitReturns, RegisterCallback, FlushOne, ClearPending,
                UnregisterCallback
  <2>2. /\ ~Idle("main") => mpc' = "nodes"
        /\ mpc' \in {"connect", "nodes"} => ~registered'
        /\ mpc' # "connect"
    BY <1>4 DEF ConnectSucceeds, InitReturns, RegisterCallback, FlushOne, ClearPending,
                UnregisterCallback, Calls
  <2>3. QED
    BY <2>1, <2>2 DEF Calls, Idle
<1>5. ASSUME NEW i \in Ids, NEW c \in BOOLEAN, Hotplug("socket", i, c), spc' # "idle",
             UNCHANGED <<mpc, registered>>, Step("socket")
      PROVE  Calls'
  <2>1. ev'["socket"].at = "check" /\ ev'["main"] = ev["main"]
    BY <1>5, HotplugCalls DEF Threads
  <2>2. QED
    BY <1>5, <2>1 DEF Calls, Idle, Threads
<1>6. ASSUME ev' = ev, spc' # "idle" \/ spc' = spc \/ Idle("socket"),
             UNCHANGED <<mpc, registered>>, Step("socket")
      PROVE  Calls'
  BY <1>6 DEF Calls, Idle, Threads
<1>7. ASSUME NEW rd \in Remotes, AttachPrimary(rd) PROVE Calls'
  BY <1>6, <1>7 DEF AttachPrimary
<1>8. ASSUME NEW rd \in Remotes, ReconfigPrimary(rd) PROVE Calls'
  BY <1>5, <1>8 DEF ReconfigPrimary
<1>9. ASSUME NEW rd \in Remotes, AddDisplay(rd) PROVE Calls'
  <2>1. sNextId \in Ids
    BY <1>9 DEF AddDisplay, TypeOK, Ids
  <2>2. QED
    BY <1>5, <1>9, <2>1 DEF AddDisplay
<1>10. ASSUME NEW rd \in Remotes, RemoveRemote(rd) PROVE Calls'
  <2>1. displayId[rd] \in Ids
    BY DEF TypeOK
  <2>2. CASE Exists(displayId[rd]) /\ displayId[rd] # Primary
    BY <1>5, <1>10, <2>1, <2>2 DEF RemoveRemote
  <2>3. CASE ~(Exists(displayId[rd]) /\ displayId[rd] # Primary)
    BY <1>6, <1>10, <2>3 DEF RemoveRemote
  <2>4. QED
    BY <2>2, <2>3
<1>11. CASE Reattach
  BY <1>5, <1>11 DEF Reattach
<1>12. CASE EraseDisplay
  <2>1. CASE LastDisplay(sid)
    BY <1>5, <1>12, <2>1 DEF EraseDisplay
  <2>2. CASE ~LastDisplay(sid)
    BY <1>6, <1>12, <2>2 DEF EraseDisplay
  <2>3. QED
    BY <2>1, <2>2
<1>13. CASE Return
  BY <1>6, <1>13 DEF Return
<1>14. CASE UNCHANGED vars
  BY <1>14 DEF vars, Calls, Idle
<1>15. QED
  BY <1>1, <1>2, <1>3, <1>4, <1>7, <1>8, <1>9, <1>10, <1>11, <1>12, <1>13, <1>14
     DEF Next, Main, Socket, Threads

LEMMA UntouchedNext ==
  TypeOK /\ Calls /\ Untouched /\ [Next]_vars => Untouched'
<1> SUFFICES ASSUME TypeOK, Calls, Untouched, [Next]_vars PROVE Untouched'
  OBVIOUS
<1> USE IdsFacts, StepAlone DEF device, view, hotplugs, main, socket
<1>0. build' = build => EarlyReturn' = EarlyReturn
  BY DEF EarlyReturn
<1>1. CASE UNCHANGED <<build, mDisplays, status, spc, mpc, node, mPendingHotplugs, told>>
  BY <1>0, <1>1 DEF Untouched, Exists
<1>2. ASSUME NEW t \in Threads, OnHotplug(t) PROVE Untouched'
  <2>1. UNCHANGED <<build, mDisplays, status, spc, mpc, node>> /\ ~Idle(t)
    BY <1>2, WhoIsIdle
       DEF OnHotplug, CheckCallback, PushPending, CallHotplug, Step
  <2>2. mpc = "connect" => spc # "idle"
    BY <2>1 DEF Calls, Threads
  <2>3. QED
    BY <1>0, <2>1, <2>2 DEF Untouched, Exists
<1>3. CASE ConnectFails
  <2>1. \A j \in Ids : Exists(j)' <=> Exists(j) \/ j = Primary
    BY <1>3, EmplaceExists DEF ConnectFails
  <2>2. UNCHANGED <<build, status, spc>> /\ mpc' = "nodes" /\ mpc = "connect"
    BY <1>3 DEF ConnectFails
  <2>3. QED
    BY <1>0, <2>1, <2>2 DEF Untouched
<1>4. CASE ConnectSucceeds
  <2>1. UNCHANGED <<build, status, spc, mDisplays>> /\ mpc' = "nodes" /\ mpc = "connect"
    BY <1>4 DEF ConnectSucceeds
  <2>2. QED
    BY <1>0, <2>1 DEF Untouched, Exists
<1>5. CASE AddLocal
  <2>1. node - 1 \in Ids /\ node' = node - 1 /\ node \in Nat
        /\ UNCHANGED <<build, status, spc, mpc>> /\ mpc = "nodes"
    BY <1>5 DEF AddLocal, TypeOK, Ids
  <2>2. \A j \in Ids : Exists(j)' <=> Exists(j) \/ j = node - 1
    BY <1>5, <2>1, EmplaceExists DEF AddLocal
  <2>3. QED
    BY <1>0, <2>1, <2>2 DEF Untouched, Ids, Primary
<1>6. CASE InitReturns \/ RegisterCallback \/ FlushOne \/ ClearPending \/ UnregisterCallback
  <2>1. UNCHANGED <<build, status, spc>> /\ mpc' \notin {"connect", "nodes"}
    BY <1>6 DEF InitReturns, RegisterCallback, FlushOne, ClearPending, UnregisterCallback
  <2>2. QED
    BY <1>0, <2>1 DEF Untouched
<1>7. ASSUME NEW rd \in Remotes, AttachPrimary(rd) \/ AddDisplay(rd) \/ RemoveRemote(rd)
      PROVE  Untouched'
  <2>1. /\ ~EarlyReturn /\ build' = build
        /\ status' = [status EXCEPT ![rd] = "up"] \/ status' = [status EXCEPT ![rd] = "gone"]
    BY <1>7 DEF AttachPrimary, AddDisplay, RemoveRemote, CanAdd
  <2>2. status'[rd] # "new"
    BY <2>1 DEF TypeOK
  <2>3. QED
    BY <1>0, <2>1, <2>2 DEF Untouched
<1>8. ASSUME NEW rd \in Remotes, ReconfigPrimary(rd) PROVE Untouched'
  <2>1. /\ ~EarlyReturn /\ UNCHANGED <<build, status, mpc>> /\ Exists(Primary)
    BY <1>8, NotRemotes DEF ReconfigPrimary, CanAdd, attachable, Exists
  <2>2. QED
    BY <1>0, <2>1 DEF Untouched
<1>9. CASE Reattach \/ EraseDisplay \/ Return
  <2>1. /\ spc # "idle" /\ UNCHANGED <<build, mpc, node>>
        /\ status' = status \/ status' = [status EXCEPT ![srd] = "up"]
        /\ ~(\A rd \in Remotes : status[rd] = "new") =>
             ~(\A rd \in Remotes : status'[rd] = "new")
    BY <1>9 DEF Reattach, EraseDisplay, Return, TypeOK
  <2>2. QED
    BY <1>0, <2>1 DEF Untouched
<1>10. CASE UNCHANGED vars
  BY <1>1, <1>10 DEF vars
<1>11. QED
  BY <1>2, <1>3, <1>4, <1>5, <1>6, <1>7, <1>8, <1>9, <1>10
     DEF Next, Main, Socket, Threads

(* Builds are told apart by what the state says of them.                   *)
LEMMA NodesOrRemotes ==
  ASSUME OneNode, TypeOK PROVE EarlyReturn \/ UioNodes <= 1
  BY DEF OneNode, EarlyReturn, UioNodes, TypeOK

LEMMA SpokenMain ==
  ASSUME OneNode, TypeOK, Calls, Untouched, Numbered, ~overlap => Spoken, Main, ~overlap'
  PROVE  Spoken'
<1> USE IdsFacts, StepAlone DEF device, view, hotplugs, main, socket
<1>0. ~overlap
  BY DEF Main, ConnectFails, ConnectSucceeds, AddLocal, InitReturns, RegisterCallback,
         FlushOne, ClearPending, UnregisterCallback, OnHotplug, CheckCallback,
         PushPending, CallHotplug, Calls
<1>1. Spoken /\ (mpc # "nodes" => Idle("main")) /\ (spc = "idle" => Idle("socket"))
  BY <1>0, WhoIsIdle
<1>2. CASE ConnectFails
  <2>1. /\ mpc = "connect" /\ mpc' = "nodes" /\ Hotplug("main", Primary, TRUE)
        /\ \A rd \in Remotes : status[rd] = "new"
        /\ UNCHANGED <<registered, told, repeated, mPendingHotplugs, spc, sid>>
    BY <1>2 DEF ConnectFails
  <2>2. spc = "idle" /\ \A i \in Ids : ~Exists(i)
    BY <2>1 DEF Untouched
  <2>3. \A j \in Ids : Exists(j)' <=> Exists(j) \/ j = Primary
    BY <1>2, EmplaceExists DEF ConnectFails
  <2>4. Primary \notin Wanted /\ Wanted' = Wanted \union {Primary}
    BY <2>1, <2>2, <2>3 DEF Wanted
  <2>5. Undelivered' = Undelivered
    BY <2>1 DEF Undelivered
  <2>6. \A u \in Threads : Idle(u)
    BY <1>1, <2>1, <2>2 DEF Threads
  <2>7. QED
    BY <1>1, <2>1, <2>2, <2>4, <2>5, <2>6, SpokenStarts DEF Threads
<1>3. CASE ConnectSucceeds \/ InitReturns
  <2>1. /\ UNCHANGED <<mDisplays, spc, sid, registered, told, repeated, ev,
                       mPendingHotplugs>>
        /\ spc = "idle" /\ mpc # "flush" /\ mpc' # "flush"
    BY <1>3 DEF ConnectSucceeds, InitReturns
  <2>2. UNCHANGED <<Wanted, Undelivered>>
    BY <2>1 DEF Wanted, Exists, Undelivered
  <2>3. QED
    BY <1>1, <2>1, <2>2, SpokenKept
<1>4. CASE AddLocal
  <2>1. /\ mpc = "nodes" /\ Hotplug("main", node - 1, TRUE) /\ spc = "idle" /\ Idle("main")
        /\ UNCHANGED <<mpc, registered, told, repeated, mPendingHotplugs, spc, sid>>
    BY <1>4 DEF AddLocal
  <2>a. node > 1 /\ node \in Nat /\ node - 1 \in Ids
    BY <1>4 DEF AddLocal, TypeOK, Ids
  <2>2. EarlyReturn
    <3>1. ~(UioNodes <= 1)
      BY <2>a DEF Numbered
    <3>2. QED
      BY <3>1, NodesOrRemotes
  <2>3. ~Exists(node - 1)
    <3>1. Exists(node - 1) => node - 1 = Primary \/ node - 1 >= node
      BY <2>1, <2>2, <2>a DEF Untouched
    <3>2. QED
      BY <2>a, <3>1 DEF Primary
  <2>4. \A j \in Ids : Exists(j)' <=> Exists(j) \/ j = node - 1
    BY <1>4, <2>a, EmplaceExists DEF AddLocal
  <2>5. node - 1 \notin Wanted /\ Wanted' = Wanted \union {node - 1}
    BY <2>1, <2>3, <2>4, <2>a DEF Wanted
  <2>6. Undelivered' = Undelivered
    BY <2>1 DEF Undelivered
  <2>7. \A u \in Threads : Idle(u)
    BY <1>1, <2>1 DEF Threads
  <2>8. QED
    BY <1>1, <2>1, <2>5, <2>6, <2>7, <2>a, SpokenStarts DEF Threads
<1>5. CASE RegisterCallback \/ ClearPending \/ UnregisterCallback
  <2>1. /\ UNCHANGED <<mDisplays, spc, sid, told, repeated, ev>>
        /\ spc = "idle" /\ mpc \in {"ready", "flush"}
    BY <1>5 DEF RegisterCallback, ClearPending, UnregisterCallback
  <2>2. \A u \in Threads : Idle(u)' /\ Idle(u) /\ ev'[u].at = "none"
    BY <1>1, <2>1 DEF Threads, Idle, NoEvent
  <2>3. Wanted' = Wanted /\ Due = Wanted /\ Due' = Wanted'
    <3>1. Wanted' = Wanted
      BY <2>1 DEF Wanted, Exists
    <3>2. Due' = Wanted'
      BY <2>2 DEF Due, UnderWay, Wanted
    <3>3. QED
      BY <2>2, <3>1, <3>2, DueIfIdle DEF Threads
  <2>4. Undelivered' = Undelivered
    BY <1>5 DEF RegisterCallback, ClearPending, UnregisterCallback, Undelivered,
                ToDeliver, LeftQueued
  <2>5. Leads(Undelivered, told, Due)'
    BY <1>1, <2>1, <2>3, <2>4 DEF Spoken
  <2>6. registered' /\ mpc' # "flush" => mPendingHotplugs' = <<>>
    BY <1>5 DEF RegisterCallback, ClearPending, UnregisterCallback, LeftQueued
  <2>7. QED
    BY <1>1, <2>1, <2>2, <2>5, <2>6 DEF Spoken
<1>6. CASE FlushOne
  <2> DEFINE e == Head(flushing)
  <2>1. /\ mpc = "flush" /\ flushing # <<>> /\ Tell(e.id, e.on)
        /\ flushing' = Tail(flushing) /\ spc = "idle"
        /\ UNCHANGED <<mDisplays, spc, sid, mpc, registered, mPendingHotplugs, ev>>
    BY <1>6 DEF FlushOne
  <2>2. \A u \in Threads : Idle(u)' /\ Idle(u) /\ ev'[u].at = "none"
    BY <1>1, <2>1 DEF Threads, Idle, NoEvent
  <2>3. Due = Wanted /\ Due' = Wanted
    <3>1. Wanted' = Wanted
      BY <2>1 DEF Wanted, Exists
    <3>2. Due' = Wanted'
      BY <2>2 DEF Due, UnderWay, Wanted
    <3>3. QED
      BY <2>2, <3>1, <3>2, DueIfIdle DEF Threads
  <2>4. Leads(flushing, told, Wanted)
    BY <1>1, <2>1, <2>3 DEF Spoken, Undelivered
  <2>5. News(told, e) /\ Leads(flushing', After(told, e), Wanted)
    BY <2>1, <2>4, LeadsTail DEF TypeOK, Wanted
  <2>6. told' = After(told, e) /\ (repeated' <=> repeated \/ ~News(told, e))
    BY <2>1 DEF Tell, After, News
  <2> HIDE DEF e
  <2>7. Leads(Undelivered, told, Due)'
    BY <2>1, <2>3, <2>5, <2>6 DEF Undelivered
  <2>8. QED
    BY <1>1, <2>1, <2>2, <2>5, <2>6, <2>7 DEF Spoken
<1>7. CASE OnHotplug("main")
  <2>1. Step("main")
    BY <1>7 DEF OnHotplug, CheckCallback, PushPending, CallHotplug
  <2>2. \A u \in Threads \ {"main"} : Idle(u)
    BY <1>1, <2>1 DEF Threads
  <2>3. QED
    BY <1>1, <1>7, <2>2, SpokenCalls DEF Threads
<1>8. QED
  BY <1>2, <1>3, <1>4, <1>5, <1>6, <1>7 DEF Main

LEMMA SpokenSocket ==
  ASSUME OneNode, TypeOK, Calls, Untouched, Numbered, ~overlap => Spoken, Socket, ~overlap'
  PROVE  Spoken'
<1> USE IdsFacts, StepAlone DEF device, view, hotplugs, main, socket
<1>0. /\ Step("socket")
      /\ UNCHANGED <<mpc, flushing, registered>>
  BY DEF Socket, AttachPrimary, ReconfigPrimary, AddDisplay, RemoveRemote, Reattach,
         EraseDisplay, Return, OnHotplug, CheckCallback, PushPending, CallHotplug
<1>1. /\ Spoken /\ mpc \notin {"nodes", "flush"} /\ Idle("main")
      /\ (spc = "idle" => Idle("socket"))
  BY <1>0, WhoIsIdle
<1>2. UNCHANGED mPendingHotplugs => UNCHANGED Undelivered
  BY <1>0 DEF Undelivered
(* A display is announced, or withdrawn.                                   *)
<1>3. ASSUME NEW i \in Ids, NEW c \in BOOLEAN, Idle("socket"), Hotplug("socket", i, c),
             UNCHANGED <<told, repeated, mPendingHotplugs>>,
             i \in Wanted <=> ~c,
             Wanted' = IF c THEN Wanted \union {i} ELSE Wanted \ {i}
      PROVE  Spoken'
  <2>1. \A u \in Threads : Idle(u)
    BY <1>1, <1>3 DEF Threads
  <2>2. QED
    BY <1>0, <1>1, <1>2, <1>3, <2>1, SpokenStarts DEF Threads
<1>4. ASSUME UNCHANGED <<told, repeated, mPendingHotplugs, ev, Wanted>> PROVE Spoken'
  BY <1>0, <1>1, <1>2, <1>4, SpokenKept
<1>5. ASSUME NEW rd \in Remotes, AttachPrimary(rd) PROVE Spoken'
  <2>1. \A j \in Ids : Exists(j)' <=> Exists(j) \/ j = Primary
    BY <1>5, AttachExists DEF AttachPrimary
  <2>2. Exists(Primary) /\ UNCHANGED <<told, repeated, mPendingHotplugs, ev, spc, sid>>
    BY <1>5, NotRemotes DEF AttachPrimary, attachable, Exists
  <2>3. Wanted' = Wanted
    BY <2>1, <2>2 DEF Wanted
  <2>4. QED
    BY <1>4, <2>2, <2>3
<1>6. ASSUME NEW rd \in Remotes, ReconfigPrimary(rd) PROVE Spoken'
  <2>1. /\ Exists(Primary) /\ Hotplug("socket", Primary, FALSE)
        /\ spc = "idle" /\ spc' = "reattach"
        /\ UNCHANGED <<told, repeated, mPendingHotplugs, mDisplays>>
    BY <1>6, NotRemotes DEF ReconfigPrimary, CanAdd, attachable, Exists
  <2>2. Primary \in Wanted /\ Wanted' = Wanted \ {Primary}
    BY <2>1 DEF Wanted, Exists
  <2>3. QED
    BY <1>1, <1>3, <2>1, <2>2
<1>7. CASE Reattach
  <2>1. /\ Hotplug("socket", Primary, TRUE) /\ Idle("socket")
        /\ spc = "reattach" /\ spc' = "return"
        /\ UNCHANGED <<told, repeated, mPendingHotplugs>>
    BY <1>7 DEF Reattach
  <2>2. \A j \in Ids : Exists(j)' <=> Exists(j) \/ j = Primary
    BY <1>7, AttachExists DEF Reattach, TypeOK
  <2>3. Primary \notin Wanted /\ Wanted' = Wanted \union {Primary}
    BY <2>1, <2>2 DEF Wanted
  <2>4. QED
    BY <1>3, <2>1, <2>3
<1>8. ASSUME NEW rd \in Remotes, AddDisplay(rd) PROVE Spoken'
  <2>a. sNextId \in Ids
    BY <1>8 DEF AddDisplay, TypeOK, Ids
  <2>1. /\ sNextId \in Ids /\ Hotplug("socket", sNextId, TRUE)
        /\ spc = "idle" /\ spc' = "return" /\ ~EarlyReturn
        /\ UNCHANGED <<told, repeated, mPendingHotplugs>>
    BY <1>8, <2>a DEF AddDisplay, CanAdd
  <2>2. \A j \in Ids : Exists(j)' <=> Exists(j) \/ j = sNextId
    BY <1>8, <2>1, AttachExists DEF AddDisplay
  <2>3. UioNodes <= 1
    BY <2>1, NodesOrRemotes
  <2>4. ~Exists(sNextId)
    BY <2>1, <2>3 DEF Numbered, Ids
  <2>5. sNextId \notin Wanted /\ Wanted' = Wanted \union {sNextId}
    BY <2>1, <2>2, <2>4 DEF Wanted
  <2>6. QED
    BY <1>1, <1>3, <2>1, <2>5
<1>9. ASSUME NEW rd \in Remotes, RemoveRemote(rd) PROVE Spoken'
  <2> DEFINE id == displayId[rd]
  <2>1. /\ id \in Ids /\ spc = "idle" /\ UNCHANGED <<told, repeated, mPendingHotplugs>>
        /\ \A j \in Ids : Exists(j)' <=> Exists(j)
    BY <1>9, RemoveExists DEF RemoveRemote, TypeOK
  <2>2. CASE Exists(id) /\ id # Primary
    <3>1. Hotplug("socket", id, FALSE) /\ spc' = "erase" /\ sid' = id
      BY <1>9, <2>2 DEF RemoveRemote
    <3>2. id \in Wanted /\ Wanted' = Wanted \ {id}
      BY <2>1, <2>2, <3>1 DEF Wanted
    <3>3. QED
      BY <1>1, <1>3, <2>1, <3>1, <3>2
  <2>3. CASE ~(Exists(id) /\ id # Primary)
    <3>1. UNCHANGED <<ev, spc, sid>>
      BY <1>9, <2>3 DEF RemoveRemote
    <3>2. Wanted' = Wanted
      BY <2>1, <3>1 DEF Wanted
    <3>3. QED
      BY <1>4, <2>1, <3>1, <3>2
  <2>4. QED
    BY <2>2, <2>3
<1>10. CASE EraseDisplay
  <2>1. /\ spc = "erase" /\ spc' = "return" /\ Idle("socket")
        /\ UNCHANGED <<told, repeated, mPendingHotplugs>>
    BY <1>10 DEF EraseDisplay
  <2>2. CASE LastDisplay(sid)
    <3>1. /\ Hotplug("socket", Primary, TRUE)
          /\ \A j \in Ids : Exists(j)' <=> j = Primary
      BY <1>10, <2>2, EraseExists
    <3>2. Wanted = {}
      BY <2>1, <2>2 DEF Wanted, LastDisplay
    <3>3. Wanted' = {Primary}
      BY <2>1, <3>1 DEF Wanted
    <3>4. QED
      BY <1>3, <2>1, <3>1, <3>2, <3>3
  <2>3. CASE ~LastDisplay(sid)
    <3>1. UNCHANGED ev /\ \A j \in Ids : Exists(j)' <=> Exists(j) /\ j # sid
      BY <1>10, <2>3, EraseExists
    <3>2. Wanted' = Wanted
      BY <2>1, <3>1 DEF Wanted
    <3>3. QED
      BY <1>4, <2>1, <3>1, <3>2
  <2>4. QED
    BY <2>2, <2>3
<1>11. CASE Return
  <2>1. /\ UNCHANGED <<told, repeated, mPendingHotplugs, ev, mDisplays>>
        /\ spc = "return" /\ spc' = "idle"
    BY <1>11 DEF Return
  <2>2. Wanted' = Wanted
    BY <2>1 DEF Wanted, Exists
  <2>3. QED
    BY <1>4, <2>1, <2>2
<1>12. CASE OnHotplug("socket")
  <2>1. \A u \in Threads \ {"socket"} : Idle(u)
    BY <1>1 DEF Threads
  <2>2. QED
    BY <1>1, <1>12, <2>1, SpokenCalls DEF Threads
<1>13. QED
  BY <1>5, <1>6, <1>7, <1>8, <1>9, <1>10, <1>11, <1>12 DEF Socket

(* What holds in every state, by induction.                                *)
ToldInv == TypeOK /\ Told /\ Numbered

LEMMA ToldInit == Init => Told /\ Numbered
<1> SUFFICES ASSUME Init PROVE Told /\ Numbered
  OBVIOUS
<1>1. (\A i \in Ids : ~Exists(i)) /\ Numbered
  BY DEF Init, Exists, Numbered
<1>2. Calls /\ (\A t \in Threads : Idle(t) /\ ev[t].at = "none")
  BY DEF Init, Calls, Idle, NoEvent, Threads
<1>3. Untouched
  BY <1>1 DEF Init, Untouched
<1>4. Wanted = {} /\ Due = {}
  BY <1>1, <1>2 DEF Wanted, Due, UnderWay
<1>5. Leads(Undelivered, told, Due)
  BY <1>4, LeadsEmpty DEF Init, Undelivered
<1>6. Spoken
  BY <1>2, <1>5 DEF Init, Spoken
<1>7. QED
  BY <1>1, <1>2, <1>3, <1>6 DEF Told

LEMMA ToldNext ==
  ASSUME OneNode, ToldInv, TypeOK', [Next]_vars PROVE ToldInv'
<1>1. Calls' /\ Untouched' /\ Numbered'
  BY CallsNext, UntouchedNext, NumberedNext DEF ToldInv, Told
<1>2. ASSUME ~overlap' PROVE Spoken'
  <2>1. CASE Main \/ Socket
    BY <1>2, <2>1, SpokenMain, SpokenSocket DEF ToldInv, Told
  <2>2. CASE UNCHANGED vars
    <3>1. /\ UNCHANGED <<registered, told, repeated, ev, mPendingHotplugs, mpc, spc, overlap>>
          /\ UNCHANGED <<Wanted, Undelivered>>
      BY <2>2 DEF vars, device, view, hotplugs, main, socket, Wanted, Undelivered, Exists
    <3>2. QED
      BY <1>2, <3>1, SpokenKept DEF ToldInv, Told, Spoken
  <2>3. QED
    BY <2>1, <2>2 DEF Next
<1>3. QED
  BY <1>1, <1>2 DEF ToldInv, Told

LEMMA ToldAlways == ASSUME OneNode PROVE Spec => []ToldInv
<1>1. Init /\ TypeOK => ToldInv
  BY ToldInit DEF ToldInv
<1>2. ToldInv /\ TypeOK' /\ [Next]_vars => ToldInv'
  BY ToldNext
<1>3. QED
  BY <1>1, <1>2, DeviceTypeCorrect, PTL DEF Spec

(* While the two threads take turns, no event repeats what SurfaceFlinger  *)
(* has been told: a display is announced once before it is withdrawn,      *)
(* whatever was queued while nobody listened (onHotplug,                   *)
(* registerCallback, addRemoteDisplay, removeRemoteDisplay).               *)
THEOREM EveryEventIsNews == ASSUME OneNode PROVE Spec => []HotplugsAlternate
<1>1. ToldInv => HotplugsAlternate
  BY DEF ToldInv, Told, Spoken, HotplugsAlternate
<1>2. QED
  BY <1>1, ToldAlways, PTL

(* ... and no event is lost: when neither thread is at work, a registered  *)
(* SurfaceFlinger has been told of exactly the displays that exist.        *)
THEOREM NoEventIsLost == ASSUME OneNode PROVE Spec => []HotplugsDelivered
<1>1. ToldInv => HotplugsDelivered
  <2> SUFFICES ASSUME ToldInv, ~overlap, Quiet, registered
               PROVE  told = {i \in Ids : Exists(i)}
    BY DEF HotplugsDelivered
  <2>1. Spoken /\ Idle("main") /\ Idle("socket") /\ Undelivered = <<>>
    BY WhoIsIdle DEF ToldInv, Told, Quiet, Spoken, Undelivered
  <2>2. Due = Wanted /\ Wanted = {i \in Ids : Exists(i)}
    BY <2>1, DueIfIdle DEF Wanted, Quiet
  <2>3. told = Due
    BY <2>1, LeadsEmpty DEF Spoken, ToldInv, TypeOK, Due
  <2>4. QED
    BY <2>2, <2>3
<1>2. QED
  BY <1>1, ToldAlways, PTL
-----------------------------------------------------------------------------
(* Sizes.  SurfaceFlinger has the size of a display it was told of, or it  *)
(* will hear of the display again.  Of one that is erased it has heard, or *)
(* will hear, that it is gone.                                             *)
Coming(i) == \/ UnderWay(i)
             \/ \E k \in 1 .. Len(Undelivered) : Undelivered[k].id = i

Fresh ==
  /\ \A i \in told \ silent : known[i] = size[i] \/ Coming(i)
  /\ spc = "erase" => sid \notin told \/ Coming(sid)

(* A step that tells nothing.                                              *)
LEMMA FreshKept ==
  ASSUME Fresh, UNCHANGED <<told, known>>, silent \subseteq silent',
         \A i : Coming(i) => Coming(i)',
         \A i \in told \ silent' : size'[i] = size[i] \/ Coming(i)',
         spc' = "erase" => (spc = "erase" /\ sid' = sid) \/ Coming(sid)'
  PROVE  Fresh'
<1>1. \A i \in told' \ silent' : known'[i] = size'[i] \/ Coming(i)'
  BY DEF Fresh
<1>2. spc' = "erase" => sid' \notin told' \/ Coming(sid)'
  BY DEF Fresh
<1>3. QED
  BY <1>1, <1>2 DEF Fresh

(* A step that tells of one display.                                       *)
LEMMA FreshTells ==
  ASSUME TypeOK, Fresh, NEW i \in Ids, NEW c \in BOOLEAN, Tell(i, c), size' = size,
         \A j : j # i /\ Coming(j) => Coming(j)',
         spc' = "erase" => spc = "erase" /\ sid' = sid /\ (c => i # sid)
  PROVE  Fresh'
<1>1. CASE c
  <2>1. /\ told' = told \union {i} /\ silent' = silent \ {i}
        /\ known'[i] = size[i] /\ \A j \in Ids \ {i} : known'[j] = known[j]
    BY <1>1 DEF Tell, TypeOK
  <2>2. \A j \in told' \ silent' : known'[j] = size'[j] \/ Coming(j)'
    BY <2>1 DEF Fresh, TypeOK
  <2>3. spc' = "erase" => sid' \notin told' \/ Coming(sid)'
    BY <1>1, <2>1 DEF Fresh
  <2>4. QED
    BY <2>2, <2>3 DEF Fresh
<1>2. CASE ~c
  <2>1. told' = told \ {i} /\ UNCHANGED <<silent, known>>
    BY <1>2 DEF Tell
  <2>2. \A j \in told' \ silent' : known'[j] = size'[j] \/ Coming(j)'
    BY <2>1 DEF Fresh
  <2>3. spc' = "erase" => sid' \notin told' \/ Coming(sid)'
    BY <2>1 DEF Fresh
  <2>4. QED
    BY <2>2, <2>3 DEF Fresh
<1>3. QED
  BY <1>1, <1>2

(* A call is started when none is under way.                               *)
LEMMA ComingStarts ==
  ASSUME TypeOK, NEW t \in Threads, NEW i \in Ids, NEW c \in BOOLEAN, Hotplug(t, i, c),
         \A u \in Threads : Idle(u), Undelivered' = Undelivered
  PROVE  Coming(i)' /\ \A j : Coming(j) => Coming(j)'
<1>1. UnderWay(i)'
  <2>1. ev'[t].id = i /\ ~Idle(t)'
    BY DEF Hotplug, TypeOK, Idle, NoEvent
  <2>2. QED
    BY <2>1 DEF UnderWay
<1>2. \A j : ~UnderWay(j)
  BY DEF UnderWay
<1>3. QED
  BY <1>1, <1>2 DEF Coming

LEMMA ComingKept ==
  ASSUME UNCHANGED <<ev, Undelivered>> PROVE \A j : Coming(j)' <=> Coming(j)
  BY DEF Coming, UnderWay, Idle

LEMMA FreshCalls ==
  ASSUME TypeOK, Calls, Spoken, Fresh, NEW t \in Threads, OnHotplug(t),
         \A u \in Threads \ {t} : Idle(u)
  PROVE  Fresh'
<1> USE DEF device, view, hotplugs, main, socket
<1>1. UNCHANGED <<size, spc, sid, mpc, flushing>> /\ ~Idle(t) /\ ev[t].id \in Ids
      /\ ev[t].on \in BOOLEAN
  BY WhoIsIdle, EvType DEF OnHotplug, CheckCallback, PushPending, CallHotplug
<1>2. mpc # "flush"
  <2>1. CASE t = "main"
    BY <1>1, <2>1, WhoIsIdle DEF Spoken
  <2>2. CASE t = "socket"
    BY <1>1, <2>2, WhoIsIdle DEF Spoken
  <2>3. QED
    BY <2>1, <2>2 DEF Threads
<1>3. \A j : UnderWay(j) <=> j = ev[t].id
  BY <1>1 DEF UnderWay
<1>4. Undelivered = mPendingHotplugs /\ Undelivered' = mPendingHotplugs'
  BY <1>1, <1>2 DEF Undelivered
<1>5. CASE CheckCallback(t)
  <2>1. /\ UNCHANGED <<told, known, silent, mPendingHotplugs>>
        /\ ev'[t].id = ev[t].id /\ ev'[t].at \in {"call", "push"}
    BY <1>5 DEF CheckCallback, TypeOK
  <2>2. UnderWay(ev[t].id)'
    BY <2>1 DEF UnderWay, Idle, NoEvent
  <2>3. \A j : Coming(j) => Coming(j)'
    BY <1>3, <1>4, <2>1, <2>2 DEF Coming
  <2>4. QED
    BY <1>1, <2>1, <2>3, FreshKept
<1>6. CASE PushPending(t)
  <2> DEFINE e == [id |-> ev[t].id, on |-> ev[t].on]
  <2>1. /\ UNCHANGED <<told, known, silent>>
        /\ mPendingHotplugs' = Append(mPendingHotplugs, e)
    BY <1>6 DEF PushPending
  <2>2. mPendingHotplugs \in Seq(Events) /\ e \in Events /\ e.id = ev[t].id
    BY EvType DEF TypeOK
  <2> HIDE DEF e
  <2>3. /\ \A k \in 1 .. Len(Undelivered) : k \in 1 .. Len(Undelivered')
                                            /\ Undelivered'[k] = Undelivered[k]
        /\ Len(Undelivered') \in 1 .. Len(Undelivered')
        /\ Undelivered'[Len(Undelivered')] = e
    BY <1>4, <2>1, <2>2
  <2>4. \A j : Coming(j) => Coming(j)'
    BY <1>3, <2>2, <2>3 DEF Coming
  <2>5. QED
    BY <1>1, <2>1, <2>4, FreshKept
<1>7. CASE CallHotplug(t)
  <2>1. /\ Tell(ev[t].id, ev[t].on) /\ UNCHANGED mPendingHotplugs
    BY <1>7 DEF CallHotplug
  <2>2. \A j : j # ev[t].id /\ Coming(j) => Coming(j)'
    BY <1>3, <1>4, <2>1 DEF Coming
  <2>3. spc = "erase" /\ ev[t].on => ev[t].id # sid
    BY <1>1 DEF Spoken, Wanted
  <2>4. QED
    BY <1>1, <2>1, <2>2, <2>3, FreshTells
<1>8. QED
  BY <1>5, <1>6, <1>7 DEF OnHotplug

LEMMA FreshMain ==
  ASSUME TypeOK, Calls, Untouched, ~overlap => Spoken /\ Fresh, Main, ~overlap'
  PROVE  Fresh'
<1> USE IdsFacts, StepAlone DEF device, view, hotplugs, main, socket
<1>0. ~overlap
  BY DEF Main, ConnectFails, ConnectSucceeds, AddLocal, InitReturns, RegisterCallback,
         FlushOne, ClearPending, UnregisterCallback, OnHotplug, CheckCallback,
         PushPending, CallHotplug, Calls
<1>1. /\ Spoken /\ Fresh /\ (mpc # "nodes" => Idle("main")) /\ (spc = "idle" => Idle("socket"))
  BY <1>0, WhoIsIdle
<1>2. ASSUME NEW i \in Ids, Hotplug("main", i, TRUE), Idle("main"), Idle("socket"),
             UNCHANGED <<told, known, silent, size, mPendingHotplugs, spc, sid>>,
             mpc # "flush", mpc' # "flush"
      PROVE  Fresh'
  <2>1. Undelivered' = Undelivered /\ \A u \in Threads : Idle(u)
    BY <1>2 DEF Undelivered, Threads
  <2>2. \A j : Coming(j) => Coming(j)'
    BY <1>2, <2>1, ComingStarts DEF Threads
  <2>3. QED
    BY <1>1, <1>2, <2>2, FreshKept
<1>3. CASE ConnectFails
  <2>1. spc = "idle"
    BY <1>3 DEF ConnectFails, Untouched
  <2>2. QED
    BY <1>1, <1>2, <1>3, <2>1 DEF ConnectFails
<1>4. CASE AddLocal
  <2>1. node - 1 \in Ids
    BY <1>4 DEF AddLocal, TypeOK, Ids
  <2>2. QED
    BY <1>1, <1>2, <1>4, <2>1 DEF AddLocal
<1>5. CASE ConnectSucceeds \/ InitReturns \/ RegisterCallback \/ ClearPending
           \/ UnregisterCallback
  <2>1. UNCHANGED <<told, known, silent, size, ev, spc, sid, Undelivered>>
    BY <1>5 DEF ConnectSucceeds, InitReturns, RegisterCallback, ClearPending,
                UnregisterCallback, Undelivered, ToDeliver, LeftQueued
  <2>2. QED
    BY <1>1, <2>1, ComingKept, FreshKept
<1>6. CASE FlushOne
  <2> DEFINE e == Head(flushing)
  <2>1. /\ mpc = "flush" /\ flushing # <<>> /\ Tell(e.id, e.on)
        /\ flushing' = Tail(flushing) /\ spc = "idle"
        /\ UNCHANGED <<size, spc, sid, mpc, ev>>
    BY <1>6 DEF FlushOne
  <2>2. flushing \in Seq(Events) /\ e \in Events /\ e.id \in Ids /\ e.on \in BOOLEAN
    <3>1. flushing \in Seq(Events) /\ e \in Events
      BY <2>1 DEF TypeOK
    <3>2. QED
      BY <3>1 DEF Events
  <2>3. /\ e = flushing[1] /\ Undelivered = flushing /\ Undelivered' = Tail(flushing)
        /\ \A k \in 1 .. Len(flushing) :
             k = 1 \/ (k - 1 \in 1 .. Len(Tail(flushing))
                       /\ Tail(flushing)[k - 1] = flushing[k])
    BY <2>1, <2>2 DEF Undelivered
  <2>4. \A j : UnderWay(j)' <=> UnderWay(j)
    BY <2>1 DEF UnderWay, Idle
  <2> HIDE DEF e
  <2>5. ASSUME NEW j, j # e.id, Coming(j) PROVE Coming(j)'
    <3>1. CASE UnderWay(j)
      BY <2>4, <3>1 DEF Coming
    <3>2. CASE ~UnderWay(j)
      <4>1. PICK k \in 1 .. Len(flushing) : flushing[k].id = j
        BY <2>3, <2>5, <3>2 DEF Coming
      <4>2. k - 1 \in 1 .. Len(Undelivered') /\ Undelivered'[k - 1].id = j
        BY <2>3, <2>5, <4>1
      <4>3. QED
        BY <4>2 DEF Coming
    <3>3. QED
      BY <3>1, <3>2
  <2>6. QED
    BY <1>1, <2>1, <2>2, <2>5, FreshTells
<1>7. CASE OnHotplug("main")
  <2>1. Step("main")
    BY <1>7 DEF OnHotplug, CheckCallback, PushPending, CallHotplug
  <2>2. \A u \in Threads \ {"main"} : Idle(u)
    BY <1>1, <2>1 DEF Threads
  <2>3. QED
    BY <1>1, <1>7, <2>2, FreshCalls DEF Threads
<1>8. QED
  BY <1>3, <1>4, <1>5, <1>6, <1>7 DEF Main

LEMMA FreshSocket ==
  ASSUME TypeOK, Calls, ~overlap => Spoken /\ Fresh, Socket, ~overlap'
  PROVE  Fresh'
<1> USE IdsFacts, StepAlone DEF device, view, hotplugs, main, socket
<1>0. /\ Step("socket") /\ UNCHANGED <<mpc, flushing>>
  BY DEF Socket, AttachPrimary, ReconfigPrimary, AddDisplay, RemoveRemote, Reattach,
         EraseDisplay, Return, OnHotplug, CheckCallback, PushPending, CallHotplug
<1>1. /\ Spoken /\ Fresh /\ Idle("main") /\ (spc = "idle" => Idle("socket"))
  BY <1>0, WhoIsIdle
<1>2. UNCHANGED mPendingHotplugs => UNCHANGED Undelivered
  BY <1>0 DEF Undelivered
<1>3. ASSUME NEW i \in Ids, NEW c \in BOOLEAN, Idle("socket"), Hotplug("socket", i, c),
             UNCHANGED <<told, known, silent, mPendingHotplugs>>,
             \A j \in told \ silent : size'[j] = size[j] \/ j = i \/ Coming(j),
             spc' = "erase" => sid' = i
      PROVE  Fresh'
  <2>1. Undelivered' = Undelivered /\ \A u \in Threads : Idle(u)
    BY <1>1, <1>2, <1>3 DEF Threads
  <2>2. Coming(i)' /\ \A j : Coming(j) => Coming(j)'
    BY <1>3, <2>1, ComingStarts DEF Threads
  <2>3. QED
    BY <1>1, <1>3, <2>2, FreshKept
<1>4. ASSUME UNCHANGED <<told, known, ev, mPendingHotplugs>>, silent \subseteq silent',
             \A j \in told \ silent' : size'[j] = size[j] \/ Coming(j),
             spc' # "erase" \/ UNCHANGED <<spc, sid>>
      PROVE  Fresh'
  <2>1. \A j : Coming(j) => Coming(j)'
    BY <1>2, <1>4, ComingKept
  <2>2. QED
    BY <1>1, <1>4, <2>1, FreshKept
<1>5. ASSUME NEW rd \in Remotes, AttachPrimary(rd) PROVE Fresh'
  <2>1. /\ UNCHANGED <<told, known, ev, mPendingHotplugs, spc, sid>>
        /\ size' = [size EXCEPT ![Primary] = SizeOf[rd]] /\ Fits(rd)
        /\ silent' = IF rd \in PrimaryHotplug \/ size[Primary] = SizeOf[rd]
                       THEN silent ELSE silent \union {Primary}
    BY <1>5 DEF AttachPrimary, attach
  <2>2. \A j \in told \ silent' : size'[j] = size[j]
    BY <2>1 DEF Fits, TypeOK
  <2>3. QED
    BY <1>4, <2>1, <2>2
<1>6. ASSUME NEW rd \in Remotes, ReconfigPrimary(rd) PROVE Fresh'
  BY <1>1, <1>3, <1>6 DEF ReconfigPrimary, CanAdd
<1>7. CASE Reattach
  <2>1. /\ Hotplug("socket", Primary, TRUE) /\ Idle("socket") /\ spc' = "return"
        /\ UNCHANGED <<told, known, silent, mPendingHotplugs>>
        /\ size' = [size EXCEPT ![Primary] = SizeOf[srd]]
    BY <1>7 DEF Reattach, attach
  <2>2. \A j \in told \ silent : size'[j] = size[j] \/ j = Primary
    BY <2>1 DEF TypeOK
  <2>3. QED
    BY <1>3, <2>1, <2>2
<1>8. ASSUME NEW rd \in Remotes, AddDisplay(rd) PROVE Fresh'
  <2>1. sNextId \in Ids
    BY <1>8 DEF AddDisplay, TypeOK, Ids
  <2>2. /\ Hotplug("socket", sNextId, TRUE) /\ spc = "idle" /\ spc' = "return"
        /\ UNCHANGED <<told, known, silent, mPendingHotplugs>>
        /\ size' = [size EXCEPT ![sNextId] = SizeOf[rd]]
    BY <1>8 DEF AddDisplay, attach, CanAdd
  <2>3. \A j \in told \ silent : size'[j] = size[j] \/ j = sNextId
    BY <2>2 DEF TypeOK
  <2>4. QED
    BY <1>1, <1>3, <2>1, <2>2, <2>3
<1>9. ASSUME NEW rd \in Remotes, RemoveRemote(rd) PROVE Fresh'
  <2> DEFINE id == displayId[rd]
  <2>1. /\ id \in Ids /\ spc = "idle"
        /\ UNCHANGED <<told, known, silent, size, mPendingHotplugs>>
    BY <1>9 DEF RemoveRemote, TypeOK
  <2>2. CASE Exists(id) /\ id # Primary
    <3>1. Hotplug("socket", id, FALSE) /\ sid' = id
      BY <1>9, <2>2 DEF RemoveRemote
    <3>2. QED
      BY <1>1, <1>3, <2>1, <3>1
  <2>3. CASE ~(Exists(id) /\ id # Primary)
    <3>1. UNCHANGED <<ev, spc, sid>>
      BY <1>9, <2>3 DEF RemoveRemote
    <3>2. QED
      BY <1>4, <2>1, <3>1
  <2>4. QED
    BY <2>2, <2>3
<1>10. CASE EraseDisplay
  <2>1. /\ spc = "erase" /\ spc' = "return" /\ Idle("socket")
        /\ UNCHANGED <<told, known, silent, mPendingHotplugs>>
        /\ size' = [size EXCEPT ![sid] = DefaultSize]
    BY <1>10 DEF EraseDisplay
  <2>2. \A j \in told \ silent : size'[j] = size[j] \/ Coming(j)
    BY <1>1, <2>1 DEF Fresh, TypeOK
  <2>3. CASE LastDisplay(sid)
    <3>1. Hotplug("socket", Primary, TRUE)
      BY <1>10, <2>3 DEF EraseDisplay
    <3>2. QED
      BY <1>3, <2>1, <2>2, <3>1
  <2>4. CASE ~LastDisplay(sid)
    <3>1. UNCHANGED ev
      BY <1>10, <2>4 DEF EraseDisplay
    <3>2. QED
      BY <1>4, <2>1, <2>2, <3>1
  <2>5. QED
    BY <2>3, <2>4
<1>11. CASE Return
  BY <1>4, <1>11 DEF Return
<1>12. CASE OnHotplug("socket")
  <2>1. \A u \in Threads \ {"socket"} : Idle(u)
    BY <1>1 DEF Threads
  <2>2. QED
    BY <1>1, <1>12, <2>1, FreshCalls DEF Threads
<1>13. QED
  BY <1>5, <1>6, <1>7, <1>8, <1>9, <1>10, <1>11, <1>12 DEF Socket

(* While the two threads take turns, a registered SurfaceFlinger goes on   *)
(* with the size each display has, except on a primary display that was    *)
(* resized by a remote that asked for no hotplug: the withdrawal and the   *)
(* announcement that make it read the size again are not lost, not even    *)
(* when they are queued (addRemoteDisplay, removeRemoteDisplay).           *)
THEOREM SizesAreKnown == ASSUME OneNode PROVE Spec => []SizeKnown
<1> DEFINE FreshInv == ~overlap => Fresh
<1>1. Init => FreshInv
  BY DEF Init, Fresh
<1>2. ToldInv /\ FreshInv /\ [Next]_vars => FreshInv'
  <2> SUFFICES ASSUME ToldInv, FreshInv, [Next]_vars, ~overlap' PROVE Fresh'
    OBVIOUS
  <2>1. CASE Main \/ Socket
    BY <2>1, FreshMain, FreshSocket DEF ToldInv, Told
  <2>2. CASE UNCHANGED vars
    <3>1. UNCHANGED <<told, known, silent, size, ev, spc, sid, Undelivered, overlap>>
      BY <2>2 DEF vars, device, view, hotplugs, main, socket, Undelivered
    <3>2. QED
      BY <3>1, ComingKept, FreshKept
  <2>3. QED
    BY <2>1, <2>2 DEF Next
<1>3. ToldInv /\ FreshInv => SizeKnown
  <2> SUFFICES ASSUME ToldInv, FreshInv, ~overlap, Quiet, registered,
                      NEW i \in told \ silent
               PROVE  known[i] = size[i]
    BY DEF SizeKnown
  <2>1. Idle("main") /\ Idle("socket") /\ Undelivered = <<>>
    BY WhoIsIdle DEF ToldInv, Told, Quiet, Spoken, Undelivered
  <2>2. ~UnderWay(i) /\ 1 .. Len(Undelivered) = {}
    BY <2>1 DEF UnderWay, Threads
  <2>3. QED
    BY <2>2 DEF Fresh, Coming
<1>4. QED
  BY <1>1, <1>2, <1>3, ToldAlways, PTL DEF Spec
=============================================================================

-------------------------- MODULE Hwc1Device_proofs --------------------------
(***************************************************************************)
(* Proofs about Hwc1Device, for every set of remotes and buffers, with     *)
(* single layer mode and without.                                          *)
(***************************************************************************)
EXTENDS Hwc1Device, TLAPS

LEMMA NoRemoteIsNone == NoRemote \notin Remotes
  BY Hwc1Assumption DEF Hwc1Assumption

LEMMA IdsAre == Ids = {0, 1} /\ External \in Ids
  BY DEF Ids, External

LEMMA NoDisplayType == NoDisplay \in Displays /\ NoDisplay.mRemoteDisplay = NoRemote
  BY DEF NoDisplay, NewDisplay, Displays

LEMMA NewDisplayType ==
  ASSUME NEW rd \in Remotes
  PROVE  NewDisplay(rd) \in Displays /\ NewDisplay(rd).mRemoteDisplay = rd
  BY DEF NewDisplay, Displays

(* prepare and set keep the remote of a display.                           *)
LEMMA PreparedType ==
  ASSUME NEW d \in Displays, NEW l \in Lists, NEW g \in BOOLEAN, NEW o \in BOOLEAN
  PROVE  /\ Prepared(d, l, g, o) \in Displays
         /\ Prepared(d, l, g, o).mRemoteDisplay = d.mRemoteDisplay
<1>1. BecomesSingle(d, l) \in BOOLEAN
  BY DEF BecomesSingle, singleLayer, Lists
<1>2. AppsLeft(d) \in SUBSET Apps
  BY DEF AppsLeft
<1>3. QED
  BY <1>1, <1>2 DEF Prepared, Displays

LEMMA AnnouncedType ==
  ASSUME NEW d \in Displays, NEW l \in Lists, NEW o \in BOOLEAN,
         NEW app \in Apps, NEW fbt \in Fbts \union {NoBuffer}
  PROVE  /\ Announced(d, l, app, fbt, o) \in Displays
         /\ Announced(d, l, app, fbt, o).mRemoteDisplay = d.mRemoteDisplay
         /\ Created(d, l, app, fbt, o) \subseteq Apps \union Fbts
<1>1. Announced(d, l, app, fbt, o) \in Displays
  BY DEF Announced, Displays
<1>2. Announced(d, l, app, fbt, o).mRemoteDisplay = d.mRemoteDisplay
  BY DEF Announced, Displays
<1>3. Created(d, l, app, fbt, o) \subseteq Apps \union Fbts
  BY <1>1 DEF Created, Displays
<1>4. QED
  BY <1>1, <1>2, <1>3

LEMMA RetypedType ==
  ASSUME NEW d \in Displays, NEW l \in Lists, NEW g \in BOOLEAN, NEW o \in BOOLEAN
  PROVE  Retyped(d, l, g, o) \in Lists
<1> DEFINE kept == IF g THEN {} ELSE l.overlays
           single == o /\ Prepared(d, l, g, o).mSingleLayer
           new == kept \union (IF single THEN {0} ELSE {})
<1>1. new \in SUBSET {0, 1}
  BY DEF Lists
<1>2. [l EXCEPT !.overlays = new] \in Lists
  BY <1>1 DEF Lists
<1>3. QED
  BY <1>2 DEF Retyped

(* The slot addRemoteDisplay finds.                                        *)
LEMMA FreeSlot ==
  ASSUME FreeIds # {}, NEW id,
         id = CHOOSE i \in FreeIds : \A j \in FreeIds : i <= j
  PROVE  id \in FreeIds /\ id \in Ids /\ ~Occupied(id)
<1>1. \E i \in FreeIds : \A j \in FreeIds : i <= j
  <2>1. CASE 0 \in FreeIds
    BY <2>1, IdsAre DEF FreeIds
  <2>2. CASE 0 \notin FreeIds
    BY <2>2, IdsAre DEF FreeIds
  <2>3. QED
    BY <2>1, <2>2
<1>2. QED
  BY <1>1 DEF FreeIds

-----------------------------------------------------------------------------
(* Calls under way, and the display they are in.                           *)
LEMMA NewCallType ==
  ASSUME NEW op \in {"none", "prepare", "set"}, NEW i \in Ids, NEW g \in BOOLEAN,
         NEW s \in BOOLEAN
  PROVE  NewCall(op, i, g, s) \in Calling
  BY NoDisplayType DEF NewCall, Calling

LEMMA NoCallIs == NoCall \in Calling /\ NoCall.op = "none"
  BY NewCallType, IdsAre DEF NoCall, NewCall

LEMMA ReachedType ==
  ASSUME TypeOK, NEW d \in Reached PROVE d \in Displays
  BY DEF Reached, TypeOK, Calling

LEMMA WrittenType ==
  ASSUME TypeOK, NEW d, NEW e \in Displays PROVE Written(d, e) \in [Ids -> Displays]
  BY DEF Written, TypeOK, Calling

(* Type correctness: addRemoteDisplay, removeRemoteDisplay, prepare and    *)
(* set keep slots, lists, ids and what the remotes know in their types.    *)
THEOREM Hwc1TypeCorrect == Spec => []TypeOK
<1> USE IdsAre
<1>1. Init => TypeOK
  <2> SUFFICES ASSUME Init PROVE TypeOK
    OBVIOUS
  <2>1. /\ mRemoteDisplays \in [Ids -> Displays] /\ mDummyDisplay \in Displays
        /\ status \in [Remotes -> {"new", "up", "refused", "gone"}]
        /\ displayId \in [Remotes -> Ids]
    BY NoDisplayType DEF Init
  <2>2. /\ list \in [Ids -> Lists] /\ phase \in [Ids -> {"prepare", "set"}]
        /\ planner \in [Ids -> Remotes \union {NoRemote}]
    BY DEF Init, Lists
  <2>3. call \in Calling
    BY NoCallIs DEF Init
  <2>4. /\ knows \in [Remotes -> SUBSET (Apps \union Fbts)]
        /\ shown \in [Remotes -> Apps \union Fbts \union {NoBuffer}]
    BY DEF Init
  <2>5. QED
    BY <2>1, <2>2, <2>3, <2>4 DEF Init, TypeOK
<1>2. TypeOK /\ [Next]_vars => TypeOK'
  <2> SUFFICES ASSUME TypeOK, [Next]_vars PROVE TypeOK'
    OBVIOUS
  <2> USE DEF device, dummy, hotplug, flinger, remotes, threads
  <2>1. CASE ConnectFails \/ ConnectSucceeds \/ RegisterProcs
    BY <2>1 DEF ConnectFails, ConnectSucceeds, RegisterProcs, TypeOK
  <2>2. ASSUME NEW rd \in Remotes, AddRemote(rd) PROVE TypeOK'
    <3> DEFINE id == CHOOSE i \in FreeIds : \A j \in FreeIds : i <= j
    <3>1. id \in Ids
      BY <2>2, FreeSlot DEF AddRemote
    <3>2. /\ mRemoteDisplays' = [mRemoteDisplays EXCEPT ![id] = NewDisplay(rd)]
          /\ displayId' = [displayId EXCEPT ![rd] = id]
          /\ spc' \in {spc, "in"} /\ answered' \in {answered, TRUE}
      BY <2>2 DEF AddRemote, setDisplayId
    <3>3. mRemoteDisplays' \in [Ids -> Displays] /\ displayId' \in [Remotes -> Ids]
      BY <3>1, <3>2, NewDisplayType DEF TypeOK
    <3>4. spc' \in {"idle", "in", "out", "undefined"} /\ answered' \in BOOLEAN
      BY <3>2 DEF TypeOK
    <3>5. status' \in [Remotes -> {"new", "up", "refused", "gone"}]
      BY <2>2 DEF AddRemote, TypeOK
    <3>6. QED
      BY <2>2, <3>3, <3>4, <3>5 DEF AddRemote, TypeOK
  <2>3. ASSUME NEW rd \in Remotes, RefuseRemote(rd) PROVE TypeOK'
    BY <2>3 DEF RefuseRemote, TypeOK
  <2>4. ASSUME NEW rd \in Remotes, RemoveRemote(rd) PROVE TypeOK'
    <3> DEFINE id == displayId[rd]
    <3>1. id \in Ids
      BY DEF TypeOK
    <3>2. mRemoteDisplays' \in [Ids -> Displays]
      BY <2>4, <3>1, NoDisplayType DEF RemoveRemote, DisplayLeft, TypeOK
    <3>3. robbed' \subseteq Remotes
      BY <2>4, <3>1 DEF RemoveRemote, TypeOK, Holder, Displays
    <3>4. /\ status' \in [Remotes -> {"new", "up", "refused", "gone"}]
          /\ spc' \in {"idle", "in", "out", "undefined"}
      BY <2>4 DEF RemoveRemote, TypeOK
    <3>5. /\ knows' \in [Remotes -> SUBSET (Apps \union Fbts)]
          /\ shown' \in [Remotes -> Apps \union Fbts \union {NoBuffer}]
      BY <2>4 DEF RemoveRemote, TypeOK
    <3>6. QED
      BY <2>4, <3>2, <3>3, <3>4, <3>5 DEF RemoveRemote, TypeOK
  <2>5. CASE TellExternal
    <3>1. told' \in BOOLEAN
      BY <2>5 DEF TellExternal, ToldNow, TypeOK
    <3>2. missed' \in BOOLEAN
      BY <2>5 DEF TellExternal, TypeOK
    <3>3. answered' \in BOOLEAN
      BY <2>5 DEF TellExternal, TypeOK
    <3>4. QED
      BY <2>5, <3>1, <3>2, <3>3 DEF TellExternal, TypeOK
  <2>6. ASSUME NEW i \in Ids, BeginPrepare(i) PROVE TypeOK'
    <3>1. list' \in [Ids -> Lists]
      BY <2>6, Hwc1Assumption DEF BeginPrepare, Hwc1Assumption, TypeOK
    <3>2. Occupied(i) \in BOOLEAN
      BY DEF Occupied
    <3>3. call' \in Calling
      BY <2>6, <3>2, NewCallType DEF BeginPrepare
    <3>4. QED
      BY <2>6, <3>1, <3>3 DEF BeginPrepare, TypeOK
  <2>7. ASSUME NEW i \in Ids, BeginSet(i) PROVE TypeOK'
    <3>1. Occupied(i) \in BOOLEAN
      BY DEF Occupied
    <3>2. call' \in Calling
      BY <2>7, <3>1, NewCallType DEF BeginSet
    <3>3. QED
      BY <2>7, <3>2 DEF BeginSet, TypeOK
  <2>8. NoCall \in Calling
    BY NoCallIs
  <2>9. /\ call.disp \in Ids /\ call.geometry \in BOOLEAN /\ opt \in BOOLEAN
        /\ mRemoteDisplays[call.disp] \in Displays /\ list[call.disp] \in Lists
        /\ \A d \in Reached : d \in Displays /\ d.mRemoteDisplay \in Remotes \union {NoRemote}
    BY Hwc1Assumption, ReachedType DEF TypeOK, Calling, Hwc1Assumption, Displays
  <2>10. ASSUME NEW d \in Reached, PrepareRemote(d) PROVE TypeOK'
    <3>1. mRemoteDisplays' \in [Ids -> Displays]
      <4>1. Prepared(d, list[call.disp], call.geometry, opt) \in Displays
        BY <2>9, PreparedType
      <4>2. QED
        BY <2>9, <2>10, <4>1, WrittenType DEF PrepareRemote
    <3>2. list' \in [Ids -> Lists]
      <4>1. Retyped(d, list[call.disp], call.geometry, opt) \in Lists
        BY <2>9, RetypedType
      <4>2. QED
        BY <2>9, <2>10, <4>1 DEF PrepareRemote, TypeOK
    <3>3. knows' \in [Remotes -> SUBSET (Apps \union Fbts)]
      BY <2>10 DEF PrepareRemote, Received, TypeOK
    <3>4. planner' \in [Ids -> Remotes \union {NoRemote}]
      BY <2>9, <2>10 DEF PrepareRemote, Plans, TypeOK
    <3>5. phase' \in [Ids -> {"prepare", "set"}] /\ call' = NoCall
      BY <2>10 DEF PrepareRemote, Returns, TypeOK
    <3>6. QED
      BY <2>8, <2>10, <3>1, <3>2, <3>3, <3>4, <3>5 DEF PrepareRemote, TypeOK
  <2>11. CASE PrepareDummy
    <3>1. mDummyDisplay' \in Displays
      BY <2>9, <2>11, PreparedType DEF PrepareDummy, TypeOK
    <3>2. list' \in [Ids -> Lists]
      BY <2>9, <2>11, RetypedType DEF PrepareDummy, TypeOK
    <3>3. planner' \in [Ids -> Remotes \union {NoRemote}]
      BY <2>11 DEF PrepareDummy, Plans, TypeOK
    <3>4. phase' \in [Ids -> {"prepare", "set"}] /\ call' = NoCall
      BY <2>11 DEF PrepareDummy, Returns, TypeOK
    <3>5. QED
      BY <2>8, <2>11, <3>1, <3>2, <3>3, <3>4 DEF PrepareDummy, TypeOK
  <2>12. ASSUME NEW d \in Reached, NEW app \in Apps, NEW fbt \in Fbts \union {NoBuffer},
                SetRemote(d, app, fbt)
         PROVE  TypeOK'
    <3> DEFINE l == list[call.disp]
               e == Announced(d, l, app, fbt, opt)
               b == Displayed(d, l, app, fbt, opt)
    <3>1. e \in Displays /\ Created(d, l, app, fbt, opt) \subseteq Apps \union Fbts
      BY <2>9, AnnouncedType
    <3>2. mRemoteDisplays' \in [Ids -> Displays]
      BY <2>9, <2>12, <3>1, WrittenType DEF SetRemote
    <3>3. knows' \in [Remotes -> SUBSET (Apps \union Fbts)]
      <4>1. knows' = Received(knows, d.mRemoteDisplay,
                       knows[d.mRemoteDisplay] \union Created(d, l, app, fbt, opt))
        BY <2>12 DEF SetRemote
      <4>2. QED
        BY <3>1, <4>1 DEF Received, TypeOK
    <3>4. b \in Apps \union Fbts \union {NoBuffer}
      BY DEF Displayed
    <3>5. call' \in {NoCall, [call EXCEPT !.at = "show", !.this = e, !.buffer = b]}
      BY <2>12 DEF SetRemote, Returns
    <3>6. phase' \in [Ids -> {"prepare", "set"}]
      BY <2>12 DEF SetRemote, Returns, TypeOK
    <3> HIDE DEF e, b
    <3>7. call' \in Calling
      BY <2>8, <3>1, <3>4, <3>5 DEF Calling, TypeOK
    <3>8. QED
      BY <2>12, <3>2, <3>3, <3>6, <3>7 DEF SetRemote, TypeOK
  <2>13. CASE SetDummy
    <3>1. phase' \in [Ids -> {"prepare", "set"}] /\ call' = NoCall
      BY <2>13 DEF SetDummy, Returns, TypeOK
    <3>2. QED
      BY <2>8, <2>13, <3>1 DEF SetDummy, TypeOK
  <2>14. CASE Dies
    BY <2>8, <2>14 DEF Dies, TypeOK
  <2>15. CASE Enter
    <3>1. call' \in Calling
      BY <2>9, <2>15 DEF Enter, Calling, TypeOK
    <3>2. QED
      BY <2>15, <3>1 DEF Enter, TypeOK
  <2>16. ASSUME NEW d \in Reached, DisplayBuffer(d) PROVE TypeOK'
    <3>1. shown' \in [Remotes -> Apps \union Fbts \union {NoBuffer}]
      BY <2>16 DEF DisplayBuffer, Received, Calling, TypeOK
    <3>2. phase' \in [Ids -> {"prepare", "set"}] /\ call' = NoCall
      BY <2>16 DEF DisplayBuffer, Returns, TypeOK
    <3>3. QED
      BY <2>8, <2>16, <3>1, <3>2 DEF DisplayBuffer, TypeOK
  <2>17. CASE UNCHANGED vars
    BY <2>17 DEF vars, TypeOK
  <2>18. QED
    BY <2>1, <2>2, <2>3, <2>4, <2>5, <2>6, <2>7, <2>10, <2>11, <2>12, <2>13,
       <2>14, <2>15, <2>16, <2>17 DEF Next, Socket, Flinger
<1>3. QED
  BY <1>1, <1>2, PTL DEF Spec

-----------------------------------------------------------------------------
(* Attachment.  That a remote is attached where it knows is inductive with *)
(* one addition: a remote that was not added yet was robbed of nothing.    *)
AttachInv ==
  /\ TypeOK
  /\ AttachedWhereItKnows
  /\ \A r \in robbed : status[r] # "new"

(* A step that moves no remote keeps the invariant.                        *)
LEMMA HoldersKept ==
  ASSUME AttachInv, TypeOK', UNCHANGED <<status, displayId, robbed>>,
         \A i \in Ids : Holder(i)' = Holder(i)
  PROVE  AttachInv'
  BY DEF AttachInv, AttachedWhereItKnows

LEMMA UsesKeepHolders ==
  ASSUME TypeOK, NEW d \in Reached,
         \/ PrepareRemote(d)
         \/ \E app \in Apps, fbt \in Fbts \union {NoBuffer} : SetRemote(d, app, fbt)
  PROVE  \A i \in Ids : Holder(i)' = Holder(i)
<1>1. /\ call.disp \in Ids /\ call.geometry \in BOOLEAN /\ opt \in BOOLEAN
      /\ d \in Displays /\ list[call.disp] \in Lists
  BY Hwc1Assumption, ReachedType DEF TypeOK, Calling, Hwc1Assumption
<1>2. PICK e : e.mRemoteDisplay = d.mRemoteDisplay /\ mRemoteDisplays' = Written(d, e)
  <2>1. CASE PrepareRemote(d)
    BY <1>1, <2>1, PreparedType DEF PrepareRemote
  <2>2. ASSUME NEW app \in Apps, NEW fbt \in Fbts \union {NoBuffer}, SetRemote(d, app, fbt)
        PROVE  \E e : e.mRemoteDisplay = d.mRemoteDisplay /\ mRemoteDisplays' = Written(d, e)
    <3>1. Announced(d, list[call.disp], app, fbt, opt).mRemoteDisplay = d.mRemoteDisplay
      BY <1>1, AnnouncedType
    <3>2. mRemoteDisplays' = Written(d, Announced(d, list[call.disp], app, fbt, opt))
      BY <2>2 DEF SetRemote
    <3>3. QED
      BY <3>1, <3>2
  <2>3. QED
    BY <2>1, <2>2
<1>3. QED
  BY <1>1, <1>2 DEF Written, Holder, TypeOK

LEMMA AddKeepsAttach ==
  ASSUME AttachInv, TypeOK', NEW rd \in Remotes, AddRemote(rd)
  PROVE  /\ AttachInv'
         /\ {Holder(i) : i \in Ids}' \ {NoRemote}
              = ({Holder(i) : i \in Ids} \ {NoRemote}) \union {rd}
<1>1. PICK id \in Ids :
        /\ Holder(id) = NoRemote
        /\ mRemoteDisplays' = [mRemoteDisplays EXCEPT ![id] = NewDisplay(rd)]
        /\ displayId' = [displayId EXCEPT ![rd] = id]
  <2> DEFINE i == CHOOSE k \in FreeIds : \A j \in FreeIds : k <= j
  <2>1. i \in Ids /\ Holder(i) = NoRemote
    BY FreeSlot DEF AddRemote, Occupied
  <2>2. QED
    BY <2>1 DEF AddRemote, setDisplayId
<1>2. /\ mRemoteDisplays' = [mRemoteDisplays EXCEPT ![id] = NewDisplay(rd)]
      /\ displayId' = [displayId EXCEPT ![rd] = id]
      /\ status[rd] = "new" /\ status' = [status EXCEPT ![rd] = "up"]
      /\ robbed' = robbed
  BY <1>1 DEF AddRemote
<1>3. Holder(id)' = rd /\ \A i \in Ids \ {id} : Holder(i)' = Holder(i)
  BY <1>1, NewDisplayType DEF Holder, AttachInv, TypeOK
<1>4. AttachedWhereItKnows'
  <2> SUFFICES ASSUME NEW i \in Ids, NEW r \in Remotes
               PROVE  Holder(i)' = r <=>
                        displayId'[r] = i /\ status'[r] = "up" /\ r \notin robbed'
    BY DEF AttachedWhereItKnows
  <2>1. CASE r = rd
    <3>1. Holder(i) # rd /\ rd \notin robbed
      BY <1>2 DEF AttachInv, AttachedWhereItKnows
    <3>2. displayId'[rd] = id /\ status'[rd] = "up"
      BY <1>2 DEF AttachInv, TypeOK
    <3>3. QED
      BY <1>2, <1>3, <2>1, <3>1, <3>2
  <2>2. CASE r # rd
    <3>1. displayId'[r] = displayId[r] /\ status'[r] = status[r]
      BY <1>2, <2>2 DEF AttachInv, TypeOK
    <3>2. Holder(i)' = r <=> Holder(i) = r
      <4>1. CASE i = id
        BY <1>1, <1>3, <2>2, <4>1, NoRemoteIsNone
      <4>2. CASE i # id
        BY <1>3, <4>2
      <4>3. QED
        BY <4>1, <4>2
    <3>3. QED
      BY <1>2, <3>1, <3>2 DEF AttachInv, AttachedWhereItKnows
  <2>3. QED
    BY <2>1, <2>2
<1>5. \A r \in robbed' : status'[r] # "new"
  BY <1>2 DEF AttachInv, TypeOK
<1>6. {Holder(i) : i \in Ids}' \ {NoRemote}
        = ({Holder(i) : i \in Ids} \ {NoRemote}) \union {rd}
  <2> SUFFICES ASSUME NEW x
               PROVE  (\E i \in Ids : x = Holder(i)') /\ x # NoRemote
                        <=> ((\E i \in Ids : x = Holder(i)) /\ x # NoRemote) \/ x = rd
    OBVIOUS
  <2>1. QED
    BY <1>1, <1>3, NoRemoteIsNone
<1>7. QED
  BY <1>4, <1>5, <1>6 DEF AttachInv

LEMMA RemoveKeepsAttach ==
  ASSUME AttachInv, TypeOK', NEW rd \in Remotes, RemoveRemote(rd)
  PROVE  /\ AttachInv'
         /\ robbed' = robbed =>
              {Holder(i) : i \in Ids}' \ {NoRemote}
                = ({Holder(i) : i \in Ids} \ {NoRemote}) \ {rd}
<1> DEFINE id == displayId[rd]
<1>1. id \in Ids
  BY DEF AttachInv, TypeOK
<1>2. /\ mRemoteDisplays' = [mRemoteDisplays EXCEPT ![id] = NoDisplay]
      /\ status' = [status EXCEPT ![rd] = "gone"] /\ displayId' = displayId
      /\ robbed' = robbed \union ({Holder(id)} \ {rd, NoRemote})
  BY DEF RemoveRemote, DisplayLeft
<1>3. Holder(id)' = NoRemote /\ \A i \in Ids \ {id} : Holder(i)' = Holder(i)
  BY <1>1, <1>2, NoDisplayType DEF Holder, AttachInv, TypeOK
<1>4. AttachedWhereItKnows'
  <2> SUFFICES ASSUME NEW i \in Ids, NEW r \in Remotes
               PROVE  Holder(i)' = r <=>
                        displayId'[r] = i /\ status'[r] = "up" /\ r \notin robbed'
    BY DEF AttachedWhereItKnows
  <2>1. r = rd => status'[r] = "gone" /\ Holder(i)' # r
    BY <1>2, <1>3, NoRemoteIsNone DEF AttachInv, TypeOK, AttachedWhereItKnows
  <2>2. r # rd => status'[r] = status[r]
    BY <1>2 DEF AttachInv, TypeOK
  <2>3. CASE r # rd /\ i = id
    BY <1>2, <1>3, <2>2, <2>3, NoRemoteIsNone DEF AttachInv, AttachedWhereItKnows
  <2>4. CASE r # rd /\ i # id
    <3>1. Holder(i)' = Holder(i) /\ status'[r] = status[r]
      BY <1>3, <2>2, <2>4
    <3>2. displayId[r] = i => (r \in robbed' <=> r \in robbed)
      BY <1>1, <1>2, <2>4 DEF AttachInv, AttachedWhereItKnows
    <3>3. QED
      BY <1>2, <3>1, <3>2 DEF AttachInv, AttachedWhereItKnows
  <2>5. QED
    BY <2>1, <2>3, <2>4
<1>5. \A r \in robbed' : status'[r] # "new"
  <2>1. Holder(id) \in Remotes => status[Holder(id)] = "up"
    BY <1>1 DEF AttachInv, AttachedWhereItKnows
  <2>2. Holder(id) \in Remotes \union {NoRemote}
    BY <1>1 DEF AttachInv, TypeOK, Holder, Displays
  <2>3. QED
    BY <1>2, <2>1, <2>2 DEF AttachInv, TypeOK
<1>6. ASSUME robbed' = robbed
      PROVE  {Holder(i) : i \in Ids}' \ {NoRemote}
               = ({Holder(i) : i \in Ids} \ {NoRemote}) \ {rd}
  <2>1. Holder(id) \in {rd, NoRemote}
    <3>1. Holder(id) \in Remotes \union {NoRemote}
      BY <1>1 DEF AttachInv, TypeOK, Holder, Displays
    <3>2. Holder(id) \in Remotes => Holder(id) \notin robbed
      BY <1>1 DEF AttachInv, AttachedWhereItKnows
    <3>3. QED
      BY <1>2, <1>6, <3>1, <3>2
  <2>2. \A i \in Ids \ {id} : Holder(i) # rd
    BY DEF AttachInv, AttachedWhereItKnows
  <2> SUFFICES ASSUME NEW x
               PROVE  (\E i \in Ids : x = Holder(i)') /\ x # NoRemote
                        <=> (\E i \in Ids : x = Holder(i)) /\ x # NoRemote /\ x # rd
    OBVIOUS
  <2>3. QED
    BY <1>1, <1>2, <1>3, <2>1, <2>2
<1>7. QED
  BY <1>4, <1>5, <1>6 DEF AttachInv

(* Every other step leaves the attached remotes alone.                     *)
Moves == \E rd \in Remotes : AddRemote(rd) \/ RemoveRemote(rd)

LEMMA OthersKeepHolders ==
  ASSUME AttachInv, [Next]_vars, ~Moves
  PROVE  /\ \A i \in Ids : Holder(i)' = Holder(i)
         /\ UNCHANGED <<displayId, robbed>>
         /\ \/ UNCHANGED status
            \/ \E rd \in Remotes : status[rd] = "new" /\ RefuseRemote(rd)
<1> USE DEF device, dummy, hotplug, flinger, remotes, threads
<1>1. CASE ConnectFails \/ ConnectSucceeds \/ RegisterProcs
  BY <1>1 DEF ConnectFails, ConnectSucceeds, RegisterProcs, Holder
<1>2. CASE \E rd \in Remotes : RefuseRemote(rd)
  BY <1>2 DEF RefuseRemote, Holder
<1>3. CASE TellExternal
  BY <1>3 DEF TellExternal, Holder
<1>4. CASE \E i \in Ids : BeginPrepare(i) \/ BeginSet(i)
  BY <1>4 DEF BeginPrepare, BeginSet, Holder
<1>5. CASE \E d \in Reached : PrepareRemote(d)
  BY <1>5, UsesKeepHolders DEF PrepareRemote, AttachInv
<1>6. CASE Enter \/ PrepareDummy \/ SetDummy \/ Dies \/ \E d \in Reached : DisplayBuffer(d)
  BY <1>6 DEF Enter, PrepareDummy, SetDummy, Dies, DisplayBuffer, Holder
<1>7. CASE \E d \in Reached, app \in Apps, fbt \in Fbts \union {NoBuffer} :
             SetRemote(d, app, fbt)
  BY <1>7, UsesKeepHolders DEF SetRemote, AttachInv
<1>8. CASE UNCHANGED vars
  BY <1>8 DEF vars, Holder
<1>9. QED
  BY <1>1, <1>2, <1>3, <1>4, <1>5, <1>6, <1>7, <1>8 DEF Next, Socket, Flinger, Moves

LEMMA AttachInductive ==
  ASSUME AttachInv, TypeOK', [Next]_vars PROVE AttachInv'
<1>1. CASE Moves
  BY <1>1, AddKeepsAttach, RemoveKeepsAttach DEF Moves
<1>2. CASE ~Moves /\ UNCHANGED status
  BY <1>2, OthersKeepHolders, HoldersKept
<1>3. CASE ~Moves /\ \E rd \in Remotes : status[rd] = "new" /\ RefuseRemote(rd)
  <2>1. PICK rd \in Remotes : status[rd] = "new" /\ RefuseRemote(rd)
    BY <1>3
  <2>2. status' = [status EXCEPT ![rd] = "refused"]
    BY <2>1 DEF RefuseRemote
  <2>3. \A r \in Remotes : status'[r] = "up" <=> status[r] = "up"
    BY <2>1, <2>2 DEF AttachInv, TypeOK
  <2>4. \A r \in robbed : status'[r] # "new"
    BY <2>2 DEF AttachInv, TypeOK
  <2>5. QED
    BY <1>3, <2>3, <2>4, OthersKeepHolders DEF AttachInv, AttachedWhereItKnows
<1>4. QED
  BY <1>1, <1>2, <1>3, OthersKeepHolders

LEMMA AttachInvariant == Spec => []AttachInv
<1>1. Init /\ TypeOK => AttachInv
  BY NoDisplayType, NoRemoteIsNone
     DEF Init, AttachInv, AttachedWhereItKnows, Holder, TypeOK
<1>2. AttachInv /\ TypeOK' /\ [Next]_vars => AttachInv'
  BY AttachInductive
<1>3. QED
  BY <1>1, <1>2, Hwc1TypeCorrect, PTL DEF Spec

(* A remote is attached to exactly the display whose id addRemoteDisplay   *)
(* gave it, but for those that removeRemoteDisplay robbed of theirs.       *)
THEOREM Hwc1AttachmentCorrect == Spec => []AttachedWhereItKnows
<1>1. AttachInv => AttachedWhereItKnows
  BY DEF AttachInv
<1>2. QED
  BY <1>1, AttachInvariant, PTL

-----------------------------------------------------------------------------
(* The refinement of IRemoteDevice.                                        *)
Held == {Holder(i) : i \in Ids} \ {NoRemote}
Taken == {r \in Remotes : status[r] = "gone"}

LEMMA DeviceStep ==
  ASSUME AttachInv, TypeOK', [Next]_vars
  PROVE  [Device!Next \/ robbed' # robbed]_<<Held, Taken>>
<1>1. ASSUME NEW rd \in Remotes, AddRemote(rd) PROVE Device!addRemoteDisplay(rd)
  <2>1. Held' = Held \union {rd}
    BY <1>1, AddKeepsAttach DEF Held
  <2>2. rd \notin Taken /\ Taken' = Taken
    BY <1>1 DEF AddRemote, Taken, AttachInv, TypeOK
  <2>3. QED
    BY <2>1, <2>2 DEF Device!addRemoteDisplay, Held, Taken
<1>2. ASSUME NEW rd \in Remotes, RemoveRemote(rd), robbed' = robbed
      PROVE  Device!removeRemoteDisplay(rd)
  <2>1. Held' = Held \ {rd}
    BY <1>2, RemoveKeepsAttach DEF Held
  <2>2. rd \notin Taken /\ Taken' = Taken \union {rd}
    BY <1>2 DEF RemoveRemote, Taken, AttachInv, TypeOK
  <2>3. QED
    BY <2>1, <2>2 DEF Device!removeRemoteDisplay, Held, Taken
<1>3. ASSUME ~Moves PROVE UNCHANGED <<Held, Taken>>
  <2>1. Held' = Held
    BY <1>3, OthersKeepHolders DEF Held
  <2>2. Taken' = Taken
    BY <1>3, OthersKeepHolders DEF Taken, RefuseRemote, AttachInv, TypeOK
  <2>3. QED
    BY <2>1, <2>2
<1>4. QED
  BY <1>1, <1>2, <1>3 DEF Moves, Device!Next

(* The device lets go of a remote before the manager destroys it; it may   *)
(* let go of another one too early, which robbed records.                  *)
THEOREM Hwc1ImplementsInterface == Spec => ImplementsIRemoteDevice
<1>1. Init => Device!Init
  BY NoDisplayType DEF Init, Device!Init, Holder
<1>2. AttachInv /\ TypeOK' /\ [Next]_vars
        => [Device!Next \/ robbed' # robbed]_<<Held, Taken>>
  BY DeviceStep
<1>3. QED
  BY <1>1, <1>2, AttachInvariant, Hwc1TypeCorrect, PTL
     DEF Spec, ImplementsIRemoteDevice, Device!vars, Held, Taken
-----------------------------------------------------------------------------
(* What SurfaceFlinger is told of the external display.  While a hotplug   *)
(* is due the slot is already what the hotplug will say; before the procs  *)
(* are registered nothing is told, and whoever came then was missed.       *)
HotplugInv ==
  /\ spc = "in" => Occupied(External)
  /\ spc = "out" => ~Occupied(External)
  /\ ~mCbProcs => ~told
  /\ ~mCbProcs /\ ~missed /\ spc = "idle" => ~Occupied(External)
  /\ ExternalKnown

LEMMA AddKeepsHotplug ==
  ASSUME TypeOK, HotplugInv, NEW rd \in Remotes, AddRemote(rd)
  PROVE  HotplugInv'
<1> DEFINE id == CHOOSE i \in FreeIds : \A j \in FreeIds : i <= j
<1>1. id \in Ids
  BY FreeSlot DEF AddRemote
<1>2. /\ mRemoteDisplays' = [mRemoteDisplays EXCEPT ![id] = NewDisplay(rd)]
      /\ IF id = External THEN spc' = "in" ELSE spc' = spc
      /\ spc = "idle" /\ UNCHANGED <<mCbProcs, told, missed>>
  BY DEF AddRemote, hotplug
<1> HIDE DEF id
<1>3. CASE id = External
  <2>1. Holder(External)' = rd
    BY <1>1, <1>2, <1>3, NewDisplayType DEF Holder, TypeOK
  <2>2. QED
    BY <1>2, <1>3, <2>1, NoRemoteIsNone DEF HotplugInv, ExternalKnown, Occupied
<1>4. CASE id # External
  <2>1. Holder(External)' = Holder(External)
    BY <1>1, <1>2, <1>4, IdsAre DEF Holder, TypeOK
  <2>2. QED
    BY <1>2, <1>4, <2>1 DEF HotplugInv, ExternalKnown, Occupied
<1>5. QED
  BY <1>3, <1>4

LEMMA RemoveKeepsHotplug ==
  ASSUME TypeOK, HotplugInv, NEW rd \in Remotes, RemoveRemote(rd)
  PROVE  HotplugInv'
<1> DEFINE id == displayId[rd]
<1>1. id \in Ids
  BY DEF TypeOK
<1>2. /\ mRemoteDisplays' = [mRemoteDisplays EXCEPT ![id] = NoDisplay]
      /\ spc' = IF id = External THEN "out" ELSE "idle"
      /\ spc = "idle" /\ UNCHANGED <<mCbProcs, told, missed>>
  BY DEF RemoveRemote, DisplayLeft, hotplug
<1> HIDE DEF id
<1>3. CASE id = External
  <2>1. Holder(External)' = NoRemote
    BY <1>1, <1>2, <1>3, NoDisplayType DEF Holder, TypeOK
  <2>2. QED
    BY <1>2, <1>3, <2>1 DEF HotplugInv, ExternalKnown, Occupied
<1>4. CASE id # External
  <2>1. Holder(External)' = Holder(External)
    BY <1>1, <1>2, <1>4, IdsAre DEF Holder, TypeOK
  <2>2. QED
    BY <1>2, <1>4, <2>1 DEF HotplugInv, ExternalKnown, Occupied
<1>5. QED
  BY <1>3, <1>4

LEMMA HotplugInductive ==
  ASSUME AttachInv, HotplugInv, [Next]_vars PROVE HotplugInv'
<1>1. CASE Moves
  BY <1>1, AddKeepsHotplug, RemoveKeepsHotplug DEF Moves, AttachInv
<1>2. CASE ~Moves
  <2>1. Occupied(External)' <=> Occupied(External)
    BY <1>2, OthersKeepHolders, IdsAre DEF Occupied
  <2> USE <2>1 DEF HotplugInv, ExternalKnown, hotplug, threads
  <2>2. CASE ConnectFails \/ ConnectSucceeds \/ RegisterProcs
    BY <2>2 DEF ConnectFails, ConnectSucceeds, RegisterProcs
  <2>3. CASE \E rd \in Remotes : RefuseRemote(rd)
    BY <2>3 DEF RefuseRemote
  <2>4. CASE TellExternal
    BY <2>4 DEF TellExternal, ToldNow
  <2>5. CASE \E i \in Ids : BeginPrepare(i) \/ BeginSet(i)
    <3>1. UNCHANGED <<mCbProcs, told, missed, spc>>
      BY <2>5 DEF BeginPrepare, BeginSet
    <3>2. QED
      BY <3>1
  <2>6. CASE Enter \/ PrepareDummy \/ SetDummy
    BY <2>6 DEF Enter, PrepareDummy, SetDummy
  <2>7. CASE Dies
    BY <2>7 DEF Dies
  <2>8. ASSUME NEW d \in Reached,
               \/ PrepareRemote(d) \/ DisplayBuffer(d)
               \/ \E app \in Apps, fbt \in Fbts \union {NoBuffer} : SetRemote(d, app, fbt)
        PROVE  HotplugInv'
    <3>1. UNCHANGED <<mCbProcs, told, missed, spc>>
      BY <2>8 DEF PrepareRemote, DisplayBuffer, SetRemote
    <3>2. QED
      BY <3>1
  <2>9. CASE UNCHANGED vars
    BY <2>9 DEF vars
  <2>10. QED
    BY <1>2, <2>2, <2>3, <2>4, <2>5, <2>6, <2>7, <2>8, <2>9
       DEF Next, Socket, Flinger, Moves
<1>3. QED
  BY <1>1, <1>2

(* Between two turns of the socket thread SurfaceFlinger knows whether     *)
(* there is an external display, unless it came before registerProcs.      *)
THEOREM ExternalIsKnown == Spec => []ExternalKnown
<1>1. Init => HotplugInv
  BY NoDisplayType DEF Init, HotplugInv, ExternalKnown, Occupied, Holder, Ids, External
<1>2. AttachInv /\ HotplugInv /\ [Next]_vars => HotplugInv'
  BY HotplugInductive
<1>3. HotplugInv => ExternalKnown
  BY DEF HotplugInv
<1>4. QED
  BY <1>1, <1>2, <1>3, AttachInvariant, PTL DEF Spec
-----------------------------------------------------------------------------
(* Calls.  The display a call is in was given to a remote when the call    *)
(* got there; should that remote still have a display, it is in that slot. *)
CallInv ==
  InUse => LET r == call.this.mRemoteDisplay IN
             r \in Remotes /\ status[r] # "new" /\ displayId[r] = call.disp

LEMMA CallKept ==
  ASSUME AttachInv, CallInv, UNCHANGED call,
         \A r \in Remotes : status[r] # "new" => status'[r] # "new" /\ displayId'[r] = displayId[r]
  PROVE  CallInv'
  BY DEF CallInv, InUse

LEMMA NoCallLeft ==
  ASSUME call'.op = "none" \/ call'.at = "tested" PROVE CallInv'
  BY DEF CallInv, InUse

(* What the use of a display finds and does.                               *)
LEMMA UseFinds ==
  ASSUME AttachInv, CallInv, InUse, NEW d \in Reached
  PROVE  LET rd == d.mRemoteDisplay IN
         /\ d \in Displays /\ rd \in Remotes
         /\ status[rd] # "new" /\ displayId[rd] = call.disp
         /\ IF rd = Holder(call.disp) THEN d = mRemoteDisplays[call.disp]
                                      ELSE d = call.this /\ Destroyed
         /\ \A j \in Ids \ {call.disp} : Holder(j) # rd
<1>1. d \in Displays /\ call.disp \in Ids
  BY ReachedType DEF AttachInv, TypeOK, Calling
<1>2. d.mRemoteDisplay \in Remotes
  <2>1. CASE Destroyed
    BY <1>1, <2>1 DEF Reached, Displays
  <2>2. CASE ~Destroyed
    BY <1>1, <2>2 DEF Reached, Destroyed, CallInv, Holder
  <2>3. QED
    BY <2>1, <2>2
<1>3. d = mRemoteDisplays[call.disp] \/ (d = call.this /\ Destroyed)
  BY DEF Reached
<1>4. /\ status[d.mRemoteDisplay] # "new" /\ displayId[d.mRemoteDisplay] = call.disp
  BY <1>1, <1>2, <1>3 DEF CallInv, AttachInv, AttachedWhereItKnows, Holder
<1>5. \A j \in Ids \ {call.disp} : Holder(j) # d.mRemoteDisplay
  BY <1>2, <1>4 DEF AttachInv, AttachedWhereItKnows
<1>6. IF d.mRemoteDisplay = Holder(call.disp) THEN d = mRemoteDisplays[call.disp]
                                              ELSE d = call.this /\ Destroyed
  BY <1>3 DEF Destroyed, Holder
<1>7. QED
  BY <1>1, <1>2, <1>4, <1>5, <1>6

LEMMA UseWrites ==
  ASSUME AttachInv, NEW d, NEW e, e.mRemoteDisplay = d.mRemoteDisplay,
         mRemoteDisplays' = Written(d, e)
  PROVE  /\ IF d.mRemoteDisplay = Holder(call.disp)
              THEN mRemoteDisplays'[call.disp] = e
              ELSE mRemoteDisplays' = mRemoteDisplays
         /\ \A j \in Ids \ {call.disp} : mRemoteDisplays'[j] = mRemoteDisplays[j]
         /\ \A j \in Ids : Holder(j)' = Holder(j)
  BY DEF Written, AttachInv, TypeOK, Calling, Holder

(* What prepare and set work on.                                           *)
LEMMA PrepareUse ==
  ASSUME AttachInv, NEW d \in Reached, PrepareRemote(d)
  PROVE  LET e == Prepared(d, list[call.disp], call.geometry, opt) IN
         /\ InUse /\ call.disp \in Ids /\ list[call.disp] \in Lists
         /\ call.geometry \in BOOLEAN /\ opt \in BOOLEAN /\ d \in Displays
         /\ mRemoteDisplays' = Written(d, e) /\ e.mRemoteDisplay = d.mRemoteDisplay
<1>1. /\ InUse /\ call.disp \in Ids /\ list[call.disp] \in Lists
      /\ call.geometry \in BOOLEAN /\ opt \in BOOLEAN /\ d \in Displays
  BY Hwc1Assumption, ReachedType
     DEF AttachInv, TypeOK, Calling, Hwc1Assumption, PrepareRemote, In, InUse
<1>2. QED
  BY <1>1, PreparedType DEF PrepareRemote

LEMMA SetUse ==
  ASSUME AttachInv, NEW d \in Reached, NEW app \in Apps, NEW fbt \in Fbts \union {NoBuffer},
         SetRemote(d, app, fbt)
  PROVE  LET e == Announced(d, list[call.disp], app, fbt, opt)
             b == Displayed(d, list[call.disp], app, fbt, opt) IN
         /\ InUse /\ call.disp \in Ids /\ list[call.disp] \in Lists
         /\ opt \in BOOLEAN /\ d \in Displays
         /\ mRemoteDisplays' = Written(d, e) /\ e.mRemoteDisplay = d.mRemoteDisplay
         /\ IF b = NoBuffer THEN call' = NoCall
                            ELSE /\ call'.op = call.op /\ call'.at = "show"
                                 /\ call'.disp = call.disp /\ call'.this = e
                                 /\ call'.buffer = b
<1>1. /\ InUse /\ call.disp \in Ids /\ list[call.disp] \in Lists
      /\ opt \in BOOLEAN /\ d \in Displays
  BY Hwc1Assumption, ReachedType
     DEF AttachInv, TypeOK, Calling, Hwc1Assumption, SetRemote, In, InUse
<1>2. LET e == Announced(d, list[call.disp], app, fbt, opt)
          b == Displayed(d, list[call.disp], app, fbt, opt) IN
      /\ mRemoteDisplays' = Written(d, e)
      /\ IF b = NoBuffer THEN call' = NoCall
                         ELSE call' = [call EXCEPT !.at = "show", !.this = e, !.buffer = b]
  BY DEF SetRemote, Returns
<1>3. Announced(d, list[call.disp], app, fbt, opt).mRemoteDisplay = d.mRemoteDisplay
  BY <1>1, AnnouncedType
<1>4. call \in Calling
  BY DEF AttachInv, TypeOK
<1>5. QED
  BY <1>1, <1>2, <1>3, <1>4 DEF Calling

LEMMA CallInductive ==
  ASSUME AttachInv, CallInv, [Next]_vars PROVE CallInv'
<1> USE DEF flinger, device
<1>1. CASE ConnectFails \/ ConnectSucceeds \/ RegisterProcs \/ TellExternal \/ UNCHANGED vars
  BY <1>1, CallKept
     DEF ConnectFails, ConnectSucceeds, RegisterProcs, TellExternal, vars
<1>2. ASSUME NEW rd \in Remotes, AddRemote(rd) \/ RefuseRemote(rd) \/ RemoveRemote(rd)
      PROVE  CallInv'
  <2>1. /\ call' = call /\ \A r \in Remotes \ {rd} : status'[r] = status[r]
        /\ status'[rd] # "new"
    BY <1>2 DEF AddRemote, RefuseRemote, RemoveRemote, AttachInv, TypeOK
  <2>2. \A r \in Remotes : status[r] # "new" => displayId'[r] = displayId[r]
    BY <1>2 DEF AddRemote, RefuseRemote, RemoveRemote, setDisplayId, AttachInv, TypeOK
  <2>3. QED
    BY <2>1, <2>2, CallKept
<1>3. CASE \E i \in Ids : BeginPrepare(i) \/ BeginSet(i)
  BY <1>3, NoCallLeft DEF BeginPrepare, BeginSet, NewCall
<1>4. CASE Enter
  <2>1. /\ call'.this = mRemoteDisplays[call.disp] /\ call'.disp = call.disp
        /\ call.disp \in Ids /\ Occupied(call.disp) /\ UNCHANGED <<status, displayId>>
    BY <1>4 DEF Enter, AttachInv, TypeOK, Calling
  <2>2. Holder(call.disp) \in Remotes
    BY <2>1 DEF AttachInv, TypeOK, Displays, Holder, Occupied
  <2>3. status[Holder(call.disp)] = "up" /\ displayId[Holder(call.disp)] = call.disp
    BY <2>1, <2>2 DEF AttachInv, AttachedWhereItKnows
  <2>4. QED
    BY <2>1, <2>2, <2>3 DEF CallInv, Holder
<1>5. CASE PrepareDummy \/ SetDummy \/ Dies
  BY <1>5, NoCallLeft, NoCallIs DEF PrepareDummy, SetDummy, Dies, Returns
<1>6. ASSUME NEW d \in Reached, PrepareRemote(d) \/ DisplayBuffer(d) PROVE CallInv'
  BY <1>6, NoCallLeft, NoCallIs DEF PrepareRemote, DisplayBuffer, Returns
<1>7. ASSUME NEW d \in Reached, NEW app \in Apps, NEW fbt \in Fbts \union {NoBuffer},
             SetRemote(d, app, fbt)
      PROVE  CallInv'
  <2>1. UNCHANGED <<status, displayId>>
    BY <1>7 DEF SetRemote
  <2>2. /\ d.mRemoteDisplay \in Remotes /\ status[d.mRemoteDisplay] # "new"
        /\ displayId[d.mRemoteDisplay] = call.disp
    BY <1>7, SetUse, UseFinds
  <2>3. \/ call' = NoCall
        \/ call'.this.mRemoteDisplay = d.mRemoteDisplay /\ call'.disp = call.disp
    BY <1>7, SetUse
  <2>4. QED
    BY <2>1, <2>2, <2>3, NoCallLeft, NoCallIs DEF CallInv
<1>8. QED
  BY <1>1, <1>2, <1>3, <1>4, <1>5, <1>6, <1>7 DEF Next, Socket, Flinger

LEMMA CallInvariant == Spec => []CallInv
<1>1. Init => CallInv
  BY NoCallIs DEF Init, CallInv, InUse
<1>2. AttachInv /\ CallInv /\ [Next]_vars => CallInv'
  BY CallInductive
<1>3. QED
  BY <1>1, <1>2, AttachInvariant, PTL DEF Spec

-----------------------------------------------------------------------------
(* Buffers.  A remote knows what a display it has remembers having         *)
(* announced, also a destroyed one that a call is still in: a display      *)
(* remembers nothing its remote was taken.                                 *)
Remembered(d) == d.mAppBuffers \union d.mFbtBuffers

KnowsAll(d) ==
  status[d.mRemoteDisplay] # "gone" => Remembered(d) \subseteq knows[d.mRemoteDisplay]

KnownInv ==
  /\ \A i \in Ids : Occupied(i) => KnowsAll(mRemoteDisplays[i])
  /\ InUse => KnowsAll(call.this)
  /\ InUse /\ call.at = "show" => call.buffer \in Remembered(call.this)

(* prepare forgets exactly what it takes back.                             *)
LEMMA PreparedData ==
  ASSUME NEW d \in Displays, NEW l \in Lists, NEW g \in BOOLEAN, NEW o \in BOOLEAN
  PROVE  /\ Remembered(Prepared(d, l, g, o)) = Remembered(d) \ TakenBack(d, l, g, o)
         /\ Prepared(d, l, g, o).mSingleLayer
              = IF g /\ o THEN singleLayer(l) ELSE d.mSingleLayer
<1> DEFINE e == Prepared(d, l, g, o)
<1>1. /\ e.mFbtBuffers = d.mFbtBuffers
      /\ e.mAppBuffers = d.mAppBuffers \ TakenBack(d, l, g, o)
      /\ e.mSingleLayer = IF g /\ o THEN singleLayer(l) ELSE d.mSingleLayer
  BY DEF Prepared, Displays, AppsLeft, TakenBack, BecomesSingle
<1>2. d.mFbtBuffers \intersect TakenBack(d, l, g, o) = {}
  BY Hwc1Assumption DEF Hwc1Assumption, Displays, TakenBack
<1> HIDE DEF e
<1>3. QED
  BY <1>1, <1>2 DEF Remembered, e

(* set announces what it remembers and shows nothing else.                 *)
LEMMA AnnouncedData ==
  ASSUME NEW d \in Displays, NEW l \in Lists, NEW o \in BOOLEAN,
         NEW app \in Apps, NEW fbt \in Fbts \union {NoBuffer}
  PROVE  /\ Remembered(Announced(d, l, app, fbt, o))
              = Remembered(d) \union Created(d, l, app, fbt, o)
         /\ Displayed(d, l, app, fbt, o)
              \in {NoBuffer} \union Remembered(Announced(d, l, app, fbt, o))
         /\ Announced(d, l, app, fbt, o).mSingleLayer = d.mSingleLayer
<1> DEFINE e == Announced(d, l, app, fbt, o)
<1>1. /\ e.mAppBuffers = IF ShowsApp(d, l, o) THEN d.mAppBuffers \union {app}
                                              ELSE d.mAppBuffers
      /\ e.mFbtBuffers = IF ShowsFbt(d, l, o)
                           THEN d.mFbtBuffers \union ({fbt} \ {NoBuffer})
                           ELSE d.mFbtBuffers
      /\ e.mSingleLayer = d.mSingleLayer
  BY DEF Announced, Displays
<1>2. Created(d, l, app, fbt, o)
        = (e.mAppBuffers \ d.mAppBuffers) \union (e.mFbtBuffers \ d.mFbtBuffers)
  BY DEF Created
<1> HIDE DEF e
<1>3. Remembered(e) = Remembered(d) \union Created(d, l, app, fbt, o)
  BY <1>1, <1>2 DEF Remembered
<1>4. Displayed(d, l, app, fbt, o) \in {NoBuffer} \union Remembered(e)
  BY <1>1 DEF Remembered, Displayed
<1>5. QED
  BY <1>1, <1>3, <1>4 DEF e

(* What happens to a remote and to the displays that are not its own.      *)
LEMMA OthersKnow ==
  ASSUME AttachInv, NEW rd \in Remotes, NEW v,
         knows' = Received(knows, rd, v), UNCHANGED status
  PROVE  /\ status[rd] # "gone" => knows'[rd] = v
         /\ \A r \in Remotes \ {rd} : knows'[r] = knows[r]
  BY DEF Received, AttachInv, TypeOK

(* A use of d that makes it e keeps the knowledge if e's remote has it.    *)
LEMMA UseKeepsKnown ==
  ASSUME AttachInv, CallInv, KnownInv, InUse, NEW d \in Reached, NEW e, NEW v,
         e.mRemoteDisplay = d.mRemoteDisplay, mRemoteDisplays' = Written(d, e),
         knows' = Received(knows, d.mRemoteDisplay, v), UNCHANGED status,
         KnowsAll(d) /\ status[d.mRemoteDisplay] # "gone" => Remembered(e) \subseteq v
  PROVE  /\ \A i \in Ids : Occupied(i)' => KnowsAll(mRemoteDisplays[i])'
         /\ status'[d.mRemoteDisplay] # "gone" => Remembered(e) \subseteq knows'[d.mRemoteDisplay]
<1> DEFINE rd == d.mRemoteDisplay
<1>1. /\ rd \in Remotes
      /\ IF rd = Holder(call.disp) THEN d = mRemoteDisplays[call.disp] ELSE d = call.this
      /\ \A j \in Ids \ {call.disp} : Holder(j) # rd
  BY UseFinds
<1>2. call.disp \in Ids
  BY DEF AttachInv, TypeOK, Calling
<1>3. KnowsAll(d)
  <2>1. CASE rd = Holder(call.disp)
    BY <1>1, <1>2, <2>1, NoRemoteIsNone DEF KnownInv, Occupied
  <2>2. CASE rd # Holder(call.disp)
    BY <1>1, <2>2 DEF KnownInv
  <2>3. QED
    BY <2>1, <2>2
<1>4. status'[rd] # "gone" => Remembered(e) \subseteq knows'[rd]
  BY <1>1, <1>3, OthersKnow
<1>5. ASSUME NEW i \in Ids, Occupied(i), Holder(i) # rd, mRemoteDisplays'[i] = mRemoteDisplays[i]
      PROVE  KnowsAll(mRemoteDisplays[i])'
  <2>1. Holder(i) \in Remotes \ {rd}
    BY <1>5 DEF AttachInv, TypeOK, Displays, Holder, Occupied
  <2>2. knows'[Holder(i)] = knows[Holder(i)]
    BY <1>1, <2>1, OthersKnow
  <2>3. QED
    BY <1>5, <2>2 DEF KnownInv, KnowsAll, Remembered, Holder
<1>6. ASSUME NEW i \in Ids, Occupied(i)' PROVE KnowsAll(mRemoteDisplays[i])'
  <2>1. Occupied(i)
    BY <1>6, UseWrites DEF Occupied
  <2>2. CASE i = call.disp /\ rd = Holder(i)
    <3>1. mRemoteDisplays'[i] = e
      BY <2>2, UseWrites
    <3>2. QED
      BY <1>4, <3>1 DEF KnowsAll, Remembered
  <2>3. CASE ~(i = call.disp /\ rd = Holder(i))
    <3>1. mRemoteDisplays'[i] = mRemoteDisplays[i] /\ Holder(i) # rd
      BY <1>1, <2>3, UseWrites
    <3>2. QED
      BY <1>5, <2>1, <3>1
  <2>4. QED
    BY <2>2, <2>3
<1>7. QED
  BY <1>4, <1>6

LEMMA KnownInductive ==
  ASSUME AttachInv, CallInv, KnownInv, [Next]_vars PROVE KnownInv'
<1>1. ASSUME NEW rd \in Remotes, AddRemote(rd) PROVE KnownInv'
  <2>1. PICK id \in Ids : mRemoteDisplays' = [mRemoteDisplays EXCEPT ![id] = NewDisplay(rd)]
    <3> DEFINE k == CHOOSE i \in FreeIds : \A j \in FreeIds : i <= j
    <3>1. k \in Ids
      BY <1>1, FreeSlot DEF AddRemote
    <3>2. QED
      BY <1>1, <3>1 DEF AddRemote
  <2>2. Remembered(mRemoteDisplays'[id]) = {}
    BY <2>1 DEF Remembered, NewDisplay, AttachInv, TypeOK
  <2>3. \A i \in Ids \ {id} : mRemoteDisplays'[i] = mRemoteDisplays[i]
    BY <2>1 DEF AttachInv, TypeOK
  <2>4. /\ knows' = knows /\ call' = call
        /\ \A r \in Remotes : status'[r] # "gone" => status[r] # "gone"
    BY <1>1 DEF AddRemote, remotes, flinger, AttachInv, TypeOK
  <2>5. \A e : KnowsAll(e) /\ e.mRemoteDisplay \in Remotes
                 => (status'[e.mRemoteDisplay] # "gone"
                       => Remembered(e) \subseteq knows'[e.mRemoteDisplay])
    BY <2>4 DEF KnowsAll
  <2>6. ASSUME NEW i \in Ids, Occupied(i)' PROVE KnowsAll(mRemoteDisplays[i])'
    <3>1. CASE i = id
      BY <2>2, <3>1 DEF KnowsAll, Remembered
    <3>2. CASE i # id
      <4>1. mRemoteDisplays'[i] = mRemoteDisplays[i] /\ Occupied(i)
        BY <2>3, <2>6, <3>2 DEF Occupied, Holder
      <4>2. mRemoteDisplays[i].mRemoteDisplay \in Remotes
        BY <4>1 DEF Occupied, Holder, AttachInv, TypeOK, Displays
      <4>3. QED
        BY <2>5, <4>1, <4>2 DEF KnownInv, KnowsAll, Remembered
    <3>3. QED
      BY <3>1, <3>2
  <2>7. QED
    BY <2>4, <2>5, <2>6 DEF KnownInv, InUse, CallInv, KnowsAll, Remembered
<1>2. ASSUME NEW rd \in Remotes, RemoveRemote(rd) PROVE KnownInv'
  <2>1. PICK id \in Ids : mRemoteDisplays' = [mRemoteDisplays EXCEPT ![id] = NoDisplay]
    BY <1>2 DEF RemoveRemote, DisplayLeft, AttachInv, TypeOK
  <2>2. Holder(id)' = NoRemote
    BY <2>1, NoDisplayType DEF Holder, AttachInv, TypeOK
  <2>3. /\ call' = call /\ status'[rd] = "gone"
        /\ \A r \in Remotes \ {rd} : status'[r] = status[r] /\ knows'[r] = knows[r]
    BY <1>2 DEF RemoveRemote, flinger, AttachInv, TypeOK
  <2>4. \A e : KnowsAll(e) /\ e.mRemoteDisplay \in Remotes
                 => (status'[e.mRemoteDisplay] # "gone"
                       => Remembered(e) \subseteq knows'[e.mRemoteDisplay])
    BY <2>3 DEF KnowsAll
  <2>5. ASSUME NEW i \in Ids, Occupied(i)' PROVE KnowsAll(mRemoteDisplays[i])'
    <3>1. i # id
      BY <2>2, <2>5 DEF Occupied
    <3>2. mRemoteDisplays'[i] = mRemoteDisplays[i] /\ Occupied(i)
      BY <2>1, <2>5, <3>1 DEF Occupied, Holder, AttachInv, TypeOK
    <3>3. mRemoteDisplays[i].mRemoteDisplay \in Remotes
      BY <3>2 DEF Occupied, Holder, AttachInv, TypeOK, Displays
    <3>4. QED
      BY <2>4, <3>2, <3>3 DEF KnownInv, KnowsAll, Remembered
  <2>6. QED
    BY <2>3, <2>4, <2>5 DEF KnownInv, InUse, CallInv, KnowsAll, Remembered
<1>3. ASSUME NEW d \in Reached, PrepareRemote(d) PROVE KnownInv'
  <2> DEFINE t == TakenBack(d, list[call.disp], call.geometry, opt)
             e == Prepared(d, list[call.disp], call.geometry, opt)
  <2>1. /\ knows' = Received(knows, d.mRemoteDisplay, knows[d.mRemoteDisplay] \ t)
        /\ status' = status /\ call' = NoCall
    BY <1>3 DEF PrepareRemote, Returns
  <2>2. Remembered(e) = Remembered(d) \ t
    BY <1>3, PrepareUse, PreparedData
  <2>3. InUse /\ mRemoteDisplays' = Written(d, e) /\ e.mRemoteDisplay = d.mRemoteDisplay
    BY <1>3, PrepareUse
  <2> HIDE DEF t, e
  <2>4. KnowsAll(d) /\ status[d.mRemoteDisplay] # "gone"
          => Remembered(e) \subseteq knows[d.mRemoteDisplay] \ t
    BY <2>2 DEF KnowsAll
  <2>5. \A i \in Ids : Occupied(i)' => KnowsAll(mRemoteDisplays[i])'
    BY <2>1, <2>3, <2>4, UseKeepsKnown
  <2>6. ~InUse'
    BY <2>1, NoCallIs DEF InUse
  <2>7. QED
    BY <2>5, <2>6 DEF KnownInv
<1>4. ASSUME NEW d \in Reached, NEW app \in Apps, NEW fbt \in Fbts \union {NoBuffer},
             SetRemote(d, app, fbt)
      PROVE  KnownInv'
  <2> DEFINE l == list[call.disp]
             c == Created(d, l, app, fbt, opt)
             e == Announced(d, l, app, fbt, opt)
             b == Displayed(d, l, app, fbt, opt)
  <2>1. /\ knows' = Received(knows, d.mRemoteDisplay, knows[d.mRemoteDisplay] \union c)
        /\ status' = status
    BY <1>4 DEF SetRemote
  <2>2. Remembered(e) = Remembered(d) \union c /\ b \in {NoBuffer} \union Remembered(e)
    BY <1>4, SetUse, AnnouncedData
  <2>3. InUse /\ mRemoteDisplays' = Written(d, e) /\ e.mRemoteDisplay = d.mRemoteDisplay
    BY <1>4, SetUse
  <2>4. IF b = NoBuffer THEN call' = NoCall
                        ELSE call'.at = "show" /\ call'.this = e /\ call'.buffer = b
    BY <1>4, SetUse
  <2> HIDE DEF c, e, b
  <2>5. KnowsAll(d) /\ status[d.mRemoteDisplay] # "gone"
          => Remembered(e) \subseteq knows[d.mRemoteDisplay] \union c
    BY <2>2 DEF KnowsAll
  <2>6. /\ \A i \in Ids : Occupied(i)' => KnowsAll(mRemoteDisplays[i])'
        /\ status'[d.mRemoteDisplay] # "gone"
             => Remembered(e) \subseteq knows'[d.mRemoteDisplay]
    BY <2>1, <2>3, <2>5, UseKeepsKnown
  <2>7. InUse' => b # NoBuffer /\ call'.this = e /\ call'.buffer = b
    BY <2>4, NoCallIs DEF InUse
  <2>8. InUse' => KnowsAll(call.this)' /\ call'.buffer \in Remembered(call'.this)
    BY <2>2, <2>3, <2>6, <2>7 DEF KnowsAll, Remembered
  <2>9. QED
    BY <2>6, <2>8 DEF KnownInv, Remembered
<1>5. CASE Enter
  <2>1. /\ UNCHANGED <<mRemoteDisplays, status, knows>> /\ call.disp \in Ids
        /\ Occupied(call.disp) /\ call'.at = "in"
        /\ call'.this = mRemoteDisplays[call.disp]
    BY <1>5 DEF Enter, device, remotes, AttachInv, TypeOK, Calling
  <2>2. QED
    BY <2>1 DEF KnownInv, KnowsAll, Remembered, Occupied, Holder
<1>6. CASE UNCHANGED <<mRemoteDisplays, status, knows>> /\ (call' = call \/ ~InUse')
  BY <1>6 DEF KnownInv, KnowsAll, Remembered, Occupied, Holder, InUse
<1>7. ASSUME NEW rd \in Remotes, RefuseRemote(rd) PROVE KnownInv'
  <2>1. /\ UNCHANGED <<mRemoteDisplays, knows, call>>
        /\ \A r \in Remotes : status'[r] # "gone" => status[r] # "gone"
    BY <1>7 DEF RefuseRemote, remotes, flinger, AttachInv, TypeOK
  <2>2. \A i \in Ids : Occupied(i) => Holder(i) \in Remotes
    BY DEF Occupied, Holder, AttachInv, TypeOK, Displays
  <2>3. QED
    BY <2>1, <2>2 DEF KnownInv, KnowsAll, Remembered, Occupied, Holder, InUse, CallInv
<1>8. QED
  <2> USE DEF device, remotes, flinger
  <2>1. CASE ConnectFails \/ ConnectSucceeds \/ RegisterProcs \/ TellExternal
    BY <1>6, <2>1 DEF ConnectFails, ConnectSucceeds, RegisterProcs, TellExternal
  <2>2. CASE \E i \in Ids : BeginPrepare(i) \/ BeginSet(i)
    BY <1>6, <2>2 DEF BeginPrepare, BeginSet, InUse, NewCall
  <2>3. CASE PrepareDummy \/ SetDummy \/ Dies \/ UNCHANGED vars
    BY <1>6, <2>3, NoCallIs DEF PrepareDummy, SetDummy, Dies, Returns, vars, InUse
  <2>4. CASE \E d \in Reached : DisplayBuffer(d)
    BY <1>6, <2>4, NoCallIs DEF DisplayBuffer, Returns, InUse
  <2>5. QED
    BY <1>1, <1>2, <1>3, <1>4, <1>5, <1>7, <2>1, <2>2, <2>3, <2>4
       DEF Next, Socket, Flinger

LEMMA KnownInvariant == Spec => []KnownInv
<1>1. Init => KnownInv
  BY NoDisplayType, NoCallIs DEF Init, KnownInv, Occupied, Holder, InUse
<1>2. AttachInv /\ CallInv /\ KnownInv /\ [Next]_vars => KnownInv'
  BY KnownInductive
<1>3. QED
  BY <1>1, <1>2, AttachInvariant, CallInvariant, PTL DEF Spec

(* A remote is asked to show only buffers that were announced to it and    *)
(* not taken back, also when displays come and go while set runs.  It may  *)
(* be asked for another one only in place of a remote whose display was    *)
(* destroyed after the announcement.                                       *)
THEOREM ShowsOnlyKnown == Spec => ShowsKnown
<1> DEFINE A ==
      \A d \in Reached :
        DisplayBuffer(d) /\ status[d.mRemoteDisplay] # "gone" =>
          \/ call.buffer \in knows[d.mRemoteDisplay]
          \/ Destroyed /\ d.mRemoteDisplay # call.this.mRemoteDisplay
<1>1. ASSUME AttachInv, CallInv, KnownInv PROVE A
  <2> SUFFICES ASSUME NEW d \in Reached, DisplayBuffer(d),
                      status[d.mRemoteDisplay] # "gone"
               PROVE  \/ call.buffer \in knows[d.mRemoteDisplay]
                      \/ Destroyed /\ d.mRemoteDisplay # call.this.mRemoteDisplay
    OBVIOUS
  <2>1. InUse /\ call.at = "show"
    BY DEF DisplayBuffer, InUse
  <2>2. call.buffer \in Remembered(call.this) /\ KnowsAll(call.this)
    BY <1>1, <2>1 DEF KnownInv
  <2>3. CASE d.mRemoteDisplay = call.this.mRemoteDisplay
    BY <2>2, <2>3 DEF KnowsAll
  <2>4. CASE d.mRemoteDisplay # call.this.mRemoteDisplay
    BY <2>1, <2>4 DEF Reached, Destroyed, Holder
  <2>5. QED
    BY <2>3, <2>4
<1>2. AttachInv /\ CallInv /\ KnownInv /\ [Next]_vars => [A]_vars
  BY <1>1
<1>3. QED
  BY <1>2, AttachInvariant, CallInvariant, KnownInvariant, PTL DEF Spec, ShowsKnown
-----------------------------------------------------------------------------
(* Plans.  The display that saw the last geometry change of a list left    *)
(* the composition types its single layer mode asks for, and SurfaceFlinger *)
(* has changed the list since only if it is about to have it prepared.  A  *)
(* call in a destroyed display has found no such display in its slot.      *)
Replanning(i) == call.op = "prepare" /\ call.disp = i /\ call.geometry
Singled(i) == opt /\ mRemoteDisplays[i].mSingleLayer

Planned(i) ==
  /\ list[i].overlays = IF Singled(i) THEN {0} ELSE {}
  /\ Singled(i) => list[i].n = 2

PlannerInv(i) ==
  mpc # "undefined" /\ Occupied(i) /\ planner[i] = Holder(i) =>
    /\ Replanning(i) \/ Planned(i)
    /\ ~(call.op = "prepare" /\ ~call.seen /\ call.disp = i)
    /\ ~(Destroyed /\ call.disp = i)

PlanInv ==
  /\ mpc = "undefined" => call = NoCall
  /\ \A i \in Ids : planner[i] \in Remotes => status[planner[i]] # "new"
  /\ \A i \in Ids : PlannerInv(i)

(* A step that changes only what a plan does not depend on.                *)
LEMMA PlanKept ==
  ASSUME PlanInv, UNCHANGED <<mRemoteDisplays, status, call, list, opt, planner>>,
         mpc' = "undefined" <=> mpc = "undefined"
  PROVE  PlanInv'
  BY DEF PlanInv, PlannerInv, Replanning, Planned, Singled, Occupied, Holder,
         Destroyed, InUse

LEMMA AddKeepsPlan ==
  ASSUME AttachInv, PlanInv, NEW rd \in Remotes, AddRemote(rd)
  PROVE  PlanInv'
<1>1. PICK id \in Ids : mRemoteDisplays' = [mRemoteDisplays EXCEPT ![id] = NewDisplay(rd)]
  <2> DEFINE k == CHOOSE i \in FreeIds : \A j \in FreeIds : i <= j
  <2>1. k \in Ids
    BY FreeSlot DEF AddRemote
  <2>2. QED
    BY <2>1 DEF AddRemote
<1>2. /\ status[rd] = "new" /\ status' = [status EXCEPT ![rd] = "up"]
      /\ UNCHANGED <<mpc, call, list, opt, planner>>
  BY DEF AddRemote, flinger
<1>3. \A i \in Ids : planner[i] \in Remotes => planner[i] # rd /\ status'[planner[i]] # "new"
  BY <1>2 DEF PlanInv, AttachInv, TypeOK
<1>4. Holder(id)' = rd
  BY <1>1, NewDisplayType DEF Holder, AttachInv, TypeOK
<1>5. \A i \in Ids \ {id} : mRemoteDisplays'[i] = mRemoteDisplays[i]
  BY <1>1 DEF AttachInv, TypeOK
<1>6. PlannerInv(id)'
  BY <1>2, <1>3, <1>4 DEF PlannerInv
<1>7. ASSUME NEW i \in Ids \ {id} PROVE PlannerInv(i)'
  BY <1>2, <1>5 DEF PlanInv, PlannerInv, Replanning, Planned, Singled, Occupied, Holder,
                    Destroyed, InUse
<1>8. QED
  BY <1>2, <1>3, <1>6, <1>7 DEF PlanInv

LEMMA RemoveKeepsPlan ==
  ASSUME AttachInv, PlanInv, NEW rd \in Remotes, RemoveRemote(rd)
  PROVE  PlanInv'
<1>1. PICK id \in Ids : mRemoteDisplays' = [mRemoteDisplays EXCEPT ![id] = NoDisplay]
  BY DEF RemoveRemote, DisplayLeft, AttachInv, TypeOK
<1>2. /\ status' = [status EXCEPT ![rd] = "gone"]
      /\ UNCHANGED <<mpc, call, list, opt, planner>>
  BY DEF RemoveRemote, flinger
<1>3. ~Occupied(id)'
  BY <1>1, NoDisplayType DEF Occupied, Holder, AttachInv, TypeOK
<1>4. \A i \in Ids \ {id} : mRemoteDisplays'[i] = mRemoteDisplays[i]
  BY <1>1 DEF AttachInv, TypeOK
<1>5. PlannerInv(id)'
  BY <1>3 DEF PlannerInv
<1>6. ASSUME NEW i \in Ids \ {id} PROVE PlannerInv(i)'
  BY <1>2, <1>4 DEF PlanInv, PlannerInv, Replanning, Planned, Singled, Occupied, Holder,
                    Destroyed, InUse
<1>7. \A i \in Ids : planner'[i] \in Remotes => status'[planner'[i]] # "new"
  BY <1>2 DEF PlanInv, AttachInv, TypeOK
<1>8. QED
  BY <1>2, <1>5, <1>6, <1>7 DEF PlanInv

(* A call begins with no other under way.                                  *)
LEMMA BeginKeepsPlan ==
  ASSUME AttachInv, PlanInv, NEW i \in Ids, BeginPrepare(i) \/ BeginSet(i)
  PROVE  PlanInv'
<1>1. /\ mpc = "ready" /\ mpc' = mpc /\ call = NoCall
      /\ UNCHANGED <<mRemoteDisplays, status, opt, planner>>
  BY DEF BeginPrepare, BeginSet, Calls, threads, device
<1>2. PICK g \in BOOLEAN, op \in {"prepare", "set"} :
        /\ call' = NewCall(op, i, g, Occupied(i))
        /\ op = "set" \/ ~g => list' = list
        /\ \A j \in Ids \ {i} : list'[j] = list[j]
  <2>1. CASE BeginSet(i)
    BY <2>1 DEF BeginSet
  <2>2. CASE BeginPrepare(i)
    <3>1. PICK g \in BOOLEAN :
            /\ list' \in IF g THEN {[list EXCEPT ![i] = l] : l \in Made} ELSE {list}
            /\ call' = NewCall("prepare", i, g, Occupied(i))
      BY <2>2 DEF BeginPrepare
    <3>2. \A j \in Ids \ {i} : list'[j] = list[j]
      BY <3>1 DEF AttachInv, TypeOK
    <3>3. QED
      BY <3>1, <3>2
  <2>3. QED
    BY <2>1, <2>2
<1>3. /\ call'.op = op /\ call'.disp = i /\ call'.geometry = g
      /\ call'.seen = Occupied(i) /\ ~Destroyed'
  BY <1>2 DEF NewCall, Destroyed, InUse
<1>4. ASSUME NEW j \in Ids, Occupied(j), planner[j] = Holder(j)
      PROVE  /\ Replanning(j)' \/ Planned(j)'
             /\ ~(call'.op = "prepare" /\ ~call'.seen /\ call'.disp = j)
  <2>1. ~Replanning(j)
    BY <1>1, NoCallIs DEF Replanning
  <2>2. Planned(j)
    BY <1>1, <1>4, <2>1 DEF PlanInv, PlannerInv
  <2>3. list'[j] = list[j] => Planned(j)'
    BY <1>1, <2>2 DEF Planned, Singled
  <2>4. CASE j = i
    BY <1>2, <1>3, <1>4, <2>3, <2>4 DEF Replanning
  <2>5. CASE j # i
    BY <1>2, <1>3, <2>3, <2>5
  <2>6. QED
    BY <2>4, <2>5
<1>5. QED
  BY <1>1, <1>3, <1>4 DEF PlanInv, PlannerInv, Occupied, Holder

(* A call enters the display that is in the slot.                          *)
LEMMA EnterKeepsPlan ==
  ASSUME AttachInv, PlanInv, Enter PROVE PlanInv'
<1>1. /\ call'.op = call.op /\ call'.disp = call.disp /\ call'.geometry = call.geometry
      /\ call'.seen = call.seen /\ call'.this = mRemoteDisplays[call.disp]
      /\ call.seen /\ call.op # "none"
  BY DEF Enter, AttachInv, TypeOK, Calling
<1>2. UNCHANGED <<mRemoteDisplays, status, list, opt, planner, mpc>>
  BY DEF Enter, device, threads
<1>3. ~Destroyed'
  BY <1>1, <1>2 DEF Destroyed, Holder
<1>4. mpc # "undefined"
  BY <1>1, NoCallIs DEF PlanInv
<1>5. QED
  BY <1>1, <1>2, <1>3, <1>4
     DEF PlanInv, PlannerInv, Replanning, Planned, Singled, Occupied, Holder

(* prepare leaves a plan: its own after a geometry change, or the old one. *)
LEMMA PrepareKeepsPlan ==
  ASSUME AttachInv, CallInv, PlanInv, NEW d \in Reached, PrepareRemote(d)
  PROVE  PlanInv'
<1>1. PICK i \in Ids : i = call.disp
  BY PrepareUse
<1> DEFINE g == call.geometry
           rd == d.mRemoteDisplay
           e == Prepared(d, list[i], g, opt)
<1>2. /\ g \in BOOLEAN /\ opt \in BOOLEAN /\ d \in Displays /\ list[i] \in Lists
      /\ rd \in Remotes /\ status[rd] # "new"
      /\ IF rd = Holder(i) THEN d = mRemoteDisplays[i] ELSE Destroyed
  BY <1>1, PrepareUse, UseFinds
<1>3. /\ IF rd = Holder(i) THEN mRemoteDisplays'[i] = e
                           ELSE mRemoteDisplays' = mRemoteDisplays
      /\ \A j \in Ids \ {i} : mRemoteDisplays'[j] = mRemoteDisplays[j]
      /\ \A j \in Ids : Holder(j)' = Holder(j)
  BY <1>1, PrepareUse, UseWrites
<1>4. /\ list' = [list EXCEPT ![i] = Retyped(d, list[i], g, opt)]
      /\ planner' = IF g THEN [planner EXCEPT ![i] = rd] ELSE planner
      /\ call.op = "prepare" /\ call' = NoCall
      /\ UNCHANGED <<opt, status, mpc>>
  BY <1>1 DEF PrepareRemote, In, Plans, Returns, threads
<1>5. e.mSingleLayer = IF g /\ opt THEN singleLayer(list[i]) ELSE d.mSingleLayer
  BY <1>2, PreparedData
<1>6. /\ list'[i].n = list[i].n
      /\ list'[i].overlays = (IF g THEN {} ELSE list[i].overlays)
                               \union (IF opt /\ e.mSingleLayer THEN {0} ELSE {})
  <2>1. list'[i] = Retyped(d, list[i], g, opt)
    BY <1>4 DEF AttachInv, TypeOK
  <2>2. QED
    BY <1>2, <2>1 DEF Retyped, Lists
<1> HIDE DEF g, rd, e
<1>7. ASSUME mpc # "undefined", Occupied(i), planner'[i] = Holder(i) PROVE Planned(i)'
  <2>1. rd = Holder(i)
    <3>1. g => planner'[i] = rd
      BY <1>4 DEF AttachInv, TypeOK
    <3>2. ~g => ~Destroyed
      BY <1>1, <1>4, <1>7 DEF PlanInv, PlannerInv
    <3>3. QED
      BY <1>2, <1>7, <3>1, <3>2
  <2>2. d = mRemoteDisplays[i] /\ mRemoteDisplays'[i] = e
    BY <1>2, <1>3, <2>1
  <2>3. Singled(i)' <=> opt /\ e.mSingleLayer
    BY <1>4, <2>2 DEF Singled
  <2>4. CASE g
    <3>1. Singled(i)' => singleLayer(list[i])
      BY <1>2, <1>5, <2>3, <2>4
    <3>2. QED
      BY <1>6, <2>3, <2>4, <3>1 DEF Planned, singleLayer
  <2>5. CASE ~g
    <3>1. Planned(i)
      BY <1>1, <1>4, <1>7, <2>5 DEF PlanInv, PlannerInv, Replanning, g
    <3>2. Singled(i)' <=> Singled(i)
      BY <1>5, <2>2, <2>3, <2>5 DEF Singled
    <3>3. QED
      BY <1>6, <2>3, <2>5, <3>1, <3>2 DEF Planned
  <2>6. QED
    BY <2>4, <2>5, <1>2
<1>8. ASSUME NEW j \in Ids \ {i}, mpc # "undefined", Occupied(j), planner'[j] = Holder(j)
      PROVE  Planned(j)'
  <2>1. planner'[j] = planner[j] /\ list'[j] = list[j]
    BY <1>4, <1>8 DEF AttachInv, TypeOK
  <2>2. Planned(j)
    BY <1>1, <1>8, <2>1 DEF PlanInv, PlannerInv, Replanning
  <2>3. QED
    BY <1>3, <1>4, <2>1, <2>2 DEF Planned, Singled
<1>9. \A j \in Ids : PlannerInv(j)'
  <2>1. call'.op = "none" /\ ~Destroyed'
    BY <1>4, NoCallIs DEF Destroyed, InUse
  <2>2. QED
    BY <1>3, <1>4, <1>7, <1>8, <2>1 DEF PlannerInv, Occupied
<1>10. \A j \in Ids : planner'[j] \in Remotes => status'[planner'[j]] # "new"
  BY <1>2, <1>4 DEF PlanInv, AttachInv, TypeOK
<1>11. QED
  BY <1>4, <1>9, <1>10 DEF PlanInv

(* The dummy display plans for no remote, and only a list whose display    *)
(* came after the test of the slot.                                        *)
LEMMA PrepareDummyKeepsPlan ==
  ASSUME AttachInv, PlanInv, PrepareDummy
  PROVE  PlanInv'
<1>1. PICK i \in Ids : i = call.disp
  BY DEF AttachInv, TypeOK, Calling
<1>2. /\ \A j \in Ids \ {i} : list'[j] = list[j]
      /\ planner' \in {planner, [planner EXCEPT ![i] = NoRemote]}
      /\ call.op = "prepare" /\ ~call.seen /\ call' = NoCall
      /\ UNCHANGED <<opt, status, mpc, mRemoteDisplays>>
  BY <1>1 DEF PrepareDummy, OnDummy, Plans, Returns, threads, device, AttachInv, TypeOK
<1>3. \A j \in Ids : planner'[j] \in Remotes => planner'[j] = planner[j]
  BY <1>2, NoRemoteIsNone DEF AttachInv, TypeOK
<1>4. ASSUME NEW j \in Ids, mpc # "undefined", Occupied(j), planner'[j] = Holder(j)
      PROVE  Planned(j)'
  <2>1. planner[j] = Holder(j)
    BY <1>3, <1>4 DEF AttachInv, TypeOK, Holder, Displays, Occupied
  <2>2. j # i
    BY <1>1, <1>2, <1>4, <2>1 DEF PlanInv, PlannerInv
  <2>3. Planned(j)
    BY <1>1, <1>4, <2>1, <2>2 DEF PlanInv, PlannerInv, Replanning
  <2>4. QED
    BY <1>2, <2>2, <2>3 DEF Planned, Singled
<1>5. \A j \in Ids : PlannerInv(j)'
  <2>1. call'.op = "none" /\ ~Destroyed'
    BY <1>2, NoCallIs DEF Destroyed, InUse
  <2>2. QED
    BY <1>2, <1>4, <2>1 DEF PlannerInv, Occupied, Holder
<1>6. QED
  BY <1>2, <1>3, <1>5 DEF PlanInv

LEMMA SetKeepsPlan ==
  ASSUME AttachInv, CallInv, PlanInv, NEW d \in Reached, NEW app \in Apps,
         NEW fbt \in Fbts \union {NoBuffer}, SetRemote(d, app, fbt)
  PROVE  PlanInv'
<1>1. PICK i \in Ids : i = call.disp
  BY SetUse
<1> DEFINE e == Announced(d, list[i], app, fbt, opt)
<1>2. /\ call.op = "set" /\ UNCHANGED <<opt, status, mpc, list, planner>>
      /\ mpc # "undefined"
  BY NoCallIs DEF SetRemote, In, threads, PlanInv
<1>3. /\ IF d.mRemoteDisplay = Holder(i) THEN d = mRemoteDisplays[i] ELSE Destroyed
      /\ IF d.mRemoteDisplay = Holder(i) THEN mRemoteDisplays'[i] = e
                                         ELSE mRemoteDisplays' = mRemoteDisplays
      /\ \A j \in Ids \ {i} : mRemoteDisplays'[j] = mRemoteDisplays[j]
      /\ \A j \in Ids : Holder(j)' = Holder(j)
      /\ e.mSingleLayer = d.mSingleLayer /\ e.mRemoteDisplay = d.mRemoteDisplay
  BY <1>1, SetUse, UseFinds, UseWrites, AnnouncedData
<1>4. \/ call'.op = "none"
      \/ call'.op = "set" /\ call'.this = e /\ call'.disp = i
  BY <1>1, <1>2, SetUse, NoCallIs
<1> HIDE DEF e
<1>5. \A j \in Ids : mRemoteDisplays'[j].mSingleLayer = mRemoteDisplays[j].mSingleLayer
  BY <1>3
<1>6. Destroyed' => Destroyed /\ call'.disp = i
  BY <1>3, <1>4 DEF Destroyed, InUse
<1>7. ASSUME NEW j \in Ids, Occupied(j), planner[j] = Holder(j)
      PROVE  Planned(j)' /\ ~(Destroyed' /\ call'.disp = j)
  <2>1. Planned(j) /\ ~(Destroyed /\ call.disp = j)
    BY <1>2, <1>7 DEF PlanInv, PlannerInv, Replanning
  <2>2. QED
    BY <1>1, <1>2, <1>5, <1>6, <2>1 DEF Planned, Singled
<1>8. \A j \in Ids : PlannerInv(j)'
  BY <1>2, <1>3, <1>4, <1>7 DEF PlannerInv, Occupied
<1>9. QED
  BY <1>2, <1>8 DEF PlanInv

LEMMA PlanInductive ==
  ASSUME AttachInv, CallInv, PlanInv, [Next]_vars PROVE PlanInv'
<1> USE DEF device, flinger, threads
<1>1. CASE ConnectFails \/ ConnectSucceeds \/ RegisterProcs
  BY <1>1, PlanKept DEF ConnectFails, ConnectSucceeds, RegisterProcs
<1>2. CASE TellExternal
  BY <1>2, PlanKept DEF TellExternal
<1>3. ASSUME NEW rd \in Remotes, RefuseRemote(rd) PROVE PlanInv'
  <2>1. \A r \in Remotes : status'[r] = "new" => status[r] = "new"
    BY <1>3 DEF RefuseRemote, AttachInv, TypeOK
  <2>2. UNCHANGED <<mRemoteDisplays, call, list, opt, planner, mpc>>
    BY <1>3 DEF RefuseRemote
  <2>3. QED
    BY <2>1, <2>2 DEF PlanInv, PlannerInv, Replanning, Planned, Singled, Occupied, Holder,
                      Destroyed, InUse
<1>4. CASE SetDummy \/ \E d \in Reached : DisplayBuffer(d)
  <2>1. /\ call.op = "set" /\ call' = NoCall
        /\ UNCHANGED <<mRemoteDisplays, status, list, opt, planner, mpc>>
    BY <1>4 DEF SetDummy, OnDummy, DisplayBuffer, Returns
  <2>2. call'.op = "none" /\ ~Destroyed'
    BY <2>1, NoCallIs DEF Destroyed, InUse
  <2>3. QED
    BY <2>1, <2>2
       DEF PlanInv, PlannerInv, Replanning, Planned, Singled, Occupied, Holder
<1>5. CASE Dies
  <2>1. mpc' = "undefined" /\ call' = NoCall /\ UNCHANGED <<planner, status>>
    BY <1>5 DEF Dies
  <2>2. QED
    BY <2>1 DEF PlanInv, PlannerInv, NoCall
<1>6. CASE UNCHANGED vars
  BY <1>6, PlanKept DEF vars
<1>7. QED
  BY <1>1, <1>2, <1>3, <1>4, <1>5, <1>6, AddKeepsPlan, RemoveKeepsPlan, BeginKeepsPlan,
     EnterKeepsPlan, PrepareKeepsPlan, PrepareDummyKeepsPlan, SetKeepsPlan
     DEF Next, Socket, Flinger

LEMMA PlanInvariant == Spec => []PlanInv
<1>1. Init => PlanInv
  BY NoDisplayType, NoRemoteIsNone
     DEF Init, PlanInv, PlannerInv, Occupied, Holder
<1>2. AttachInv /\ CallInv /\ PlanInv /\ [Next]_vars => PlanInv'
  BY PlanInductive
<1>3. QED
  BY <1>1, <1>2, AttachInvariant, CallInvariant, PTL DEF Spec

(* What set goes on to show is the whole frame: the framebuffer target     *)
(* into which all layers went, or the only layer there is.                 *)
THEOREM FramesAreComplete == Spec => FrameComplete
<1> DEFINE A ==
      \A d \in Reached, app \in Apps, fbt \in Fbts :
        SetRemote(d, app, fbt) =>
          LET i == call.disp
              l == list[i] IN
            planner[i] = d.mRemoteDisplay /\ ~Destroyed /\ l.n >= 2 =>
              \/ l.overlays = {} /\ call'.buffer = fbt
              \/ l.overlays = {0} /\ l.n = 2 /\ call'.buffer = app
<1>1. ASSUME AttachInv, CallInv, PlanInv PROVE A
  <2> SUFFICES ASSUME NEW d \in Reached, NEW app \in Apps, NEW fbt \in Fbts,
                      SetRemote(d, app, fbt), planner[call.disp] = d.mRemoteDisplay,
                      ~Destroyed, list[call.disp].n >= 2
               PROVE  LET l == list[call.disp] IN
                        \/ l.overlays = {} /\ call'.buffer = fbt
                        \/ l.overlays = {0} /\ l.n = 2 /\ call'.buffer = app
    OBVIOUS
  <2>1. PICK i \in Ids : i = call.disp
    BY <1>1, SetUse
  <2> DEFINE l == list[i]
             b == Displayed(d, l, app, fbt, opt)
  <2>2. /\ d.mRemoteDisplay \in Remotes /\ d.mRemoteDisplay = Holder(i)
        /\ d = mRemoteDisplays[i] /\ Occupied(i)
    BY <1>1, <2>1, SetUse, UseFinds, NoRemoteIsNone DEF Occupied
  <2>3. mpc # "undefined" /\ ~Replanning(i)
    BY <1>1, NoCallIs DEF SetRemote, In, PlanInv, Replanning
  <2>4. Planned(i)
    BY <1>1, <2>1, <2>2, <2>3 DEF PlanInv, PlannerInv
  <2>5. b = IF Singled(i) THEN app ELSE fbt
    BY <2>1, <2>2, NoRemoteIsNone DEF Displayed, ShowsApp, ShowsFbt, Singled
  <2>6. b # NoBuffer
    BY <2>5, Hwc1Assumption DEF Hwc1Assumption
  <2>7. call'.buffer = b
    BY <1>1, <2>1, <2>6, SetUse
  <2>8. QED
    BY <2>1, <2>4, <2>5, <2>7 DEF Planned
<1>2. AttachInv /\ CallInv /\ PlanInv /\ [Next]_vars => [A]_vars
  BY <1>1
<1>3. QED
  BY <1>2, AttachInvariant, CallInvariant, PlanInvariant, PTL DEF Spec, FrameComplete
=============================================================================

------------------------------ MODULE Hwc1Device ------------------------------
(***************************************************************************)
(* Hwc1Device and its displays.  The socket thread of the remote display   *)
(* manager adds and removes remotes under mDisplayMutex and tells          *)
(* SurfaceFlinger of the external display afterwards, without it.          *)
(* SurfaceFlinger calls prepare and set, also without it.  They test a     *)
(* slot of mRemoteDisplays, take the pointer in it and use the display and *)
(* its remote: steps between which the display may be removed, which       *)
(* destroys it.  A display without a remote is served by mDummyDisplay,    *)
(* which exists only when init could not connect.                          *)
(***************************************************************************)
EXTENDS Hwc1Display

CONSTANTS
  Remotes,   \* RemoteDisplay objects; each is added at most once
  Opts,      \* values of mEnableSingleLayerOpt
  Made,      \* lists SurfaceFlinger makes
  Apps,      \* buffers of layers
  Fbts       \* buffers of framebuffer targets

ASSUME Hwc1Assumption ==
  /\ NoRemote \notin Remotes
  /\ Opts \subseteq BOOLEAN
  /\ Made \subseteq Lists
  /\ NoBuffer \notin Apps \union Fbts
  /\ Apps \intersect Fbts = {}

Ids == 0 .. 1        \* kMaxDisplays is HWC_NUM_PHYSICAL_DISPLAY_TYPES
External == 1        \* HWC_DISPLAY_EXTERNAL
NoDisplay == NewDisplay(NoRemote)   \* a null pointer in mRemoteDisplays

(* What a call of SurfaceFlinger has come to: it has tested its slot       *)
(* (seen), is in the display this points to, or has announced a buffer     *)
(* and is about to show it.                                                *)
NewCall(op, i, geometry, seen) ==
  [op |-> op, at |-> "tested", disp |-> i, geometry |-> geometry, seen |-> seen,
   this |-> NoDisplay, buffer |-> NoBuffer]
NoCall == NewCall("none", 0, FALSE, FALSE)

VARIABLES
  opt,              \* mEnableSingleLayerOpt
  mRemoteDisplays,  \* slot -> display
  mDummyDisplay,    \* its record, and whether it exists
  hasDummy,
  status,           \* of a remote: "new", "up", "refused", "gone"
  displayId,        \* RemoteDisplay::mDisplayId
  mCbProcs,         \* SurfaceFlinger has registered its procs
  mpc, spc,         \* main and socket thread
  answered,         \* the socket thread has notified connectToRemote
  list, phase, call, \* SurfaceFlinger: its lists, per display what is next,
                     \* and the call it is in
  told,             \* SurfaceFlinger was told "external connected"
  knows, shown,     \* per remote: announced buffers, the one it shows
  robbed,           \* history: remotes whose display another one's removal took
  missed,           \* history: the external display came before the procs
  planner           \* history: per display, the remote of the Hwc1Display
                    \* that saw the last geometry change

device == <<mRemoteDisplays, status, displayId, robbed>>
dummy == <<mDummyDisplay, hasDummy>>
hotplug == <<mCbProcs, told, missed>>
flinger == <<list, phase, call, planner>>
remotes == <<knows, shown>>
threads == <<mpc, spc, answered>>
vars == <<opt, device, dummy, hotplug, flinger, remotes, threads>>

Init ==
  /\ opt \in Opts
  /\ mRemoteDisplays = [i \in Ids |-> NoDisplay]
  /\ mDummyDisplay = NoDisplay /\ hasDummy = FALSE
  /\ status = [r \in Remotes |-> "new"] /\ displayId = [r \in Remotes |-> 0]
  /\ mCbProcs = FALSE /\ told = FALSE /\ missed = FALSE
  /\ mpc = "connect" /\ spc = "idle" /\ answered = FALSE
  /\ list = [i \in Ids |-> [n |-> 1, turned |-> FALSE, overlays |-> {}]]
  /\ phase = [i \in Ids |-> "prepare"] /\ call = NoCall
  /\ planner = [i \in Ids |-> NoRemote]
  /\ knows = [r \in Remotes |-> {}] /\ shown = [r \in Remotes |-> NoBuffer]
  /\ robbed = {}

Holder(i) == mRemoteDisplays[i].mRemoteDisplay
Occupied(i) == Holder(i) # NoRemote

-----------------------------------------------------------------------------
(* Main thread: init, then registerProcs.                                  *)
ConnectFails ==
  /\ mpc = "connect"
  /\ hasDummy' = TRUE
  /\ mpc' = "opened"
  /\ UNCHANGED <<opt, device, mDummyDisplay, hotplug, flinger, remotes, spc,
                 answered>>

ConnectSucceeds ==
  /\ mpc = "connect" /\ answered
  /\ mpc' = "opened"
  /\ UNCHANGED <<opt, device, dummy, hotplug, flinger, remotes, spc, answered>>

RegisterProcs ==
  /\ mpc = "opened"
  /\ mCbProcs' = TRUE
  /\ mpc' = "ready"
  /\ UNCHANGED <<opt, device, dummy, told, missed, flinger, remotes, spc,
                 answered>>

-----------------------------------------------------------------------------
(* Socket thread.                                                          *)
FreeIds == {i \in Ids : ~Occupied(i)}

KeepsDisplayId(rd, id) == displayId
setDisplayId(rd, id) == [displayId EXCEPT ![rd] = id]

AddRemote(rd) ==
  /\ spc = "idle" /\ status[rd] = "new" /\ FreeIds # {}
  /\ LET id == CHOOSE i \in FreeIds : \A j \in FreeIds : i <= j IN
       /\ mRemoteDisplays' = [mRemoteDisplays EXCEPT ![id] = NewDisplay(rd)]
       /\ displayId' = setDisplayId(rd, id)
       /\ IF id = External THEN spc' = "in" /\ UNCHANGED answered
                           ELSE answered' = TRUE /\ UNCHANGED spc
  /\ status' = [status EXCEPT ![rd] = "up"]
  /\ UNCHANGED <<opt, robbed, dummy, hotplug, flinger, remotes, mpc>>

(* "Too manny remote displays added": nobody looks at the result.          *)
RefuseRemote(rd) ==
  /\ spc = "idle" /\ status[rd] = "new" /\ FreeIds = {}
  /\ status' = [status EXCEPT ![rd] = "refused"]
  /\ answered' = TRUE
  /\ UNCHANGED <<opt, mRemoteDisplays, displayId, robbed, dummy, hotplug,
                 flinger, remotes, mpc, spc>>

(* removeRemoteDisplay goes by the display id alone, which is that of the  *)
(* primary display for a remote that was never added.                      *)
DisplayKept(id) == mRemoteDisplays[id]
DisplayLeft(id) == NoDisplay

RemoveRemote(rd) ==
  /\ spc = "idle" /\ status[rd] # "gone"
  /\ status' = [status EXCEPT ![rd] = "gone"]
  /\ LET id == displayId[rd] IN
       /\ mRemoteDisplays' = [mRemoteDisplays EXCEPT ![id] = DisplayLeft(id)]
       /\ robbed' = robbed \union ({Holder(id)} \ {rd, NoRemote})
       /\ spc' = IF id = External THEN "out" ELSE "idle"
  /\ knows' = [knows EXCEPT ![rd] = {}]
  /\ shown' = [shown EXCEPT ![rd] = NoBuffer]
  /\ UNCHANGED <<opt, displayId, dummy, hotplug, flinger, mpc, answered>>

(* The hotplug, after mDisplayMutex is released.                           *)
ToldAnyhow == spc = "in" \/ told
ToldNow == spc = "in"

TellExternal ==
  /\ spc \in {"in", "out"}
  /\ told' = IF mCbProcs THEN ToldNow ELSE told
  /\ missed' = (missed \/ (spc = "in" /\ ~mCbProcs))
  /\ answered' = (answered \/ spc = "in")
  /\ spc' = "idle"
  /\ UNCHANGED <<opt, device, dummy, mCbProcs, flinger, remotes, mpc>>

Socket == TellExternal \/ \E rd \in Remotes : \/ AddRemote(rd) \/ RefuseRemote(rd)
                                              \/ RemoveRemote(rd)

-----------------------------------------------------------------------------
(* SurfaceFlinger: prepare, then set, for the primary display and for an   *)
(* external one it was told of.  The first step of a call tests the slot.  *)
Calls(i, op) ==
  /\ mpc = "ready" /\ call = NoCall /\ phase[i] = op
  /\ i = External => told

BeginPrepare(i) ==
  /\ Calls(i, "prepare")
  /\ \E geometry \in BOOLEAN :
       /\ list' \in IF geometry THEN {[list EXCEPT ![i] = l] : l \in Made}
                                ELSE {list}
       /\ call' = NewCall("prepare", i, geometry, Occupied(i))
  /\ UNCHANGED <<opt, device, dummy, hotplug, phase, planner, remotes, threads>>

BeginSet(i) ==
  /\ Calls(i, "set")
  /\ call' = NewCall("set", i, FALSE, Occupied(i))
  /\ UNCHANGED <<opt, device, dummy, hotplug, list, phase, planner, remotes,
                 threads>>

(* The second step takes the pointer in the slot, or the dummy display.    *)
Enter ==
  /\ call.op # "none" /\ call.at = "tested" /\ call.seen /\ Occupied(call.disp)
  /\ call' = [call EXCEPT !.at = "in", !.this = mRemoteDisplays[call.disp]]
  /\ UNCHANGED <<opt, device, dummy, hotplug, list, phase, planner, remotes,
                 threads>>

In(op) == call.op = op /\ call.at = "in"
OnDummy(op) == call.op = op /\ call.at = "tested" /\ ~call.seen /\ hasDummy

(* The display the call is in.  Once it is destroyed, the pointer leads to *)
(* what it left in memory, or to the display that took its place.          *)
InUse == call.op # "none" /\ call.at # "tested"
Destroyed == InUse /\ call.this.mRemoteDisplay # Holder(call.disp)
Reached ==
  IF Destroyed THEN {d \in {call.this, mRemoteDisplays[call.disp]} :
                       d.mRemoteDisplay # NoRemote}
               ELSE {mRemoteDisplays[call.disp]}

(* What the call writes to it.                                             *)
Written(d, e) ==
  IF d.mRemoteDisplay = Holder(call.disp)
    THEN [mRemoteDisplays EXCEPT ![call.disp] = e] ELSE mRemoteDisplays

(* Only a remote that was not taken back receives anything.                *)
Received(of, rd, value) ==
  IF status[rd] = "gone" THEN of ELSE [of EXCEPT ![rd] = value]

Returns(next) ==
  /\ phase' = [phase EXCEPT ![call.disp] = next]
  /\ call' = NoCall

Plans(rd) ==
  planner' = IF call.geometry THEN [planner EXCEPT ![call.disp] = rd] ELSE planner

PrepareRemote(d) ==
  /\ In("prepare") /\ d \in Reached
  /\ LET i == call.disp
         rd == d.mRemoteDisplay IN
       /\ mRemoteDisplays' = Written(d, Prepared(d, list[i], call.geometry, opt))
       /\ list' = [list EXCEPT ![i] = Retyped(d, list[i], call.geometry, opt)]
       /\ knows' = Received(knows, rd,
                            knows[rd] \ TakenBack(d, list[i], call.geometry, opt))
       /\ Plans(rd)
  /\ Returns("set")
  /\ UNCHANGED <<opt, status, displayId, robbed, dummy, hotplug, shown, threads>>

PrepareDummy ==
  /\ OnDummy("prepare")
  /\ LET i == call.disp IN
       /\ mDummyDisplay' = Prepared(mDummyDisplay, list[i], call.geometry, opt)
       /\ list' = [list EXCEPT ![i] =
                     Retyped(mDummyDisplay, list[i], call.geometry, opt)]
       /\ Plans(NoRemote)
  /\ Returns("set")
  /\ UNCHANGED <<opt, device, hasDummy, hotplug, remotes, threads>>

(* set chooses a buffer, announces it if it is new, and then shows it.     *)
SetRemote(d, app, fbt) ==
  /\ In("set") /\ d \in Reached
  /\ LET l == list[call.disp]
         rd == d.mRemoteDisplay
         e == Announced(d, l, app, fbt, opt)
         b == Displayed(d, l, app, fbt, opt) IN
       /\ mRemoteDisplays' = Written(d, e)
       /\ knows' = Received(knows, rd,
                            knows[rd] \union Created(d, l, app, fbt, opt))
       /\ IF b = NoBuffer
            THEN Returns("prepare")
            ELSE /\ call' = [call EXCEPT !.at = "show", !.this = e, !.buffer = b]
                 /\ UNCHANGED phase
  /\ UNCHANGED <<opt, status, displayId, robbed, dummy, hotplug, list, planner,
                 shown, threads>>

DisplayBuffer(d) ==
  /\ call.op = "set" /\ call.at = "show" /\ d \in Reached
  /\ shown' = Received(shown, d.mRemoteDisplay, call.buffer)
  /\ Returns("prepare")
  /\ UNCHANGED <<opt, device, dummy, hotplug, list, planner, knows, threads>>

(* Without a remote set only closes fences.                                *)
SetDummy ==
  /\ OnDummy("set")
  /\ Returns("prepare")
  /\ UNCHANGED <<opt, device, dummy, hotplug, list, planner, remotes, threads>>

(* The program dies, or nothing is promised from here on.  A null pointer  *)
(* is used: the display was removed between the test and the use, or there *)
(* is no dummy display.  Or the memory of a destroyed one is.              *)
UsesNull ==
  /\ call.op # "none" /\ call.at = "tested"
  /\ IF call.seen THEN ~Occupied(call.disp) ELSE ~hasDummy

Dies ==
  /\ UsesNull \/ Destroyed
  /\ mpc' = "undefined" /\ spc' = "undefined"
  /\ call' = NoCall
  /\ UNCHANGED <<opt, device, dummy, hotplug, list, phase, planner, remotes,
                 answered>>

Flinger ==
  \/ \E i \in Ids : BeginPrepare(i) \/ BeginSet(i)
  \/ Enter \/ PrepareDummy \/ SetDummy \/ Dies
  \/ \E d \in Reached :
       \/ PrepareRemote(d) \/ DisplayBuffer(d)
       \/ \E app \in Apps, fbt \in Fbts \union {NoBuffer} : SetRemote(d, app, fbt)

Next == ConnectFails \/ ConnectSucceeds \/ RegisterProcs \/ Socket \/ Flinger

Spec == Init /\ [][Next]_vars

-----------------------------------------------------------------------------
Displays == [mRemoteDisplay : Remotes \union {NoRemote}, mSingleLayer : BOOLEAN,
             mFbtBuffers : SUBSET Fbts, mAppBuffers : SUBSET Apps]

Calling == [op : {"none", "prepare", "set"}, at : {"tested", "in", "show"},
            disp : Ids, geometry : BOOLEAN, seen : BOOLEAN, this : Displays,
            buffer : Apps \union Fbts \union {NoBuffer}]

TypeOK ==
  /\ opt \in Opts
  /\ mRemoteDisplays \in [Ids -> Displays]
  /\ mDummyDisplay \in Displays /\ hasDummy \in BOOLEAN
  /\ status \in [Remotes -> {"new", "up", "refused", "gone"}]
  /\ displayId \in [Remotes -> Ids]
  /\ mCbProcs \in BOOLEAN /\ told \in BOOLEAN /\ missed \in BOOLEAN
  /\ mpc \in {"connect", "opened", "ready", "undefined"}
  /\ spc \in {"idle", "in", "out", "undefined"} /\ answered \in BOOLEAN
  /\ list \in [Ids -> Lists] /\ phase \in [Ids -> {"prepare", "set"}]
  /\ call \in Calling
  /\ planner \in [Ids -> Remotes \union {NoRemote}]
  /\ knows \in [Remotes -> SUBSET (Apps \union Fbts)]
  /\ shown \in [Remotes -> Apps \union Fbts \union {NoBuffer}]
  /\ robbed \subseteq Remotes

(* A remote is attached, from its addition to its removal, to the display  *)
(* it believes to be attached to and to no other, unless the removal of a  *)
(* remote that was never added took that display away.                     *)
AttachedWhereItKnows ==
  \A i \in Ids, r \in Remotes :
    Holder(i) = r <=> displayId[r] = i /\ status[r] = "up" /\ r \notin robbed

(* The device keeps to the interface of the remote display manager: it     *)
(* lets go of a remote before that is destroyed.  The one liberty it takes *)
(* is to let go of another one as well.                                    *)
Device == INSTANCE IRemoteDevice WITH
  held <- {Holder(i) : i \in Ids} \ {NoRemote},
  taken <- {r \in Remotes : status[r] = "gone"}
ImplementsIRemoteDevice ==
  Device!Init /\ [][Device!Next \/ robbed' # robbed]_(Device!vars)

(* A remote is asked to show only buffers that were announced to it and    *)
(* not taken back, whatever is added or removed while set runs.  The one   *)
(* exception is a display that is destroyed between the announcement and   *)
(* the showing: the buffer may then go to the remote of the display that   *)
(* took its place, which never heard of it.                                *)
ShowsKnown ==
  [][\A d \in Reached :
       DisplayBuffer(d) /\ status[d.mRemoteDisplay] # "gone" =>
         \/ call.buffer \in knows[d.mRemoteDisplay]
         \/ Destroyed /\ d.mRemoteDisplay # call.this.mRemoteDisplay]_vars

(* What set goes on to show is the whole frame: the framebuffer target     *)
(* when all layers are composed into it, or else the only layer there is.  *)
(* It is claimed for a display that saw the last geometry change; one      *)
(* whose remote came later works on composition types it did not set.      *)
FrameComplete ==
  [][\A d \in Reached, app \in Apps, fbt \in Fbts :
       SetRemote(d, app, fbt) =>
         LET i == call.disp
             l == list[i] IN
           planner[i] = d.mRemoteDisplay /\ ~Destroyed /\ l.n >= 2 =>
             \/ l.overlays = {} /\ call'.buffer = fbt
             \/ l.overlays = {0} /\ l.n = 2 /\ call'.buffer = app]_vars

(* SurfaceFlinger knows whether there is an external display, once it has  *)
(* registered and unless the display came before that.                     *)
ExternalKnown ==
  mCbProcs /\ ~missed /\ spc = "idle" => (told <=> Occupied(External))
=============================================================================

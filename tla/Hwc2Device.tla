----------------------------- MODULE Hwc2Device -----------------------------
(***************************************************************************)
(* Hwc2Device: the map of displays, the remotes attached to them, and the  *)
(* hotplug events SurfaceFlinger is told.  Two threads run this code.  The *)
(* main thread creates the local displays in init and later registers and  *)
(* unregisters SurfaceFlinger's callback; it takes no lock.  The socket    *)
(* thread of the remote display manager adds and removes remotes under     *)
(* mDisplayMutex, which no other thread takes.  onHotplug looks for the    *)
(* callback and then uses it or queues the event: two steps, between which *)
(* the other thread may run.                                               *)
(***************************************************************************)
EXTENDS Naturals, Sequences, FiniteSets

CONSTANTS
  Remotes,      \* RemoteDisplay objects
  Builds,       \* pairs <<early return, number of uio nodes>> to start from
  SizeOf,       \* width and height of each remote
  PrimaryHotplug,  \* the remotes that ask for the primary in their size
  DefaultSize,  \* the size a display is made with
  RepeatedAck,  \* whether a remote may acknowledge its display info twice
  MaxId         \* bound: largest display id

ASSUME DeviceAssumption ==
  /\ Builds \subseteq BOOLEAN \X Nat
  /\ DOMAIN SizeOf = Remotes /\ PrimaryHotplug \subseteq Remotes
  /\ RepeatedAck \in BOOLEAN
  /\ MaxId \in Nat \ {0}
  /\ \A b \in Builds : b[2] <= MaxId + 1
  /\ "absent" \notin Remotes /\ "local" \notin Remotes

Ids == 0 .. MaxId
Primary == 0         \* kPrimayDisplay
Absent == "absent"   \* no such key in mDisplays
Local == "local"     \* a display with mRemoteDisplay == nullptr
Threads == {"main", "socket"}
Events == [id : Ids, on : BOOLEAN]
Sizes == {DefaultSize} \union {SizeOf[r] : r \in Remotes}
NoEvent == [id |-> 0, on |-> FALSE, at |-> "none"]

VARIABLES
  build,      \* the pair of Builds this process was built and booted with
  mDisplays,  \* id -> Absent, Local or the attached remote
  size,       \* mWidth and mHeight of a display; the default when absent
  sNextId,
  status,     \* of a remote: "new", "up" once added, "gone" once taken back
  displayId,  \* RemoteDisplay::mDisplayId
  registered, \* mCallbacks holds HWC2_CALLBACK_HOTPLUG
  mPendingHotplugs,
  mpc, node,  \* main thread: where it is, next local display of init
  flushing,   \* main thread: queued events it still has to deliver
  spc, sid, srd,  \* socket thread: where it is, and on what
  ev,         \* the onHotplug call each thread is in
  told,       \* displays whose last event told SurfaceFlinger "connected"
  known,      \* the size SurfaceFlinger then read
  silent,     \* history: displays resized since by a remote that did not ask
              \* for a hotplug
  repeated,   \* history: an event told SurfaceFlinger what it knew already
  overlap     \* history: both threads were in this code at once, or a
              \* remote came before init knew it had to make a primary

device == <<mDisplays, size, sNextId, status, displayId>>
view == <<told, known, silent, repeated>>
hotplugs == <<registered, mPendingHotplugs, view>>
main == <<mpc, node, flushing>>
socket == <<spc, sid, srd>>
vars == <<build, device, hotplugs, main, socket, ev, overlap>>

EarlyReturn == build[1]   \* RemoteDisplayMgr::init and connectToRemote
UioNodes == build[2]      \* return -1 at once / nodes /dev/uio0, ...

Init ==
  /\ build \in Builds
  /\ mDisplays = [i \in Ids |-> Absent] /\ sNextId = 1
  /\ size = [i \in Ids |-> DefaultSize] /\ known = size /\ silent = {}
  /\ status = [r \in Remotes |-> "new"]
  /\ displayId = [r \in Remotes |-> 0]
  /\ registered = FALSE /\ mPendingHotplugs = <<>>
  /\ mpc = "connect" /\ node = 0 /\ flushing = <<>>
  /\ spc = "idle" /\ sid = 0 /\ srd = Absent
  /\ ev = [t \in Threads |-> NoEvent]
  /\ told = {} /\ repeated = FALSE /\ overlap = FALSE

Exists(id) == mDisplays[id] # Absent
attachable(id) == mDisplays[id] = Local

(* std::map::emplace: an existing key is kept.                             *)
emplace(id) == IF Exists(id) THEN mDisplays
                             ELSE [mDisplays EXCEPT ![id] = Local]

(* Every step belongs to one thread and notes whether the other is at work *)
(* in this code.                                                           *)
Busy(t) == IF t = "main" THEN mpc \in {"nodes", "flush"} ELSE spc # "idle"
Step(t) == /\ overlap' = (overlap \/ \E other \in Threads \ {t} : Busy(other))
           /\ UNCHANGED build

Idle(t) == ev[t] = NoEvent
Hotplug(t, i, c) == ev' = [ev EXCEPT ![t] = [id |-> i, on |-> c, at |-> "check"]]

-----------------------------------------------------------------------------
(* onHotplug: look for the callback, then queue or call.                   *)
CheckCallback(t) ==
  /\ Step(t)
  /\ ev[t].at = "check"
  /\ ev' = [ev EXCEPT ![t].at = IF registered THEN "call" ELSE "push"]
  /\ UNCHANGED <<device, hotplugs, main, socket>>

PushPending(t) ==
  /\ Step(t)
  /\ ev[t].at = "push"
  /\ mPendingHotplugs' =
       Append(mPendingHotplugs, [id |-> ev[t].id, on |-> ev[t].on])
  /\ ev' = [ev EXCEPT ![t] = NoEvent]
  /\ UNCHANGED <<device, registered, view, main, socket>>

Tell(i, c) ==
  /\ told' = IF c THEN told \union {i} ELSE told \ {i}
  /\ repeated' = (repeated \/ (c <=> i \in told))
  /\ known' = IF c THEN [known EXCEPT ![i] = size[i]] ELSE known
  /\ silent' = IF c THEN silent \ {i} ELSE silent

CallHotplug(t) ==
  /\ Step(t)
  /\ ev[t].at = "call"
  /\ Tell(ev[t].id, ev[t].on)
  /\ ev' = [ev EXCEPT ![t] = NoEvent]
  /\ UNCHANGED <<device, registered, mPendingHotplugs, main, socket>>

OnHotplug(t) == CheckCallback(t) \/ PushPending(t) \/ CallHotplug(t)

-----------------------------------------------------------------------------
(* The main thread in init.  connectToRemote fails: at once in the code as *)
(* it is, or because nobody listens on the client socket.                  *)
ConnectFails ==
  /\ mpc = "connect"
  /\ overlap' = \E rd \in Remotes : status[rd] # "new"
  /\ mDisplays' = emplace(Primary)
  /\ Hotplug("main", Primary, TRUE)
  /\ mpc' = "nodes" /\ node' = UioNodes
  /\ UNCHANGED <<build, size, sNextId, status, displayId, hotplugs, flushing, socket>>

(* connectToRemote returns 0 once the socket thread has come back from     *)
(* adding a remote.  The first one never finds a primary display here.     *)
Added(rd) == displayId[rd] # Primary
             /\ (spc = "return" => status[rd] = "gone" \/ displayId[rd] # sNextId - 1)
ConnectSucceeds ==
  /\ Step("main")
  /\ mpc = "connect" /\ \E rd \in Remotes : Added(rd)
  /\ mpc' = "nodes" /\ node' = UioNodes
  /\ UNCHANGED <<device, hotplugs, flushing, socket, ev>>

(* One local display for each uio node but the first, highest first.       *)
AddLocal ==
  /\ Step("main")
  /\ mpc = "nodes" /\ Idle("main") /\ node > 1
  /\ mDisplays' = emplace(node - 1)
  /\ Hotplug("main", node - 1, TRUE)
  /\ node' = node - 1
  /\ UNCHANGED <<size, sNextId, status, displayId, hotplugs, mpc, flushing,
                 socket>>

InitReturns ==
  /\ Step("main")
  /\ mpc = "nodes" /\ Idle("main") /\ node <= 1
  /\ mpc' = "ready"
  /\ UNCHANGED <<device, hotplugs, node, flushing, socket, ev>>

(* registerCallback(HWC2_CALLBACK_HOTPLUG, ...): what it delivers, and     *)
(* what it leaves queued.                                                  *)
ToDeliverNothing == <<>>
ToDeliver == mPendingHotplugs
LeftQueuedAll == mPendingHotplugs
LeftQueued == <<>>

RegisterCallback ==
  /\ Step("main")
  /\ mpc = "ready"
  /\ registered' = TRUE
  /\ flushing' = ToDeliver
  /\ mpc' = "flush"
  /\ UNCHANGED <<device, mPendingHotplugs, view, node, socket, ev>>

FlushOne ==
  /\ Step("main")
  /\ mpc = "flush" /\ flushing # <<>>
  /\ Tell(Head(flushing).id, Head(flushing).on)
  /\ flushing' = Tail(flushing)
  /\ UNCHANGED <<device, registered, mPendingHotplugs, mpc, node, socket, ev>>

ClearPending ==
  /\ Step("main")
  /\ mpc = "flush" /\ flushing = <<>>
  /\ mPendingHotplugs' = LeftQueued
  /\ mpc' = "ready"
  /\ UNCHANGED <<device, registered, view, node, flushing, socket, ev>>

UnregisterCallback ==
  /\ Step("main")
  /\ mpc = "ready" /\ registered
  /\ registered' = FALSE
  /\ UNCHANGED <<device, mPendingHotplugs, view, main, socket, ev>>

Main == \/ ConnectFails \/ ConnectSucceeds \/ AddLocal \/ InitReturns
        \/ RegisterCallback \/ FlushOne \/ ClearPending \/ UnregisterCallback
        \/ OnHotplug("main")

-----------------------------------------------------------------------------
(* The socket thread.  It runs only when RemoteDisplayMgr::init got past   *)
(* its first line.                                                         *)
CanAdd(rd) ==
  /\ ~EarlyReturn /\ spc = "idle"
  /\ status[rd] = "new" \/ (RepeatedAck /\ status[rd] = "up")

(* Hwc2Display::attach.                                                    *)
attach(id, rd) ==
  /\ mDisplays' = [mDisplays EXCEPT ![id] = rd]
  /\ size' = [size EXCEPT ![id] = SizeOf[rd]]

(* addRemoteDisplay: the remote takes over the primary display, either as  *)
(* it is or, when its size differs and it asks for that, by a hotplug.     *)
FitsAlways(rd) == TRUE
Fits(rd) == rd \notin PrimaryHotplug \/ size[Primary] = SizeOf[rd]

AttachPrimary(rd) ==
  /\ Step("socket")
  /\ CanAdd(rd) /\ attachable(Primary) /\ Fits(rd)
  /\ displayId' = [displayId EXCEPT ![rd] = Primary]
  /\ attach(Primary, rd)
  /\ silent' = IF rd \in PrimaryHotplug \/ size[Primary] = SizeOf[rd]
                 THEN silent ELSE silent \union {Primary}
  /\ status' = [status EXCEPT ![rd] = "up"]
  /\ UNCHANGED <<sNextId, registered, mPendingHotplugs, told, known, repeated,
                 main, socket, ev>>

ReconfigPrimary(rd) ==
  /\ Step("socket")
  /\ CanAdd(rd) /\ attachable(Primary) /\ ~Fits(rd)
  /\ displayId' = [displayId EXCEPT ![rd] = Primary]
  /\ Hotplug("socket", Primary, FALSE)
  /\ spc' = "reattach" /\ sid' = Primary /\ srd' = rd
  /\ UNCHANGED <<mDisplays, size, sNextId, status, hotplugs, main>>

Reattach ==
  /\ Step("socket")
  /\ spc = "reattach" /\ Idle("socket")
  /\ attach(Primary, srd)
  /\ status' = [status EXCEPT ![srd] = "up"]
  /\ Hotplug("socket", Primary, TRUE)
  /\ spc' = "return"
  /\ UNCHANGED <<sNextId, displayId, hotplugs, main, sid, srd>>

(* addRemoteDisplay: a display of its own, under the next id.              *)
NextIdByCount == Cardinality({i \in Ids : Exists(i)}) + 1
NextId == sNextId + 1
AddDisplay(rd) ==
  /\ Step("socket")
  /\ CanAdd(rd) /\ ~attachable(Primary) /\ sNextId <= MaxId
  /\ sNextId' = NextId
  /\ displayId' = [displayId EXCEPT ![rd] = sNextId]
  /\ attach(sNextId, rd)
  /\ status' = [status EXCEPT ![rd] = "up"]
  /\ Hotplug("socket", sNextId, TRUE)
  /\ spc' = "return"
  /\ UNCHANGED <<hotplugs, main, sid, srd>>

(* Hwc2Display::detach forgets the remote only if it is the attached one,  *)
(* and keeps its size.                                                     *)
detachNever(id, rd) == mDisplays
detachAlways(id, rd) == [mDisplays EXCEPT ![id] = Local]
detach(id, rd) == IF mDisplays[id] = rd THEN [mDisplays EXCEPT ![id] = Local]
                                        ELSE mDisplays

(* removeRemoteDisplay, also for a remote that was never added: its        *)
(* mDisplayId is then still that of the primary display.                   *)
RemoveRemote(rd) ==
  /\ Step("socket")
  /\ ~EarlyReturn /\ spc = "idle" /\ status[rd] # "gone"
  /\ status' = [status EXCEPT ![rd] = "gone"]
  /\ LET id == displayId[rd] IN
       /\ mDisplays' = IF Exists(id) THEN detach(id, rd) ELSE mDisplays
       /\ IF Exists(id) /\ id # Primary
            THEN /\ Hotplug("socket", id, FALSE)
                 /\ spc' = "erase" /\ sid' = id
            ELSE UNCHANGED <<ev, spc, sid>>
  /\ UNCHANGED <<size, sNextId, displayId, hotplugs, main, srd>>

(* The last display is replaced by a local primary one.                    *)
LastDisplayNever(id) == FALSE
LastDisplay(id) == \A i \in Ids \ {id} : ~Exists(i)

EraseDisplay ==
  /\ Step("socket")
  /\ spc = "erase" /\ Idle("socket")
  /\ IF LastDisplay(sid)
       THEN /\ mDisplays' = [mDisplays EXCEPT ![sid] = Absent, ![Primary] = Local]
            /\ Hotplug("socket", Primary, TRUE)
       ELSE /\ mDisplays' = [mDisplays EXCEPT ![sid] = Absent]
            /\ UNCHANGED ev
  /\ size' = [size EXCEPT ![sid] = DefaultSize]
  /\ spc' = "return"
  /\ UNCHANGED <<sNextId, status, displayId, hotplugs, main, sid, srd>>

Return ==
  /\ Step("socket")
  /\ spc = "return" /\ Idle("socket")
  /\ spc' = "idle" /\ sid' = 0 /\ srd' = Absent
  /\ UNCHANGED <<device, hotplugs, main, ev>>

Socket == \/ \E rd \in Remotes : \/ AttachPrimary(rd) \/ ReconfigPrimary(rd)
                                 \/ AddDisplay(rd) \/ RemoveRemote(rd)
          \/ Reattach \/ EraseDisplay \/ Return
          \/ OnHotplug("socket")

Next == Main \/ Socket

Spec == Init /\ [][Next]_vars

-----------------------------------------------------------------------------
TypeOK ==
  /\ build \in Builds
  /\ mDisplays \in [Ids -> Remotes \union {Absent, Local}]
  /\ size \in [Ids -> Sizes] /\ known \in [Ids -> Sizes] /\ silent \subseteq Ids
  /\ sNextId \in 1 .. MaxId + 1
  /\ status \in [Remotes -> {"new", "up", "gone"}]
  /\ displayId \in [Remotes -> Ids]
  /\ registered \in BOOLEAN
  /\ mPendingHotplugs \in Seq(Events) /\ flushing \in Seq(Events)
  /\ mpc \in {"connect", "nodes", "ready", "flush"} /\ node \in 0 .. MaxId + 1
  /\ spc \in {"idle", "reattach", "erase", "return"}
  /\ sid \in Ids /\ srd \in Remotes \union {Absent}
  /\ spc = "reattach" => srd \in Remotes
  /\ ev \in [Threads -> [id : Ids, on : BOOLEAN,
                         at : {"none", "check", "push", "call"}]]
  /\ told \subseteq Ids
  /\ repeated \in BOOLEAN /\ overlap \in BOOLEAN

Quiet == mpc = "ready" /\ spc = "idle"

(* No hotplug is lost: with a callback registered and neither thread at    *)
(* work, SurfaceFlinger has been told of exactly the displays that exist,  *)
(* also those that came or went while no callback was registered.          *)
HotplugsDelivered ==
  ~overlap /\ Quiet /\ registered => told = {i \in Ids : Exists(i)}

(* SurfaceFlinger, which reads the size of a display when it is told of    *)
(* it, never goes on with another than the display has, whatever remotes   *)
(* come, go and leave their size behind: only a remote that does not set   *)
(* primaryHotplug resizes the primary display without a word.              *)
SizeKnown ==
  ~overlap /\ Quiet /\ registered =>
    \A i \in told \ silent : known[i] = size[i]

(* Every event tells something new: a display is announced once before it  *)
(* is withdrawn, and withdrawn once.                                       *)
HotplugsAlternate == ~overlap => ~repeated

(* After init there is always a display, however remotes come and go.      *)
SomeDisplay == mpc \in {"ready", "flush"} => \E i \in Ids : Exists(i)

(* From its addition to its removal a remote is attached to the display it *)
(* believes to be attached to, where its removal will look for it, and to  *)
(* no other; before and after it is attached to none.                      *)
AttachedWhereItKnows ==
  \A i \in Ids, r \in Remotes :
    mDisplays[i] = r <=> displayId[r] = i /\ status[r] = "up"

(* "add new display": the id of an added display was free, as long as init *)
(* made no local displays, whose ids sNextId ignores.                      *)
AddedDisplayIsNew ==
  [][UioNodes <= 1 /\ sNextId' # sNextId => ~Exists(sNextId)]_vars

(* The device keeps to the interface: it holds no remote that the manager  *)
(* has taken back and destroyed.                                           *)
Device == INSTANCE IRemoteDevice WITH
  held <- {r \in Remotes : \E i \in Ids : mDisplays[i] = r},
  taken <- {r \in Remotes : status[r] = "gone"}
ImplementsIRemoteDevice == Device!Spec
=============================================================================

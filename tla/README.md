# hwc-vhal in TLA+

hwc-vhal is an Android hardware composer without hardware.  SurfaceFlinger
composes every frame into a client target; the composer hands the frame to

* remote displays: processes at the other end of a Unix socket
  (`src/common`), and
* a uio mapping: memory shared with another virtual machine (`src/uio`).

This directory models that program, checks the models with TLC and proves what
matters most of them with TLAPS.

## The system

| component | state | operations | talks to |
|---|---|---|---|
| `UioDisplay` | KVMFR header (signals, one frame descriptor), two frame slots, `frame_id`, `mRot` | `init`, `postFb`, `setRotation`, poll thread `threadProc` | the client of the mapping, through memory only; `Hwc2Display` calls it; `BufferMapper` |
| `Hwc2Device` | `mDisplays`, `sNextId`, `mCallbacks`, `mPendingHotplugs` | `init`, `addRemoteDisplay`, `removeRemoteDisplay`, `onHotplug`, `registerCallback`, hooks | SurfaceFlinger (callbacks), `RemoteDisplayMgr` (implements `IRemoteDevice` for it), `Hwc2Display` |
| `RemoteDisplayMgr` | `mRemoteDisplays` (by descriptor), `mPendingRemoveDisplays`, worker pipe, epoll set | `init`, `connectToRemote`, `onConnect`, `onDisconnect`, `socketThreadProc` | the kernel, the device, every `RemoteDisplay` |
| `RemoteDisplay` | `mDisconnected`, `mDisplayId`, the socket, size and flags of the remote | requests (`getConfigs`, buffers, layers, rotation), `onDisplayEvent` | the remote; the manager through `DisplayStatusListener` |
| `Hwc2Display`, `Hwc2Layer` | layers, frame buffer target, known buffers, attached remote, change flags | the HWC2 calls of SurfaceFlinger, `attach`, `detach` | `RemoteDisplay`, `UioDisplay` |
| `Hwc1Device`, `Hwc1Display` | two slots of `mRemoteDisplays`, a dummy display, single layer mode, known buffers | `prepare`, `set`, add and remove of remotes | the same partners over the HWC1 interface; built only when `TARGET_USES_HWC2` is false |
| `BufferMapper`, `BufferDumper`, `LocalDisplay` | none of interest | calls into gralloc, files, the framebuffer | external services |

Three threads of the process matter.  The *main thread* runs `init` and, later,
the callback registration.  The *composer thread* of SurfaceFlinger's service
calls validate and present.  The *socket thread* of the remote display manager
accepts remotes, reads their answers and is the only one that destroys
`RemoteDisplay` objects.  Each `UioDisplay` adds a poll thread.

**Dormant code.**  In the repository as committed `RemoteDisplayMgr::init` and
`connectToRemote` begin with `return -1` (RemoteDisplayMgr.cpp:56 and :118), so
no remote is ever served.  The code behind these lines is complete and is what
the rest of the program is written for.  `Hwc2Device.tla` has both builds in its
initial states (the first component of `Builds`); `RemoteDisplayMgr.tla` models
the manager with both lines lifted.  Findings about the manager are therefore
about code that wakes up with those lines.

### What is hard here

* Shared memory with another virtual machine and no synchronisation: flags
  read and written back by three parties, a slot rewritten while it is read, a
  crash in the middle.
* Threads that share `mDisplays`, `mRemoteDisplays` and `RemoteDisplay` objects
  under locks that do not cover all uses.
* Descriptors that name connections, are queued for removal, and are reused.
* Hotplug events before, during and after the registration of a callback.
* Remotes that connect, stall, answer late or twice, and hang up at any point.

`PROJECT.json` lists the hazards one by one, at their lines, with the
properties that cover them.

## Modules

| module | models | remarks |
|---|---|---|
| `UioDisplay` | `src/uio/UioDisplay.cpp`, its client, crashes | one action per access to the mapping that another party can see |
| `UioLayout` | offsets of `init`, row loop and descriptor of `postFb` | in bytes |
| `IRemoteDevice` | `src/common/IRemoteDevice.h` | abstract: a device may keep a pointer from add to remove |
| `Hwc2Device` | `src/hwc2/Hwc2Device.cpp` | refines `IRemoteDevice` |
| `RemoteDisplayMgr` | `src/common/RemoteDisplayMgr.cpp`, connection state of `RemoteDisplay.cpp` | calls an `IRemoteDevice` |
| `RequestChannel` | what callers of `RemoteDisplay` rely on | abstract: requests arrive whole and in order, or the channel breaks |
| `RemoteStream` | the stream of `src/common/RemoteDisplay.cpp`, framed as in `display_protocol.h` | refines `RequestChannel` but for partial sends |
| `Hwc2Layer` | `src/hwc2/Hwc2Layer.cpp` | operators on the record of one layer |
| `RemoteView` | requests of `src/common/RemoteDisplay.cpp` | operators on what a remote knows |
| `Hwc2Display` | `src/hwc2/Hwc2Display.cpp` | extends the two: SurfaceFlinger's calls, attach, detach |
| `Hwc1Display` | `src/hwc1/Hwc1Display.cpp` | operators on the record of one display |
| `Hwc1Device` | `src/hwc1/Hwc1Device.cpp` | extends it; refines `IRemoteDevice` but for one liberty |
| `MCHwc2Device`, `MCRemoteDisplayMgr`, `MCRemoteStream`, `MCHwc2Display`, `MCHwc1Device` | instances for TLC | |
| `UioDisplay_proofs`, `UioLayout_proofs`, `Hwc2Device_proofs`, `Hwc2Display_proofs`, `RemoteDisplayMgr_proofs`, `RemoteStream_proofs`, `Hwc1Device_proofs` | theorems | each extends the module it is about |
| `FirstLast` | two lemmas | a finite set of numbers has a least and a greatest element, for the `CHOOSE`s of ids and descriptors |

The manager and the device meet in `IRemoteDevice`: `UsesIRemoteDevice` says the
calls of the manager are behaviours of it, `ImplementsIRemoteDevice` says the
device answers them as it demands.  The manager and `RemoteStream` share the life
of one connection: the manager has when it is opened, reported, removed and its
descriptor reused, with a message as one unit; the stream has what a message is
made of, and one object for its whole life.  `RemoteView`, in turn, takes a request
for one step, which is what `RequestsDelivered` of the stream shows.

The runs of `UioDisplay`, `UioLayout`, `Hwc2Device` and `Hwc1Device` leave their type
invariants to the proofs.

### UioDisplay

`hflags`, `update`, `dataPos`, `rotate` are the fields of `KVMFRHeader` and
`KVMFRFrame` that change; `content` and `whole` stand for the pixels of the two
slots (the number of the post they show, and whether a copy is under way or was
cut off).  `dataPos` is kept as the slot it is the offset of; `UioLayout` shows
that slots and offsets correspond.  `postFb` is the sequence `PostBegin`,
`StoreFlags` (load and store of `flags &= ~READY`), `LockFails` or `BeginCopy`,
`EndCopy`, `Position`, `Flag`, `Rotate`, then `Finish`, which moves `frame_id` on
in both cases.  `threadProc` is `PollTest`, `PollLoad`, `PollStore`.  The client
is not in the repository; it is modelled as the KVMFR flags suggest: it clears
UPDATE, reads the descriptor, copies the slot, and may signal at any time.
`Crash` may happen between any two steps; the mapping survives.  The stores of
the host are taken to become visible in program order.

Configuration `uio`: three posts, two starts, two rotations.  Three posts are
the least that fill a slot for the second time, and let a failed lock, between
two good posts, lead to a copy over the advertised slot; two starts give one
restart on a used mapping.

* `DoubleBuffered`, `AdvertisedWhole`, `TornOnlyAfterNewer`: the advertised slot
  is not rewritten, holds one frame, and a client that is overtaken always finds
  something newer.  All three are claimed for `~missed`: after an odd number of
  failed locks `frame_id` is the advertised slot.  `uio_update_available`
  (`UpdateAvailable`, without that guard) shows the tear.
* `SettledRotation`: after `postFb` the rotation belongs to the pixels.
* `LastFrameReachesClient`, `RestartAcknowledged`: liveness, although host and
  client race for the same bytes.

Not claimed: that RESTART goes up only when the client raises it.  `postFb`
loads the flags, the poll thread clears RESTART, `postFb` stores the old value:
the signal comes back and is acknowledged again.

### UioLayout

`frameSize`, `frameOffset` and `RowTarget` are the arithmetic of `init` and of the
row loop.  Mapping sizes are whole pages on real devices; the configuration adds
sizes that are no multiple of 256, where rounding matters.  A post is `BeginFrame`,
`CopyRow` for each row and `Describe`, or `LockFails`, which does nothing but move
`frame_id` on.  `RowsPlaced` follows the rows of one frame after the other: those
being copied stay clear of the advertised ones, as long as `FrameFits`, which the
code does not check, and unless an odd number of locks failed since the advertised
frame was described (`missed`): then `frame_id` is its slot, and rows do go over it,
which is the tear `uio_update_available` shows.  A client finds the rows where
`dataPos` and `pitch` say, whatever the stride of the source.  `pitch` is that of
the packed copy, not, as its comment in UioDisplay.h:71 has it, the stride in bytes.

### Hwc2Device

`mDisplays[id]` is `Absent`, `Local` or the remote attached to the display.  An
`onHotplug` call is two steps (`CheckCallback`, then `PushPending` or
`CallHotplug`), recorded per thread in `ev`.  `size` is the width and height of a
display, which `attach` takes from the remote and `detach` keeps.  `told` is what
SurfaceFlinger was last told, and `known` the sizes it read then; both survive a
re-registration.  `overlap` is history: main and
socket thread were inside this code at once, or a remote came before `init`
decided to create a primary display.  `HotplugsDelivered` and `HotplugsAlternate`
are claimed for executions without overlap, because with it they fail: the
check and the push of `onHotplug` are not atomic.

`SizeKnown` is why `addRemoteDisplay` compares sizes at all: SurfaceFlinger reads
the size of a display when it is told of it, so a remote of another size has to
come with a hotplug.  A remote that does not set `primaryHotplug` in its flags is
attached without one; the displays it resizes are in `silent`, and excepted.

Configuration `hwc2_device`: three remotes, one of the default size and without
`primaryHotplug`, two larger ones with it; four ids; the build with the early
return and up to four uio nodes, the other with none.  Three remotes are enough for
one on the primary display, one on its own and one that comes to a primary display
another has resized and left.
`RepeatedAck = FALSE` excludes remotes that answer the configuration request
twice; with `TRUE` such a remote is attached to two displays and
`AttachedWhereItKnows` fails.  Remotes come only where
there are no local displays beside the primary one: otherwise `sNextId` runs into
ids that are in use, which is the condition of `AddedDisplayIsNew`.

### RemoteDisplayMgr

Connections (`Conns`) are kernel sockets; descriptors `1 .. MaxFd` are reused
lowest first, `0` is the worker pipe, `MaxFd + 1` the listening socket.  The
object made for a connection goes by the name of the connection.  The socket
thread takes a set of ready descriptors (`EpollWait`) and handles them in any
order; locks are the predicates `WorkerLocked` and `ConnectionLocked`.  The
composer sends to objects the device holds, in the steps of `_send`; a use of a
destroyed object ends the model in `"undefined"`, `exit` ends it in `"exited"`.
`slips` is history: `"twice"` when two threads reported one disconnection,
`"early"` when an event came for a descriptor that had no object yet.

Assumptions: SIGPIPE is ignored, as Android services have it; a message arrives
whole (`RemoteStream` does without that); concurrent accesses to the `std::map` of remotes are atomic (they are not,
`connectToRemote` inserts without a lock the socket thread would take); `emplace`
of an existing key builds no object, as in libc++.

Configurations: `remote_display_mgr` has three connections on two descriptors,
with symmetry, so that a descriptor is reused while a stale event or a second
removal is pending and accept may find none left; `remote_display_mgr_live` has
two connections and no symmetry, for the liveness property.

* `RemovalNotLost`, `DisconnectedRemoved`: the queue and its wakeup.
* `UsesIRemoteDevice`: the device is told before an object dies.
* `FdsOwned`, `OnlyDisconnectedRemoved`: descriptors and objects do not get
  mixed up; both name the races that do mix them up.
* `mgr_unknown_event`, `mgr_config_ready`: two comments of the code that do not
  hold.  The first also happens when epoll reports strictly in the order in
  which descriptors became ready, with two remotes hanging up together.

Deadlock is not checked in these runs: when every connection was used up and
closed the model has nothing left to do.

### RemoteStream

One `RemoteDisplay`, its remote, and the two directions of the stream between them.
The stream carries *pieces*: a structure that arrives whole is one, one that may be
cut in two is two.  A request is a header and what `event.size` announces; a buffer
has a further piece, which carries its descriptors and is not announced.  `Sends`
is how many calls of `send` a request is made of (`createBuffer` is four).  `Room` is
what the socket buffer takes: a `send` finds room, none (`EAGAIN`, which the code
takes for a disconnection) or room for a part, which it takes for success.  The
remote writes a message in one go or in parts, and may write one that
`onDisplayEvent` has no case for, or hang up.  Such messages need not be of a later
protocol: `display_protocol.h` defines `DD_EVENT_SERVER_IP_REQ`, `_ACK` and `_SET`,
and `SERVER_IP_REQ` stands for them all.  The socket thread reads a header
(`OnDisplayEvent`), then what the type asks for; layers one by one (`RecvLayer`).
For a type without a case it reads what is there, up to 1024 bytes (`OnUnknown`;
`UnknownRoom` is how many pieces that is), and what a message has beyond that is
taken for the next header.  Locals are not initialised: what did not come is a
choice, the type of a message among those there are, the number of layers among
those in use or one that there is no memory for.  The vector of layers is resized to
the number, whether it came or not; when it is more than `Memory`, the process dies
(`OutOfMemory`).

`_send` and `_recv` test `mDisconnected`, transfer and set it in one step: nothing
of another thread in between could change the outcome but a second report of the
same disconnection, which is in `RemoteDisplayMgr` (`slips`, `"twice"`).
`getConfigs` is sent by the socket thread before it reads anything, and every other
request by the composer, for remotes whose `onConnect` was called: `attach` makes
none.  A remote acknowledges a request at most once.

`faults` is history, what the remote did that a well-behaved one does not: `"slow"`
(the buffer was full), `"in parts"`, `"unhandled"` (a message without a case),
`"too many"` (a count there is no memory for), `"hung up"`.  So is `slips`: a send,
or a recv, got through less than it was for.

Configuration `remote_stream`: `getConfigs` and two more requests, of the four
shapes there are; two messages of the four kinds, of which the unhandled one comes
with a body and without, and the one with layers with one layer, which there is
memory for, or two, which there is not; room for two pieces, in the socket buffer
and in the 1024 bytes.  Two requests make one fail in front of another; two messages
are a message and, while its body is read, the one behind it.  `createBuffer`
has four pieces, so that the buffer fills up within a request, and `displayBuffer`
two in one call, of which one may fit.  A header without a body leaves `OnUnknown`
nothing to read, or the message behind it, of which two pieces may be a part only.
Deadlock is not checked: a connection that broke is the end of this object.

* `TypeOK`: with the types, that the process dies only of a number of layers that
  did not come or that there is no memory for.
* `RequestsDelivered`: the refinement of `RequestChannel`, but for a partial send.
* `AnswersMatch`: the messages acted on (`handled`, their numbers) are those of the
  known kinds that the remote wrote, in order, none twice and none left out, but for a
  partial recv.
* `WellBehavedKept`: only a remote with a fault is ever taken for disconnected.  To
  write a message without a case counts as one, although `SERVER_IP_REQ` is in the
  protocol: `onDisplayEvent` finds nothing behind the header and drops its sender.
* `EveryAnswerHandled`: liveness; a whole message is acted on.

### Hwc2Display, Hwc2Layer, RemoteView

`mLayers` maps the ids of existing layers to the records of `Hwc2Layer`, whose
operators are the hooks of that class.  `peer` is what the attached remote knows,
and the operators of `RemoteView` are the requests of `RemoteDisplay`, each with
the effect a remote is assumed to give it; a remote ignores layers it does not
know.  The actions are the calls of SurfaceFlinger, one at a time and in the
order HWC2 demands (`phase`: validate, acceptChanges if there are changes, then
present; any change asks for a new validate), and the steps of the socket thread:
`AttachPointer` and `AttachMode`, between which SurfaceFlinger may call, and
`Detach`.  A detach in the middle of a call is in `RemoteDisplayMgr`.
`older` and `olderTarget` are history: the layers that were there when attach
finished, and whether the client target was set before it.  So is `asked`: what
SurfaceFlinger last set of each layer, as opposed to what the layer kept of it.

Undefined behaviour is a choice: the memory `mDstFrame` starts with (`garbage`),
and the use of a destroyed remote by an older layer (nothing, or a request to the
next remote at the same address).

Configurations: `hwc2_display` has one layer at a time, two in all, two buffers,
every hook, and two remotes of mode 0 or 1, so that a stale mode, a stale
pointer and stale buffers of the first meet the second.  Mode 2 is both of these
together, and is left to the code that tests the mode.  `hwc2_display_rotation`
has two layers, for the loops over layers, three fences and remotes of mode 0,
the mode under which rotation is sent.

* `CopyCurrent`: what the remote has of a layer is what SurfaceFlinger last set
  (`asked`), unless the layer is marked for the next present.  The exceptions are the
  code's: layers older than the attach; the z order, which `setZOrder` does not mark;
  a frame that equals what the uninitialised `mDstFrame` held, which
  `setDisplayFrame` drops (`FrameSent`); and blue, which `setColor` packs as a second
  green (`ColorSent`).
* `LayersKnown`, `Announced`: the remote knows the layers made since it was attached,
  and the client targets and buffers it is asked to show, but for layers and a target
  older than the attach.
* `RespectsMode`: no requests beside the mode, once attach is through.
* `FencesOwned`: no descriptor leaks or is closed twice.
* `RotationKnown`, `RotationFollows`: for displays without a `UioDisplay`; with
  one, `checkRotation` takes the news away from `updateRotation`.
* `AcceptedIsComposed`: every typed layer is in the client target.

A handle stands for one buffer for good.  The program never tells a remote that a
buffer is gone (`mBuffers` only grows), so a handle used again for another buffer
is not announced again; this is listed as a hazard and not modelled.

### Hwc1Device, Hwc1Display

The same shape for the older interface, with three differences.  Removal goes by
the display id alone, so a remote that was never added (it hung up before its
configuration came, or there was no slot for it) takes the primary display from
whoever has it; `robbed` is the history of that, and the one liberty
`ImplementsIRemoteDevice` allows.  The buffers a remote is to forget are taken back
from it, when single layer mode ends; no code of the repository turns that mode on
(`mEnableSingleLayerOpt`), and the model starts with either value.  And calls run
while displays come and go:

SurfaceFlinger's calls take no lock, and a removal may come between any two of
their steps.  A call tests a slot (`BeginPrepare`, `BeginSet`), takes the display in
it (`Enter`) and works on that (`PrepareRemote`, `SetRemote`); `set` announces a
buffer in one step and shows it in the next (`DisplayBuffer`).  `call` is where it
is, with the display it took (`this`) and the buffer it is about to show.  When the
slot is empty by `Enter`, or there is no dummy display because `init` could connect,
a null pointer is used (`UsesNull`).  When the display is destroyed after `Enter`
(`Destroyed`), undefined behaviour is a choice (`Reached`): the pointer finds what
the display left in memory, or the display that took its place, or the program dies
(`Dies`, the end of the model's promises), which stands also for memory that was
used for anything else.  A remote that was taken back receives nothing
(`Received`).

Everything `prepare` does to a display and its remote is one step, since nothing it
does there has an order that shows.  Hiding the steps within `addRemoteDisplay`, a
display appears in its slot with its remote.  A display list is the number of its layers, whether
the first is transformed, and which layers SurfaceFlinger will not compose.

Configuration `hwc1_device`: three remotes, so that one is refused and its
removal robs another, whose own removal robs the next; four lists that enter and
leave single layer mode in each way; one application buffer and one target, since
what matters is whether a buffer is known when it comes again.  Deadlock is not
checked, because the model stops after `Dies`.

* `AttachedWhereItKnows`, `ImplementsIRemoteDevice`: as for `Hwc2Device`.
* `ExternalKnown`: SurfaceFlinger knows of the external display, unless it came
  before the procs were registered; then it is never told.
* `ShowsKnown`: a remote is asked to show only a buffer it was told of and that was
  not taken back since.  It is stated of each step that shows one, so that a buffer
  shown for the second time counts as well.  The exception is a display destroyed
  between announcement and showing, when the buffer goes to the remote of the display
  in its place.
* `FrameComplete`: what `set` goes on to show is the whole frame, on a display that saw
  the last geometry change and is not destroyed meanwhile.  One that did not finds
  composition types of another, and may show a part.

## Fairness

Weak fairness is assumed of each thread of the process and of the client's
frame loop, never of SurfaceFlinger, of signals, rotations, crashes, or of what
a remote does.  The scheduler runs runnable threads; no thread of the code waits
on a condition other than those in the guards (a mutex, the condition variable,
epoll).  For the composer it is assumed only that a call that began goes on
(`ComposerCall`), not that there are calls.  In `RemoteStream` fairness is asked of
the socket thread alone: epoll reports a socket with something to read again and
again, and no handler blocks, the socket being non-blocking.

## Proofs

Theorems hold for all values of the constants under the named assumptions of
the modules, and under a hypothesis where one is named below.  Every property of
the passing runs is proved but those listed at the end of this section.  The
strengthenings named below were checked by TLC, as invariants, before they were
proved.

* `UioDisplay_proofs`.  `TypeCorrect` is inductive by itself.  `DoubleBuffer`,
  `WholeFrames` and `RotationFollowsPixels` come from one inductive invariant,
  `DoubleBufferInv`: where `dataPos` is relative to `frame_id` at each point of
  `postFb` (`SlotInv`), exchanged by an odd number of failed locks; which slot may
  be half-written (`WholeInv`); whose rotation is in the header (`RotationInv`).
  None of the three properties is inductive: they say nothing of the steps
  between the store of `dataPos` and the toggle.  `TornFramesAreOld` rests on them
  and on two more: slots hold posts in the order they were made (`ContentInv`), and
  a client in the middle of a copy has a newer frame advertised as soon as another
  slot is (`ReaderInv`).  The tear of a frame that makes up for a failed one is the
  exception there, until the new pixels are complete.
* `UioLayout_proofs`.  `LayoutTypeCorrect` and `LayoutSound`, from lemmas on
  rounding down to 128.  `RowsWherePromised` from `RowInv`, which says where each
  row of the frame being copied and of the advertised one is, and `RowEnds`, the
  only product of two unknowns.  The advertised slot is the other one than `frame_id`
  while `~missed`, and `frame_id` itself after an odd number of failed locks.
* `Hwc2Device_proofs`.  `DeviceTypeCorrect`; `AttachmentCorrect` from `AttachInv`,
  which adds what is known between the two hotplugs of a reconfiguration and
  before a display is erased, and that every remote has an id below `sNextId`;
  `DeviceImplementsInterface`, step by step over `AttachInv`.  These two assume
  `~RepeatedAck`.  `NewDisplayIsNew` needs that all ids in use are below `sNextId`
  (`Numbered`), `AlwaysADisplay` that a remote with a display of its own found
  another one there (`OneDisplay`).
  `NoEventIsLost`, `EveryEventIsNews` and `SizesAreKnown` share the invariant
  `Told`: where the threads may be while an event is under way (`Calls`), what there
  is before anything came (`Untouched`), and, while the threads have not overlapped,
  that the events queued or under way lead from what SurfaceFlinger was told to what
  there is (`Spoken`).  "Lead" is stated without recursion: there is a path of sets, one for
  each event, in which every event adds or takes away the id it names and changes
  something.  A queue of events that is delivered is a path walked from its start.
  These three assume `OneNode`: remotes come only to devices with at most one uio
  node, as in the run; with more, `addRemoteDisplay` hands out ids of local
  displays, and an event about one of them is no news.
* `Hwc2Display_proofs`.  What each hook of `Hwc2Layer` and each request of
  `RemoteView` does to the fields of its record comes first, as lemmas; the proofs of
  the invariants use these instead of the definitions.  `FencesAreOwned`,
  `AcceptedAreComposed`, `RotationIsKnown`, `RotationIsFollowed`, `ModeIsRespected`
  and `BuffersAreAnnounced` each have a strengthening of their own (without a remote
  no transform is remembered; a target that is not older than the attach is
  announced even while the attach is under way; a layer's buffers are those the
  remote it was made for has).  `CopyIsCurrent` needs `LayersAreKnown`, since a
  remote ignores what it is told of a layer it does not know, and follows a change
  mark from the hook that sets it to the present that sends it.
* `RemoteDisplayMgr_proofs`.  `MgrTyped` needs that a thread holds a connection while
  it works on one (`Hands`).  `NoRemovalIsLost` follows a byte through the pipe.
  `MgrUsesDevice` is the refinement, step by step, over `MadeOnce`: a connection is
  in one place at a time on its way from the peer to its object, and no object is
  made again after it was taken back.  `DescriptorsAreOwned` and
  `OnlyReportedAreRemoved` are not inductive apart: that a removal destroys the right
  object needs the descriptor to be its own still, and that needs each descriptor to
  be queued once, by an object that is disconnected (`Sound`).
* `RemoteStream_proofs`.  All four theorems rest on `StreamInv`, which places the
  pieces of every message between its writer and its reader.  A stream *runs* from a
  piece to another (`Runs`): its first piece is the one, each is followed by the next
  of its message or the first of the next message (`Following`), and what would come
  behind the last is the other.  Nothing is counted or summed up, so no induction is needed:
  a reader that takes a piece moves the one end, a writer that adds some moves the
  other (`RunsOn`, `RunsJoin`).  `OutInSync` says the stream to the remote runs from the piece
  the remote reads next to the one `_send` is at, and that what is left of a request
  (`Total`) is what its header announced; `InInSync` that the other one runs from
  where the socket thread is in its message to where the remote is in its last one.
  Both hold until the first transfer of a part that counts as success.
  `AnswersAreActedOn` says, with `InInSync`, which messages were passed (`Passed`);
  `RequestsArrive` is the refinement, step by step; `WellBehavedStays` needs that a
  message written in one go is in the stream up to its end (`MessageComes`);
  `StreamTyped` includes what the process may die of: a count that came is the one the
  remote wrote (`InInSync`), so there is no memory for it only when the remote sent such
  a count.  That the
  lengths of the calls of `send` add up to the length of a request (`SendsAddUp`) is
  where the separate, unannounced piece of `createBuffer` comes in.  The assumptions
  are the bounds' types, that a buffer has at most one set of descriptors and that `getConfigs` is not among
  the requests of the composer.
* `Hwc1Device_proofs`.  `Hwc1TypeCorrect`; `Hwc1AttachmentCorrect` from its own
  `AttachInv`, which adds that a remote not yet added was robbed of nothing (without
  it, adding a remote could attach one that `robbed` excludes).
  `Hwc1ImplementsInterface` goes by cases: adding takes the reference, removing
  drops it or changes `robbed`, every other step leaves the slots alone
  (`OthersKeepHolders`).  `ExternalIsKnown`: while a hotplug is due the slot is
  already what the hotplug will say (`HotplugInv`).  `CallInv`: the display a call
  is in belongs to a remote that was added to its slot, which may be gone.
  `ShowsOnlyKnown`: a remote has what its display remembers to have announced, also
  when the display is destroyed and a call is still in it, unless the remote was taken
  back; and the buffer a call is about to show is among these (`KnownInv`).  This
  needs that no remote is in two slots, and that a display's remote is never added
  again.  `FramesAreComplete`: a display that planned a list left in it the types its
  single layer mode asks for (`PlanInv`); and a remote which came between test and use
  of a slot never planned the list (`EnterKeepsPlan`).

Only model-checked:

* Liveness: `LastFrameReachesClient`, `RestartAcknowledged`, `DisconnectedRemoved` and
  `EveryAnswerHandled`, which the prover has no rules for.

Every safety property of the passing runs is the subject of a theorem.

The prover does not take the library's theorems on induction, which have an operator
as a parameter.  Where a least or greatest number is needed it comes from the
well-foundedness of strict inclusion on finite sets (`FirstLast`).

## Not modelled

* Of `Hwc2Display`: where the constructor finds the default size (it takes that of
  `sys.display.size` only when `w & h`, the bits the two have in common, is not 0),
  output buffer, colour mode, active config, and answers that are
  constants; `onBufferDisplayed` and `onPresented`, which nobody calls, since no
  `DisplayEventListener` is ever registered.  That `present` does not wait for the
  acquire fence of the client target shows in pixels, which `Hwc2Display` does not have.
* Of `Hwc2Device`: that the hooks look displays up in `mDisplays` without
  `mDisplayMutex`.  A `std::map` that is read and rebalanced at once may do anything.
* Of `Hwc1Display`: attributes, fences; of `Hwc1Device`: hooks that change no state.
* `BufferMapper`: calls into the gralloc mapper, external; a lock fails or not.
* `BufferDumper`: disabled in Android.mk; writes files.
* `LocalDisplay`: one call into the framebuffer device.

## Plan

Nothing of the program that keeps state is left out but what the section before
lists, and every safety property of the passing runs is proved.  What is left is the
liveness half of `IRemoteDevice` and `RequestChannel`, which say what may happen and
not what must.

-------------------------- MODULE RemoteDisplayMgr --------------------------
(***************************************************************************)
(* The remote display manager with the early returns of init and           *)
(* connectToRemote lifted, so that its threads run.  The socket thread     *)
(* accepts remotes, reads their acknowledgements and removes them; the     *)
(* main thread may connect to one remote itself and wait for it; the       *)
(* composer thread sends to the remotes the device holds.  Whoever sees a  *)
(* socket fail queues its fd in mPendingRemoveDisplays and writes to a     *)
(* pipe that wakes the socket thread, which alone destroys RemoteDisplay   *)
(* objects.  File descriptors are reused, lowest free one first.           *)
(***************************************************************************)
EXTENDS Naturals, Sequences, FiniteSets

CONSTANTS
  Conns,           \* connections, each with the RemoteDisplay made for it
  MaxFd,           \* bound: descriptors free for connections
  MaxConnections,  \* mMaxConnections
  ClientMode,      \* whether somebody listens on kClientSock
  PeersStall       \* whether a send may find the socket buffer full

ASSUME MgrAssumption ==
  /\ MaxFd \in Nat \ {0} /\ MaxConnections \in Nat
  /\ ClientMode \in BOOLEAN /\ PeersStall \in BOOLEAN
  /\ "none" \notin Conns

None == "none"
Fds == 1 .. MaxFd
PipeFd == 0            \* mWorkerEventReadPipeFd
ServerFd == MaxFd + 1  \* mServerFd

VARIABLES
  \* the kernel
  socketOf,  \* descriptor -> connection, or None
  epoll,     \* connection descriptors in mEpollFd
  backlog,   \* connections nobody has accepted
  peer,      \* other end: "away", "open", "asked", "acked", "closed"
  unread,    \* connections with an acknowledgement to read
  pipe,      \* bytes in the worker pipe
  \* the manager
  mRemoteDisplays,        \* descriptor -> connection of the object, or None
  mDisconnected,          \* connections whose object is marked so
  mPendingRemoveDisplays, \* queued descriptors
  \* the device
  held, taken,
  \* the threads: where they are and what they hold
  spc, batch, sfd,
  mpc, mconn, mfd, notified,
  cpc, cconn, cfd,
  \* history
  slips   \* "twice": some object was reported disconnected more than once
          \* "early": an event came for an open descriptor without an object

kernel == <<socketOf, epoll, backlog, peer, unread>>
queue == <<mPendingRemoveDisplays, pipe>>
manager == <<mRemoteDisplays, mDisconnected, slips>>
device == <<held, taken>>
socket == <<spc, batch, sfd>>
main == <<mpc, mconn, mfd, notified>>
composer == <<cpc, cconn, cfd>>
vars == <<kernel, queue, manager, device, socket, main, composer>>

Device == INSTANCE IRemoteDevice WITH Remotes <- Conns

Init ==
  /\ socketOf = [f \in Fds |-> None] /\ epoll = {} /\ backlog = {}
  /\ peer = [c \in Conns |-> "away"] /\ unread = {} /\ pipe = 0
  /\ mRemoteDisplays = [f \in Fds |-> None] /\ mDisconnected = {}
  /\ mPendingRemoveDisplays = <<>>
  /\ Device!Init
  /\ spc = "wait" /\ batch = {} /\ sfd = 0
  /\ mpc = "start" /\ mconn = None /\ mfd = 0 /\ notified = FALSE
  /\ cpc = "idle" /\ cconn = None /\ cfd = 0
  /\ slips = {}

Free == {f \in Fds : socketOf[f] = None}
Lowest(fds) == CHOOSE f \in fds : \A g \in fds : f <= g
Alive == {mRemoteDisplays[f] : f \in Fds} \ {None}
FdOf(c) == CHOOSE f \in Fds : mRemoteDisplays[f] = c
Hung(f) == socketOf[f] # None => peer[socketOf[f]] = "closed"

WorkerLocked == spc = "drain"                    \* mWorkerMutex
ConnectionLocked == mpc \in {"emplace", "configs", "push"} \* mConnectionMutex

(* onDisconnect: queue and wake the socket thread, in one critical section. *)
(* The two before it are plausible slips: no wakeup, a wrong descriptor.   *)
PushUnwoken(f) ==
  /\ mPendingRemoveDisplays' = Append(mPendingRemoveDisplays, f)
  /\ UNCHANGED pipe
PushServerFd(f) ==
  /\ mPendingRemoveDisplays' = Append(mPendingRemoveDisplays, ServerFd)
  /\ pipe' = pipe + 1
Push(f) ==
  /\ mPendingRemoveDisplays' = Append(mPendingRemoveDisplays, f)
  /\ pipe' = pipe + 1

(* emplace keeps the object that a descriptor already has.                 *)
Emplaced(f, c) == IF mRemoteDisplays[f] = None THEN c ELSE mRemoteDisplays[f]

(* What _send and _recv do to an object whose socket fails.                *)
MarkForgotten(c) == UNCHANGED <<mDisconnected, slips>>
MarkDisconnected(c) ==
  /\ mDisconnected' = mDisconnected \union {c}
  /\ slips' = slips \union {s \in {"twice"} : c \in mDisconnected}

(* exit(EXIT_FAILURE), and a use of a destroyed object, after which the    *)
(* code promises nothing: either way the process is done.                  *)
Stop(how) == /\ spc' = how /\ mpc' = how /\ cpc' = how
             /\ UNCHANGED <<kernel, queue, manager, device, batch, sfd, mconn, mfd,
                            notified, cconn, cfd>>
Exit == Stop("exited")
Undefined == Stop("undefined")

-----------------------------------------------------------------------------
(* The other ends of the connections.                                      *)
PeerConnects(c) ==
  /\ peer[c] = "away"
  /\ peer' = [peer EXCEPT ![c] = "open"]
  /\ backlog' = backlog \union {c}
  /\ UNCHANGED <<socketOf, epoll, unread, queue, manager, device, socket, main,
                 composer>>

PeerAcks(c) ==
  /\ peer[c] = "asked"
  /\ peer' = [peer EXCEPT ![c] = "acked"]
  /\ unread' = unread \union {c}
  /\ UNCHANGED <<socketOf, epoll, backlog, queue, manager, device, socket, main,
                 composer>>

PeerCloses(c) ==
  /\ peer[c] \in {"open", "asked", "acked"}
  /\ peer' = [peer EXCEPT ![c] = "closed"]
  /\ UNCHANGED <<socketOf, epoll, backlog, unread, queue, manager, device,
                 socket, main, composer>>

Peer(c) == PeerConnects(c) \/ PeerAcks(c) \/ PeerCloses(c)

-----------------------------------------------------------------------------
(* The socket thread.                                                      *)
Ready == {f \in epoll : Hung(f) \/ socketOf[f] \in unread}
         \union (IF pipe > 0 THEN {PipeFd} ELSE {})
         \union (IF backlog # {} THEN {ServerFd} ELSE {})

(* epoll_wait reports what is ready; the loop handles it in some order.    *)
EpollWait ==
  /\ spc = "wait" /\ Ready # {}
  /\ batch' = Ready
  /\ spc' = "batch"
  /\ UNCHANGED <<kernel, queue, manager, device, sfd, main, composer>>

BatchDone ==
  /\ spc = "batch" /\ batch = {}
  /\ spc' = "wait"
  /\ UNCHANGED <<kernel, queue, manager, device, batch, sfd, main, composer>>

(* getRemoteDisplayCount is the number of displays minus one: one less     *)
(* than the remotes held while one of them has the primary display.        *)
BelowLimit == Cardinality(held) < MaxConnections + 1
AtLimit == Cardinality(held) >= MaxConnections

(* accept, then addRemoteDisplay: the object exists, and the request for   *)
(* the configuration is sent or fails.                                     *)
Accept ==
  /\ spc = "batch" /\ ServerFd \in batch /\ Free # {} /\ BelowLimit
  /\ batch' = batch \ {ServerFd}
  /\ \E c \in backlog :
       LET f == Lowest(Free)
           remote == Emplaced(f, c) IN
       /\ backlog' = backlog \ {c}
       /\ socketOf' = [socketOf EXCEPT ![f] = c]
       /\ epoll' = epoll \union {f}
       /\ mRemoteDisplays' = [mRemoteDisplays EXCEPT ![f] = remote]
       /\ \/ /\ remote \notin mDisconnected /\ peer[c] = "closed"
             /\ MarkDisconnected(remote) /\ Push(f) /\ UNCHANGED peer
          \/ /\ remote \notin mDisconnected /\ peer[c] = "open"
             /\ peer' = [peer EXCEPT ![c] = "asked"]
             /\ UNCHANGED <<queue, mDisconnected, slips>>
          \/ /\ remote \in mDisconnected
             /\ UNCHANGED <<peer, queue, mDisconnected, slips>>
  /\ UNCHANGED <<unread, device, spc, sfd, main, composer>>

(* "Can't accept more than %d remote displays!"                            *)
Reject ==
  /\ spc = "batch" /\ ServerFd \in batch /\ AtLimit
  /\ batch' = batch \ {ServerFd}
  /\ \E c \in backlog : /\ backlog' = backlog \ {c}
                        /\ peer' = [peer EXCEPT ![c] = "closed"]
  /\ UNCHANGED <<socketOf, epoll, unread, queue, manager, device, spc, sfd, main,
                 composer>>

(* accept fails for want of a descriptor: the rest of the batch is dropped,*)
(* the order of the next one may be the same, and the removal that would   *)
(* free a descriptor is put off as long as somebody waits to be accepted.  *)
AcceptFails ==
  /\ spc = "batch" /\ ServerFd \in batch /\ Free = {}
  /\ batch' = {}
  /\ UNCHANGED <<kernel, queue, manager, device, spc, sfd, main, composer>>

(* The worker pipe: up to 16 bytes are read, then the mutex is taken and   *)
(* the whole queue is worked off.                                          *)
ReadPipe ==
  /\ spc = "batch" /\ PipeFd \in batch
  /\ batch' = batch \ {PipeFd}
  /\ pipe' = IF pipe > 16 THEN pipe - 16 ELSE 0
  /\ spc' = "drain"
  /\ UNCHANGED <<kernel, mPendingRemoveDisplays, manager, device, sfd, main,
                 composer>>

(* removeRemoteDisplay: the device is told, the map forgets the object,    *)
(* destroying it closes its descriptor.  The slips before two of them: the *)
(* device is not told, the descriptor is not closed.                       *)
DeviceNotTold(rd) == UNCHANGED held /\ taken' = taken \union {rd}
DeviceRemoves(rd) == held' = held \ {rd} /\ taken' = taken \union {rd}

Erase(f) == mRemoteDisplays' = [mRemoteDisplays EXCEPT ![f] = None]

Unwatched(f) == epoll' = epoll \ {f} /\ UNCHANGED socketOf
CloseFd(f) == /\ socketOf' = [socketOf EXCEPT ![f] = None]
              /\ epoll' = epoll \ {f}

removeRemoteDisplay(f) ==
  IF f \notin epoll THEN Exit ELSE
  /\ IF mRemoteDisplays[f] # None
       THEN /\ DeviceRemoves(mRemoteDisplays[f])
            /\ Erase(f)
            /\ CloseFd(f)
       ELSE epoll' = epoll \ {f} /\ UNCHANGED <<socketOf, mRemoteDisplays, device>>
  /\ mPendingRemoveDisplays' = Tail(mPendingRemoveDisplays)
  /\ UNCHANGED <<backlog, peer, unread, pipe, mDisconnected, slips, socket, main,
                 composer>>

DrainOne ==
  /\ spc = "drain" /\ mPendingRemoveDisplays # <<>>
  /\ removeRemoteDisplay(Head(mPendingRemoveDisplays))

DrainDone ==
  /\ spc = "drain" /\ mPendingRemoveDisplays = <<>>
  /\ spc' = "batch"
  /\ UNCHANGED <<kernel, queue, manager, device, batch, sfd, main, composer>>

(* An event of a connection: onDisplayEvent.                               *)
Event(f) == spc = "batch" /\ f \in batch \intersect Fds /\ batch' = batch \ {f}

EventAck(f) ==
  /\ Event(f) /\ mRemoteDisplays[f] \notin mDisconnected \union {None}
  /\ socketOf[f] \in unread
  /\ unread' = unread \ {socketOf[f]}
  /\ spc' = "ack" /\ sfd' = f
  /\ UNCHANGED <<socketOf, epoll, backlog, peer, queue, manager, device, main,
                 composer>>

(* recv returns 0, or -1 with EAGAIN when there was nothing to read.       *)
EventFails(f) ==
  /\ Event(f) /\ mRemoteDisplays[f] \notin mDisconnected \union {None}
  /\ socketOf[f] \notin unread
  /\ MarkDisconnected(mRemoteDisplays[f]) /\ Push(f)
  /\ UNCHANGED <<kernel, mRemoteDisplays, device, spc, sfd, main, composer>>

EventIgnored(f) ==
  /\ Event(f) /\ mRemoteDisplays[f] \in mDisconnected
  /\ UNCHANGED <<kernel, queue, manager, device, spc, sfd, main, composer>>

(* "This shouldn't happen, something is wrong if go here".                 *)
EventUnknown(f) ==
  /\ Event(f) /\ mRemoteDisplays[f] = None
  /\ f \in epoll
  /\ CloseFd(f)
  /\ slips' = slips \union {"early"}
  /\ UNCHANGED <<backlog, peer, unread, queue, mRemoteDisplays, mDisconnected,
                 device, spc, sfd, main, composer>>

EventUnknownExits(f) ==
  /\ spc = "batch" /\ f \in batch \intersect Fds
  /\ mRemoteDisplays[f] = None /\ f \notin epoll
  /\ Exit

(* onConnect, called from onDisplayInfoAck.                                *)
OnConnect ==
  /\ spc = "ack" /\ ~ConnectionLocked
  /\ held' = held \union ({mRemoteDisplays[sfd]} \ {None})
  /\ notified' = (notified \/ mpc = "wait")
  /\ spc' = "batch" /\ sfd' = 0
  /\ UNCHANGED <<kernel, queue, manager, taken, batch, mpc, mconn, mfd, composer>>

SocketThread ==
  \/ EpollWait \/ BatchDone \/ Accept \/ Reject \/ AcceptFails
  \/ ReadPipe \/ DrainOne \/ DrainDone \/ OnConnect
  \/ \E f \in Fds : \/ EventAck(f) \/ EventFails(f) \/ EventIgnored(f)
                    \/ EventUnknown(f) \/ EventUnknownExits(f)

-----------------------------------------------------------------------------
(* The main thread in connectToRemote, holding mConnectionMutex from the   *)
(* connect to the wait.                                                    *)
ServerMode ==
  /\ mpc = "start"
  /\ mpc' = "server"
  /\ UNCHANGED <<kernel, queue, manager, device, socket, mconn, mfd, notified,
                 composer>>

MainConnects(c) ==
  /\ mpc = "start" /\ ClientMode /\ peer[c] = "away" /\ Free # {}
  /\ LET f == Lowest(Free) IN
       /\ socketOf' = [socketOf EXCEPT ![f] = c]
       /\ epoll' = epoll \union {f}
       /\ mfd' = f
  /\ peer' = [peer EXCEPT ![c] = "open"]
  /\ mpc' = "emplace" /\ mconn' = c
  /\ UNCHANGED <<backlog, unread, queue, manager, device, socket, notified,
                 composer>>

(* From here mconn is the object the main thread holds a reference to.     *)
MainEmplaces ==
  /\ mpc = "emplace"
  /\ mconn' = Emplaced(mfd, mconn)
  /\ mRemoteDisplays' = [mRemoteDisplays EXCEPT ![mfd] = mconn']
  /\ mpc' = "configs"
  /\ UNCHANGED <<kernel, queue, mDisconnected, slips, device, socket, mfd,
                 notified, composer>>

MainConfigs == mpc = "configs" /\ mRemoteDisplays[mfd] = mconn

MainAsks ==
  /\ MainConfigs /\ mconn \notin mDisconnected /\ ~Hung(mfd)
  /\ peer' = [peer EXCEPT ![socketOf[mfd]] = IF @ = "open" THEN "asked" ELSE @]
  /\ mpc' = "wait"
  /\ UNCHANGED <<socketOf, epoll, backlog, unread, queue, manager, device, socket,
                 mconn, mfd, notified, composer>>

MainAskFails ==
  /\ MainConfigs /\ mconn \notin mDisconnected /\ Hung(mfd)
  /\ MarkDisconnected(mconn)
  /\ mpc' = "push"
  /\ UNCHANGED <<kernel, queue, mRemoteDisplays, device, socket, mconn, mfd,
                 notified, composer>>

MainAsksInVain ==
  /\ MainConfigs /\ mconn \in mDisconnected
  /\ mpc' = "wait"
  /\ UNCHANGED <<kernel, queue, manager, device, socket, mconn, mfd, notified,
                 composer>>

MainPushes ==
  /\ mpc = "push" /\ ~WorkerLocked
  /\ Push(mfd)
  /\ mpc' = "wait"
  /\ UNCHANGED <<kernel, manager, device, socket, mconn, mfd, notified, composer>>

(* The object was destroyed under the reference the main thread holds.     *)
MainAsksNobody ==
  mpc = "configs" /\ mRemoteDisplays[mfd] # mconn /\ Undefined

MainWakes ==
  /\ mpc = "wait" /\ notified
  /\ mpc' = "returned"
  /\ UNCHANGED <<kernel, queue, manager, device, socket, mconn, mfd, notified,
                 composer>>

MainThread == \/ ServerMode \/ \E c \in Conns : MainConnects(c)
              \/ MainEmplaces \/ MainAsks \/ MainAskFails
              \/ MainAsksInVain \/ MainPushes \/ MainAsksNobody \/ MainWakes

-----------------------------------------------------------------------------
(* The composer thread: Hwc2Display reads mRemoteDisplay and calls _send,  *)
(* which tests mDisconnected, sends, and reports a failure.                *)
ComposerTakes ==
  /\ cpc = "idle"
  /\ \E c \in held : cconn' = c
  /\ cpc' = "test"
  /\ UNCHANGED <<kernel, queue, manager, device, socket, main, cfd>>

ComposerTests ==
  /\ cpc = "test" /\ cconn \in Alive
  /\ cpc' = IF cconn \in mDisconnected THEN "done" ELSE "send"
  /\ UNCHANGED <<kernel, queue, manager, device, socket, main, cconn, cfd>>

ComposerSends ==
  /\ cpc = "send" /\ cconn \in Alive /\ ~Hung(FdOf(cconn))
  /\ cpc' = "done"
  /\ UNCHANGED <<kernel, queue, manager, device, socket, main, cconn, cfd>>

ComposerSendFails ==
  /\ cpc = "send" /\ cconn \in Alive /\ (Hung(FdOf(cconn)) \/ PeersStall)
  /\ cpc' = "report"
  /\ UNCHANGED <<kernel, queue, manager, device, socket, main, cconn, cfd>>

ComposerReports ==
  /\ cpc = "report" /\ cconn \in Alive
  /\ MarkDisconnected(cconn)
  /\ cfd' = FdOf(cconn)
  /\ cpc' = "push"
  /\ UNCHANGED <<kernel, queue, mRemoteDisplays, device, socket, main, cconn>>

ComposerPushes ==
  /\ cpc = "push" /\ ~WorkerLocked
  /\ Push(cfd)
  /\ cpc' = "done"
  /\ UNCHANGED <<kernel, manager, device, socket, main, cconn, cfd>>

ComposerDone ==
  /\ cpc = "done"
  /\ cpc' = "idle" /\ cconn' = None /\ cfd' = 0
  /\ UNCHANGED <<kernel, queue, manager, device, socket, main>>

(* The object was destroyed under the pointer the composer read.           *)
ComposerUsesDead ==
  cpc \in {"test", "send", "report"} /\ cconn \notin Alive /\ Undefined

ComposerCall == \/ ComposerTests \/ ComposerSends \/ ComposerSendFails
                \/ ComposerReports \/ ComposerPushes \/ ComposerDone
                \/ ComposerUsesDead
Composer == ComposerTakes \/ ComposerCall

-----------------------------------------------------------------------------
Next == SocketThread \/ MainThread \/ Composer \/ \E c \in Conns : Peer(c)

(* The scheduler runs every thread of the process; a composer that keeps   *)
(* presenting and peers that connect, answer or hang up are not required.  *)
Spec == /\ Init /\ [][Next]_vars
        /\ WF_vars(SocketThread) /\ WF_vars(MainThread) /\ WF_vars(ComposerCall)

-----------------------------------------------------------------------------
TypeOK ==
  /\ socketOf \in [Fds -> Conns \union {None}]
  /\ mRemoteDisplays \in [Fds -> Conns \union {None}]
  /\ epoll \subseteq Fds /\ backlog \subseteq Conns /\ unread \subseteq Conns
  /\ peer \in [Conns -> {"away", "open", "asked", "acked", "closed"}]
  /\ mPendingRemoveDisplays \in Seq(Fds) /\ pipe \in Nat
  /\ mDisconnected \subseteq Conns
  /\ held \subseteq Conns /\ taken \subseteq Conns
  /\ batch \subseteq 0 .. MaxFd + 1 /\ sfd \in 0 .. MaxFd
  /\ mfd \in 0 .. MaxFd /\ cfd \in 0 .. MaxFd
  /\ mconn \in Conns \union {None} /\ cconn \in Conns \union {None}
  /\ notified \in BOOLEAN
  /\ slips \subseteq {"twice", "early"}
  /\ spc \in {"wait", "batch", "drain", "ack", "exited", "undefined"}
  /\ mpc \in {"start", "server", "emplace", "configs", "push", "wait",
              "returned", "exited", "undefined"}
  /\ cpc \in {"idle", "test", "send", "report", "push", "done", "exited",
              "undefined"}

Running == spc \notin {"exited", "undefined"}

(* No removal is forgotten: while a descriptor is queued there is a byte   *)
(* in the pipe, or the socket thread has read it and is about to look.     *)
RemovalNotLost ==
  Running /\ mPendingRemoveDisplays # <<>> => pipe > 0 \/ spc = "drain"

(* What reaches the device is what it expects of a manager: an object is   *)
(* added before it is taken back, never after, and is taken from the       *)
(* device in the step that destroys it.                                    *)
UsesIRemoteDevice == Device!Spec

(* Descriptors and objects belong together: an object owns the descriptor  *)
(* it was made for, epoll watches exactly the open ones, and none is open  *)
(* without an object but the one connectToRemote is making its object for. *)
(* What breaks it is an event that comes before the object, or a           *)
(* descriptor queued twice and reused between its two removals.            *)
FdsOwned ==
  Running /\ slips = {} =>
    /\ \A f \in Fds : IF mpc = "emplace" /\ f = mfd
                        THEN mRemoteDisplays[f] = None /\ socketOf[f] = mconn
                        ELSE mRemoteDisplays[f] = socketOf[f]
    /\ epoll = {f \in Fds : socketOf[f] # None}

(* Only objects that were seen disconnected are destroyed, as long as no   *)
(* two threads report the same disconnection and no event comes early.     *)
OnlyDisconnectedRemoved == slips = {} => taken \subseteq mDisconnected

(* A remote seen disconnected is eventually taken from the device and      *)
(* destroyed, unless the process ends, an event came before the object, or *)
(* accept has no descriptor left.                                          *)
DisconnectedRemoved ==
  LET starved == Free = {} /\ backlog # {} IN
  \A c \in Conns : c \in mDisconnected ~>
    (c \in taken \/ ~Running \/ "early" \in slips \/ starved)

(* "wait the display config ready": connectToRemote returns only after the *)
(* remote it connected to has reported its configuration.                  *)
ConfigReady == mpc = "returned" => mconn \in held \union taken

(* "This shouldn't happen": no event is for a descriptor without an object. *)
EveryEventKnown ==
  spc = "batch" => \A f \in batch \intersect Fds : mRemoteDisplays[f] # None
=============================================================================

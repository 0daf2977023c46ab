----------------------- MODULE RemoteDisplayMgr_proofs -----------------------
(***************************************************************************)
(* Proofs about RemoteDisplayMgr, for any number of connections and        *)
(* descriptors and every interleaving of the three threads with the other  *)
(* ends of the connections.                                                *)
(***************************************************************************)
EXTENDS RemoteDisplayMgr, FirstLast, TLAPS

LEMMA ConstantFacts ==
  /\ MaxFd \in Nat \ {0} /\ None \notin Conns /\ Fds \subseteq 0 .. MaxFd
  /\ ServerFd \in 0 .. MaxFd + 1 /\ PipeFd \in 0 .. MaxFd + 1
  BY MgrAssumption DEF MgrAssumption, None, Fds, ServerFd, PipeFd

(* The lowest free descriptor is a free one.                               *)
LEMMA LowestIsFree ==
  ASSUME Free # {} PROVE Lowest(Free) \in Fds /\ socketOf[Lowest(Free)] = None
<1>1. Free \in SUBSET (0 .. MaxFd) /\ MaxFd \in Nat
  BY ConstantFacts DEF Free
<1>2. \E f \in Free : \A g \in Free : f <= g
  BY <1>1, FirstExists
<1>3. Lowest(Free) \in Free
  BY <1>2 DEF Lowest
<1>4. QED
  BY <1>3 DEF Free

(* The queue of removals.                                                  *)
Queued(q, f) == \E k \in 1 .. Len(q) : q[k] = f
EachOnce(q) == \A j, k \in 1 .. Len(q) : q[j] = q[k] => j = k

LEMMA Appended ==
  ASSUME NEW q \in Seq(Fds), NEW f \in Fds
  PROVE  LET p == Append(q, f) IN
         /\ p \in Seq(Fds)
         /\ \A g : Queued(p, g) => Queued(q, g) \/ g = f
         /\ EachOnce(q) /\ ~Queued(q, f) => EachOnce(p)
<1> DEFINE p == Append(q, f)
<1>1. /\ p \in Seq(Fds) /\ Len(p) = Len(q) + 1 /\ Len(q) \in Nat
      /\ \A k \in 1 .. Len(q) : p[k] = q[k]
      /\ p[Len(q) + 1] = f
  OBVIOUS
<1> HIDE DEF p
<1>2. \A k \in 1 .. Len(p) : k \in 1 .. Len(q) \/ k = Len(q) + 1
  BY <1>1
<1>3. ASSUME NEW g, Queued(p, g) PROVE Queued(q, g) \/ g = f
  BY <1>1, <1>2, <1>3 DEF Queued
<1>4. ASSUME EachOnce(q), ~Queued(q, f) PROVE EachOnce(p)
  <2>1. \A k \in 1 .. Len(q) : q[k] # f
    BY <1>4 DEF Queued
  <2>2. QED
    BY <1>1, <1>2, <1>4, <2>1 DEF EachOnce
<1>5. QED
  BY <1>1, <1>3, <1>4 DEF p

LEMMA Popped ==
  ASSUME NEW q \in Seq(Fds), q # <<>>
  PROVE  LET p == Tail(q) IN
         /\ Head(q) \in Fds /\ Queued(q, Head(q)) /\ p \in Seq(Fds)
         /\ \A g : Queued(p, g) => Queued(q, g)
         /\ EachOnce(q) => EachOnce(p) /\ ~Queued(p, Head(q))
<1> DEFINE p == Tail(q)
<1>1. /\ p \in Seq(Fds) /\ Len(q) \in Nat /\ Len(q) > 0 /\ Len(p) = Len(q) - 1
      /\ \A k \in 1 .. Len(p) : p[k] = q[k + 1]
      /\ Head(q) = q[1] /\ Head(q) \in Fds
  OBVIOUS
<1> HIDE DEF p
<1>2. \A k \in 1 .. Len(p) : k + 1 \in 1 .. Len(q) /\ k + 1 # 1
  BY <1>1
<1>3. Queued(q, Head(q))
  BY <1>1 DEF Queued
<1>4. ASSUME NEW g, Queued(p, g) PROVE Queued(q, g)
  BY <1>1, <1>2, <1>4 DEF Queued
<1>5. ASSUME EachOnce(q) PROVE EachOnce(p) /\ ~Queued(p, Head(q))
  <2>1. EachOnce(p)
    BY <1>1, <1>2, <1>5 DEF EachOnce
  <2>2. ~Queued(p, Head(q))
    <3> SUFFICES ASSUME NEW k \in 1 .. Len(p), p[k] = q[1] PROVE FALSE
      BY <1>1 DEF Queued
    <3>1. q[k + 1] = q[1] /\ 1 \in 1 .. Len(q)
      BY <1>1
    <3>2. QED
      BY <1>2, <1>5, <3>1 DEF EachOnce
  <2>3. QED
    BY <2>1, <2>2
<1>6. QED
  BY <1>1, <1>3, <1>4, <1>5 DEF p

-----------------------------------------------------------------------------
(* Type correctness needs that a thread that is about to make or to report *)
(* an object has its descriptor at hand.                                   *)
Hands ==
  /\ mpc \in {"emplace", "configs", "push"} => mfd \in Fds /\ mconn \in Conns
  /\ cpc = "push" => cfd \in Fds
  /\ spc = "ack" => sfd \in Fds

Typed == TypeOK /\ Hands

LEMMA TypedInit == Init => Typed
<1> SUFFICES ASSUME Init PROVE Typed
  OBVIOUS
<1>1. /\ socketOf \in [Fds -> Conns \union {None}]
      /\ mRemoteDisplays \in [Fds -> Conns \union {None}]
      /\ peer \in [Conns -> {"away", "open", "asked", "acked", "closed"}]
  BY DEF Init
<1>2. mPendingRemoveDisplays \in Seq(Fds) /\ pipe \in Nat
  BY DEF Init
<1>3. sfd \in 0 .. MaxFd /\ mfd \in 0 .. MaxFd /\ cfd \in 0 .. MaxFd
  BY ConstantFacts DEF Init
<1>4. notified \in BOOLEAN
  BY DEF Init
<1>5. QED
  BY <1>1, <1>2, <1>3, <1>4 DEF Init, Device!Init, Typed, TypeOK, Hands

(* What the larger steps do.                                               *)
LEMMA PushStep ==
  ASSUME Typed, NEW f \in Fds, Push(f)
  PROVE  /\ mPendingRemoveDisplays' \in Seq(Fds) /\ pipe' \in Nat /\ pipe' > 0
         /\ \A g : Queued(mPendingRemoveDisplays', g) =>
                     Queued(mPendingRemoveDisplays, g) \/ g = f
         /\ EachOnce(mPendingRemoveDisplays) /\ ~Queued(mPendingRemoveDisplays, f) =>
              EachOnce(mPendingRemoveDisplays')
  BY Appended DEF Typed, TypeOK, Push

LEMMA AcceptStep ==
  ASSUME Typed, Accept
  PROVE  \E c \in backlog, f \in Fds :
           LET remote == Emplaced(f, c) IN
           /\ socketOf[f] = None /\ remote \in Conns
           /\ backlog' = backlog \ {c}
           /\ socketOf' = [socketOf EXCEPT ![f] = c]
           /\ epoll' = epoll \union {f}
           /\ mRemoteDisplays' = [mRemoteDisplays EXCEPT ![f] = remote]
           /\ peer' = peer \/ peer' = [peer EXCEPT ![c] = "asked"]
           /\ \/ /\ remote \notin mDisconnected
                 /\ MarkDisconnected(remote) /\ Push(f)
              \/ UNCHANGED <<mPendingRemoveDisplays, pipe, mDisconnected, slips>>
<1> DEFINE f == Lowest(Free)
<1>1. f \in Fds /\ socketOf[f] = None
  BY LowestIsFree DEF Accept
<1> HIDE DEF f
<1>2. PICK c \in backlog :
        LET remote == Emplaced(f, c) IN
        /\ backlog' = backlog \ {c}
        /\ socketOf' = [socketOf EXCEPT ![f] = c]
        /\ epoll' = epoll \union {f}
        /\ mRemoteDisplays' = [mRemoteDisplays EXCEPT ![f] = remote]
        /\ \/ /\ remote \notin mDisconnected /\ peer[c] = "closed"
              /\ MarkDisconnected(remote) /\ Push(f) /\ UNCHANGED peer
           \/ /\ remote \notin mDisconnected /\ peer[c] = "open"
              /\ peer' = [peer EXCEPT ![c] = "asked"]
              /\ UNCHANGED <<queue, mDisconnected, slips>>
           \/ /\ remote \in mDisconnected
              /\ UNCHANGED <<peer, queue, mDisconnected, slips>>
  BY DEF Accept, f
<1>3. Emplaced(f, c) \in Conns
  BY <1>1 DEF Emplaced, Typed, TypeOK
<1>4. QED
  BY <1>1, <1>2, <1>3 DEF queue

LEMMA DrainStep ==
  ASSUME Typed, DrainOne
  PROVE  LET f == Head(mPendingRemoveDisplays) IN
         /\ f \in Fds /\ Queued(mPendingRemoveDisplays, f)
         /\ \/ f \notin epoll /\ Exit
            \/ /\ UNCHANGED <<backlog, peer, unread, pipe, mDisconnected, slips,
                              socket, main, composer>>
               /\ mPendingRemoveDisplays' = Tail(mPendingRemoveDisplays)
               /\ mPendingRemoveDisplays' \in Seq(Fds)
               /\ \A g : Queued(mPendingRemoveDisplays', g) => Queued(mPendingRemoveDisplays, g)
               /\ EachOnce(mPendingRemoveDisplays) =>
                    EachOnce(mPendingRemoveDisplays') /\ ~Queued(mPendingRemoveDisplays', f)
               /\ epoll' = epoll \ {f}
               /\ \/ /\ mRemoteDisplays[f] \in Conns
                     /\ held' = held \ {mRemoteDisplays[f]}
                     /\ taken' = taken \union {mRemoteDisplays[f]}
                     /\ mRemoteDisplays' = [mRemoteDisplays EXCEPT ![f] = None]
                     /\ socketOf' = [socketOf EXCEPT ![f] = None]
                  \/ /\ mRemoteDisplays[f] = None
                     /\ UNCHANGED <<socketOf, mRemoteDisplays, held, taken>>
<1> DEFINE f == Head(mPendingRemoveDisplays)
<1>1. mPendingRemoveDisplays \in Seq(Fds) /\ mPendingRemoveDisplays # <<>>
  BY DEF Typed, TypeOK, DrainOne
<1>2. f \in Fds /\ Queued(mPendingRemoveDisplays, f)
  BY <1>1, Popped
<1>3. CASE f \notin epoll
  BY <1>2, <1>3 DEF DrainOne, removeRemoteDisplay
<1>4. CASE f \in epoll
  <2>1. /\ UNCHANGED <<backlog, peer, unread, pipe, mDisconnected, slips,
                       socket, main, composer>>
        /\ mPendingRemoveDisplays' = Tail(mPendingRemoveDisplays)
    BY <1>4 DEF DrainOne, removeRemoteDisplay
  <2>2. /\ epoll' = epoll \ {f}
        /\ \/ /\ mRemoteDisplays[f] # None
              /\ held' = held \ {mRemoteDisplays[f]}
              /\ taken' = taken \union {mRemoteDisplays[f]}
              /\ mRemoteDisplays' = [mRemoteDisplays EXCEPT ![f] = None]
              /\ socketOf' = [socketOf EXCEPT ![f] = None]
           \/ /\ mRemoteDisplays[f] = None
              /\ UNCHANGED <<socketOf, mRemoteDisplays, held, taken>>
    BY <1>4 DEF DrainOne, removeRemoteDisplay, DeviceRemoves, Erase, CloseFd, device
  <2>3. mRemoteDisplays[f] \in Conns \union {None}
    BY <1>2 DEF Typed, TypeOK
  <2>4. /\ Tail(mPendingRemoveDisplays) \in Seq(Fds)
        /\ \A g : Queued(Tail(mPendingRemoveDisplays), g) => Queued(mPendingRemoveDisplays, g)
        /\ EachOnce(mPendingRemoveDisplays) =>
             /\ EachOnce(Tail(mPendingRemoveDisplays))
             /\ ~Queued(Tail(mPendingRemoveDisplays), f)
    BY <1>1, Popped
  <2>5. QED
    BY <1>2, <2>1, <2>2, <2>3, <2>4
<1>5. QED
  BY <1>3, <1>4
LEMMA StopStep ==
  ASSUME Typed, Exit \/ Undefined
  PROVE  Typed' /\ spc' \in {"exited", "undefined"}
         /\ UNCHANGED <<kernel, queue, manager, device>>
  BY DEF Exit, Undefined, Stop, Typed, TypeOK, Hands, kernel, queue, manager, device

LEMMA TypedSocket == Typed /\ SocketThread => Typed'
<1> SUFFICES ASSUME Typed, SocketThread PROVE Typed'
  OBVIOUS
<1> USE ConstantFacts DEF kernel, queue, manager, device, socket, main, composer
<1>1. CASE EpollWait
  <2>1. batch' \subseteq 0 .. MaxFd + 1
    <3>1. batch' \subseteq Fds \union {PipeFd, ServerFd}
      BY <1>1 DEF EpollWait, Ready, Typed, TypeOK
    <3>2. Fds \union {PipeFd, ServerFd} \subseteq 0 .. MaxFd + 1
      BY DEF Fds, PipeFd, ServerFd
    <3>3. QED
      BY <3>1, <3>2
  <2>2. QED
    BY <1>1, <2>1 DEF EpollWait, Typed, TypeOK, Hands
<1>2. CASE BatchDone \/ AcceptFails \/ DrainDone
  <2>1. CASE BatchDone
    BY <2>1 DEF BatchDone, Typed, TypeOK, Hands
  <2>2. CASE AcceptFails
    BY <2>2 DEF AcceptFails, Typed, TypeOK, Hands
  <2>3. CASE DrainDone
    BY <2>3 DEF DrainDone, Typed, TypeOK, Hands
  <2>4. QED
    BY <1>2, <2>1, <2>2, <2>3
<1>3. CASE Accept
  <2>1. PICK c \in backlog, f \in Fds :
           LET remote == Emplaced(f, c) IN
           /\ socketOf[f] = None /\ remote \in Conns
           /\ backlog' = backlog \ {c}
           /\ socketOf' = [socketOf EXCEPT ![f] = c]
           /\ epoll' = epoll \union {f}
           /\ mRemoteDisplays' = [mRemoteDisplays EXCEPT ![f] = remote]
           /\ peer' = peer \/ peer' = [peer EXCEPT ![c] = "asked"]
           /\ \/ /\ remote \notin mDisconnected
                 /\ MarkDisconnected(remote) /\ Push(f)
              \/ UNCHANGED <<mPendingRemoveDisplays, pipe, mDisconnected, slips>>
    BY <1>3, AcceptStep
  <2>2. mPendingRemoveDisplays' \in Seq(Fds) /\ pipe' \in Nat
    BY <2>1, PushStep DEF Typed, TypeOK
  <2>3. mDisconnected' \subseteq Conns /\ slips' \subseteq {"twice", "early"}
    BY <2>1 DEF MarkDisconnected, Typed, TypeOK
  <2>4. /\ socketOf' \in [Fds -> Conns \union {None}] /\ epoll' \subseteq Fds
        /\ mRemoteDisplays' \in [Fds -> Conns \union {None}] /\ backlog' \subseteq Conns
    BY <2>1 DEF Typed, TypeOK
  <2>5. peer' \in [Conns -> {"away", "open", "asked", "acked", "closed"}]
    BY <2>1 DEF Typed, TypeOK
  <2>6. batch' \subseteq 0 .. MaxFd + 1 /\ UNCHANGED <<unread, device, spc, sfd, main, composer>>
    BY <1>3 DEF Accept, Typed, TypeOK
  <2>7. QED
    BY <2>2, <2>3, <2>4, <2>5, <2>6 DEF Typed, TypeOK, Hands
<1>4. CASE Reject
  <2>1. PICK c \in backlog : backlog' = backlog \ {c} /\ peer' = [peer EXCEPT ![c] = "closed"]
    BY <1>4 DEF Reject
  <2>2. /\ backlog' \subseteq Conns
        /\ peer' \in [Conns -> {"away", "open", "asked", "acked", "closed"}]
    BY <2>1 DEF Typed, TypeOK
  <2>3. QED
    BY <1>4, <2>2 DEF Reject, Typed, TypeOK, Hands
<1>5. CASE ReadPipe
  <2>1. pipe' \in Nat
    BY <1>5 DEF ReadPipe, Typed, TypeOK
  <2>2. QED
    BY <1>5, <2>1 DEF ReadPipe, Typed, TypeOK, Hands
<1>6. CASE DrainOne
  <2> DEFINE f == Head(mPendingRemoveDisplays)
  <2>1. /\ f \in Fds
        /\ \/ Exit
           \/ /\ UNCHANGED <<backlog, peer, unread, pipe, mDisconnected, slips,
                              socket, main, composer>>
              /\ mPendingRemoveDisplays' \in Seq(Fds)
              /\ epoll' = epoll \ {f}
              /\ \/ /\ mRemoteDisplays[f] \in Conns
                    /\ held' = held \ {mRemoteDisplays[f]}
                    /\ taken' = taken \union {mRemoteDisplays[f]}
                    /\ mRemoteDisplays' = [mRemoteDisplays EXCEPT ![f] = None]
                    /\ socketOf' = [socketOf EXCEPT ![f] = None]
                 \/ UNCHANGED <<socketOf, mRemoteDisplays, held, taken>>
    BY <1>6, DrainStep
  <2> HIDE DEF f
  <2>2. CASE Exit
    BY <2>2, StopStep
  <2>3. CASE ~Exit
    <3>1. /\ socketOf' \in [Fds -> Conns \union {None}] /\ epoll' \subseteq Fds
          /\ mRemoteDisplays' \in [Fds -> Conns \union {None}]
          /\ held' \subseteq Conns /\ taken' \subseteq Conns
      BY <2>1, <2>3 DEF Typed, TypeOK
    <3>2. /\ UNCHANGED <<backlog, peer, unread, pipe, mDisconnected, slips,
                         socket, main, composer>>
          /\ mPendingRemoveDisplays' \in Seq(Fds)
      BY <2>1, <2>3
    <3>3. QED
      BY <3>1, <3>2 DEF Typed, TypeOK, Hands
  <2>4. QED
    BY <2>2, <2>3
<1>7. ASSUME NEW f \in Fds, EventAck(f) PROVE Typed'
  BY <1>7 DEF EventAck, Event, Typed, TypeOK, Hands
<1>8. ASSUME NEW f \in Fds, EventFails(f) PROVE Typed'
  <2>1. mPendingRemoveDisplays' \in Seq(Fds) /\ pipe' \in Nat
    BY <1>8, PushStep DEF EventFails
  <2>2. mDisconnected' \subseteq Conns /\ slips' \subseteq {"twice", "early"}
    BY <1>8 DEF EventFails, MarkDisconnected, Typed, TypeOK
  <2>3. QED
    BY <1>8, <2>1, <2>2 DEF EventFails, Event, Typed, TypeOK, Hands
<1>9. ASSUME NEW f \in Fds, EventIgnored(f) PROVE Typed'
  BY <1>9 DEF EventIgnored, Event, Typed, TypeOK, Hands
<1>10. ASSUME NEW f \in Fds, EventUnknown(f) PROVE Typed'
  BY <1>10 DEF EventUnknown, Event, CloseFd, Typed, TypeOK, Hands
<1>11. ASSUME NEW f \in Fds, EventUnknownExits(f) PROVE Typed'
  BY <1>11, StopStep DEF EventUnknownExits
<1>12. CASE OnConnect
  <2>1. held' \subseteq Conns
    BY <1>12 DEF OnConnect, Typed, TypeOK, Hands
  <2>2. notified' \in BOOLEAN
    BY <1>12 DEF OnConnect, Typed, TypeOK
  <2>3. QED
    BY <1>12, <2>1, <2>2 DEF OnConnect, Typed, TypeOK, Hands
<1>13. QED
  BY <1>1, <1>2, <1>3, <1>4, <1>5, <1>6, <1>7, <1>8, <1>9, <1>10, <1>11, <1>12
     DEF SocketThread

LEMMA MainConnectsStep ==
  ASSUME Typed, NEW c \in Conns, MainConnects(c)
  PROVE  \E f \in Fds :
           /\ socketOf[f] = None /\ mfd' = f /\ mconn' = c /\ mpc' = "emplace"
           /\ socketOf' = [socketOf EXCEPT ![f] = c]
           /\ epoll' = epoll \union {f}
  BY LowestIsFree DEF MainConnects

LEMMA TypedMain == Typed /\ MainThread => Typed'
<1> SUFFICES ASSUME Typed, MainThread PROVE Typed'
  OBVIOUS
<1> USE ConstantFacts DEF kernel, queue, manager, device, socket, main, composer
<1>1. CASE ServerMode \/ MainAsksInVain \/ MainWakes
  BY <1>1 DEF ServerMode, MainAsksInVain, MainWakes, Typed, TypeOK, Hands
<1>2. ASSUME NEW c \in Conns, MainConnects(c) PROVE Typed'
  <2>1. PICK f \in Fds :
           /\ socketOf[f] = None /\ mfd' = f /\ mconn' = c /\ mpc' = "emplace"
           /\ socketOf' = [socketOf EXCEPT ![f] = c]
           /\ epoll' = epoll \union {f}
    BY <1>2, MainConnectsStep
  <2>2. peer' \in [Conns -> {"away", "open", "asked", "acked", "closed"}]
    BY <1>2 DEF MainConnects, Typed, TypeOK
  <2>3. QED
    BY <1>2, <2>1, <2>2 DEF MainConnects, Typed, TypeOK, Hands
<1>3. CASE MainEmplaces
  <2>1. mconn' \in Conns
    BY <1>3 DEF MainEmplaces, Emplaced, Typed, TypeOK, Hands
  <2>2. QED
    BY <1>3, <2>1 DEF MainEmplaces, Typed, TypeOK, Hands
<1>4. CASE MainAsks
  <2>1. peer' \in [Conns -> {"away", "open", "asked", "acked", "closed"}]
    BY <1>4 DEF MainAsks, Typed, TypeOK
  <2>2. QED
    BY <1>4, <2>1 DEF MainAsks, Typed, TypeOK, Hands
<1>5. CASE MainAskFails
  BY <1>5 DEF MainAskFails, MainConfigs, MarkDisconnected, Typed, TypeOK, Hands
<1>6. CASE MainPushes
  <2>1. mPendingRemoveDisplays' \in Seq(Fds) /\ pipe' \in Nat
    BY <1>6, PushStep DEF MainPushes, Typed, Hands
  <2>2. QED
    BY <1>6, <2>1 DEF MainPushes, Typed, TypeOK, Hands
<1>7. CASE MainAsksNobody
  BY <1>7, StopStep DEF MainAsksNobody
<1>8. QED
  BY <1>1, <1>2, <1>3, <1>4, <1>5, <1>6, <1>7 DEF MainThread

LEMMA FdOfAlive ==
  ASSUME NEW c \in Alive
  PROVE  c # None /\ FdOf(c) \in Fds /\ mRemoteDisplays[FdOf(c)] = c
  BY DEF Alive, FdOf

LEMMA TypedComposer == Typed /\ Composer => Typed'
<1> SUFFICES ASSUME Typed, Composer PROVE Typed'
  OBVIOUS
<1> USE ConstantFacts DEF kernel, queue, manager, device, socket, main, composer
<1>1. CASE ComposerTakes
  BY <1>1 DEF ComposerTakes, Typed, TypeOK, Hands
<1>2. CASE ComposerTests \/ ComposerSends \/ ComposerSendFails
  BY <1>2 DEF ComposerTests, ComposerSends, ComposerSendFails, Typed, TypeOK, Hands
<1>3. CASE ComposerReports
  <2>1. cfd' \in Fds /\ cconn \in Conns
    BY <1>3, FdOfAlive DEF ComposerReports, Typed, TypeOK
  <2>2. QED
    BY <1>3, <2>1 DEF ComposerReports, MarkDisconnected, Typed, TypeOK, Hands
<1>4. CASE ComposerPushes
  <2>1. mPendingRemoveDisplays' \in Seq(Fds) /\ pipe' \in Nat
    BY <1>4, PushStep DEF ComposerPushes, Typed, Hands
  <2>2. QED
    BY <1>4, <2>1 DEF ComposerPushes, Typed, TypeOK, Hands
<1>5. CASE ComposerUsesDead
  BY <1>5, StopStep DEF ComposerUsesDead
<1>6. CASE ComposerDone
  BY <1>6 DEF ComposerDone, Typed, TypeOK, Hands
<1>7. QED
  BY <1>1, <1>2, <1>3, <1>4, <1>5, <1>6 DEF Composer, ComposerCall

LEMMA TypedPeer == ASSUME Typed, NEW c \in Conns, Peer(c) PROVE Typed'
<1> USE DEF kernel, queue, manager, device, socket, main, composer
<1>1. CASE PeerConnects(c)
  BY <1>1 DEF PeerConnects, Typed, TypeOK, Hands
<1>2. CASE PeerAcks(c)
  BY <1>2 DEF PeerAcks, Typed, TypeOK, Hands
<1>3. CASE PeerCloses(c)
  BY <1>3 DEF PeerCloses, Typed, TypeOK, Hands
<1>4. QED
  BY <1>1, <1>2, <1>3 DEF Peer

LEMMA TypedNext == Typed /\ [Next]_vars => Typed'
<1>1. ASSUME Typed, UNCHANGED vars PROVE Typed'
  BY <1>1 DEF vars, kernel, queue, manager, device, socket, main, composer,
              Typed, TypeOK, Hands
<1>2. QED
  BY <1>1, TypedSocket, TypedMain, TypedComposer, TypedPeer DEF Next

(* Every reachable state of the manager is well formed.                    *)
THEOREM MgrTyped == Spec => []TypeOK
<1>1. Typed => TypeOK
  BY DEF Typed
<1>2. QED
  BY <1>1, TypedInit, TypedNext, PTL DEF Spec

-----------------------------------------------------------------------------
(* onDisconnect queues and writes in one critical section, and the socket  *)
(* thread empties the pipe before it looks at the queue.                   *)
LEMMA NotLostNext == Typed /\ RemovalNotLost /\ [Next]_vars => RemovalNotLost'
<1> SUFFICES ASSUME Typed, RemovalNotLost, [Next]_vars PROVE RemovalNotLost'
  OBVIOUS
<1> USE DEF RemovalNotLost, Running,
            kernel, queue, manager, device, socket, main, composer
<1>1. ASSUME NEW f \in Fds, Push(f) PROVE RemovalNotLost'
  BY <1>1, PushStep
<1>2. ASSUME UNCHANGED <<queue, spc>> PROVE RemovalNotLost'
  BY <1>2
<1>3. CASE SocketThread
  <2>1. CASE EpollWait \/ BatchDone
    BY <2>1 DEF EpollWait, BatchDone
  <2>2. CASE Accept
    BY <1>1, <1>2, <2>2, AcceptStep DEF Accept
  <2>3. CASE Reject \/ AcceptFails
    BY <2>3 DEF Reject, AcceptFails
  <2>4. CASE ReadPipe
    BY <2>4 DEF ReadPipe
  <2>5. CASE DrainOne
    BY <2>5, DrainStep, StopStep DEF DrainOne
  <2>6. CASE DrainDone
    BY <2>6 DEF DrainDone
  <2>7. CASE OnConnect
    BY <2>7 DEF OnConnect
  <2>8. ASSUME NEW f \in Fds, EventAck(f) \/ EventIgnored(f) \/ EventUnknown(f)
        PROVE  RemovalNotLost'
    BY <2>8 DEF EventAck, EventIgnored, EventUnknown, Event
  <2>9. ASSUME NEW f \in Fds, EventFails(f) PROVE RemovalNotLost'
    BY <1>1, <2>9 DEF EventFails
  <2>10. ASSUME NEW f \in Fds, EventUnknownExits(f) PROVE RemovalNotLost'
    BY <2>10, StopStep DEF EventUnknownExits
  <2>11. QED
    BY <1>3, <2>1, <2>2, <2>3, <2>4, <2>5, <2>6, <2>7, <2>8, <2>9, <2>10 DEF SocketThread
<1>4. CASE MainThread
  <2>1. CASE MainPushes
    BY <1>1, <2>1 DEF MainPushes, Typed, Hands
  <2>2. CASE MainAsksNobody
    BY <2>2, StopStep DEF MainAsksNobody
  <2>3. CASE \/ ServerMode \/ \E c \in Conns : MainConnects(c)
             \/ MainEmplaces \/ MainAsks \/ MainAskFails \/ MainAsksInVain \/ MainWakes
    BY <2>3 DEF ServerMode, MainConnects, MainEmplaces, MainAsks, MainAskFails,
                MainAsksInVain, MainWakes
  <2>4. QED
    BY <1>4, <2>1, <2>2, <2>3 DEF MainThread
<1>5. CASE Composer
  <2>1. CASE ComposerPushes
    BY <1>1, <2>1 DEF ComposerPushes, Typed, Hands
  <2>2. CASE ComposerUsesDead
    BY <2>2, StopStep DEF ComposerUsesDead
  <2>3. CASE ComposerTakes \/ ComposerTests \/ ComposerSends \/ ComposerSendFails
             \/ ComposerReports \/ ComposerDone
    BY <2>3 DEF ComposerTakes, ComposerTests, ComposerSends, ComposerSendFails,
                ComposerReports, ComposerDone
  <2>4. QED
    BY <1>5, <2>1, <2>2, <2>3 DEF Composer, ComposerCall
<1>6. CASE (\E c \in Conns : Peer(c)) \/ UNCHANGED vars
  BY <1>6 DEF Peer, PeerConnects, PeerAcks, PeerCloses, vars
<1>7. QED
  BY <1>3, <1>4, <1>5, <1>6 DEF Next

(* A removal that is queued wakes the socket thread: the byte that was     *)
(* written for it is read only by who then works the queue off, however    *)
(* many threads queue removals meanwhile (onDisconnect, socketThreadProc). *)
THEOREM NoRemovalIsLost == Spec => []RemovalNotLost
<1>1. Init => RemovalNotLost
  BY DEF Init, RemovalNotLost
<1>2. QED
  BY <1>1, TypedInit, TypedNext, NotLostNext, PTL DEF Spec
-----------------------------------------------------------------------------
(* Objects.  A connection gets at most one object, when it is accepted or  *)
(* made, in the map under one descriptor, and none any more once the       *)
(* device has given it back.                                               *)
New(c) == c \notin taken /\ \A f \in Fds : mRemoteDisplays[f] # c

MadeOnce ==
  /\ \A f \in Fds : mRemoteDisplays[f] \notin taken
  /\ \A f, g \in Fds : mRemoteDisplays[f] = mRemoteDisplays[g] =>
                         f = g \/ mRemoteDisplays[f] = None
  /\ \A c \in Conns : c \in backlog \/ peer[c] = "away" => New(c)
  /\ \A c \in backlog : peer[c] # "away"
  /\ mpc = "emplace" => New(mconn) /\ mconn \notin backlog /\ peer[mconn] # "away"

(* A step that makes and destroys no object.                               *)
LEMMA MadeOnceKept ==
  ASSUME MadeOnce, UNCHANGED <<mRemoteDisplays, taken>>,
         mpc' = "emplace" => mpc = "emplace" /\ mconn' = mconn,
         backlog' \subseteq backlog, backlog \subseteq Conns,
         \A c \in Conns : peer'[c] = "away" => peer[c] = "away",
         mpc = "emplace" => mconn \in Conns
  PROVE  MadeOnce'
  BY DEF MadeOnce, New

LEMMA MadeOnceInit == Init => MadeOnce
  BY ConstantFacts DEF Init, Device!Init, MadeOnce, New

LEMMA MadeOnceSocket == Typed /\ MadeOnce /\ SocketThread => MadeOnce'
<1> SUFFICES ASSUME Typed, MadeOnce, SocketThread PROVE MadeOnce'
  OBVIOUS
<1> USE DEF kernel, queue, manager, device, socket, main, composer
<1>0. backlog \subseteq Conns /\ (mpc = "emplace" => mconn \in Conns)
  BY DEF Typed, TypeOK, Hands
<1>1. CASE EpollWait \/ BatchDone \/ AcceptFails \/ ReadPipe \/ DrainDone \/ OnConnect
  BY <1>0, <1>1, MadeOnceKept
     DEF EpollWait, BatchDone, AcceptFails, ReadPipe, DrainDone, OnConnect
<1>2. CASE Accept
  <2>1. PICK c \in backlog, f \in Fds :
           LET remote == Emplaced(f, c) IN
           /\ backlog' = backlog \ {c}
           /\ mRemoteDisplays' = [mRemoteDisplays EXCEPT ![f] = remote]
           /\ peer' = peer \/ peer' = [peer EXCEPT ![c] = "asked"]
    BY <1>2, AcceptStep
  <2>2. UNCHANGED <<taken, mpc, mconn>>
    BY <1>2 DEF Accept
  <2>3. \A d \in Conns : peer'[d] = "away" => peer[d] = "away"
    BY <1>0, <2>1 DEF Typed, TypeOK
  <2>4. CASE mRemoteDisplays[f] # None
    <3>1. mRemoteDisplays' = mRemoteDisplays
      BY <2>1, <2>4 DEF Emplaced, Typed, TypeOK
    <3>2. QED
      BY <1>0, <2>1, <2>2, <2>3, <3>1, MadeOnceKept
  <2>5. CASE mRemoteDisplays[f] = None
    <3>1. /\ mRemoteDisplays'[f] = c /\ mRemoteDisplays'[f] # None
          /\ \A g \in Fds \ {f} : mRemoteDisplays'[g] = mRemoteDisplays[g]
      BY <1>0, <2>1, <2>5, ConstantFacts DEF Emplaced, Typed, TypeOK
    <3>2. New(c) /\ peer[c] # "away" /\ (mpc = "emplace" => mconn # c)
      BY <1>0 DEF MadeOnce
    <3>3. \A d \in Conns \ {c} : New(d) => New(d)'
      BY <2>2, <3>1 DEF New
    <3>4. \A d \in Conns : d \in backlog' \/ peer'[d] = "away" => New(d)'
      BY <1>0, <2>1, <2>3, <3>2, <3>3 DEF MadeOnce
    <3>5. mpc' = "emplace" => (New(mconn) /\ mconn \notin backlog /\ peer[mconn] # "away")'
      BY <1>0, <2>1, <2>2, <2>3, <3>2, <3>3 DEF MadeOnce, New
    <3>6. \A d \in backlog' : peer'[d] # "away"
      BY <1>0, <2>1, <2>3 DEF MadeOnce
    <3>7. \A g, h \in Fds : mRemoteDisplays'[g] = mRemoteDisplays'[h] =>
                              g = h \/ mRemoteDisplays'[g] = None
      BY <3>1, <3>2 DEF MadeOnce, New
    <3>8. \A g \in Fds : mRemoteDisplays'[g] \notin taken'
      BY <2>2, <3>1, <3>2 DEF MadeOnce, New
    <3>9. QED
      BY <3>4, <3>5, <3>6, <3>7, <3>8 DEF MadeOnce
  <2>6. QED
    BY <2>4, <2>5
<1>3. CASE Reject
  <2>1. PICK c \in backlog : backlog' = backlog \ {c} /\ peer' = [peer EXCEPT ![c] = "closed"]
    BY <1>3 DEF Reject
  <2>2. \A d \in Conns : peer'[d] = "away" => peer[d] = "away"
    BY <1>0, <2>1 DEF Typed, TypeOK
  <2>3. QED
    BY <1>0, <1>3, <2>1, <2>2, MadeOnceKept DEF Reject
<1>4. CASE DrainOne
  <2> DEFINE f == Head(mPendingRemoveDisplays)
  <2>1. CASE Exit
    BY <1>0, <2>1, MadeOnceKept DEF Exit, Stop
  <2>2. CASE ~Exit
    <3>1. /\ f \in Fds
          /\ UNCHANGED <<backlog, peer, mpc, mconn>>
          /\ \/ /\ mRemoteDisplays[f] \in Conns
                /\ taken' = taken \union {mRemoteDisplays[f]}
                /\ mRemoteDisplays' = [mRemoteDisplays EXCEPT ![f] = None]
             \/ UNCHANGED <<mRemoteDisplays, taken>>
      BY <1>4, <2>2, DrainStep
    <3> HIDE DEF f
    <3>2. CASE UNCHANGED <<mRemoteDisplays, taken>>
      BY <1>0, <3>1, <3>2, MadeOnceKept
    <3>3. CASE /\ mRemoteDisplays[f] \in Conns
               /\ taken' = taken \union {mRemoteDisplays[f]}
               /\ mRemoteDisplays' = [mRemoteDisplays EXCEPT ![f] = None]
      <4>1. /\ mRemoteDisplays'[f] = None /\ None \notin taken' /\ None \notin Conns
            /\ \A g \in Fds \ {f} : mRemoteDisplays'[g] = mRemoteDisplays[g]
        BY <3>1, <3>3, ConstantFacts DEF Typed, TypeOK
      <4>2. \A g \in Fds \ {f} : mRemoteDisplays[g] # mRemoteDisplays[f]
        BY <3>1, <3>3, ConstantFacts DEF MadeOnce
      <4>3. \A d \in Conns : New(d) => New(d)'
        BY <3>1, <3>3, <4>1 DEF New
      <4>4. \A g \in Fds : mRemoteDisplays'[g] \notin taken'
        BY <3>3, <4>1, <4>2 DEF MadeOnce
      <4>5. \A g, h \in Fds : mRemoteDisplays'[g] = mRemoteDisplays'[h] =>
                                g = h \/ mRemoteDisplays'[g] = None
        BY <4>1 DEF MadeOnce
      <4>6. QED
        BY <1>0, <3>1, <4>3, <4>4, <4>5 DEF MadeOnce
    <3>4. QED
      BY <3>1, <3>2, <3>3
  <2>3. QED
    BY <2>1, <2>2
<1>5. ASSUME NEW f \in Fds,
             EventAck(f) \/ EventFails(f) \/ EventIgnored(f) \/ EventUnknown(f)
      PROVE  MadeOnce'
  BY <1>0, <1>5, MadeOnceKept
     DEF EventAck, EventFails, EventIgnored, EventUnknown
<1>6. ASSUME NEW f \in Fds, EventUnknownExits(f) PROVE MadeOnce'
  BY <1>0, <1>6, MadeOnceKept DEF EventUnknownExits, Exit, Stop
<1>7. QED
  BY <1>1, <1>2, <1>3, <1>4, <1>5, <1>6 DEF SocketThread

LEMMA MadeOnceMain == Typed /\ MadeOnce /\ MainThread => MadeOnce'
<1> SUFFICES ASSUME Typed, MadeOnce, MainThread PROVE MadeOnce'
  OBVIOUS
<1> USE DEF kernel, queue, manager, device, socket, main, composer
<1>0. backlog \subseteq Conns /\ (mpc = "emplace" => mconn \in Conns)
  BY DEF Typed, TypeOK, Hands
<1>1. CASE ServerMode \/ MainAskFails \/ MainAsksInVain \/ MainPushes \/ MainWakes
  BY <1>0, <1>1, MadeOnceKept
     DEF ServerMode, MainAskFails, MainAsksInVain, MainPushes, MainWakes
<1>2. ASSUME NEW c \in Conns, MainConnects(c) PROVE MadeOnce'
  <2>1. /\ peer[c] = "away" /\ peer' = [peer EXCEPT ![c] = "open"] /\ mconn' = c
        /\ UNCHANGED <<backlog, mRemoteDisplays, taken>>
    BY <1>2 DEF MainConnects
  <2>2. New(c) /\ c \notin backlog
    BY <2>1 DEF MadeOnce
  <2>3. peer'[c] # "away" /\ \A d \in Conns \ {c} : peer'[d] = peer[d]
    BY <2>1 DEF Typed, TypeOK
  <2>4. QED
    BY <1>0, <2>1, <2>2, <2>3 DEF MadeOnce, New
<1>3. CASE MainEmplaces
  <2>1. /\ mpc = "emplace" /\ mpc' = "configs" /\ UNCHANGED <<backlog, peer, taken>>
        /\ mRemoteDisplays' = [mRemoteDisplays EXCEPT ![mfd] = Emplaced(mfd, mconn)]
        /\ mfd \in Fds /\ mconn \in Conns
    BY <1>3 DEF MainEmplaces, Typed, Hands
  <2>2. CASE mRemoteDisplays[mfd] # None
    <3>1. mRemoteDisplays' = mRemoteDisplays
      BY <2>1, <2>2 DEF Emplaced, Typed, TypeOK
    <3>2. QED
      BY <1>0, <2>1, <3>1, MadeOnceKept
  <2>3. CASE mRemoteDisplays[mfd] = None
    <3>1. /\ mRemoteDisplays'[mfd] = mconn /\ mconn # None
          /\ \A g \in Fds \ {mfd} : mRemoteDisplays'[g] = mRemoteDisplays[g]
      BY <2>1, <2>3, ConstantFacts DEF Emplaced, Typed, TypeOK
    <3>2. New(mconn) /\ mconn \notin backlog /\ peer[mconn] # "away"
      BY <2>1 DEF MadeOnce
    <3>3. \A d \in Conns \ {mconn} : New(d) => New(d)'
      BY <2>1, <3>1 DEF New
    <3>4. \A d \in Conns : d \in backlog' \/ peer'[d] = "away" => New(d)'
      BY <2>1, <3>2, <3>3 DEF MadeOnce
    <3>5. \A g, h \in Fds : mRemoteDisplays'[g] = mRemoteDisplays'[h] =>
                              g = h \/ mRemoteDisplays'[g] = None
      BY <3>1, <3>2 DEF MadeOnce, New
    <3>6. \A g \in Fds : mRemoteDisplays'[g] \notin taken'
      BY <2>1, <3>1, <3>2 DEF MadeOnce, New
    <3>7. QED
      BY <2>1, <3>4, <3>5, <3>6 DEF MadeOnce
  <2>4. QED
    BY <2>2, <2>3
<1>4. CASE MainAsks
  <2>1. \A d \in Conns : peer'[d] = "away" => peer[d] = "away"
    BY <1>4 DEF MainAsks, Typed, TypeOK
  <2>2. QED
    BY <1>0, <1>4, <2>1, MadeOnceKept DEF MainAsks
<1>5. CASE MainAsksNobody
  BY <1>0, <1>5, MadeOnceKept DEF MainAsksNobody, Undefined, Stop
<1>6. QED
  BY <1>1, <1>2, <1>3, <1>4, <1>5 DEF MainThread

LEMMA MadeOnceNext == Typed /\ MadeOnce /\ [Next]_vars => MadeOnce'
<1> SUFFICES ASSUME Typed, MadeOnce, [Next]_vars PROVE MadeOnce'
  OBVIOUS
<1> USE DEF kernel, queue, manager, device, socket, main, composer
<1>0. backlog \subseteq Conns /\ (mpc = "emplace" => mconn \in Conns)
  BY DEF Typed, TypeOK, Hands
<1>1. CASE Composer
  <2>1. CASE ComposerUsesDead
    BY <1>0, <2>1, MadeOnceKept DEF ComposerUsesDead, Undefined, Stop
  <2>2. CASE ComposerTakes \/ ComposerTests \/ ComposerSends \/ ComposerSendFails
             \/ ComposerReports \/ ComposerPushes \/ ComposerDone
    BY <1>0, <2>2, MadeOnceKept
       DEF ComposerTakes, ComposerTests, ComposerSends, ComposerSendFails,
           ComposerReports, ComposerPushes, ComposerDone
  <2>3. QED
    BY <1>1, <2>1, <2>2 DEF Composer, ComposerCall
<1>2. ASSUME NEW c \in Conns, PeerConnects(c) PROVE MadeOnce'
  <2>1. /\ peer[c] = "away" /\ peer' = [peer EXCEPT ![c] = "open"]
        /\ backlog' = backlog \union {c}
        /\ UNCHANGED <<mRemoteDisplays, taken, mpc, mconn>>
    BY <1>2 DEF PeerConnects
  <2>2. New(c) /\ (c # mconn \/ mpc # "emplace")
    BY <2>1 DEF MadeOnce
  <2>3. peer'[c] # "away" /\ \A d \in Conns \ {c} : peer'[d] = peer[d]
    BY <2>1 DEF Typed, TypeOK
  <2>4. QED
    BY <1>0, <2>1, <2>2, <2>3 DEF MadeOnce, New
<1>3. ASSUME NEW c \in Conns, PeerAcks(c) \/ PeerCloses(c) PROVE MadeOnce'
  <2>1. \A d \in Conns : peer'[d] = "away" => peer[d] = "away"
    BY <1>3 DEF PeerAcks, PeerCloses, Typed, TypeOK
  <2>2. QED
    BY <1>0, <1>3, <2>1, MadeOnceKept DEF PeerAcks, PeerCloses
<1>4. CASE UNCHANGED vars
  BY <1>0, <1>4, MadeOnceKept DEF vars
<1>5. QED
  BY <1>1, <1>2, <1>3, <1>4, MadeOnceSocket, MadeOnceMain DEF Next, Peer

LEMMA DeviceStep ==
  ASSUME Typed, MadeOnce, [Next]_vars PROVE [Device!Next]_<<held, taken>>
<1> USE DEF kernel, queue, manager, device, socket, main, composer
<1>1. CASE OnConnect
  <2>1. sfd \in Fds /\ taken' = taken
        /\ held' = held \union ({mRemoteDisplays[sfd]} \ {None})
    BY <1>1 DEF OnConnect, Typed, Hands
  <2>2. CASE mRemoteDisplays[sfd] = None
    BY <2>1, <2>2
  <2>3. CASE mRemoteDisplays[sfd] # None
    <3>1. mRemoteDisplays[sfd] \in Conns /\ mRemoteDisplays[sfd] \notin taken
      BY <2>1, <2>3 DEF MadeOnce, Typed, TypeOK
    <3>2. Device!addRemoteDisplay(mRemoteDisplays[sfd])
      BY <2>1, <2>3, <3>1 DEF Device!addRemoteDisplay
    <3>3. QED
      BY <3>1, <3>2 DEF Device!Next
  <2>4. QED
    BY <2>2, <2>3
<1>2. CASE DrainOne
  <2> DEFINE f == Head(mPendingRemoveDisplays)
  <2>1. CASE Exit
    BY <2>1 DEF Exit, Stop
  <2>2. CASE ~Exit
    <3>1. /\ f \in Fds
          /\ \/ /\ mRemoteDisplays[f] \in Conns
                /\ held' = held \ {mRemoteDisplays[f]}
                /\ taken' = taken \union {mRemoteDisplays[f]}
             \/ UNCHANGED <<held, taken>>
      BY <1>2, <2>2, DrainStep
    <3> HIDE DEF f
    <3>2. mRemoteDisplays[f] \notin taken
      BY <3>1 DEF MadeOnce
    <3>3. QED
      BY <3>1, <3>2 DEF Device!Next, Device!removeRemoteDisplay
  <2>3. QED
    BY <2>1, <2>2
<1>3. CASE SocketThread /\ ~OnConnect /\ ~DrainOne
  BY <1>3 DEF SocketThread, EpollWait, BatchDone, Accept, Reject, AcceptFails,
       ReadPipe, DrainDone, EventAck, EventFails, EventIgnored, EventUnknown,
       EventUnknownExits, Exit, Stop
<1>4. CASE MainThread
  BY <1>4 DEF MainThread, ServerMode, MainConnects, MainEmplaces, MainAsks,
       MainAskFails, MainAsksInVain, MainPushes, MainAsksNobody, MainWakes,
       Undefined, Stop
<1>5. CASE Composer
  BY <1>5 DEF Composer, ComposerCall, ComposerTakes, ComposerTests, ComposerSends,
       ComposerSendFails, ComposerReports, ComposerPushes, ComposerDone,
       ComposerUsesDead, Undefined, Stop
<1>6. CASE (\E c \in Conns : Peer(c)) \/ UNCHANGED vars
  BY <1>6 DEF Peer, PeerConnects, PeerAcks, PeerCloses, vars
<1>7. QED
  BY <1>1, <1>2, <1>3, <1>4, <1>5, <1>6 DEF Next

(* The manager uses a device the way IRemoteDevice is meant to be used: it *)
(* takes back an object in the step that destroys it, once, and never adds *)
(* it again, whatever the descriptors and the slips of the other threads.  *)
THEOREM MgrUsesDevice == Spec => UsesIRemoteDevice
<1>1. Init => Device!Init
  BY DEF Init
<1>2. Typed /\ MadeOnce /\ [Next]_vars => [Device!Next]_<<held, taken>>
  BY DeviceStep
<1>3. QED
  BY <1>1, <1>2, TypedInit, TypedNext, MadeOnceInit, MadeOnceNext, PTL
     DEF Spec, UsesIRemoteDevice, Device!Spec, Device!vars
-----------------------------------------------------------------------------
(* Descriptors.  What is queued has been reported: as long as an object is *)
(* reported once only and no event comes before its object, a descriptor   *)
(* is queued, or about to be queued by one of the threads, once at most    *)
(* and while the object that was reported still has it.  So it is not      *)
(* reused before its one removal.                                          *)
Reported(f) == mRemoteDisplays[f] \in mDisconnected

EachQueuedOnce ==
  /\ \A f \in Fds : Queued(mPendingRemoveDisplays, f) => Reported(f)
  /\ EachOnce(mPendingRemoveDisplays)
  /\ mpc = "push" => Reported(mfd) /\ ~Queued(mPendingRemoveDisplays, mfd)
  /\ cpc = "push" => Reported(cfd) /\ ~Queued(mPendingRemoveDisplays, cfd)
  /\ mpc = "push" /\ cpc = "push" => mfd # cfd

(* What FdsOwned says of one descriptor.                                   *)
OwnedFd(f) ==
  /\ IF mpc = "emplace" /\ f = mfd
       THEN mRemoteDisplays[f] = None /\ socketOf[f] = mconn
       ELSE mRemoteDisplays[f] = socketOf[f]
  /\ f \in epoll <=> socketOf[f] # None

Sound ==
  /\ Running /\ slips = {} => (\A f \in Fds : OwnedFd(f)) /\ EachQueuedOnce
  /\ OnlyDisconnectedRemoved

LEMMA SoundOwned == Typed /\ Sound => FdsOwned
  BY DEF Typed, TypeOK, Sound, FdsOwned, OwnedFd

LEMMA SoundInit == Init => Sound
<1> SUFFICES ASSUME Init PROVE Sound
  OBVIOUS
<1>1. \A f \in Fds : OwnedFd(f)
  BY DEF Init, OwnedFd
<1>2. EachQueuedOnce
  BY DEF Init, EachQueuedOnce, Queued, EachOnce
<1>3. QED
  BY <1>1, <1>2 DEF Init, Device!Init, Sound, OnlyDisconnectedRemoved

(* A step that opens, closes, reports and queues nothing.                  *)
LEMMA SoundKept ==
  ASSUME Sound, Running' => Running, slips' = {} => slips = {},
         UNCHANGED <<socketOf, epoll, mRemoteDisplays, mPendingRemoveDisplays,
                     mDisconnected, taken>>,
         mpc' = "emplace" <=> mpc = "emplace",
         mpc = "emplace" => UNCHANGED <<mfd, mconn>>,
         mpc' = "push" => mpc = "push" /\ mfd' = mfd,
         cpc' = "push" => cpc = "push" /\ cfd' = cfd
  PROVE  Sound'
<1>1. OnlyDisconnectedRemoved'
  BY DEF Sound, OnlyDisconnectedRemoved
<1> SUFFICES ASSUME Running', slips' = {}
             PROVE  (\A f \in Fds : OwnedFd(f)') /\ EachQueuedOnce'
  BY <1>1 DEF Sound
<1>2. (\A f \in Fds : OwnedFd(f)) /\ EachQueuedOnce
  BY DEF Sound
<1>3. \A f \in Fds : OwnedFd(f)'
  BY <1>2 DEF OwnedFd
<1>4. EachQueuedOnce'
  BY <1>2 DEF EachQueuedOnce, Reported
<1>5. QED
  BY <1>3, <1>4

(* A thread that reports an object queues its descriptor, at once (f is in *)
(* the queue afterwards) or when it gets the mutex.                        *)
LEMMA NotYetQueued ==
  ASSUME EachQueuedOnce, NEW f \in Fds, mRemoteDisplays[f] \notin mDisconnected
  PROVE  /\ ~Queued(mPendingRemoveDisplays, f)
         /\ mpc = "push" => mfd # f
         /\ cpc = "push" => cfd # f
  BY DEF EachQueuedOnce, Reported

LEMMA SoundAccept == Typed /\ Sound /\ Accept => Sound'
<1> SUFFICES ASSUME Typed, Sound, Accept PROVE Sound'
  OBVIOUS
<1>0. UNCHANGED <<spc, mpc, mconn, mfd, cpc, cfd, taken>>
  BY DEF Accept, main, composer, device
<1>1. PICK c \in backlog, f \in Fds :
         LET remote == Emplaced(f, c) IN
         /\ socketOf[f] = None /\ remote \in Conns
         /\ socketOf' = [socketOf EXCEPT ![f] = c]
         /\ epoll' = epoll \union {f}
         /\ mRemoteDisplays' = [mRemoteDisplays EXCEPT ![f] = remote]
         /\ \/ /\ remote \notin mDisconnected
               /\ MarkDisconnected(remote) /\ Push(f)
            \/ UNCHANGED <<mPendingRemoveDisplays, pipe, mDisconnected, slips>>
  BY AcceptStep
<1>2. /\ mDisconnected \subseteq mDisconnected' /\ (slips' = {} => slips = {})
  BY <1>1 DEF MarkDisconnected
<1>3. OnlyDisconnectedRemoved'
  BY <1>0, <1>2 DEF Sound, OnlyDisconnectedRemoved
<1> SUFFICES ASSUME Running', slips' = {}
             PROVE  (\A g \in Fds : OwnedFd(g)') /\ EachQueuedOnce'
  BY <1>3 DEF Sound
<1>4. (\A g \in Fds : OwnedFd(g)) /\ EachQueuedOnce
  BY <1>0, <1>2 DEF Sound, Running
<1>5. ~(mpc = "emplace" /\ f = mfd) /\ mRemoteDisplays[f] = None /\ c \in Conns /\ c # None
  BY <1>1, <1>4, ConstantFacts DEF OwnedFd, Typed, TypeOK, Hands
<1>6. /\ mRemoteDisplays'[f] = c /\ socketOf'[f] = c
      /\ \A g \in Fds \ {f} : /\ mRemoteDisplays'[g] = mRemoteDisplays[g]
                              /\ socketOf'[g] = socketOf[g]
                              /\ g \in epoll' <=> g \in epoll
  BY <1>1, <1>5 DEF Emplaced, Typed, TypeOK
<1>7. \A g \in Fds : OwnedFd(g)'
  BY <1>0, <1>1, <1>4, <1>5, <1>6 DEF OwnedFd
<1>8. None \notin mDisconnected
  BY ConstantFacts DEF Typed, TypeOK
<1>9. /\ ~Queued(mPendingRemoveDisplays, f) /\ (mpc = "push" => mfd # f)
      /\ (cpc = "push" => cfd # f)
  BY <1>4, <1>5, <1>8, NotYetQueued
<1>10. (mpc = "push" => mfd \in Fds \ {f}) /\ (cpc = "push" => cfd \in Fds \ {f})
  BY <1>9 DEF Typed, Hands
<1>11. \A g \in Fds \ {f} : Reported(g) => Reported(g)'
  BY <1>2, <1>6 DEF Reported
<1>12. CASE UNCHANGED mPendingRemoveDisplays
  <2>1. \A g \in Fds : Queued(mPendingRemoveDisplays, g) => g \in Fds \ {f}
    BY <1>9
  <2>2. QED
    BY <1>0, <1>4, <1>7, <1>10, <1>11, <1>12, <2>1 DEF EachQueuedOnce
<1>13. CASE Push(f) /\ mDisconnected' = mDisconnected \union {c}
  <2>1. /\ EachOnce(mPendingRemoveDisplays')
        /\ \A g : Queued(mPendingRemoveDisplays', g) =>
                    Queued(mPendingRemoveDisplays, g) \/ g = f
    BY <1>4, <1>9, <1>13, PushStep DEF EachQueuedOnce
  <2>2. Reported(f)'
    BY <1>6, <1>13 DEF Reported
  <2>3. QED
    BY <1>0, <1>4, <1>7, <1>10, <1>11, <2>1, <2>2 DEF EachQueuedOnce
<1>14. QED
  BY <1>1, <1>5, <1>7, <1>12, <1>13 DEF MarkDisconnected, Emplaced

(* The socket thread destroys an object that was reported; the descriptor  *)
(* is queued no more, nor is one of the other threads about to queue it.   *)
LEMMA SoundDrain == Typed /\ Sound /\ DrainOne => Sound'
<1> SUFFICES ASSUME Typed, Sound, DrainOne PROVE Sound'
  OBVIOUS
<1> DEFINE f == Head(mPendingRemoveDisplays)
<1>1. CASE Exit
  BY <1>1 DEF Exit, Stop, Sound, OnlyDisconnectedRemoved, Running, manager, device
<1>2. CASE ~Exit
  <2>1. /\ f \in Fds /\ Queued(mPendingRemoveDisplays, f)
        /\ UNCHANGED <<mDisconnected, slips, socket, main, composer>>
        /\ \A g : Queued(mPendingRemoveDisplays', g) => Queued(mPendingRemoveDisplays, g)
        /\ EachOnce(mPendingRemoveDisplays) =>
             EachOnce(mPendingRemoveDisplays') /\ ~Queued(mPendingRemoveDisplays', f)
        /\ epoll' = epoll \ {f}
        /\ \/ /\ mRemoteDisplays[f] \in Conns
              /\ taken' = taken \union {mRemoteDisplays[f]}
              /\ mRemoteDisplays' = [mRemoteDisplays EXCEPT ![f] = None]
              /\ socketOf' = [socketOf EXCEPT ![f] = None]
           \/ /\ mRemoteDisplays[f] = None
              /\ taken' = taken
    BY <1>2, DrainStep
  <2> HIDE DEF f
  <2>2. UNCHANGED <<spc, mpc, mfd, mconn, cpc, cfd>> /\ Running
    BY <2>1 DEF DrainOne, socket, main, composer, Running
  <2>3. CASE slips # {}
    BY <2>1, <2>3 DEF Sound, OnlyDisconnectedRemoved
  <2>4. CASE slips = {}
    <3>1. (\A g \in Fds : OwnedFd(g)) /\ EachQueuedOnce
      BY <2>2, <2>4 DEF Sound
    <3>2. mRemoteDisplays[f] \in mDisconnected /\ None \notin mDisconnected
      BY <2>1, <3>1, ConstantFacts DEF EachQueuedOnce, Reported, Typed, TypeOK
    <3>3. /\ taken' = taken \union {mRemoteDisplays[f]}
          /\ mRemoteDisplays' = [mRemoteDisplays EXCEPT ![f] = None]
          /\ socketOf' = [socketOf EXCEPT ![f] = None]
      BY <2>1, <3>2
    <3>4. OnlyDisconnectedRemoved'
      BY <2>1, <2>4, <3>2, <3>3 DEF Sound, OnlyDisconnectedRemoved
    <3>5. /\ mRemoteDisplays'[f] = None /\ socketOf'[f] = None
          /\ \A g \in Fds \ {f} : /\ mRemoteDisplays'[g] = mRemoteDisplays[g]
                                  /\ socketOf'[g] = socketOf[g]
                                  /\ g \in epoll' <=> g \in epoll
      BY <2>1, <3>3 DEF Typed, TypeOK
    <3>6. ~(mpc = "emplace" /\ f = mfd)
      BY <2>1, <3>1, <3>2 DEF OwnedFd
    <3>7. \A g \in Fds : OwnedFd(g)'
      BY <2>1, <2>2, <3>1, <3>5, <3>6 DEF OwnedFd
    <3>8. \A g \in Fds \ {f} : Reported(g) => Reported(g)'
      BY <2>1, <3>5 DEF Reported
    <3>9. (mpc = "push" => mfd \in Fds \ {f}) /\ (cpc = "push" => cfd \in Fds \ {f})
      BY <2>1, <3>1 DEF EachQueuedOnce, Typed, Hands
    <3>10. EachQueuedOnce'
      BY <2>1, <2>2, <3>1, <3>8, <3>9 DEF EachQueuedOnce
    <3>11. QED
      BY <3>4, <3>7, <3>10 DEF Sound
  <2>5. QED
    BY <2>3, <2>4
<1>3. QED
  BY <1>1, <1>2

LEMMA SoundSocket == Typed /\ Sound /\ SocketThread => Sound'
<1> SUFFICES ASSUME Typed, Sound, SocketThread PROVE Sound'
  OBVIOUS
<1> USE DEF kernel, queue, manager, device, socket, main, composer
<1>1. CASE EpollWait \/ BatchDone \/ AcceptFails \/ Reject \/ ReadPipe \/ DrainDone \/ OnConnect
  BY <1>1, SoundKept
     DEF EpollWait, BatchDone, AcceptFails, Reject, ReadPipe, DrainDone, OnConnect, Running
<1>2. CASE Accept \/ DrainOne
  BY <1>2, SoundAccept, SoundDrain
<1>3. ASSUME NEW f \in Fds, EventAck(f) \/ EventIgnored(f) PROVE Sound'
  BY <1>3, SoundKept DEF EventAck, EventIgnored, Event, Running
<1>4. ASSUME NEW f \in Fds, EventFails(f) PROVE Sound'
  <2>1. /\ UNCHANGED <<socketOf, epoll, mRemoteDisplays, taken, spc, mpc, mconn, mfd,
                       cpc, cfd>>
        /\ mRemoteDisplays[f] \notin mDisconnected /\ Push(f)
        /\ mDisconnected' = mDisconnected \union {mRemoteDisplays[f]}
        /\ slips \subseteq slips'
    BY <1>4 DEF EventFails, MarkDisconnected
  <2>2. OnlyDisconnectedRemoved'
    BY <2>1 DEF Sound, OnlyDisconnectedRemoved
  <2> SUFFICES ASSUME Running', slips' = {}
               PROVE  (\A g \in Fds : OwnedFd(g)') /\ EachQueuedOnce'
    BY <2>2 DEF Sound
  <2>3. (\A g \in Fds : OwnedFd(g)) /\ EachQueuedOnce
    BY <2>1 DEF Sound, Running
  <2>4. \A g \in Fds : OwnedFd(g)'
    BY <2>1, <2>3 DEF OwnedFd
  <2>5. /\ ~Queued(mPendingRemoveDisplays, f) /\ (mpc = "push" => mfd # f)
        /\ (cpc = "push" => cfd # f)
    BY <2>1, <2>3, NotYetQueued
  <2>6. /\ EachOnce(mPendingRemoveDisplays')
        /\ \A g : Queued(mPendingRemoveDisplays', g) =>
                    Queued(mPendingRemoveDisplays, g) \/ g = f
    BY <2>1, <2>3, <2>5, PushStep DEF EachQueuedOnce
  <2>7. Reported(f)' /\ \A g : Reported(g) => Reported(g)'
    BY <2>1 DEF Reported
  <2>8. EachQueuedOnce'
    BY <2>1, <2>3, <2>5, <2>6, <2>7 DEF EachQueuedOnce
  <2>9. QED
    BY <2>4, <2>8
<1>5. ASSUME NEW f \in Fds, EventUnknown(f) PROVE Sound'
  <2>1. slips' # {}
    BY <1>5 DEF EventUnknown
  <2>2. QED
    BY <2>1 DEF Sound, OnlyDisconnectedRemoved
<1>6. ASSUME NEW f \in Fds, EventUnknownExits(f) PROVE Sound'
  BY <1>6 DEF EventUnknownExits, Exit, Stop, Sound, OnlyDisconnectedRemoved, Running
<1>7. QED
  BY <1>1, <1>2, <1>3, <1>4, <1>5, <1>6 DEF SocketThread
LEMMA SoundMain == Typed /\ Sound /\ MainThread => Sound'
<1> SUFFICES ASSUME Typed, Sound, MainThread PROVE Sound'
  OBVIOUS
<1> USE DEF kernel, queue, manager, device, socket, main, composer
<1>1. CASE ServerMode \/ MainAsks \/ MainAsksInVain \/ MainWakes
  BY <1>1, SoundKept
     DEF ServerMode, MainAsks, MainAsksInVain, MainWakes, Running, MainConfigs
<1>2. ASSUME NEW c \in Conns, MainConnects(c) PROVE Sound'
  <2>1. PICK f \in Fds :
          /\ socketOf[f] = None /\ mfd' = f /\ mconn' = c /\ mpc' = "emplace"
          /\ socketOf' = [socketOf EXCEPT ![f] = c]
          /\ epoll' = epoll \union {f}
    BY <1>2, MainConnectsStep
  <2>2. /\ mpc = "start"
        /\ UNCHANGED <<mRemoteDisplays, mDisconnected, mPendingRemoveDisplays, slips,
                       taken, spc, cpc, cfd>>
    BY <1>2 DEF MainConnects
  <2>3. OnlyDisconnectedRemoved'
    BY <2>2 DEF Sound, OnlyDisconnectedRemoved
  <2> SUFFICES ASSUME Running', slips' = {}
               PROVE  (\A g \in Fds : OwnedFd(g)') /\ EachQueuedOnce'
    BY <2>3 DEF Sound
  <2>4. (\A g \in Fds : OwnedFd(g)) /\ EachQueuedOnce
    BY <2>2 DEF Sound, Running
  <2>5. /\ socketOf'[f] = c /\ c # None
        /\ \A g \in Fds \ {f} : socketOf'[g] = socketOf[g] /\ (g \in epoll' <=> g \in epoll)
    BY <2>1, ConstantFacts DEF Typed, TypeOK
  <2>6. \A g \in Fds : OwnedFd(g)'
    BY <2>1, <2>2, <2>4, <2>5 DEF OwnedFd
  <2>7. EachQueuedOnce'
    BY <2>1, <2>2, <2>4 DEF EachQueuedOnce, Reported
  <2>8. QED
    BY <2>6, <2>7
<1>3. CASE MainEmplaces
  <2>1. /\ mpc = "emplace" /\ mpc' = "configs" /\ mfd \in Fds
        /\ mconn' = Emplaced(mfd, mconn) /\ mconn \in Conns
        /\ mRemoteDisplays' = [mRemoteDisplays EXCEPT ![mfd] = mconn']
        /\ UNCHANGED <<socketOf, epoll, mDisconnected, mPendingRemoveDisplays, slips,
                       taken, mfd, spc, cpc, cfd>>
    BY <1>3 DEF MainEmplaces, Typed, Hands
  <2>2. OnlyDisconnectedRemoved'
    BY <2>1 DEF Sound, OnlyDisconnectedRemoved
  <2> SUFFICES ASSUME Running', slips' = {}
               PROVE  (\A g \in Fds : OwnedFd(g)') /\ EachQueuedOnce'
    BY <2>2 DEF Sound
  <2>3. (\A g \in Fds : OwnedFd(g)) /\ EachQueuedOnce
    BY <2>1 DEF Sound, Running
  <2>4. mRemoteDisplays[mfd] = None /\ socketOf[mfd] = mconn
    BY <2>1, <2>3 DEF OwnedFd
  <2>5. /\ mRemoteDisplays'[mfd] = mconn
        /\ \A g \in Fds \ {mfd} : mRemoteDisplays'[g] = mRemoteDisplays[g]
    BY <2>1, <2>4 DEF Emplaced, Typed, TypeOK
  <2>6. \A g \in Fds : OwnedFd(g)'
    BY <2>1, <2>3, <2>4, <2>5 DEF OwnedFd
  <2>7. None \notin mDisconnected
    BY ConstantFacts DEF Typed, TypeOK
  <2>8. \A g \in Fds : Reported(g) => Reported(g)'
    BY <2>1, <2>4, <2>5, <2>7 DEF Reported
  <2>9. cpc = "push" => cfd \in Fds
    BY DEF Typed, Hands
  <2>10. EachQueuedOnce'
    BY <2>1, <2>3, <2>8, <2>9 DEF EachQueuedOnce
  <2>11. QED
    BY <2>6, <2>10
<1>4. CASE MainAskFails
  <2>1. /\ mfd \in Fds /\ mRemoteDisplays[mfd] \notin mDisconnected
        /\ mpc = "configs" /\ mpc' = "push"
        /\ mDisconnected' = mDisconnected \union {mRemoteDisplays[mfd]}
        /\ slips \subseteq slips'
        /\ UNCHANGED <<socketOf, epoll, mRemoteDisplays, mPendingRemoveDisplays,
                       taken, mconn, mfd, spc, cpc, cfd>>
    BY <1>4 DEF MainAskFails, MainConfigs, MarkDisconnected, Typed, Hands
  <2>2. OnlyDisconnectedRemoved'
    BY <2>1 DEF Sound, OnlyDisconnectedRemoved
  <2> SUFFICES ASSUME Running', slips' = {}
               PROVE  (\A g \in Fds : OwnedFd(g)') /\ EachQueuedOnce'
    BY <2>2 DEF Sound
  <2>3. (\A g \in Fds : OwnedFd(g)) /\ EachQueuedOnce
    BY <2>1 DEF Sound, Running
  <2>4. \A g \in Fds : OwnedFd(g)'
    BY <2>1, <2>3 DEF OwnedFd
  <2>5. ~Queued(mPendingRemoveDisplays, mfd) /\ (cpc = "push" => cfd # mfd)
    BY <2>1, <2>3, NotYetQueued
  <2>6. Reported(mfd)' /\ \A g : Reported(g) => Reported(g)'
    BY <2>1 DEF Reported
  <2>7. EachQueuedOnce'
    BY <2>1, <2>3, <2>5, <2>6 DEF EachQueuedOnce
  <2>8. QED
    BY <2>4, <2>7
<1>5. CASE MainPushes
  <2>1. /\ mpc = "push" /\ mpc' = "wait" /\ mfd \in Fds /\ Push(mfd)
        /\ UNCHANGED <<socketOf, epoll, mRemoteDisplays, mDisconnected, slips, taken,
                       mconn, mfd, spc, cpc, cfd>>
    BY <1>5 DEF MainPushes, Typed, Hands
  <2>2. OnlyDisconnectedRemoved'
    BY <2>1 DEF Sound, OnlyDisconnectedRemoved
  <2> SUFFICES ASSUME Running', slips' = {}
               PROVE  (\A g \in Fds : OwnedFd(g)') /\ EachQueuedOnce'
    BY <2>2 DEF Sound
  <2>3. (\A g \in Fds : OwnedFd(g)) /\ EachQueuedOnce
    BY <2>1 DEF Sound, Running
  <2>4. \A g \in Fds : OwnedFd(g)'
    BY <2>1, <2>3 DEF OwnedFd
  <2>5. /\ EachOnce(mPendingRemoveDisplays')
        /\ \A g : Queued(mPendingRemoveDisplays', g) =>
                    Queued(mPendingRemoveDisplays, g) \/ g = mfd
    BY <2>1, <2>3, PushStep DEF EachQueuedOnce
  <2>6. \A g : Reported(g) => Reported(g)'
    BY <2>1 DEF Reported
  <2>7. EachQueuedOnce'
    BY <2>1, <2>3, <2>5, <2>6 DEF EachQueuedOnce
  <2>8. QED
    BY <2>4, <2>7
<1>6. CASE MainAsksNobody
  BY <1>6 DEF MainAsksNobody, Undefined, Stop, Sound, OnlyDisconnectedRemoved, Running
<1>7. QED
  BY <1>1, <1>2, <1>3, <1>4, <1>5, <1>6 DEF MainThread

LEMMA SoundComposer == Typed /\ Sound /\ Composer => Sound'
<1> SUFFICES ASSUME Typed, Sound, Composer PROVE Sound'
  OBVIOUS
<1> USE DEF kernel, queue, manager, device, socket, main, composer
<1>1. CASE ComposerTakes \/ ComposerTests \/ ComposerSends \/ ComposerSendFails \/ ComposerDone
  BY <1>1, SoundKept
     DEF ComposerTakes, ComposerTests, ComposerSends, ComposerSendFails, ComposerDone, Running
<1>2. CASE ComposerReports
  <2>1. /\ cfd' \in Fds /\ mRemoteDisplays[cfd'] = cconn /\ cpc' = "push"
        /\ cpc = "report"
        /\ mDisconnected' = mDisconnected \union {cconn}
        /\ slips' = slips \union {s \in {"twice"} : cconn \in mDisconnected}
        /\ UNCHANGED <<socketOf, epoll, mRemoteDisplays, mPendingRemoveDisplays,
                       taken, mpc, mconn, mfd, spc>>
    BY <1>2, FdOfAlive DEF ComposerReports, MarkDisconnected
  <2>2. OnlyDisconnectedRemoved'
    BY <2>1 DEF Sound, OnlyDisconnectedRemoved
  <2> SUFFICES ASSUME Running', slips' = {}
               PROVE  (\A g \in Fds : OwnedFd(g)') /\ EachQueuedOnce'
    BY <2>2 DEF Sound
  <2>3. slips = {} /\ mRemoteDisplays[cfd'] \notin mDisconnected
    BY <2>1
  <2>4. (\A g \in Fds : OwnedFd(g)) /\ EachQueuedOnce
    BY <2>1, <2>3 DEF Sound, Running
  <2>5. \A g \in Fds : OwnedFd(g)'
    BY <2>1, <2>4 DEF OwnedFd
  <2>6. ~Queued(mPendingRemoveDisplays, cfd') /\ (mpc = "push" => mfd # cfd')
    BY <2>1, <2>3, <2>4, NotYetQueued
  <2>7. /\ mRemoteDisplays'[cfd'] \in mDisconnected'
        /\ \A g : Reported(g) => Reported(g)'
    BY <2>1 DEF Reported
  <2>8. Reported(cfd)'
    BY <2>7 DEF Reported
  <2>9. EachQueuedOnce'
    BY <2>1, <2>4, <2>6, <2>7, <2>8 DEF EachQueuedOnce
  <2>10. QED
    BY <2>5, <2>9
<1>3. CASE ComposerPushes
  <2>1. /\ cpc = "push" /\ cpc' = "done" /\ cfd \in Fds /\ Push(cfd)
        /\ UNCHANGED <<socketOf, epoll, mRemoteDisplays, mDisconnected, slips, taken,
                       mpc, mconn, mfd, spc, cfd>>
    BY <1>3 DEF ComposerPushes, Typed, Hands
  <2>2. OnlyDisconnectedRemoved'
    BY <2>1 DEF Sound, OnlyDisconnectedRemoved
  <2> SUFFICES ASSUME Running', slips' = {}
               PROVE  (\A g \in Fds : OwnedFd(g)') /\ EachQueuedOnce'
    BY <2>2 DEF Sound
  <2>3. (\A g \in Fds : OwnedFd(g)) /\ EachQueuedOnce
    BY <2>1 DEF Sound, Running
  <2>4. \A g \in Fds : OwnedFd(g)'
    BY <2>1, <2>3 DEF OwnedFd
  <2>5. /\ EachOnce(mPendingRemoveDisplays')
        /\ \A g : Queued(mPendingRemoveDisplays', g) =>
                    Queued(mPendingRemoveDisplays, g) \/ g = cfd
    BY <2>1, <2>3, PushStep DEF EachQueuedOnce
  <2>6. \A g : Reported(g) => Reported(g)'
    BY <2>1 DEF Reported
  <2>7. EachQueuedOnce'
    BY <2>1, <2>3, <2>5, <2>6 DEF EachQueuedOnce
  <2>8. QED
    BY <2>4, <2>7
<1>4. CASE ComposerUsesDead
  BY <1>4 DEF ComposerUsesDead, Undefined, Stop, Sound, OnlyDisconnectedRemoved, Running
<1>5. QED
  BY <1>1, <1>2, <1>3, <1>4 DEF Composer, ComposerCall

LEMMA SoundNext == Typed /\ Sound /\ [Next]_vars => Sound'
<1> SUFFICES ASSUME Typed, Sound, [Next]_vars PROVE Sound'
  OBVIOUS
<1> USE DEF kernel, queue, manager, device, socket, main, composer
<1>1. CASE (\E c \in Conns : Peer(c)) \/ UNCHANGED vars
  BY <1>1, SoundKept DEF Peer, PeerConnects, PeerAcks, PeerCloses, vars, Running
<1>2. QED
  BY <1>1, SoundSocket, SoundMain, SoundComposer DEF Next

(* An object owns the descriptor it was made for and the socket thread     *)
(* watches exactly the open ones (RemoteDisplayMgr::addRemoteDisplay,      *)
(* removeRemoteDisplay, connectToRemote), as long as no object is reported *)
(* twice and no event comes before its object: these two are the only ways *)
(* in which the three threads can go wrong about a descriptor.             *)
THEOREM DescriptorsAreOwned == Spec => []FdsOwned
  BY TypedInit, TypedNext, SoundInit, SoundNext, SoundOwned, PTL DEF Spec

(* With the same two exceptions only an object that was seen disconnected  *)
(* is destroyed: a removal never hits a remote that was given the          *)
(* descriptor of the one it was queued for (socketThreadProc).             *)
THEOREM OnlyReportedAreRemoved == Spec => []OnlyDisconnectedRemoved
<1>1. Sound => OnlyDisconnectedRemoved
  BY DEF Sound
<1>2. QED
  BY <1>1, TypedInit, TypedNext, SoundInit, SoundNext, PTL DEF Spec
=============================================================================

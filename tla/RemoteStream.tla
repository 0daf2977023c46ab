---------------------------- MODULE RemoteStream ----------------------------
(***************************************************************************)
(* The stream between a RemoteDisplay and its remote.  The composer thread *)
(* writes requests to it, some of them in several calls of send; the       *)
(* socket thread reads answers from it, a header first and then what the   *)
(* header asks for.  The socket is non-blocking: a send may find no room,  *)
(* or room for a part, and a recv finds what has come so far.  _send and   *)
(* _recv take any count above zero for success.                            *)
(*                                                                         *)
(* The stream carries pieces: a structure of display_protocol.h that       *)
(* arrives whole is one piece, one that may be cut in two is two.          *)
(* RemoteDisplayMgr has the rest of the life of a RemoteDisplay, and the   *)
(* two threads reporting one failure.                                      *)
(***************************************************************************)
EXTENDS Naturals, Sequences, FiniteSets

CONSTANTS
  Requests,     \* requests the composer may make: [op, n], where n counts
                \* layers, or is 1 for a buffer with descriptors, else 0
  Answers,      \* messages the remote may write: [type, n], where n counts
                \* layers, or the pieces after a header it has no case for
  MaxRequests, MaxAnswers,  \* bounds
  Room,         \* pieces the socket buffer to the remote holds
  UnknownRoom,  \* pieces the 1024 bytes for such a message hold
  Memory        \* layers there is memory for

getConfigs == [op |-> "getConfigs", n |-> 0]
Garbled == [op |-> "garbled", n |-> 0]   \* pieces that are no message

ASSUME StreamAssumption ==
  /\ Requests \subseteq [op : STRING, n : Nat]
  /\ Answers \subseteq [type : STRING, n : Nat]
  /\ MaxRequests \in Nat /\ MaxAnswers \in Nat /\ Room \in Nat \ {0}
  /\ UnknownRoom \in Nat \ {0} /\ Memory \in Nat
  /\ getConfigs \notin Requests /\ Garbled \notin Requests
  /\ \A r \in Requests : /\ r.op # "getConfigs"
                         /\ r.op = "createBuffer" => r.n <= 1

VARIABLES
  mDisconnected,
  \* composer thread: the requests made, and what is left of the last one:
  \* the lengths of the calls of send, and the next piece of the first
  sent, sending, piece,
  \* the stream: pieces [of, at], piece "at" of message number "of"
  outbox, inbox,
  \* the remote
  reading,   \* pieces of a request it has not got whole
  got,       \* requests, or Garbled
  written,   \* messages it has begun to write
  rest,      \* pieces of the last one that are not written yet
  closed,
  \* socket thread: where it is, the pieces of the message it is at, the
  \* type it took the header for, and the layers still to read
  spc, body, type, left,
  handled,   \* numbers of the messages it has acted on, 0 for what is none
  connected, \* onConnect was called: the device has the remote
  \* history
  faults,    \* what the remote did that a well-behaved one does not
  slips      \* "send": some pieces were not sent; "recv": a recv got less
             \* or other pieces than it was for

composer == <<sent, sending, piece>>
peer == <<reading, got, written, rest, closed>>
socket == <<spc, body, type, left, handled, connected>>
vars == <<mDisconnected, composer, outbox, inbox, peer, socket, faults, slips>>

Init ==
  /\ mDisconnected = FALSE
  /\ sent = <<>> /\ sending = <<>> /\ piece = 1
  /\ outbox = <<>> /\ inbox = <<>>
  /\ reading = <<>> /\ got = <<>> /\ written = <<>> /\ rest = <<>>
  /\ closed = FALSE
  /\ spc = "start" /\ body = <<>> /\ type = "none" /\ left = 0
  /\ handled = <<>> /\ connected = FALSE
  /\ faults = {} /\ slips = {}

Pieces(m, from, n) == [j \in 1 .. n |-> [of |-> m, at |-> from + j - 1]]
Smaller(a, b) == IF a <= b THEN a ELSE b

(* The protocol: how many pieces a request and a message of the remote     *)
(* have.  The descriptors of a buffer come with a piece of their own,      *)
(* which event.size does not count.                                        *)
RequestLength(r) ==
  CASE r.op = "getConfigs" -> 1
    [] r.op = "createBuffer" -> 3 + r.n
    [] r.op \in {"updateLayers", "presentLayers"} -> 1 + r.n
    [] OTHER -> 2

AnswerLength(a) ==
  CASE a.type = "DISPINFO_ACK" -> 3
    [] a.type = "DISPLAY_ACK" -> 2
    [] a.type = "PRESENT_LAYERS_ACK" -> 3 + a.n
    [] OTHER -> 1 + a.n

(* The calls of send a request is made of, as their lengths; a _send of    *)
(* nothing calls none.  The form before it forgets the descriptors.        *)
SendsWithoutFds(r) ==
  CASE r.op = "createBuffer" -> <<1, 1, 1>>
    [] r.op = "removeBuffer" -> <<1, 1>>
    [] r.op \in {"updateLayers", "presentLayers"} /\ r.n > 0 -> <<1, r.n>>
    [] r.op \in {"updateLayers", "presentLayers"} /\ r.n = 0 -> <<1>>
    [] OTHER -> <<2>>
Sends(r) ==
  CASE r.op = "createBuffer" -> IF r.n > 0 THEN <<1, 1, 1, 1>> ELSE <<1, 1, 1>>
    [] r.op = "removeBuffer" -> <<1, 1>>
    [] r.op \in {"updateLayers", "presentLayers"} /\ r.n > 0 -> <<1, r.n>>
    [] r.op \in {"updateLayers", "presentLayers"} /\ r.n = 0 -> <<1>>
    [] OTHER -> <<2>>

-----------------------------------------------------------------------------
(* The remote reads a piece.  A header tells it how many pieces to expect; *)
(* what it takes for a header and is none leaves it at a loss.             *)
Whole(pieces) == Len(pieces) = RequestLength(sent[pieces[1].of])
PeerReads ==
  /\ ~closed /\ outbox # <<>>
  /\ outbox' = Tail(outbox)
  /\ LET pieces == Append(reading, Head(outbox))
         m == pieces[1].of
         whole == Whole(pieces) /\ pieces[1].at = 1 IN
     /\ reading' = IF whole THEN <<>> ELSE pieces
     /\ got' = IF ~whole THEN got
               ELSE IF pieces = Pieces(m, 1, Len(pieces)) THEN Append(got, sent[m])
               ELSE Append(got, Garbled)
  /\ UNCHANGED <<mDisconnected, composer, inbox, written, rest, closed, socket,
                 faults, slips>>

(* It answers requests it got, each once.                                  *)
Answered(a) ==
  CASE a.type = "DISPINFO_ACK" -> getConfigs
    [] a.type = "DISPLAY_ACK" -> [op |-> "displayBuffer", n |-> 0]
    [] OTHER -> [op |-> "presentLayers", n |-> a.n]
Count(s, e) == Cardinality({i \in DOMAIN s : s[i] = e})

(* The types onDisplayEvent has a case for.  The protocol has more, such   *)
(* as SERVER_IP_REQ, which nothing in this process asks for or answers.    *)
Known(a) == a.type \in {"DISPINFO_ACK", "DISPLAY_ACK", "PRESENT_LAYERS_ACK"}
TooMany(a) == a.type = "PRESENT_LAYERS_ACK" /\ a.n > Memory

(* It writes the first pieces of a message and, later, some more of them.  *)
Writes(m, from, n) ==
  /\ \E k \in 1 .. n :
       /\ inbox' = inbox \o Pieces(m, from, k)
       /\ rest' = Pieces(m, from + k, n - k)
       /\ faults' = faults \union {f \in {"in parts"} : k < n}
                           \union {f \in {"unhandled"} : ~Known(written'[m])}
                           \union {f \in {"too many"} : TooMany(written'[m])}
  /\ UNCHANGED <<mDisconnected, composer, outbox, reading, got, closed, socket,
                 slips>>

(* A count beyond all memory answers nothing and may come at any time.     *)
PeerAnswers(a) ==
  /\ ~closed /\ rest = <<>> /\ Len(written) < MaxAnswers
  /\ Known(a) /\ ~TooMany(a) => Count(written, a) < Count(got, Answered(a))
  /\ written' = Append(written, a)
  /\ Writes(Len(written) + 1, 1, AnswerLength(a))

PeerGoesOn ==
  /\ ~closed /\ rest # <<>>
  /\ UNCHANGED written
  /\ Writes(Len(written), rest[1].at, Len(rest))

PeerCloses ==
  /\ ~closed
  /\ closed' = TRUE
  /\ faults' = faults \union {"hung up"}
  /\ UNCHANGED <<mDisconnected, composer, outbox, inbox, reading, got, written,
                 rest, socket, slips>>

Peer == PeerReads \/ PeerGoesOn \/ PeerCloses \/ \E a \in Answers : PeerAnswers(a)

-----------------------------------------------------------------------------
(* _send.                                                                  *)
SendFails ==
  /\ closed \/ Len(outbox) = Room
  /\ mDisconnected' = TRUE
  /\ faults' = faults \union {f \in {"slow"} : ~closed}
  /\ UNCHANGED <<outbox, slips>>

SendsPieces(m, from, n) ==
  LET k == Smaller(n, Room - Len(outbox)) IN
  /\ ~closed /\ k > 0
  /\ outbox' = outbox \o Pieces(m, from, k)
  /\ faults' = faults \union {f \in {"slow"} : k < n}
  /\ slips' = slips \union {s \in {"send"} : k < n}
  /\ UNCHANGED mDisconnected

(* getConfigs, called once from addRemoteDisplay of the manager.           *)
GetConfigs ==
  /\ spc = "start"
  /\ spc' = "wait"
  /\ \/ SendFails /\ UNCHANGED sent
     \/ SendsPieces(1, 1, 1) /\ sent' = <<getConfigs>>
  /\ UNCHANGED <<sending, piece, inbox, peer, body, type, left, handled,
                 connected>>

(* A request of the display, which has the remote once it is connected.    *)
(* On a disconnected one it returns at once.                               *)
MakeRequest(r) ==
  /\ connected /\ ~mDisconnected /\ sending = <<>> /\ Len(sent) < MaxRequests
  /\ sent' = Append(sent, r)
  /\ sending' = Sends(r) /\ piece' = 1
  /\ UNCHANGED <<mDisconnected, outbox, inbox, peer, socket, faults, slips>>

Send ==
  /\ sending # <<>>
  /\ \/ /\ mDisconnected
        /\ sending' = <<>> /\ UNCHANGED <<mDisconnected, outbox, faults, slips>>
     \/ /\ ~mDisconnected /\ SendFails
        /\ sending' = <<>>
     \/ /\ ~mDisconnected /\ SendsPieces(Len(sent), piece, Head(sending))
        /\ sending' = Tail(sending)
  /\ piece' = piece + Head(sending)
  /\ UNCHANGED <<sent, inbox, peer, socket>>

Composer == spc # "aborted" /\ (Send \/ \E r \in Requests : MakeRequest(r))

-----------------------------------------------------------------------------
(* _recv of n pieces: the outcomes are failure, also for want of anything  *)
(* to read, and success with what there is.                                *)
RecvFails ==
  /\ mDisconnected \/ inbox = <<>>
  /\ mDisconnected' = TRUE
  /\ UNCHANGED <<inbox, slips>>

With(n) == body \o SubSeq(inbox, 1, Smaller(n, Len(inbox)))
RecvGets(n) ==
  LET k == Smaller(n, Len(inbox)) IN
  /\ ~mDisconnected /\ k > 0
  /\ inbox' = SubSeq(inbox, k + 1, Len(inbox))
  /\ slips' = slips \union {s \in {"recv"} : k < n}
  /\ UNCHANGED mDisconnected

Proper(pieces) == pieces[1].at = 1 /\ pieces = Pieces(pieces[1].of, 1, Len(pieces))
Message(pieces) ==
  IF Proper(pieces) /\ Len(pieces) = AnswerLength(written[pieces[1].of])
    THEN pieces[1].of ELSE 0

Handles(pieces) == handled' = Append(handled, Message(pieces))
Stay == UNCHANGED <<composer, outbox, peer, faults>>
Done == spc' = "wait" /\ type' = "none" /\ left' = 0 /\ body' = <<>>

(* epoll reports a socket with something to read, or hung up, again and    *)
(* again.  The form before it leaves alone what a remote wrote before it   *)
(* hung up.                                                                *)
ReadableOpen == inbox # <<>> /\ ~closed
Readable == inbox # <<>> \/ closed

(* onDisplayEvent: the header.  What is none may look like any.            *)
OnDisplayEvent ==
  /\ spc = "wait" /\ Readable /\ ~mDisconnected
  /\ \/ RecvFails /\ UNCHANGED <<spc, type, body>>
     \/ /\ RecvGets(1)
        /\ body' = With(1)
        /\ type' \in IF Head(inbox).at = 1 THEN {written[Head(inbox).of].type}
                                           ELSE {a.type : a \in Answers}
        /\ spc' = "message"
  /\ UNCHANGED <<left, handled, connected>> /\ Stay

(* onDisplayInfoAck: a body of two pieces, then onConnect.                 *)
OnDisplayInfoAck ==
  /\ spc = "message" /\ type = "DISPINFO_ACK"
  /\ \/ RecvFails /\ UNCHANGED <<handled, connected>>
     \/ RecvGets(2) /\ Handles(With(2)) /\ connected' = TRUE
  /\ Done /\ Stay

OnDisplayBufferAck ==
  /\ spc = "message" /\ type = "DISPLAY_ACK"
  /\ (RecvFails /\ UNCHANGED handled) \/ (RecvGets(1) /\ Handles(With(1)))
  /\ Done /\ UNCHANGED connected /\ Stay

-----------------------------------------------------------------------------
(* onPresentLayersAck: flags, fence and the number of layers, then the     *)
(* layers one by one, for which it takes the memory unchecked.  The number *)
(* is what the stack held when it did not come, or is not that of a        *)
(* message of this type: any up to the bound, or one there is no memory    *)
(* for.  The forms before LayersToRead read one layer more, and none; the  *)
(* one before CountCame reads past it.                                     *)
LayerCounts == {a.n : a \in Answers}
LayersToReadAndOne(n) == n + 1
LayersSkipped(n) == 0
LayersToRead(n) == n
CountMissed(pieces) == FALSE
CountCame(pieces) ==
  Proper(pieces) /\ Len(pieces) = 3 /\ written[pieces[1].of].type = type

OnPresentLayersAck ==
  /\ spc = "message" /\ type = "PRESENT_LAYERS_ACK"
  /\ \/ RecvFails /\ Done /\ UNCHANGED handled
     \/ /\ RecvGets(2)
        /\ \E n \in IF CountCame(With(2)) THEN {written[body[1].of].n} ELSE LayerCounts :
             /\ n <= Memory
             /\ IF LayersToRead(n) = 0
                  THEN Handles(With(2)) /\ Done
                  ELSE /\ left' = LayersToRead(n) /\ spc' = "layers" /\ body' = With(2)
                       /\ UNCHANGED <<type, handled>>
  /\ UNCHANGED connected /\ Stay

RecvLayer ==
  /\ spc = "layers"
  /\ \/ RecvFails /\ Done /\ UNCHANGED handled
     \/ /\ RecvGets(1)
        /\ IF left = 1 THEN Handles(With(1)) /\ Done
                       ELSE /\ left' = left - 1 /\ body' = With(1)
                            /\ UNCHANGED <<spc, type, handled>>
  /\ UNCHANGED connected /\ Stay

(* Nobody catches the exception of resize.                                 *)
OutOfMemory ==
  /\ spc = "message" /\ type = "PRESENT_LAYERS_ACK"
  /\ RecvGets(2)
  /\ CountCame(With(2)) => written[body[1].of].n > Memory
  /\ spc' = "aborted"
  /\ UNCHANGED <<body, type, left, handled, connected>> /\ Stay

(* Unknown command: up to 1024 bytes are read, whatever the header says.   *)
(* The stream stays in step when they are the message and nothing else.    *)
OnUnknown ==
  /\ spc = "message" /\ ~Known([type |-> type])
  /\ \/ RecvFails
     \/ /\ inbox # <<>> /\ ~mDisconnected
        /\ slips' = slips \union {s \in {"recv"} : Message(With(UnknownRoom)) = 0}
        /\ inbox' = SubSeq(inbox, Smaller(UnknownRoom, Len(inbox)) + 1, Len(inbox))
        /\ UNCHANGED mDisconnected
  /\ Done /\ UNCHANGED <<handled, connected>> /\ Stay

Socket == \/ GetConfigs \/ OnDisplayEvent \/ OnDisplayInfoAck \/ OnDisplayBufferAck
          \/ OnPresentLayersAck \/ RecvLayer \/ OutOfMemory \/ OnUnknown

Next == Peer \/ Composer \/ Socket

(* epoll_wait returns while there is something to read, and the socket     *)
(* thread never blocks in a handler.  Of the composer and of the remote    *)
(* nothing is asked.                                                       *)
Spec == Init /\ [][Next]_vars /\ WF_vars(Socket)

-----------------------------------------------------------------------------
AllRequests == Requests \union {getConfigs}
Piece(messages) == [of : DOMAIN messages, at : Nat \ {0}]

Types ==
  /\ mDisconnected \in BOOLEAN
  /\ sent \in Seq(AllRequests) /\ sending \in Seq(Nat \ {0}) /\ piece \in Nat \ {0}
  /\ outbox \in Seq(Piece(sent)) /\ Len(outbox) <= Room
  /\ inbox \in Seq(Piece(written))
  /\ reading \in Seq(Piece(sent)) /\ got \in Seq(AllRequests \union {Garbled})
  /\ written \in Seq(Answers) /\ rest \in Seq(Piece(written)) /\ closed \in BOOLEAN
  /\ spc \in {"start", "wait", "message", "layers", "aborted"}
  /\ body \in Seq(Piece(written)) /\ left \in Nat
  /\ type \in {a.type : a \in Answers} \union {"none"}
  /\ handled \in Seq(0 .. Len(written)) /\ connected \in BOOLEAN
  /\ faults \subseteq {"in parts", "unhandled", "too many", "hung up", "slow"}
  /\ slips \subseteq {"send", "recv"}

(* The types.  The process only dies of a number of layers it did not      *)
(* receive, or of one a remote sent that there is no memory for            *)
(* (RemoteDisplay.cpp:437-438).                                            *)
TypeOK ==
  Types /\ (spc = "aborted" => "recv" \in slips \/ "too many" \in faults)

(* The remote gets every request the composer made, whole and in order,    *)
(* unless the connection breaks: the calls of send a request is made of    *)
(* add up to what its header announces, descriptors included, and one that *)
(* fails half way is the last.  Only a send that had room for a part and   *)
(* counts as success undoes this.                                          *)
Channel == INSTANCE RequestChannel WITH Requests <- AllRequests, open <- ~mDisconnected
RequestsDelivered ==
  Channel!Init /\ [][Channel!Next \/ "send" \in slips']_Channel!vars

(* The socket thread acts on the messages of the remote that it knows,     *)
(* whole, in the order they were written, on each once and leaving out     *)
(* none, as long as every recv got what it was for.                        *)
ActedOn(i) == \E k \in DOMAIN handled : handled[k] = i
AnswersMatch ==
  "recv" \in slips \/
    /\ \A k \in DOMAIN handled : /\ handled[k] \in DOMAIN written
                                /\ Known(written[handled[k]])
    /\ \A j, k \in DOMAIN handled : j < k => handled[j] < handled[k]
    /\ \A k \in DOMAIN handled, i \in DOMAIN written :
         i < handled[k] /\ Known(written[i]) => ActedOn(i)

(* A remote that keeps up with the requests, writes only messages          *)
(* onDisplayEvent has a case for, each in one go and with a number of      *)
(* layers there is memory for, and does not hang up is never taken for     *)
(* disconnected: no recv asks for more than a message has.  SERVER_IP_REQ  *)
(* (display_protocol.h:33-35) is not among them: when nothing follows its  *)
(* header the remote is dropped (RemoteDisplay.cpp:472-473).               *)
WellBehavedKept == mDisconnected => faults # {}

(* A message the socket thread knows that is written whole is acted on,    *)
(* whatever the remote and the composer do then or fail to do, unless the  *)
(* connection breaks, the stream is out of step or the process dies.       *)
IsWhole(i) == i < Len(written) \/ (i = Len(written) /\ rest = <<>>)
EveryAnswerHandled ==
  \A i \in 1 .. MaxAnswers :
    IsWhole(i) /\ Known(written[i]) ~>
      mDisconnected \/ "recv" \in slips \/ spc = "aborted" \/ ActedOn(i)
=============================================================================

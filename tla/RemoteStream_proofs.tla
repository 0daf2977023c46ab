------------------------ MODULE RemoteStream_proofs ------------------------
(***************************************************************************)
(* Proofs about RemoteStream, for any requests and messages, any bounds    *)
(* and any size of the socket buffer.  What has to be known is where the   *)
(* pieces of a message are between the two ends: the stream runs from the  *)
(* piece the reader is at to the one the writer is at.                     *)
(***************************************************************************)
EXTENDS RemoteStream, SequenceTheorems, TLAPS

-----------------------------------------------------------------------------
(* Where a stream goes on.  length[i] is the length of message i; the next *)
(* piece after the last one of a message is the first of the next message. *)
Following(length, p) ==
  IF p.at < length[p.of] THEN [of |-> p.of, at |-> p.at + 1]
                         ELSE [of |-> p.of + 1, at |-> 1]

(* s has the pieces from p on, and the one that comes next is q.           *)
Runs(length, s, p, q) ==
  IF s = <<>> THEN p = q
  ELSE /\ s[1] = p /\ Following(length, s[Len(s)]) = q
       /\ \A i \in 1 .. Len(s) - 1 : s[i + 1] = Following(length, s[i])

RequestLengths == [i \in DOMAIN sent |-> RequestLength(sent[i])]
AnswerLengths == [i \in DOMAIN written |-> AnswerLength(written[i])]

(* What is left to send of a request, which has at most four parts.        *)
Total(parts) ==
  CASE Len(parts) = 0 -> 0
    [] Len(parts) = 1 -> parts[1]
    [] Len(parts) = 2 -> parts[1] + parts[2]
    [] Len(parts) = 3 -> parts[1] + parts[2] + parts[3]
    [] OTHER -> parts[1] + parts[2] + parts[3] + parts[4]

(* The pieces of message m that were read are the first ones, and not all. *)
Partly(length, pieces, m) ==
  /\ pieces = Pieces(m, 1, Len(pieces))
  /\ pieces # <<>> => m \in DOMAIN length /\ Len(pieces) < length[m]

-----------------------------------------------------------------------------
(* The stream to the remote: nothing goes before getConfigs, and then what *)
(* is being sent is of the last request.                                   *)
AtStart ==
  spc = "start" => /\ sent = <<>> /\ sending = <<>> /\ outbox = <<>> /\ got = <<>>
                   /\ reading = <<>> /\ ~connected /\ ~mDisconnected

SendingLast == sending # <<>> => sent # <<>> /\ Len(sending) <= 4

SendingRuns(q) ==
  /\ sending # <<>> => /\ q = [of |-> Len(sent), at |-> piece]
                       /\ piece + Total(sending) = RequestLengths[Len(sent)] + 1
  /\ sending = <<>> /\ ~mDisconnected => q = [of |-> Len(sent) + 1, at |-> 1]

OutInSync ==
  /\ Len(got) <= Len(sent)
  /\ \A i \in 1 .. Len(got) : got[i] = sent[i]
  /\ Partly(RequestLengths, reading, Len(got) + 1)
  /\ \E q \in [of : Nat, at : Nat] :
       /\ SendingRuns(q)
       /\ Runs(RequestLengths, outbox, [of |-> Len(got) + 1, at |-> Len(reading) + 1], q)

OutInv ==
  /\ AtStart /\ SendingLast
  /\ "send" \in slips \/ OutInSync

-----------------------------------------------------------------------------
(* The stream from the remote: the next piece it writes.                   *)
Writing == IF rest = <<>> THEN [of |-> Len(written) + 1, at |-> 1] ELSE rest[1]

RestIsLast ==
  rest # <<>> =>
    /\ written # <<>> /\ Len(rest) < AnswerLengths[Len(written)]
    /\ rest = Pieces(Len(written), AnswerLengths[Len(written)] - Len(rest) + 1, Len(rest))

(* The socket thread has passed h messages.                                *)
Passed(h) ==
  /\ \A k \in DOMAIN handled : handled[k] \in 1 .. h /\ Known(written[handled[k]])
  /\ \A j, k \in DOMAIN handled : j < k => handled[j] < handled[k]
  /\ \A i \in 1 .. h : Known(written[i]) => ActedOn(i)

(* It has the first pieces of the next one, and this is where it goes on.  *)
Reached(h) ==
  IF body = <<>> THEN [of |-> h + 1, at |-> 1]
                 ELSE Following(AnswerLengths, [of |-> h + 1, at |-> Len(body)])

AtMessage(h) ==
  /\ body = Pieces(h + 1, 1, Len(body))
  /\ body # <<>> => h + 1 \in DOMAIN written /\ Len(body) <= AnswerLengths[h + 1]
  /\ spc \in {"start", "wait"} => body = <<>>
  /\ spc \in {"message", "layers"} => body # <<>> /\ type = written[h + 1].type
  /\ spc = "message" => Len(body) = 1
  /\ spc = "layers" => /\ type = "PRESENT_LAYERS_ACK"
                       /\ Len(body) + left = AnswerLengths[h + 1]
  /\ Runs(AnswerLengths, inbox, Reached(h), Writing)

InInSync ==
  /\ spc = "aborted" => "too many" \in faults
  /\ \E h \in 0 .. Len(written) :
       Passed(h) /\ (~mDisconnected /\ spc # "aborted" => AtMessage(h))

(* A number of layers there is no memory for was written by the remote.    *)
ManyKept == \A i \in DOMAIN written : TooMany(written[i]) => "too many" \in faults

(* At a message, its header is there; at its layers, some are missing.     *)
HeaderKept ==
  /\ spc \in {"message", "layers"} => body # <<>>
  /\ spc = "layers" => left # 0

InInv ==
  /\ RestIsLast /\ HeaderKept /\ ManyKept
  /\ "recv" \in slips \/ InInSync

WellBehaved ==
  faults = {} => /\ ~mDisconnected /\ "recv" \notin slips /\ rest = <<>> /\ ~closed
                 /\ \A i \in DOMAIN written : Known(written[i])
-----------------------------------------------------------------------------
(* Sequences of pieces.                                                    *)
Place == [of : Nat, at : Nat]

LEMMA PiecesAre ==
  ASSUME NEW m \in Nat, NEW from \in Nat, NEW n \in Nat
  PROVE  Pieces(m, from, n) \in Seq(Place) /\ Len(Pieces(m, from, n)) = n
<1>1. \A i \in 1 .. n : from + i - 1 \in Nat
  OBVIOUS
<1>2. Pieces(m, from, n) \in [1 .. n -> Place]
  BY <1>1 DEF Pieces, Place
<1>3. Pieces(m, from, n) \in Seq(Place)
  BY <1>2, SeqDef
<1>4. DOMAIN Pieces(m, from, n) = 1 .. n
  BY DEF Pieces
<1>5. QED
  BY <1>3, <1>4, LenProperties

LEMMA PiecesTyped ==
  ASSUME NEW m \in Nat, NEW from \in Nat \ {0}, NEW n \in Nat, NEW S, m \in S
  PROVE  /\ Pieces(m, from, n) \in Seq([of : S, at : Nat \ {0}])
         /\ Len(Pieces(m, from, n)) = n
<1>1. \A i \in 1 .. n : from + i - 1 \in Nat \ {0}
  OBVIOUS
<1>2. Pieces(m, from, n) \in [1 .. n -> [of : S, at : Nat \ {0}]]
  BY <1>1 DEF Pieces
<1>3. Pieces(m, from, n) \in Seq([of : S, at : Nat \ {0}])
  <2>1. \A T : Pieces(m, from, n) \in [1 .. n -> T] => Pieces(m, from, n) \in Seq(T)
    BY SeqDef
  <2>2. QED
    BY <1>2, <2>1
<1>4. QED
  BY <1>3, PiecesAre

LEMMA FirstPiece ==
  ASSUME NEW m \in Nat, NEW from \in Nat, NEW n \in Nat, n # 0
  PROVE  Pieces(m, from, n)[1] = [of |-> m, at |-> from]
<1>1. 1 \in 1 .. n /\ from + 1 - 1 = from
  OBVIOUS
<1>2. QED
  BY <1>1 DEF Pieces

LEMMA PiecesJoin ==
  ASSUME NEW m \in Nat, NEW n \in Nat, NEW k \in Nat
  PROVE  Pieces(m, 1, n) \o Pieces(m, n + 1, k) = Pieces(m, 1, n + k)
<1> DEFINE s == Pieces(m, 1, n)
           t == Pieces(m, n + 1, k)
           u == Pieces(m, 1, n + k)
<1>1. /\ s \in Seq(Place) /\ t \in Seq(Place) /\ u \in Seq(Place)
      /\ Len(s) = n /\ Len(t) = k /\ Len(u) = n + k
      /\ \A i \in 1 .. n : s[i] = [of |-> m, at |-> i]
      /\ \A i \in 1 .. k : t[i] = [of |-> m, at |-> n + i]
      /\ \A i \in 1 .. n + k : u[i] = [of |-> m, at |-> i]
  <2>1. /\ s \in Seq(Place) /\ t \in Seq(Place) /\ u \in Seq(Place)
        /\ Len(s) = n /\ Len(t) = k /\ Len(u) = n + k
        /\ \A i \in 1 .. n : s[i] = [of |-> m, at |-> 1 + i - 1]
        /\ \A i \in 1 .. k : t[i] = [of |-> m, at |-> n + 1 + i - 1]
        /\ \A i \in 1 .. n + k : u[i] = [of |-> m, at |-> 1 + i - 1]
    <3>1. 1 \in Nat /\ n + 1 \in Nat /\ n + k \in Nat
      OBVIOUS
    <3>2. s \in Seq(Place) /\ Len(s) = n
      BY <3>1, PiecesAre
    <3>3. t \in Seq(Place) /\ Len(t) = k
      BY <3>1, PiecesAre
    <3>4. u \in Seq(Place) /\ Len(u) = n + k
      BY <3>1, PiecesAre
    <3>5. /\ \A i \in 1 .. n : s[i] = [of |-> m, at |-> 1 + i - 1]
          /\ \A i \in 1 .. k : t[i] = [of |-> m, at |-> n + 1 + i - 1]
          /\ \A i \in 1 .. n + k : u[i] = [of |-> m, at |-> 1 + i - 1]
      BY DEF Pieces
    <3>6. QED
      BY <3>2, <3>3, <3>4, <3>5
  <2>2. /\ \A i \in 1 .. n : 1 + i - 1 = i
        /\ \A i \in 1 .. k : n + 1 + i - 1 = n + i
        /\ \A i \in 1 .. n + k : 1 + i - 1 = i
    OBVIOUS
  <2> HIDE DEF s, t, u
  <2>3. QED
    BY <2>1, <2>2
<1> HIDE DEF s, t, u
<1> DEFINE w == s \o t
<1>2. /\ w \in Seq(Place) /\ Len(w) = n + k
      /\ \A i \in 1 .. n + k : w[i] = IF i <= n THEN s[i] ELSE t[i - n]
  <2>1. s \in Seq(Place) /\ t \in Seq(Place) /\ Len(s) = n /\ Len(t) = k
    BY <1>1
  <2>2. /\ w \in Seq(Place) /\ Len(w) = Len(s) + Len(t)
        /\ \A i \in 1 .. Len(s) + Len(t) : w[i] = IF i <= Len(s) THEN s[i] ELSE t[i - Len(s)]
    BY <2>1, ConcatProperties
  <2> HIDE DEF w
  <2>3. QED
    BY <2>1, <2>2
<1> HIDE DEF w
<1>3. ASSUME NEW i \in 1 .. n + k PROVE w[i] = u[i]
  <2>1. CASE i <= n
    BY <1>1, <1>2, <2>1
  <2>2. CASE i > n
    <3>1. i - n \in 1 .. k /\ n + (i - n) = i /\ ~(i <= n)
      BY <2>2
    <3>2. t[i - n] = [of |-> m, at |-> i]
      BY <1>1, <3>1
    <3>3. w[i] = t[i - n]
      BY <1>1, <1>2, <3>1
    <3>4. QED
      BY <1>1, <3>2, <3>3
  <2>3. QED
    BY <2>1, <2>2
<1>4. w = u
  BY <1>1, <1>2, <1>3, SeqEqual
<1>5. QED
  BY <1>4 DEF s, t, u, w

LEMMA LastFollowed ==
  ASSUME NEW length, NEW m, NEW n \in Nat, length[m] = n
  PROVE  Following(length, [of |-> m, at |-> n]) = [of |-> m + 1, at |-> 1]
  BY DEF Following

(* A stretch of a message runs from its first piece to what follows its    *)
(* last.                                                                   *)
LEMMA PiecesRun ==
  ASSUME NEW length, NEW m \in Nat, NEW from \in Nat, NEW n \in Nat \ {0},
         length[m] \in Nat, from + n - 1 <= length[m]
  PROVE  Runs(length, Pieces(m, from, n), [of |-> m, at |-> from],
              Following(length, [of |-> m, at |-> from + n - 1]))
<1> DEFINE s == Pieces(m, from, n)
<1>1. /\ s \in Seq(Place) /\ Len(s) = n
      /\ \A i \in 1 .. n : s[i] = [of |-> m, at |-> from + i - 1]
  <2>1. s \in Seq(Place) /\ Len(s) = n
    BY PiecesAre
  <2>2. \A i \in 1 .. n : s[i] = [of |-> m, at |-> from + i - 1]
    BY DEF Pieces
  <2>3. QED
    BY <2>1, <2>2
<1> HIDE DEF s
<1>2. s # <<>> /\ s[1] = [of |-> m, at |-> from] /\ s[n] = [of |-> m, at |-> from + n - 1]
  BY <1>1
<1>3. ASSUME NEW i \in 1 .. n - 1 PROVE s[i + 1] = Following(length, s[i])
  <2>1. s[i] = [of |-> m, at |-> from + i - 1] /\ s[i + 1] = [of |-> m, at |-> from + i]
    BY <1>1, <1>3
  <2>2. QED
    BY <2>1 DEF Following
<1>4. QED
  BY <1>1, <1>2, <1>3 DEF Runs, s

(* Two stretches that meet are one.                                        *)
LEMMA RunsJoin ==
  ASSUME NEW length, NEW s \in Seq(Place), NEW t \in Seq(Place), NEW p, NEW q, NEW r,
         Runs(length, s, p, q), Runs(length, t, q, r)
  PROVE  Runs(length, s \o t, p, r)
<1> DEFINE u == s \o t
<1>1. /\ u \in Seq(Place) /\ Len(u) = Len(s) + Len(t)
      /\ \A i \in 1 .. Len(u) : u[i] = IF i <= Len(s) THEN s[i] ELSE t[i - Len(s)]
  BY ConcatProperties
<1>2. Len(s) \in Nat /\ Len(t) \in Nat
  OBVIOUS
<1>3. CASE s = <<>>
  BY <1>3, ConcatEmptySeq DEF Runs
<1>4. CASE t = <<>>
  BY <1>4, ConcatEmptySeq DEF Runs
<1>5. CASE s # <<>> /\ t # <<>>
  <2> HIDE DEF u
  <2>1. Len(s) > 0 /\ Len(t) > 0
    BY <1>5
  <2>2. u[1] = p /\ Following(length, u[Len(u)]) = r /\ u # <<>>
    BY <1>1, <1>2, <1>5, <2>1 DEF Runs
  <2>3. ASSUME NEW i \in 1 .. Len(u) - 1 PROVE u[i + 1] = Following(length, u[i])
    <3>1. CASE i < Len(s)
      BY <1>1, <1>2, <1>5, <3>1 DEF Runs
    <3>2. CASE i = Len(s)
      BY <1>1, <1>2, <1>5, <2>1, <3>2 DEF Runs
    <3>3. CASE i > Len(s)
      <4>1. /\ i - Len(s) \in 1 .. Len(t) - 1
            /\ u[i] = t[i - Len(s)] /\ u[i + 1] = t[(i - Len(s)) + 1]
        BY <1>1, <1>2, <3>3
      <4>2. QED
        BY <1>5, <4>1 DEF Runs
    <3>4. QED
      BY <1>2, <3>1, <3>2, <3>3
  <2>4. QED
    BY <2>2, <2>3 DEF Runs, u
<1>6. QED
  BY <1>3, <1>4, <1>5

(* A stretch without its first piece.                                      *)
LEMMA RunsOn ==
  ASSUME NEW length, NEW s \in Seq(Place), s # <<>>, NEW p, NEW q, Runs(length, s, p, q)
  PROVE  Head(s) = p /\ s[1] = p /\ Runs(length, Tail(s), Following(length, p), q)
<1>1. /\ s[1] = p /\ Following(length, s[Len(s)]) = q
      /\ \A i \in 1 .. Len(s) - 1 : s[i + 1] = Following(length, s[i])
  BY DEF Runs
<1> DEFINE t == Tail(s)
<1>2. /\ t \in Seq(Place) /\ Len(t) = Len(s) - 1 /\ Len(s) \in Nat \ {0} /\ Len(t) \in Nat
      /\ \A i \in 1 .. Len(t) : t[i] = s[i + 1]
  OBVIOUS
<1> HIDE DEF t
<1>3. CASE t = <<>>
  <2>1. Len(s) = 1
    BY <1>2, <1>3
  <2>2. QED
    BY <1>1, <1>2, <1>3, <2>1 DEF Runs, t
<1>4. CASE t # <<>>
  <2>1. Len(t) > 0
    BY <1>2, <1>4
  <2>2. t[1] = Following(length, p) /\ Following(length, t[Len(t)]) = q
    BY <1>1, <1>2, <2>1
  <2>3. ASSUME NEW i \in 1 .. Len(t) - 1 PROVE t[i + 1] = Following(length, t[i])
    <3>1. i + 1 \in 1 .. Len(s) - 1 /\ t[i] = s[i + 1] /\ t[i + 1] = s[(i + 1) + 1]
      BY <1>2
    <3>2. QED
      BY <1>1, <3>1
  <2>4. QED
    BY <1>1, <1>2, <1>4, <2>2, <2>3 DEF Runs, t
<1>5. QED
  BY <1>3, <1>4

(* More messages do not move the pieces of the first ones.                 *)
LEMMA RunsStay ==
  ASSUME NEW n \in Nat, NEW length, NEW longer, \A i \in 1 .. n : longer[i] = length[i],
         NEW s \in Seq([of : 1 .. n, at : Nat \ {0}]), NEW p, NEW q, Runs(length, s, p, q)
  PROVE  Runs(longer, s, p, q)
<1>1. ASSUME NEW i \in 1 .. Len(s) PROVE s[i].of \in 1 .. n
  <2>1. s[i] \in [of : 1 .. n, at : Nat \ {0}]
    BY ElementOfSeq
  <2>2. QED
    BY <2>1
<1>2. \A i \in 1 .. Len(s) : Following(longer, s[i]) = Following(length, s[i])
  BY <1>1 DEF Following
<1>3. Len(s) \in Nat /\ (s # <<>> => Len(s) \in 1 .. Len(s))
  OBVIOUS
<1>4. \A i \in 1 .. Len(s) - 1 : i \in 1 .. Len(s)
  BY <1>3
<1>5. QED
  BY <1>2, <1>3, <1>4 DEF Runs
-----------------------------------------------------------------------------
(* Requests, messages and their lengths.                                   *)
LEMMA LengthsOfAnswers ==
  ASSUME NEW a \in Answers
  PROVE  /\ AnswerLength(a) \in Nat \ {0} /\ a.n \in Nat
         /\ Known(a) => AnswerLength(a) > 1
<1>1. a \in [type : STRING, n : Nat]
  BY StreamAssumption DEF StreamAssumption
<1>2. a.n \in Nat
  BY <1>1
<1>3. CASE a.type = "DISPINFO_ACK"
  BY <1>2, <1>3 DEF AnswerLength
<1>4. CASE a.type = "DISPLAY_ACK"
  BY <1>2, <1>4 DEF AnswerLength
<1>5. CASE a.type = "PRESENT_LAYERS_ACK"
  BY <1>2, <1>5 DEF AnswerLength
<1>6. CASE ~Known(a)
  BY <1>2, <1>6 DEF AnswerLength, Known
<1>7. QED
  BY <1>3, <1>4, <1>5, <1>6 DEF Known

LEMMA LengthsOfRequests ==
  /\ \A r \in AllRequests : RequestLength(r) \in Nat \ {0} /\ r.n \in Nat
  /\ Garbled \notin AllRequests /\ RequestLength(getConfigs) = 1
<1>1. ASSUME NEW r \in AllRequests PROVE RequestLength(r) \in Nat \ {0} /\ r.n \in Nat
  <2>1. r.n \in Nat
    <3>1. CASE r \in Requests
      BY <3>1, StreamAssumption DEF StreamAssumption
    <3>2. CASE r = getConfigs
      BY <3>2 DEF getConfigs
    <3>3. QED
      BY <3>1, <3>2 DEF AllRequests
  <2>2. /\ 1 \in Nat \ {0} /\ 2 \in Nat \ {0} /\ 3 + r.n \in Nat \ {0}
        /\ 1 + r.n \in Nat \ {0}
    BY <2>1
  <2>3. QED
    BY <2>1, <2>2 DEF RequestLength
<1>2. Garbled \notin AllRequests
  BY StreamAssumption DEF StreamAssumption, AllRequests, Garbled, getConfigs
<1>3. RequestLength(getConfigs) = 1
  BY DEF RequestLength, getConfigs
<1>4. QED
  BY <1>1, <1>2, <1>3

(* The calls of send a request is made of add up to its length.            *)
LEMMA SendsAddUp ==
  ASSUME NEW r \in Requests
  PROVE  /\ Sends(r) \in Seq(Nat \ {0}) /\ Sends(r) # <<>> /\ Len(Sends(r)) <= 4
         /\ Total(Sends(r)) = RequestLength(r)
<1>1. r.n \in Nat /\ r.op # "getConfigs" /\ (r.op = "createBuffer" => r.n <= 1)
  BY StreamAssumption DEF StreamAssumption
<1>2. CASE r.op = "createBuffer"
  <2>1. CASE r.n > 0
    <3>1. Sends(r) = <<1, 1, 1, 1>> /\ r.n = 1 /\ RequestLength(r) = 3 + r.n
      BY <1>1, <1>2, <2>1 DEF Sends, RequestLength
    <3>2. QED
      BY <3>1 DEF Total
  <2>2. CASE ~(r.n > 0)
    <3>1. Sends(r) = <<1, 1, 1>> /\ r.n = 0 /\ RequestLength(r) = 3 + r.n
      BY <1>1, <1>2, <2>2 DEF Sends, RequestLength
    <3>2. QED
      BY <3>1 DEF Total
  <2>3. QED
    BY <2>1, <2>2
<1>3. CASE r.op = "removeBuffer"
  <2>1. Sends(r) = <<1, 1>> /\ RequestLength(r) = 2
    BY <1>3 DEF Sends, RequestLength
  <2>2. QED
    BY <2>1 DEF Total
<1>4. CASE r.op \in {"updateLayers", "presentLayers"}
  <2>1. RequestLength(r) = 1 + r.n
    BY <1>4 DEF RequestLength
  <2>2. CASE r.n > 0
    <3>1. Sends(r) = <<1, r.n>> /\ r.n \in Nat \ {0}
      BY <1>1, <1>4, <2>2 DEF Sends
    <3>2. QED
      BY <2>1, <3>1 DEF Total
  <2>3. CASE r.n = 0
    <3>1. Sends(r) = <<1>>
      BY <1>1, <1>4, <2>3 DEF Sends
    <3>2. QED
      BY <2>1, <2>3, <3>1 DEF Total
  <2>4. QED
    BY <1>1, <2>2, <2>3
<1>5. CASE r.op \notin {"createBuffer", "removeBuffer", "updateLayers", "presentLayers"}
  <2>1. Sends(r) = <<2>> /\ RequestLength(r) = 2
    BY <1>1, <1>5 DEF Sends, RequestLength
  <2>2. QED
    BY <2>1 DEF Total
<1>6. QED
  BY <1>2, <1>3, <1>4, <1>5

(* What a call of send leaves of it.                                       *)
LEMMA TotalOfTail ==
  ASSUME NEW s \in Seq(Nat \ {0}), s # <<>>, Len(s) <= 4
  PROVE  /\ Head(s) \in Nat \ {0} /\ Tail(s) \in Seq(Nat \ {0}) /\ Len(Tail(s)) <= 4
         /\ Total(s) = Head(s) + Total(Tail(s)) /\ Total(Tail(s)) \in Nat
         /\ Tail(s) = <<>> => Total(Tail(s)) = 0
         /\ Tail(s) # <<>> => Total(Tail(s)) > 0
<1> DEFINE t == Tail(s)
<1>1. /\ t \in Seq(Nat \ {0}) /\ Head(s) = s[1] /\ Len(t) = Len(s) - 1
      /\ \A i \in 1 .. Len(t) : t[i] = s[i + 1]
  BY HeadTailProperties
<1>2. Len(s) \in 1 .. 4 /\ Len(s) \in {1, 2, 3, 4} /\ \A i \in 1 .. Len(s) : s[i] \in Nat \ {0}
  <2>1. \A i \in 1 .. Len(s) : s[i] \in Nat \ {0}
    BY ElementOfSeq
  <2>2. Len(s) \in Nat \ {0}
    BY EmptySeq
  <2>3. ASSUME NEW n \in Nat \ {0}, n <= 4 PROVE n \in 1 .. 4 /\ n \in {1, 2, 3, 4}
    BY <2>3
  <2>4. QED
    BY <2>1, <2>2, <2>3
<1> HIDE DEF t
<1> DEFINE Claim == /\ Total(s) = s[1] + Total(t) /\ Total(t) \in Nat
                    /\ t = <<>> => Total(t) = 0
                    /\ t # <<>> => Total(t) > 0
<1>3. t = <<>> <=> Len(t) = 0
  BY <1>1, EmptySeq
<1>4. ASSUME Len(s) = 1 PROVE Claim
  <2>1. Len(t) = 0 /\ t = <<>> /\ s[1] \in Nat \ {0}
    BY <1>1, <1>2, <1>3, <1>4
  <2>2. Total(s) = s[1] /\ Total(t) = 0
    BY <1>4, <2>1 DEF Total
  <2>3. QED
    BY <2>1, <2>2
<1>5. ASSUME Len(s) = 2 PROVE Claim
  <2>1. /\ Len(t) = 1 /\ t # <<>> /\ t[1] = s[2]
        /\ s[1] \in Nat \ {0} /\ s[2] \in Nat \ {0}
    BY <1>1, <1>2, <1>3, <1>5
  <2>2. Total(s) = s[1] + s[2] /\ Total(t) = s[2]
    BY <1>5, <2>1 DEF Total
  <2>3. QED
    BY <2>1, <2>2
<1>6. ASSUME Len(s) = 3 PROVE Claim
  <2>1. /\ Len(t) = 2 /\ t # <<>> /\ t[1] = s[2] /\ t[2] = s[3]
        /\ s[1] \in Nat \ {0} /\ s[2] \in Nat \ {0} /\ s[3] \in Nat \ {0}
    BY <1>1, <1>2, <1>3, <1>6
  <2>2. Total(s) = s[1] + s[2] + s[3] /\ Total(t) = s[2] + s[3]
    BY <1>6, <2>1 DEF Total
  <2>3. QED
    BY <2>1, <2>2
<1>7. ASSUME Len(s) = 4 PROVE Claim
  <2>1. /\ Len(t) = 3 /\ t # <<>> /\ t[1] = s[2] /\ t[2] = s[3] /\ t[3] = s[4]
        /\ s[1] \in Nat \ {0} /\ s[2] \in Nat \ {0} /\ s[3] \in Nat \ {0}
        /\ s[4] \in Nat \ {0}
    BY <1>1, <1>2, <1>3, <1>7
  <2>2. Total(s) = s[1] + s[2] + s[3] + s[4] /\ Total(t) = s[2] + s[3] + s[4]
    BY <1>7, <2>1 DEF Total
  <2>3. ASSUME NEW a \in Nat \ {0}, NEW b \in Nat \ {0}, NEW c \in Nat \ {0},
               NEW d \in Nat \ {0}
        PROVE  a + b + c + d = a + (b + c + d) /\ b + c + d \in Nat /\ b + c + d > 0
    OBVIOUS
  <2>4. QED
    BY <2>1, <2>2, <2>3, SMTT(30)
<1>8. Claim
  BY <1>2, <1>4, <1>5, <1>6, <1>7
<1>9. s[1] \in Nat \ {0} /\ Len(t) <= 4
  <2>1. 1 \in 1 .. Len(s) /\ Len(s) - 1 <= 4
    BY <1>2
  <2>2. QED
    BY <1>1, <1>2, <2>1
<1>10. QED
  BY <1>1, <1>8, <1>9 DEF t
-----------------------------------------------------------------------------
(* Types.                                                                  *)
LEMMA PieceFacts ==
  ASSUME Types
  PROVE  /\ DOMAIN sent = 1 .. Len(sent) /\ Len(sent) \in Nat
         /\ DOMAIN written = 1 .. Len(written) /\ Len(written) \in Nat
         /\ DOMAIN handled = 1 .. Len(handled) /\ Len(handled) \in Nat
         /\ Piece(sent) = [of : 1 .. Len(sent), at : Nat \ {0}]
         /\ Piece(written) = [of : 1 .. Len(written), at : Nat \ {0}]
         /\ Seq(Piece(sent)) \subseteq Seq(Place) /\ Seq(Piece(written)) \subseteq Seq(Place)
<1>1. sent \in Seq(AllRequests) /\ written \in Seq(Answers) /\ handled \in Seq(0 .. Len(written))
  BY DEF Types
<1>2. /\ DOMAIN sent = 1 .. Len(sent) /\ Len(sent) \in Nat
      /\ DOMAIN written = 1 .. Len(written) /\ Len(written) \in Nat
      /\ DOMAIN handled = 1 .. Len(handled) /\ Len(handled) \in Nat
  BY <1>1, LenProperties
<1>3. /\ Piece(sent) = [of : 1 .. Len(sent), at : Nat \ {0}]
      /\ Piece(written) = [of : 1 .. Len(written), at : Nat \ {0}]
  BY <1>2 DEF Piece
<1>4. ASSUME NEW n \in Nat PROVE [of : 1 .. n, at : Nat \ {0}] \subseteq Place
  <2>1. 1 .. n \subseteq Nat
    OBVIOUS
  <2>2. QED
    BY <2>1 DEF Place
<1>5. ASSUME NEW S, S \subseteq Place, NEW s \in Seq(S) PROVE s \in Seq(Place)
  BY <1>5, SeqMonotonic
<1>6. QED
  BY <1>2, <1>3, <1>4, <1>5

(* The first two of a sequence, and the rest.                              *)
LEMMA FirstTwo ==
  ASSUME NEW S, NEW s \in Seq(S), s # <<>>
  PROVE  /\ Head(s) = s[1] /\ s[1] \in S /\ Len(s) \in Nat \ {0}
         /\ SubSeq(s, 1, 1) = <<Head(s)>> /\ SubSeq(s, 2, Len(s)) = Tail(s)
         /\ Len(s) > 1 => /\ Tail(s) # <<>> /\ Head(Tail(s)) = s[2] /\ s[2] \in S
                          /\ SubSeq(s, 1, 2) = <<Head(s), Head(Tail(s))>>
                          /\ SubSeq(s, 3, Len(s)) = Tail(Tail(s))
<1>1. Len(s) \in Nat \ {0}
  BY EmptySeq
<1>2. 1 \in 1 .. Len(s) /\ s[1] \in S
  BY <1>1, ElementOfSeq
<1>3. Head(s) = s[1]
  OBVIOUS
<1>4. SubSeq(s, 2, Len(s)) = Tail(s)
  BY TailIsSubSeq
<1>5. SubSeq(s, 1, 1) = <<s[1]>>
  <2>1. \A i \in 1 .. 1 : s[i] \in S
    BY <1>2
  <2>2. /\ SubSeq(s, 1, 1) \in Seq(S) /\ Len(SubSeq(s, 1, 1)) = 1
        /\ SubSeq(s, 1, 1)[1] = s[1]
    BY <2>1, SubSeqProperties
  <2>3. <<s[1]>> \in Seq(S) /\ Len(<<s[1]>>) = 1 /\ <<s[1]>>[1] = s[1]
    BY <1>2
  <2>4. \A i \in 1 .. 1 : SubSeq(s, 1, 1)[i] = <<s[1]>>[i]
    BY <2>2, <2>3
  <2>5. QED
    BY <2>2, <2>3, <2>4, SeqEqual
<1>6. ASSUME Len(s) > 1
      PROVE  /\ Tail(s) # <<>> /\ Head(Tail(s)) = s[2] /\ s[2] \in S
             /\ SubSeq(s, 1, 2) = <<s[1], s[2]>> /\ SubSeq(s, 3, Len(s)) = Tail(Tail(s))
  <2>1. 2 \in 1 .. Len(s) /\ Len(s) \in 2 .. Len(s)
    BY <1>1, <1>6
  <2>2. Head(SubSeq(s, 2, Len(s))) = s[2] /\ Tail(SubSeq(s, 2, Len(s))) = SubSeq(s, 2 + 1, Len(s))
    BY <2>1, HeadTailOfSubSeq
  <2>3. s[2] \in S
    BY <2>1, ElementOfSeq
  <2>4. Tail(s) # <<>>
    <3>1. Len(Tail(s)) = Len(s) - 1 /\ Len(<<>>) = 0
      BY HeadTailProperties, EmptySeq
    <3>2. \A n \in Nat \ {0} : n > 1 => n - 1 # 0
      OBVIOUS
    <3>3. QED
      BY <1>1, <1>6, <3>1, <3>2, Zenon
  <2>5. SubSeq(s, 1, 2) = <<s[1], s[2]>>
    <3>1. \A i \in 1 .. 2 : s[i] \in S
      BY <1>2, <2>3
    <3>2. /\ SubSeq(s, 1, 2) \in Seq(S) /\ Len(SubSeq(s, 1, 2)) = 2
          /\ SubSeq(s, 1, 2)[1] = s[1] /\ SubSeq(s, 1, 2)[2] = s[2]
      BY <3>1, SubSeqProperties
    <3>3. /\ <<s[1], s[2]>> \in Seq(S) /\ Len(<<s[1], s[2]>>) = 2
          /\ <<s[1], s[2]>>[1] = s[1] /\ <<s[1], s[2]>>[2] = s[2]
      BY <1>2, <2>3
    <3>4. \A i \in 1 .. 2 : SubSeq(s, 1, 2)[i] = <<s[1], s[2]>>[i]
      BY <3>2, <3>3
    <3>5. QED
      BY <3>2, <3>3, <3>4, SeqEqual
  <2>6. 2 + 1 = 3
    OBVIOUS
  <2>7. QED
    BY <1>4, <2>2, <2>3, <2>4, <2>5, <2>6
<1>7. QED
  BY <1>1, <1>2, <1>3, <1>4, <1>5, <1>6

(* A recv for up to UnknownRoom pieces gets some; the rest stays.          *)
LEMMA SomeTaken ==
  ASSUME NEW S, NEW s \in Seq(S), s # <<>>
  PROVE  LET k == Smaller(UnknownRoom, Len(s)) IN
         /\ k \in 1 .. Len(s) /\ Len(s) \in Nat
         /\ SubSeq(s, 1, k) \in Seq(S) /\ Len(SubSeq(s, 1, k)) = k
         /\ \A i \in 1 .. k : SubSeq(s, 1, k)[i] = s[i]
<1>1. UnknownRoom \in Nat \ {0}
  BY StreamAssumption DEF StreamAssumption
<1>2. Len(s) \in Nat \ {0}
  BY EmptySeq, LenProperties
<1>3. PICK k : k = Smaller(UnknownRoom, Len(s))
  OBVIOUS
<1>4. k \in 1 .. Len(s) /\ k \in Nat
  BY <1>1, <1>2, <1>3 DEF Smaller
<1>5. \A i \in 1 .. k : s[i] \in S
  BY <1>2, <1>4, ElementOfSeq
<1>6. /\ SubSeq(s, 1, k) \in Seq(S) /\ Len(SubSeq(s, 1, k)) = k
      /\ \A i \in 1 .. k : SubSeq(s, 1, k)[i] = s[i]
  BY <1>4, <1>5, SubSeqProperties
<1>7. QED
  BY <1>2, <1>3, <1>4, <1>6

LEMMA RestOf ==
  ASSUME NEW S, NEW s \in Seq(S), s # <<>>
  PROVE  SubSeq(s, Smaller(UnknownRoom, Len(s)) + 1, Len(s)) \in Seq(S)
<1>1. PICK k : k = Smaller(UnknownRoom, Len(s))
  OBVIOUS
<1>2. k \in 1 .. Len(s) /\ Len(s) \in Nat
  BY <1>1, SomeTaken
<1>3. \A i \in k + 1 .. Len(s) : s[i] \in S
  BY <1>2, ElementOfSeq
<1>4. QED
  BY <1>1, <1>2, <1>3, SubSeqProperties

(* A stretch without its first k pieces.                                   *)
LEMMA RunsFrom ==
  ASSUME NEW length, NEW s \in Seq(Place), NEW k \in 1 .. Len(s), NEW p, NEW q,
         Runs(length, s, p, q)
  PROVE  Runs(length, SubSeq(s, k + 1, Len(s)), Following(length, s[k]), q)
<1>1. Len(s) \in Nat /\ k \in Nat
  BY LenProperties
<1>2. s # <<>>
  BY <1>1, EmptySeq
<1>3. /\ Following(length, s[Len(s)]) = q
      /\ \A i \in 1 .. Len(s) - 1 : s[i + 1] = Following(length, s[i])
  BY <1>2 DEF Runs
<1>4. PICK t, n : t = SubSeq(s, k + 1, Len(s)) /\ n = Len(s)
  OBVIOUS
<1>5. \A i \in k + 1 .. n : s[i] \in Place
  BY <1>1, <1>4, ElementOfSeq
<1>6. /\ t \in Seq(Place) /\ Len(t) = n - k
      /\ \A i \in 1 .. n - k : t[i] = s[k + i]
  <2>1. /\ k + 1 \in Nat /\ n \in Nat /\ (k + 1 <= n => n - (k + 1) + 1 = n - k)
        /\ \A i \in 1 .. n - k : (k + 1) + i - 1 = k + i
        /\ (~(k + 1 <= n) => n - k = 0)
    BY <1>1, <1>4
  <2>2. QED
    BY <1>1, <1>4, <1>5, <2>1, SubSeqProperties
<1>7. CASE k = n
  <2>1. t = <<>>
    BY <1>4, <1>6, <1>7, EmptySeq
  <2>2. QED
    BY <1>3, <1>4, <1>7, <2>1 DEF Runs
<1>8. CASE k # n
  <2>1. n - k \in Nat \ {0} /\ 1 \in 1 .. n - k /\ k \in 1 .. n - 1 /\ k + (n - k) = n
    BY <1>1, <1>4, <1>8
  <2>2. t # <<>> /\ t[1] = Following(length, s[k]) /\ t[Len(t)] = s[n]
    <3>1. t # <<>>
      BY <1>6, <2>1, EmptySeq
    <3>2. t[1] = s[k + 1] /\ t[n - k] = s[k + (n - k)]
      BY <1>6, <2>1
    <3>3. s[k + 1] = Following(length, s[k])
      BY <1>3, <1>4, <2>1
    <3>4. QED
      BY <1>6, <2>1, <3>1, <3>2, <3>3
  <2>3. ASSUME NEW i \in 1 .. Len(t) - 1 PROVE t[i + 1] = Following(length, t[i])
    <3>1. /\ i \in 1 .. n - k /\ i + 1 \in 1 .. n - k /\ k + i \in 1 .. n - 1
          /\ k + (i + 1) = (k + i) + 1
      BY <1>1, <1>4, <1>6, <2>1
    <3>2. t[i] = s[k + i] /\ t[i + 1] = s[k + (i + 1)]
      BY <1>6, <3>1
    <3>3. QED
      BY <1>3, <1>4, <3>1, <3>2
  <2>4. QED
    BY <1>3, <1>4, <2>2, <2>3 DEF Runs
<1>9. QED
  BY <1>7, <1>8

(* What a recv for n pieces has when it does not fail.                     *)
LEMMA Received ==
  ASSUME Types, NEW n \in {1, 2}, RecvGets(n)
  PROVE  /\ ~mDisconnected /\ mDisconnected' = mDisconnected /\ inbox # <<>>
         /\ inbox' \in Seq(Piece(written))
         /\ With(n) \in Seq(Piece(written)) /\ With(n) # <<>>
         /\ slips \subseteq slips' /\ slips' \subseteq {"send", "recv"}
         /\ body # <<>> => With(n)[1] = body[1]
         /\ n = 1 => /\ With(n) = body \o <<Head(inbox)>> /\ inbox' = Tail(inbox)
                     /\ slips' = slips
         /\ n = 2 /\ "recv" \notin slips' =>
              /\ Tail(inbox) # <<>> /\ With(n) = body \o <<Head(inbox), Head(Tail(inbox))>>
              /\ inbox' = Tail(Tail(inbox))
<1> DEFINE k == Smaller(n, Len(inbox))
           came == SubSeq(inbox, 1, k)
<1>1. /\ inbox \in Seq(Piece(written)) /\ body \in Seq(Piece(written))
      /\ slips \subseteq {"send", "recv"}
  BY DEF Types
<1>2. Len(inbox) \in Nat /\ n \in Nat
  BY <1>1, LenProperties
<1>3. /\ ~mDisconnected /\ mDisconnected' = mDisconnected /\ k > 0
      /\ inbox' = SubSeq(inbox, k + 1, Len(inbox))
      /\ slips' = slips \union {s \in {"recv"} : k < n}
  BY DEF RecvGets
<1>4. k \in 1 .. Len(inbox) /\ k <= n /\ k \in Nat
  BY <1>2, <1>3 DEF Smaller
<1>5. inbox # <<>> /\ Len(inbox) # 0
  BY <1>1, <1>2, <1>4, EmptySeq
<1>6. came \in Seq(Piece(written)) /\ Len(came) = k
  <2>1. \A i \in 1 .. k : inbox[i] \in Piece(written)
    BY <1>1, <1>2, <1>4, ElementOfSeq
  <2>2. QED
    BY <1>4, <2>1, SubSeqProperties
<1>7. inbox' \in Seq(Piece(written))
  <2>1. \A i \in k + 1 .. Len(inbox) : inbox[i] \in Piece(written)
    BY <1>1, <1>2, <1>4, ElementOfSeq
  <2>2. QED
    BY <1>2, <1>3, <1>4, <2>1, SubSeqProperties
<1>8. With(n) = body \o came
  BY DEF With
<1>9. With(n) \in Seq(Piece(written)) /\ With(n) # <<>> /\ (body # <<>> => With(n)[1] = body[1])
  <2>1. /\ body \o came \in Seq(Piece(written)) /\ Len(body \o came) = Len(body) + k
        /\ \A i \in 1 .. Len(body) + k :
             (body \o came)[i] = IF i <= Len(body) THEN body[i] ELSE came[i - Len(body)]
    BY <1>1, <1>6, ConcatProperties
  <2>2. Len(body) \in Nat /\ (body # <<>> => Len(body) # 0)
    BY <1>1, EmptySeq, LenProperties
  <2>3. Len(body) + k # 0 /\ (body # <<>> => 1 <= Len(body) /\ 1 \in 1 .. Len(body) + k)
    BY <1>4, <2>2
  <2>4. QED
    BY <1>8, <2>1, <2>3, EmptySeq
<1>10. ASSUME n = 1 PROVE /\ With(n) = body \o <<Head(inbox)>> /\ inbox' = Tail(inbox)
                          /\ slips' = slips
  <2>1. k = 1
    BY <1>4, <1>10
  <2>2. k + 1 = 2 /\ ~(k < n)
    BY <1>10, <2>1
  <2>3. QED
    BY <1>1, <1>3, <1>5, <1>8, <2>1, <2>2, FirstTwo
<1>11. ASSUME n = 2, "recv" \notin slips'
       PROVE  /\ Tail(inbox) # <<>> /\ With(n) = body \o <<Head(inbox), Head(Tail(inbox))>>
              /\ inbox' = Tail(Tail(inbox))
  <2>1. ~(k < n)
    BY <1>3, <1>11
  <2>2. k = 2 /\ k + 1 = 3 /\ Len(inbox) > 1
    BY <1>2, <1>4, <1>11, <2>1
  <2>3. QED
    BY <1>1, <1>3, <1>5, <1>8, <2>2, FirstTwo
<1>12. slips \subseteq slips' /\ slips' \subseteq {"send", "recv"}
  BY <1>1, <1>3
<1>13. QED
  BY <1>3, <1>5, <1>7, <1>9, <1>10, <1>11, <1>12
LEMMA MessageType ==
  ASSUME Types, NEW pieces \in Seq(Piece(written)), pieces # <<>>
  PROVE  /\ pieces[1] \in Piece(written) /\ pieces[1].of \in DOMAIN written
         /\ written[pieces[1].of] \in Answers /\ Message(pieces) \in 0 .. Len(written)
<1>1. pieces[1] \in Piece(written)
  BY FirstTwo
<1>2. pieces[1].of \in DOMAIN written
  BY <1>1 DEF Piece
<1>3. written[pieces[1].of] \in Answers
  <2>1. written \in Seq(Answers)
    BY DEF Types
  <2>2. QED
    BY <1>2, <2>1, PieceFacts, ElementOfSeq
<1>4. pieces[1].of \in 0 .. Len(written) /\ 0 \in 0 .. Len(written)
  <2>1. \A n \in Nat : 1 .. n \subseteq 0 .. n /\ 0 \in 0 .. n
    OBVIOUS
  <2>2. QED
    BY <1>2, <2>1, PieceFacts
<1>5. QED
  BY <1>1, <1>2, <1>3, <1>4 DEF Message

(* Acting on a message.                                                    *)
LEMMA HandlesType ==
  ASSUME Types, NEW pieces \in Seq(Piece(written)), pieces # <<>>, Handles(pieces)
  PROVE  handled' \in Seq(0 .. Len(written))
<1>1. handled \in Seq(0 .. Len(written))
  BY DEF Types
<1>2. Message(pieces) \in 0 .. Len(written)
  BY MessageType
<1>3. QED
  BY <1>1, <1>2, AppendProperties DEF Handles

(* More messages or requests.                                              *)
LEMMA MoreMessages ==
  ASSUME NEW S, NEW messages \in Seq(S), NEW m \in S
  PROVE  LET more == Append(messages, m) IN
         /\ more \in Seq(S) /\ Len(more) = Len(messages) + 1 /\ Len(messages) \in Nat
         /\ DOMAIN messages = 1 .. Len(messages) /\ DOMAIN more = 1 .. Len(messages) + 1
         /\ \A i \in 1 .. Len(messages) : more[i] = messages[i]
         /\ more[Len(messages) + 1] = m
         /\ Seq(Piece(messages)) \subseteq Seq(Piece(more))
<1> DEFINE more == Append(messages, m)
<1>1. /\ more \in Seq(S) /\ Len(more) = Len(messages) + 1
      /\ \A i \in 1 .. Len(messages) : more[i] = messages[i]
      /\ more[Len(messages) + 1] = m
  BY AppendProperties
<1> HIDE DEF more
<1>2. /\ Len(messages) \in Nat /\ DOMAIN messages = 1 .. Len(messages)
      /\ DOMAIN more = 1 .. Len(messages) + 1
  BY <1>1, LenProperties
<1>3. \A n \in Nat : 1 .. n \subseteq 1 .. n + 1
  OBVIOUS
<1>4. Piece(messages) \subseteq Piece(more)
  BY <1>2, <1>3 DEF Piece
<1>5. Seq(Piece(messages)) \subseteq Seq(Piece(more))
  BY <1>4, SeqMonotonic
<1>6. QED
  BY <1>1, <1>2, <1>5 DEF more

(* A send that had room.                                                   *)
LEMMA SentPieces ==
  ASSUME Types, NEW m \in Nat \ {0}, NEW from \in Nat \ {0}, NEW n \in Nat, NEW S,
         m \in S, outbox \in Seq([of : S, at : Nat \ {0}]), SendsPieces(m, from, n)
  PROVE  LET k == Smaller(n, Room - Len(outbox)) IN
         /\ outbox' \in Seq([of : S, at : Nat \ {0}]) /\ Len(outbox') <= Room
         /\ outbox' = outbox \o Pieces(m, from, k) /\ k \in 1 .. n
         /\ faults' \subseteq {"in parts", "unhandled", "too many", "hung up", "slow"}
         /\ faults \subseteq faults' /\ slips \subseteq slips'
         /\ slips' \subseteq {"send", "recv"} /\ ("send" \notin slips' => k = n)
         /\ ("recv" \in slips' => "recv" \in slips) /\ mDisconnected' = mDisconnected
<1> DEFINE k == Smaller(n, Room - Len(outbox))
           p == Pieces(m, from, k)
<1>1. Len(outbox) \in Nat /\ Room \in Nat /\ Len(outbox) <= Room
  BY StreamAssumption, LenProperties DEF StreamAssumption, Types
<1>2. /\ k > 0 /\ outbox' = outbox \o p
      /\ faults' = faults \union {f \in {"slow"} : k < n}
      /\ slips' = slips \union {s \in {"send"} : k < n}
      /\ mDisconnected' = mDisconnected
  BY DEF SendsPieces
<1>3. \A r \in Nat, l \in Nat : l <= r =>
         LET j == Smaller(n, r - l) IN j \in Int /\ j <= n /\ l + j <= r
  BY DEF Smaller
<1>4. k \in Int /\ k <= n /\ Len(outbox) + k <= Room
  BY <1>1, <1>3
<1>5. k \in 1 .. n /\ k \in Nat
  BY <1>2, <1>4
<1>6. p \in Seq([of : S, at : Nat \ {0}]) /\ Len(p) = k
  BY <1>5, PiecesTyped
<1> HIDE DEF p
<1>7. outbox' \in Seq([of : S, at : Nat \ {0}]) /\ Len(outbox') = Len(outbox) + k
  BY <1>2, <1>6, ConcatProperties
<1>8. "send" \notin slips' => k = n
  BY <1>2, <1>5
<1>9. slips \subseteq {"send", "recv"} /\ faults \subseteq {"in parts", "unhandled", "too many", "hung up", "slow"}
  BY DEF Types
<1>10. QED
  BY <1>2, <1>4, <1>5, <1>7, <1>8, <1>9 DEF p

(* What the remote writes.                                                 *)
LEMMA WrittenPieces ==
  ASSUME Types, NEW m \in Nat \ {0}, NEW from \in Nat \ {0}, NEW n \in Nat \ {0}, NEW S,
         m \in S, inbox \in Seq([of : S, at : Nat \ {0}]), Writes(m, from, n)
  PROVE  /\ inbox' \in Seq([of : S, at : Nat \ {0}]) /\ rest' \in Seq([of : S, at : Nat \ {0}])
         /\ faults' \subseteq {"in parts", "unhandled", "too many", "hung up", "slow"}
         /\ \E k \in 1 .. n : /\ inbox' = inbox \o Pieces(m, from, k)
                              /\ rest' = Pieces(m, from + k, n - k)
                              /\ Len(rest') = n - k /\ Len(inbox') = Len(inbox) + k
<1>1. PICK k \in 1 .. n :
        /\ inbox' = inbox \o Pieces(m, from, k)
        /\ rest' = Pieces(m, from + k, n - k)
        /\ faults' = faults \union {f \in {"in parts"} : k < n}
                            \union {f \in {"unhandled"} : ~Known(written'[m])}
                            \union {f \in {"too many"} : TooMany(written'[m])}
  BY DEF Writes
<1>2. k \in Nat /\ from + k \in Nat \ {0} /\ n - k \in Nat /\ (~(k < n) => n - k = 0)
  OBVIOUS
<1>3. /\ Pieces(m, from, k) \in Seq([of : S, at : Nat \ {0}]) /\ Len(Pieces(m, from, k)) = k
      /\ rest' \in Seq([of : S, at : Nat \ {0}]) /\ Len(rest') = n - k
  BY <1>1, <1>2, PiecesTyped
<1>4. inbox' \in Seq([of : S, at : Nat \ {0}]) /\ Len(inbox') = Len(inbox) + k
  BY <1>1, <1>3, ConcatProperties
<1>5. faults \subseteq {"in parts", "unhandled", "too many", "hung up", "slow"}
  BY DEF Types
<1>6. faults' \subseteq {"in parts", "unhandled", "too many", "hung up", "slow"}
  BY <1>1, <1>5
<1>7. QED
  BY <1>1, <1>3, <1>4, <1>6
(* The steps of the remote.                                                *)
LEMMA PeerTypes == ASSUME Types, HeaderKept, Peer PROVE Types' /\ HeaderKept'
<1>1. CASE PeerReads
  <2> DEFINE pieces == Append(reading, Head(outbox))
             m == pieces[1].of
  <2>1. /\ reading \in Seq(Piece(sent)) /\ outbox \in Seq(Piece(sent)) /\ outbox # <<>>
        /\ sent \in Seq(AllRequests) /\ got \in Seq(AllRequests \union {Garbled})
        /\ Len(outbox) <= Room
    BY <1>1 DEF Types, PeerReads
  <2>2. Head(outbox) \in Piece(sent) /\ Tail(outbox) \in Seq(Piece(sent))
    BY <2>1, HeadTailProperties
  <2>3. pieces \in Seq(Piece(sent)) /\ pieces # <<>>
    BY <2>1, <2>2, AppendProperties
  <2>4. m \in 1 .. Len(sent) /\ sent[m] \in AllRequests
    <3>1. pieces[1] \in Piece(sent)
      BY <2>3, FirstTwo
    <3>2. m \in 1 .. Len(sent)
      BY <3>1, PieceFacts DEF Piece
    <3>3. QED
      BY <2>1, <3>2, ElementOfSeq
  <2> HIDE DEF pieces
  <2>5. reading' \in {<<>>, pieces} /\ got' \in {got, Append(got, sent[m]), Append(got, Garbled)}
    BY <1>1 DEF PeerReads, pieces
  <2>6. reading' \in Seq(Piece(sent))
    BY <2>3, <2>5, EmptySeq
  <2>7. got' \in Seq(AllRequests \union {Garbled})
    <3>1. \A r \in AllRequests \union {Garbled} :
            Append(got, r) \in Seq(AllRequests \union {Garbled})
      BY <2>1, AppendProperties
    <3>2. QED
      BY <2>1, <2>4, <2>5, <3>1
  <2>8. outbox' \in Seq(Piece(sent)) /\ Len(outbox') <= Room
    <3>1. outbox' = Tail(outbox)
      BY <1>1 DEF PeerReads
    <3>2. Len(Tail(outbox)) = Len(outbox) - 1 /\ Len(outbox) \in Nat
      BY <2>1, HeadTailProperties, LenProperties
    <3>3. \A l \in Nat, r \in Nat : l <= r => l - 1 <= r
      OBVIOUS
    <3>4. QED
      BY <2>1, <2>2, <3>1, <3>2, <3>3, StreamAssumption DEF StreamAssumption
  <2>9. UNCHANGED <<mDisconnected, sent, sending, piece, inbox, written, rest, closed,
                    spc, body, type, left, handled, connected, faults, slips>>
    BY <1>1 DEF PeerReads, composer, socket
  <2>10. QED
    BY <2>6, <2>7, <2>8, <2>9 DEF Types, HeaderKept
<1>2. CASE PeerGoesOn
  <2> DEFINE m == Len(written)
  <2>1. /\ rest \in Seq(Piece(written)) /\ rest # <<>> /\ inbox \in Seq(Piece(written))
        /\ written' = written
    BY <1>2 DEF Types, PeerGoesOn
  <2>2. /\ rest[1].of \in 1 .. m /\ rest[1].at \in Nat \ {0} /\ Len(rest) \in Nat \ {0}
        /\ Piece(written) = [of : 1 .. m, at : Nat \ {0}]
    <3>1. rest[1] \in Piece(written) /\ Len(rest) \in Nat \ {0}
      BY <2>1, FirstTwo
    <3>2. Piece(written) = [of : 1 .. m, at : Nat \ {0}]
      BY PieceFacts
    <3>3. rest[1] \in [of : 1 .. m, at : Nat \ {0}]
      BY <3>1, <3>2
    <3>4. rest[1].of \in 1 .. m /\ rest[1].at \in Nat \ {0}
      BY <3>3
    <3>5. QED
      BY <3>1, <3>2, <3>4
  <2>3. m \in Nat \ {0} /\ m \in 1 .. m
    <3>1. \A n \in Nat : \A i \in 1 .. n : n \in 1 .. n /\ n \in Nat \ {0}
      OBVIOUS
    <3>2. QED
      BY <2>2, <3>1, PieceFacts
  <2>4. Writes(m, rest[1].at, Len(rest))
    BY <1>2 DEF PeerGoesOn
  <2>5. /\ inbox' \in Seq(Piece(written)) /\ rest' \in Seq(Piece(written))
        /\ faults' \subseteq {"in parts", "unhandled", "too many", "hung up", "slow"}
    <3>1. inbox \in Seq([of : 1 .. m, at : Nat \ {0}])
      BY <2>1, <2>2
    <3>2. /\ inbox' \in Seq([of : 1 .. m, at : Nat \ {0}])
          /\ rest' \in Seq([of : 1 .. m, at : Nat \ {0}])
          /\ faults' \subseteq {"in parts", "unhandled", "too many", "hung up", "slow"}
      BY <2>2, <2>3, <2>4, <3>1, WrittenPieces
    <3>3. QED
      BY <2>2, <3>2
  <2>6. UNCHANGED <<mDisconnected, sent, sending, piece, outbox, reading, got, written,
                    closed, spc, body, type, left, handled, connected, slips>>
    BY <2>1, <2>4 DEF Writes, composer, socket
  <2>7. QED
    BY <2>5, <2>6 DEF Types, HeaderKept
<1>3. CASE PeerCloses
  <2>1. UNCHANGED <<mDisconnected, sent, sending, piece, outbox, inbox, reading, got, written,
                    rest, spc, body, type, left, handled, connected, slips>>
    BY <1>3 DEF PeerCloses, composer, socket
  <2>2. closed' = TRUE /\ faults' = faults \union {"hung up"}
    BY <1>3 DEF PeerCloses
  <2>3. QED
    BY <2>1, <2>2 DEF Types, HeaderKept
<1>4. ASSUME NEW a \in Answers, PeerAnswers(a) PROVE Types' /\ HeaderKept'
  <2> DEFINE m == Len(written) + 1
  <2>1. /\ written \in Seq(Answers) /\ written' = Append(written, a) /\ rest = <<>>
        /\ Writes(m, 1, AnswerLength(a))
    BY <1>4 DEF Types, PeerAnswers
  <2>2. /\ written' \in Seq(Answers) /\ Len(written') = m /\ Len(written) \in Nat
        /\ DOMAIN written' = 1 .. m
        /\ Seq(Piece(written)) \subseteq Seq(Piece(written'))
    BY <2>1, MoreMessages
  <2>3. Piece(written') = [of : 1 .. m, at : Nat \ {0}]
    BY <2>2 DEF Piece
  <2>4. inbox \in Seq(Piece(written')) /\ body \in Seq(Piece(written'))
    BY <2>2 DEF Types
  <2>5. m \in Nat \ {0} /\ m \in 1 .. m /\ 1 \in Nat \ {0} /\ AnswerLength(a) \in Nat \ {0}
    BY <2>2, LengthsOfAnswers
  <2>6. /\ inbox' \in Seq(Piece(written')) /\ rest' \in Seq(Piece(written'))
        /\ faults' \subseteq {"in parts", "unhandled", "too many", "hung up", "slow"}
    <3>1. inbox \in Seq([of : 1 .. m, at : Nat \ {0}])
      BY <2>3, <2>4
    <3>2. /\ inbox' \in Seq([of : 1 .. m, at : Nat \ {0}])
          /\ rest' \in Seq([of : 1 .. m, at : Nat \ {0}])
          /\ faults' \subseteq {"in parts", "unhandled", "too many", "hung up", "slow"}
      BY <2>1, <2>5, <3>1, WrittenPieces
    <3>3. QED
      BY <2>3, <3>2
  <2>7. handled \in Seq(0 .. Len(written'))
    <3>1. handled \in Seq(0 .. Len(written))
      BY DEF Types
    <3>2. 0 .. Len(written) \subseteq 0 .. Len(written')
      BY <2>2
    <3>3. QED
      BY <3>1, <3>2, SeqMonotonic
  <2>8. UNCHANGED <<mDisconnected, sent, sending, piece, outbox, reading, got,
                    closed, spc, body, type, left, handled, connected, slips>>
    BY <2>1 DEF Writes, composer, socket
  <2>9. QED
    BY <2>2, <2>4, <2>6, <2>7, <2>8 DEF Types, HeaderKept
<1>5. QED
  BY <1>1, <1>2, <1>3, <1>4 DEF Peer
(* The steps of the composer thread.                                       *)
LEMMA ComposerTypes ==
  ASSUME Types, HeaderKept, AtStart, SendingLast, Composer
  PROVE  Types' /\ HeaderKept' /\ AtStart' /\ SendingLast'
<1>1. ASSUME NEW r \in Requests, MakeRequest(r)
      PROVE  Types' /\ HeaderKept' /\ AtStart' /\ SendingLast'
  <2>1. /\ sent \in Seq(AllRequests) /\ sent' = Append(sent, r) /\ r \in AllRequests
        /\ sending' = Sends(r) /\ piece' = 1 /\ connected
    BY <1>1 DEF Types, MakeRequest, AllRequests
  <2>2. sending' \in Seq(Nat \ {0}) /\ Len(sending') <= 4
    BY <2>1, SendsAddUp
  <2>3. /\ sent' \in Seq(AllRequests) /\ Seq(Piece(sent)) \subseteq Seq(Piece(sent'))
        /\ sent' # <<>>
    BY <2>1, MoreMessages, AppendProperties
  <2>4. outbox \in Seq(Piece(sent')) /\ reading \in Seq(Piece(sent'))
    <3>1. outbox \in Seq(Piece(sent)) /\ reading \in Seq(Piece(sent))
      BY DEF Types
    <3>2. QED
      BY <2>3, <3>1
  <2>5. UNCHANGED <<mDisconnected, outbox, inbox, reading, got, written, rest, closed,
                    spc, body, type, left, handled, connected, faults, slips>>
    BY <1>1 DEF MakeRequest, peer, socket
  <2>6. Types'
    <3>1. piece' \in Nat \ {0} /\ outbox' \in Seq(Piece(sent')) /\ reading' \in Seq(Piece(sent'))
      BY <2>1, <2>4, <2>5
    <3>2. QED
      BY <2>2, <2>3, <2>5, <3>1 DEF Types
  <2>7. QED
    BY <2>1, <2>2, <2>3, <2>5, <2>6 DEF HeaderKept, AtStart, SendingLast
<1>2. CASE Send
  <2>1. /\ sending \in Seq(Nat \ {0}) /\ sending # <<>> /\ piece \in Nat \ {0}
        /\ outbox \in Seq(Piece(sent)) /\ Len(outbox) <= Room
        /\ Len(sending) <= 4 /\ sent # <<>> /\ sent \in Seq(AllRequests)
    BY <1>2 DEF Types, Send, SendingLast
  <2>2. /\ Head(sending) \in Nat \ {0} /\ Tail(sending) \in Seq(Nat \ {0})
        /\ Len(Tail(sending)) <= 4
    BY <2>1, TotalOfTail
  <2>3. piece' \in Nat \ {0}
    <3>1. piece' = piece + Head(sending)
      BY <1>2 DEF Send
    <3>2. QED
      BY <2>1, <2>2, <3>1
  <2>4. /\ UNCHANGED <<sent, inbox, reading, got, written, rest, closed,
                       spc, body, type, left, handled, connected>>
    BY <1>2 DEF Send, peer, socket
  <2>5. CASE sending' = <<>> /\ mDisconnected' = TRUE /\ UNCHANGED <<outbox, slips>>
             /\ faults' \in {faults, faults \union {"slow"}}
    <3>1. Types'
      BY <2>1, <2>3, <2>4, <2>5, EmptySeq DEF Types
    <3>2. QED
      BY <2>1, <2>4, <2>5, <3>1 DEF HeaderKept, AtStart, SendingLast
  <2>6. CASE ~mDisconnected /\ SendsPieces(Len(sent), piece, Head(sending))
             /\ sending' = Tail(sending)
    <3> DEFINE S == [of : 1 .. Len(sent), at : Nat \ {0}]
    <3>1. Len(sent) \in Nat \ {0} /\ Len(sent) \in 1 .. Len(sent)
      <4>1. \A n \in Nat \ {0} : n \in 1 .. n
        OBVIOUS
      <4>2. QED
        BY <2>1, <4>1, EmptySeq
    <3>2. outbox \in Seq(S) /\ Piece(sent) = S /\ Head(sending) \in Nat
      BY <2>1, <2>2, PieceFacts
    <3>3. /\ outbox' \in Seq(S) /\ Len(outbox') <= Room
          /\ faults' \subseteq {"in parts", "unhandled", "too many", "hung up", "slow"}
          /\ slips' \subseteq {"send", "recv"} /\ mDisconnected' = mDisconnected
      BY <2>1, <2>6, <3>1, <3>2, SentPieces
    <3>4. outbox' \in Seq(Piece(sent))
      BY <3>2, <3>3
    <3>5. Types'
      BY <2>2, <2>3, <2>4, <2>6, <3>3, <3>4 DEF Types
    <3>6. QED
      BY <2>1, <2>2, <2>4, <2>6, <3>5 DEF HeaderKept, AtStart, SendingLast
  <2>7. QED
    <3>1. SendFails => /\ mDisconnected' = TRUE /\ UNCHANGED <<outbox, slips>>
                       /\ faults' \in {faults, faults \union {"slow"}}
      BY DEF SendFails
    <3>2. mDisconnected \in BOOLEAN
      BY DEF Types
    <3>3. QED
      BY <1>2, <2>5, <2>6, <3>1, <3>2 DEF Send
<1>3. QED
  BY <1>1, <1>2 DEF Composer
(* The steps of the socket thread.                                         *)
LEMMA SocketTypes ==
  ASSUME Types, HeaderKept, AtStart, SendingLast, Socket
  PROVE  Types' /\ HeaderKept' /\ AtStart' /\ SendingLast'
<1> DEFINE Goal == Types' /\ HeaderKept' /\ AtStart' /\ SendingLast'
           PieceW == Piece(written)
<1> SUFFICES Goal
  OBVIOUS
<1>1. CASE GetConfigs
  <2>1. /\ spc = "start" /\ sent = <<>> /\ sending = <<>> /\ outbox = <<>> /\ reading = <<>>
        /\ got = <<>> /\ spc' = "wait" /\ Len(outbox) <= Room
        /\ outbox \in Seq(Piece(sent)) /\ reading \in Seq(Piece(sent))
    BY <1>1 DEF GetConfigs, AtStart, Types
  <2>2. UNCHANGED <<sending, piece, inbox, reading, got, written, rest, closed, body, type,
                    left, handled, connected>>
    BY <1>1 DEF GetConfigs, peer
  <2>3. CASE SendFails /\ sent' = sent
    <3>1. /\ mDisconnected' = TRUE /\ UNCHANGED <<outbox, slips>>
          /\ faults' \in {faults, faults \union {"slow"}}
      BY <2>3 DEF SendFails
    <3>2. QED
      BY <2>1, <2>2, <2>3, <3>1 DEF Types, HeaderKept, AtStart, SendingLast
  <2>4. CASE SendsPieces(1, 1, 1) /\ sent' = <<getConfigs>>
    <3> DEFINE S == [of : 1 .. 1, at : Nat \ {0}]
    <3>1. sent' \in Seq(AllRequests)
      BY <2>4 DEF AllRequests
    <3>2. Piece(sent') = S
      <4>1. DOMAIN sent' = 1 .. 1
        BY <2>4
      <4>2. QED
        BY <4>1 DEF Piece
    <3>3. outbox \in Seq(S) /\ reading \in Seq(S)
      BY <2>1, EmptySeq
    <3>4. 1 \in Nat \ {0} /\ 1 \in 1 .. 1 /\ 1 \in Nat
      OBVIOUS
    <3>5. /\ outbox' \in Seq(S) /\ Len(outbox') <= Room
          /\ faults' \subseteq {"in parts", "unhandled", "too many", "hung up", "slow"}
          /\ slips' \subseteq {"send", "recv"} /\ mDisconnected' = mDisconnected
      BY <2>4, <3>3, <3>4, SentPieces
    <3>6. outbox' \in Seq(Piece(sent')) /\ reading' \in Seq(Piece(sent'))
      BY <2>2, <3>2, <3>3, <3>5
    <3>7. Types'
      BY <2>1, <2>2, <3>1, <3>5, <3>6 DEF Types
    <3>8. QED
      BY <2>1, <2>2, <3>7 DEF HeaderKept, AtStart, SendingLast
  <2>5. QED
    BY <1>1, <2>3, <2>4 DEF GetConfigs
<1>2. ASSUME /\ spc # "start" /\ spc' # "start"
             /\ UNCHANGED <<sent, sending, piece, outbox, reading, got, written, rest,
                            closed, faults>>
             /\ mDisconnected' \in BOOLEAN
             /\ inbox' \in Seq(PieceW) /\ body' \in Seq(PieceW)
             /\ spc' \in {"wait", "message", "layers", "aborted"} /\ left' \in Nat
             /\ type' \in {a.type : a \in Answers} \union {"none"}
             /\ handled' \in Seq(0 .. Len(written)) /\ connected' \in BOOLEAN
             /\ slips' \subseteq {"send", "recv"} /\ HeaderKept'
      PROVE  Goal
  <2>1. Types'
    BY <1>2 DEF Types
  <2>2. QED
    BY <1>2, <2>1 DEF AtStart, SendingLast
<1>3. ASSUME Stay, spc \in {"wait", "message", "layers"}, Done, inbox' \in Seq(PieceW),
             mDisconnected' \in BOOLEAN, slips' \subseteq {"send", "recv"},
             handled' \in Seq(0 .. Len(written)), connected' \in BOOLEAN
      PROVE  Goal
  <2>1. <<>> \in Seq(PieceW) /\ 0 \in Nat
    BY EmptySeq
  <2>2. /\ spc' = "wait" /\ type' = "none" /\ left' = 0 /\ body' = <<>> /\ HeaderKept'
        /\ UNCHANGED <<sent, sending, piece, outbox, reading, got, written, rest,
                       closed, faults>>
    BY <1>3 DEF Done, Stay, HeaderKept, composer, peer
  <2>3. QED
    BY <1>2, <1>3, <2>1, <2>2
<1>4. /\ inbox \in Seq(PieceW) /\ body \in Seq(PieceW) /\ mDisconnected \in BOOLEAN
      /\ slips \subseteq {"send", "recv"} /\ handled \in Seq(0 .. Len(written))
      /\ connected \in BOOLEAN /\ left \in Nat
      /\ type \in {a.type : a \in Answers} \union {"none"}
  BY DEF Types
<1>5. RecvFails => /\ mDisconnected' \in BOOLEAN /\ inbox' \in Seq(PieceW)
                   /\ slips' \subseteq {"send", "recv"}
  BY <1>4 DEF RecvFails
<1> HIDE DEF PieceW, Goal
<1>6. ASSUME NEW n \in {1, 2}, RecvGets(n)
      PROVE  /\ inbox' \in Seq(PieceW) /\ mDisconnected' \in BOOLEAN
             /\ slips' \subseteq {"send", "recv"} /\ inbox # <<>>
             /\ With(n) \in Seq(PieceW) /\ With(n) # <<>>
             /\ Handles(With(n)) => handled' \in Seq(0 .. Len(written))
  BY <1>4, <1>6, Received, HandlesType DEF PieceW
<1>7. ASSUME Stay, spc \in {"wait", "message", "layers"}, Done, RecvFails,
              UNCHANGED <<handled, connected>>
       PROVE  Goal
  <2>1. handled' \in Seq(0 .. Len(written)) /\ connected' \in BOOLEAN
    BY <1>4, <1>7
  <2>2. QED
    BY <1>3, <1>5, <1>7, <2>1
<1>8. ASSUME Stay, spc \in {"wait", "message", "layers"}, Done, NEW n \in {1, 2},
              RecvGets(n), Handles(With(n)), connected' \in BOOLEAN
       PROVE  Goal
  <2>1. handled' \in Seq(0 .. Len(written))
    BY <1>6, <1>8
  <2>2. QED
    BY <1>3, <1>6, <1>8, <2>1
<1>9. 1 \in {1, 2} /\ 2 \in {1, 2} /\ TRUE \in BOOLEAN
  OBVIOUS
<1>10. CASE OnDisplayEvent
  <2>1. /\ Stay /\ spc = "wait" /\ UNCHANGED <<left, handled, connected>>
        /\ UNCHANGED <<sent, sending, piece, outbox, reading, got, written, rest,
                       closed, faults>>
    BY <1>10 DEF OnDisplayEvent, Stay, composer, peer
  <2>2. CASE RecvFails /\ UNCHANGED <<spc, type, body>>
    <3>1. HeaderKept'
      BY <2>1, <2>2 DEF HeaderKept
    <3>2. QED
      BY <1>2, <1>4, <1>5, <2>1, <2>2, <3>1
  <2>3. CASE /\ RecvGets(1) /\ body' = With(1) /\ spc' = "message"
             /\ type' \in IF Head(inbox).at = 1 THEN {written[Head(inbox).of].type}
                                               ELSE {a.type : a \in Answers}
    <3>1. /\ inbox' \in Seq(PieceW) /\ mDisconnected' \in BOOLEAN /\ inbox # <<>>
          /\ slips' \subseteq {"send", "recv"} /\ body' \in Seq(PieceW) /\ body' # <<>>
      BY <1>6, <2>3
    <3>2. HeaderKept'
      BY <2>3, <3>1 DEF HeaderKept
    <3>3. written[Head(inbox).of] \in Answers
      BY <1>4, <3>1, MessageType, FirstTwo DEF PieceW
    <3>4. type' \in {a.type : a \in Answers}
      BY <2>3, <3>3
    <3>5. QED
      BY <1>2, <1>4, <2>1, <2>3, <3>1, <3>2, <3>4
  <2>4. QED
    BY <1>10, <2>2, <2>3 DEF OnDisplayEvent
<1>11. CASE OnDisplayInfoAck
  <2>1. Done /\ Stay /\ spc = "message"
    BY <1>11 DEF OnDisplayInfoAck
  <2>2. \/ RecvFails /\ UNCHANGED <<handled, connected>>
        \/ RecvGets(2) /\ Handles(With(2)) /\ connected' = TRUE
    BY <1>11 DEF OnDisplayInfoAck
  <2>3. QED
    BY <1>4, <1>7, <1>8, <1>9, <2>1, <2>2
<1>12. CASE OnDisplayBufferAck
  <2>1. Done /\ Stay /\ spc = "message" /\ UNCHANGED connected
    BY <1>12 DEF OnDisplayBufferAck
  <2>2. (RecvFails /\ UNCHANGED handled) \/ (RecvGets(1) /\ Handles(With(1)))
    BY <1>12 DEF OnDisplayBufferAck
  <2>3. QED
    BY <1>4, <1>7, <1>8, <1>9, <2>1, <2>2
<1>13. CASE OnPresentLayersAck
  <2>1. /\ Stay /\ spc = "message" /\ UNCHANGED connected
        /\ UNCHANGED <<sent, sending, piece, outbox, reading, got, written, rest,
                       closed, faults>>
    BY <1>13 DEF OnPresentLayersAck, Stay, composer, peer
  <2>2. CASE RecvFails /\ Done /\ UNCHANGED handled
    BY <1>7, <2>1, <2>2
  <2>3. CASE RecvGets(2) /\ Handles(With(2)) /\ Done
    BY <1>4, <1>8, <1>9, <2>1, <2>3
  <2>4. ASSUME NEW n \in Nat \ {0}, RecvGets(2), left' = n, spc' = "layers",
               body' = With(2), UNCHANGED <<type, handled>>
        PROVE  Goal
    <3>1. /\ inbox' \in Seq(PieceW) /\ mDisconnected' \in BOOLEAN
          /\ slips' \subseteq {"send", "recv"} /\ body' \in Seq(PieceW) /\ body' # <<>>
      BY <1>6, <2>4
    <3>2. HeaderKept'
      BY <2>4, <3>1 DEF HeaderKept
    <3>3. QED
      BY <1>2, <1>4, <2>1, <2>4, <3>1, <3>2
  <2>5. ASSUME RecvGets(2) PROVE With(2)[1].of \in DOMAIN written /\ written[body[1].of].n \in Nat
                                 /\ LayerCounts \subseteq Nat
    <3>1. body # <<>>
      BY <2>1 DEF HeaderKept
    <3>2. written[body[1].of] \in Answers
      BY <1>4, <3>1, MessageType DEF PieceW
    <3>3. With(2)[1].of \in DOMAIN written
      BY <1>6, <2>5, MessageType DEF PieceW
    <3>4. QED
      BY <3>2, <3>3, LengthsOfAnswers DEF LayerCounts
  <2>6. CASE RecvGets(2) /\ ~(RecvFails /\ Done /\ UNCHANGED handled)
    <3>1. PICK n \in IF CountCame(With(2)) THEN {written[body[1].of].n} ELSE LayerCounts :
             /\ n <= Memory
             /\ IF LayersToRead(n) = 0
                  THEN Handles(With(2)) /\ Done
                  ELSE /\ left' = LayersToRead(n) /\ spc' = "layers" /\ body' = With(2)
                       /\ UNCHANGED <<type, handled>>
      BY <1>13, <2>6 DEF OnPresentLayersAck
    <3>2. n \in Nat
      BY <2>5, <2>6
    <3>3. QED
      BY <2>3, <2>4, <2>6, <3>1, <3>2 DEF LayersToRead
  <2>7. QED
    BY <1>13, <2>2, <2>6 DEF OnPresentLayersAck
<1>14. CASE RecvLayer
  <2>1. /\ Stay /\ spc = "layers" /\ UNCHANGED connected /\ left \in Nat \ {0}
        /\ UNCHANGED <<sent, sending, piece, outbox, reading, got, written, rest,
                       closed, faults>>
    BY <1>4, <1>14 DEF RecvLayer, Stay, composer, peer, HeaderKept
  <2>2. CASE RecvFails /\ Done /\ UNCHANGED handled
    BY <1>7, <2>1, <2>2
  <2>3. CASE RecvGets(1) /\ Handles(With(1)) /\ Done
    BY <1>4, <1>8, <1>9, <2>1, <2>3
  <2>4. CASE /\ RecvGets(1) /\ left # 1 /\ left' = left - 1 /\ body' = With(1)
             /\ UNCHANGED <<spc, type, handled>>
    <3>1. /\ inbox' \in Seq(PieceW) /\ mDisconnected' \in BOOLEAN
          /\ slips' \subseteq {"send", "recv"} /\ body' \in Seq(PieceW) /\ body' # <<>>
      BY <1>6, <2>4
    <3>2. left' \in Nat \ {0}
      BY <2>1, <2>4
    <3>3. HeaderKept'
      BY <2>4, <3>1, <3>2 DEF HeaderKept
    <3>4. QED
      BY <1>2, <1>4, <2>1, <2>4, <3>1, <3>2, <3>3
  <2>5. QED
    BY <1>14, <2>2, <2>3, <2>4 DEF RecvLayer
<1>15. CASE OutOfMemory
  <2>1. /\ spc = "message" /\ RecvGets(2) /\ spc' = "aborted"
        /\ UNCHANGED <<body, type, left, handled, connected>>
        /\ UNCHANGED <<sent, sending, piece, outbox, reading, got, written, rest,
                       closed, faults>>
    BY <1>15 DEF OutOfMemory, Stay, composer, peer
  <2>2. HeaderKept'
    BY <2>1 DEF HeaderKept
  <2>3. QED
    BY <1>2, <1>4, <1>6, <2>1, <2>2
<1>16. CASE OnUnknown
  <2>1. Done /\ Stay /\ spc = "message" /\ UNCHANGED <<handled, connected>>
    BY <1>16 DEF OnUnknown
  <2>2. CASE RecvFails
    BY <1>7, <2>1, <2>2
  <2>3. CASE /\ inbox # <<>> /\ mDisconnected' = mDisconnected
             /\ slips' \in {slips, slips \union {"recv"}}
             /\ inbox' = SubSeq(inbox, Smaller(UnknownRoom, Len(inbox)) + 1, Len(inbox))
    <3>1. inbox' \in Seq(PieceW)
      BY <1>4, <2>3, RestOf
    <3>2. slips' \subseteq {"send", "recv"}
      BY <1>4, <2>3
    <3>3. QED
      BY <1>3, <1>4, <2>1, <2>3, <3>1, <3>2
  <2>4. \/ RecvFails
        \/ /\ inbox # <<>> /\ mDisconnected' = mDisconnected
           /\ slips' = slips \union {s \in {"recv"} : Message(With(UnknownRoom)) = 0}
           /\ inbox' = SubSeq(inbox, Smaller(UnknownRoom, Len(inbox)) + 1, Len(inbox))
    BY <1>16 DEF OnUnknown
  <2>5. QED
    BY <2>2, <2>3, <2>4
<1>17. QED
  BY <1>1, <1>10, <1>11, <1>12, <1>13, <1>14, <1>15, <1>16 DEF Socket
-----------------------------------------------------------------------------
(* The stream to the remote.                                               *)
LEMMA RequestLengthsAre ==
  ASSUME Types
  PROVE  /\ DOMAIN RequestLengths = 1 .. Len(sent)
         /\ \A i \in 1 .. Len(sent) : /\ sent[i] \in AllRequests
                                      /\ RequestLengths[i] = RequestLength(sent[i])
                                      /\ RequestLengths[i] \in Nat \ {0}
<1>1. sent \in Seq(AllRequests) /\ DOMAIN sent = 1 .. Len(sent)
  BY PieceFacts DEF Types
<1>2. DOMAIN RequestLengths = 1 .. Len(sent)
  BY <1>1 DEF RequestLengths
<1>3. ASSUME NEW i \in 1 .. Len(sent)
      PROVE  /\ sent[i] \in AllRequests
             /\ RequestLengths[i] = RequestLength(sent[i])
             /\ RequestLengths[i] \in Nat \ {0}
  <2>1. sent[i] \in AllRequests
    BY <1>1, ElementOfSeq
  <2>2. RequestLengths[i] = RequestLength(sent[i])
    BY <1>1 DEF RequestLengths
  <2>3. QED
    BY <2>1, <2>2, LengthsOfRequests
<1>4. QED
  BY <1>2, <1>3

(* One piece more of a message.                                            *)
LEMMA OnePieceMore ==
  ASSUME NEW m \in Nat, NEW n \in Nat
  PROVE  /\ Append(Pieces(m, 1, n), [of |-> m, at |-> n + 1]) = Pieces(m, 1, n + 1)
         /\ Pieces(m, 1, n) \o <<[of |-> m, at |-> n + 1]>> = Pieces(m, 1, n + 1)
         /\ Len(Pieces(m, 1, n + 1)) = n + 1 /\ Pieces(m, 1, n + 1)[1] = [of |-> m, at |-> 1]
         /\ Pieces(m, 1, 0) = <<>>
<1> DEFINE p == [of |-> m, at |-> n + 1]
<1>1. p \in Place /\ n + 1 \in Nat /\ 1 \in Nat /\ 0 \in Nat
  BY DEF Place
<1>2. Pieces(m, 1, n) \in Seq(Place) /\ Len(Pieces(m, 1, 0)) = 0 /\ Pieces(m, 1, 0) \in Seq(Place)
  BY <1>1, PiecesAre
<1>3. Pieces(m, n + 1, 1) = <<p>>
  <2>1. Pieces(m, n + 1, 1) \in Seq(Place) /\ Len(Pieces(m, n + 1, 1)) = 1
    BY <1>1, PiecesAre
  <2>2. \A i \in 1 .. 1 : Pieces(m, n + 1, 1)[i] = p
    BY DEF Pieces
  <2>3. <<p>> \in Seq(Place) /\ Len(<<p>>) = 1 /\ \A i \in 1 .. 1 : <<p>>[i] = p
    BY <1>1
  <2>4. \A i \in 1 .. 1 : Pieces(m, n + 1, 1)[i] = <<p>>[i]
    BY <2>2, <2>3
  <2> HIDE DEF p
  <2>5. QED
    BY <2>1, <2>3, <2>4, SeqEqual
<1>4. Pieces(m, 1, n) \o Pieces(m, n + 1, 1) = Pieces(m, 1, n + 1)
  BY <1>1, PiecesJoin
<1>5. Append(Pieces(m, 1, n), p) = Pieces(m, 1, n) \o <<p>>
  BY <1>1, <1>2, AppendIsConcat
<1>6. Pieces(m, 1, 0) = <<>>
  BY <1>2, EmptySeq
<1>7. Len(Pieces(m, 1, n + 1)) = n + 1 /\ Pieces(m, 1, n + 1)[1] = [of |-> m, at |-> 1]
  <2>1. Len(Pieces(m, 1, n + 1)) = n + 1
    BY <1>1, PiecesAre
  <2>2. 1 \in 1 .. n + 1
    OBVIOUS
  <2>3. Pieces(m, 1, n + 1)[1] = [of |-> m, at |-> 1]
    BY <2>2 DEF Pieces
  <2>4. QED
    BY <2>1, <2>3
<1>8. QED
  BY <1>3, <1>4, <1>5, <1>6, <1>7

(* Steps that do not touch it.                                             *)
LEMMA OutKept ==
  ASSUME "send" \in slips \/ OutInSync, slips \subseteq slips',
         UNCHANGED <<sent, sending, piece, outbox, reading, got>>,
         mDisconnected' = mDisconnected \/ mDisconnected' = TRUE
  PROVE  "send" \in slips' \/ OutInSync'
<1>1. CASE "send" \in slips
  BY <1>1
<1>2. CASE OutInSync
  <2>1. RequestLengths' = RequestLengths
    BY DEF RequestLengths
  <2>2. ASSUME NEW q, SendingRuns(q) PROVE SendingRuns(q)'
    BY <2>1, <2>2 DEF SendingRuns
  <2>3. QED
    BY <1>2, <2>1, <2>2 DEF OutInSync
<1>3. QED
  BY <1>1, <1>2
(* The remote reads a piece: the next one of the request it is at.         *)
LEMMA ReadsInSync ==
  ASSUME Types, OutInSync, PeerReads
  PROVE  OutInSync' /\ (Channel!Deliver \/ UNCHANGED <<sent, got>>)
<1> DEFINE g == Len(got)
           m == g + 1
           r == Len(reading)
           p == [of |-> m, at |-> r + 1]
           L == RequestLengths[m]
           whole == Whole(Append(reading, Head(outbox))) /\ Append(reading, Head(outbox))[1].at = 1
<1>1. /\ outbox # <<>> /\ outbox' = Tail(outbox)
      /\ reading' = IF whole THEN <<>> ELSE Append(reading, Head(outbox))
      /\ got' = LET pieces == Append(reading, Head(outbox)) IN
                IF ~whole THEN got
                ELSE IF pieces = Pieces(pieces[1].of, 1, Len(pieces)) THEN Append(got, sent[pieces[1].of])
                ELSE Append(got, Garbled)
      /\ UNCHANGED <<mDisconnected, sent, sending, piece>>
  BY DEF PeerReads, composer
<1>2. /\ got \in Seq(AllRequests \union {Garbled}) /\ g \in Nat /\ m \in Nat \ {0} /\ r \in Nat
      /\ outbox \in Seq(Piece(sent)) /\ outbox \in Seq(Place) /\ reading \in Seq(Piece(sent))
  <2>1. /\ got \in Seq(AllRequests \union {Garbled}) /\ outbox \in Seq(Piece(sent))
        /\ reading \in Seq(Piece(sent))
    BY DEF Types
  <2>2. g \in Nat /\ r \in Nat
    BY <2>1, LenProperties
  <2>3. m \in Nat \ {0}
    BY <2>2
  <2>4. outbox \in Seq(Place)
    BY <2>1, PieceFacts
  <2>5. QED
    BY <2>1, <2>2, <2>3, <2>4
<1>3. PICK q \in [of : Nat, at : Nat] : SendingRuns(q) /\ Runs(RequestLengths, outbox, p, q)
  BY DEF OutInSync
<1>4. reading = Pieces(m, 1, r) /\ (reading # <<>> => r < L)
  BY DEF OutInSync, Partly
<1>5. Head(outbox) = p /\ Runs(RequestLengths, Tail(outbox), Following(RequestLengths, p), q)
  BY <1>1, <1>2, <1>3, RunsOn
<1>6. m \in 1 .. Len(sent)
  <2>1. Head(outbox) \in Piece(sent)
    BY <1>1, <1>2, FirstTwo
  <2>2. Piece(sent) = [of : 1 .. Len(sent), at : Nat \ {0}]
    BY PieceFacts
  <2>3. p \in [of : 1 .. Len(sent), at : Nat \ {0}]
    BY <1>5, <2>1, <2>2
  <2>4. QED
    BY <2>3
<1>7. /\ L \in Nat \ {0} /\ L = RequestLength(sent[m]) /\ sent[m] \in AllRequests
      /\ r < L
  <2>1. L \in Nat \ {0} /\ L = RequestLength(sent[m]) /\ sent[m] \in AllRequests
    BY <1>6, RequestLengthsAre
  <2>2. r < L
    <3>1. reading = <<>> => r = 0
      BY <1>2, EmptySeq
    <3>2. QED
      BY <1>2, <1>4, <2>1, <3>1
  <2>3. QED
    BY <2>1, <2>2
<1>8. Append(reading, Head(outbox)) = Pieces(m, 1, r + 1)
  BY <1>2, <1>4, <1>5, OnePieceMore, ZenonT(60)
<1>9. /\ Len(Pieces(m, 1, r + 1)) = r + 1 /\ Pieces(m, 1, r + 1)[1] = [of |-> m, at |-> 1]
  BY <1>2, OnePieceMore
<1>10. whole <=> r + 1 = L
  BY <1>7, <1>8, <1>9 DEF Whole
<1> HIDE DEF whole, L, r, m, p
<1>11. got' = IF whole THEN Append(got, sent[m]) ELSE got
  <2>1. [of |-> m, at |-> 1].of = m
    OBVIOUS
  <2>2. QED
    BY <1>1, <1>8, <1>9, <2>1
<1>12. reading' = IF whole THEN <<>> ELSE Pieces(m, 1, r + 1)
  BY <1>1, <1>8
<1>13. SendingRuns(q)' /\ RequestLengths' = RequestLengths
  BY <1>1, <1>3 DEF SendingRuns, RequestLengths
<1>14. CASE whole
  <2>1. /\ got' = Append(got, sent[m]) /\ reading' = <<>> /\ sent' = sent /\ outbox' = Tail(outbox)
    BY <1>1, <1>11, <1>12, <1>14
  <2>2. /\ Len(got') = m /\ got'[m] = sent[m] /\ \A i \in 1 .. g : got'[i] = got[i]
    BY <1>2, <1>7, <2>1, AppendProperties DEF m
  <2>3. \A i \in 1 .. m : got'[i] = sent'[i]
    <3>1. \A i \in 1 .. g : got[i] = sent[i]
      BY DEF OutInSync
    <3>2. \A i \in 1 .. m : i \in 1 .. g \/ i = m
      BY <1>2 DEF m
    <3>3. QED
      BY <2>1, <2>2, <3>1, <3>2
  <2>4. Following(RequestLengths, p) = [of |-> m + 1, at |-> 1]
    <3>1. RequestLengths[m] = r + 1 /\ r + 1 \in Nat
      BY <1>2, <1>10, <1>14 DEF L
    <3>2. QED
      BY <3>1, LastFollowed DEF p
  <2>5. reading' = Pieces(m + 1, 1, 0) /\ Len(reading') = 0
    <3>1. m + 1 \in Nat /\ 0 \in Nat
      BY <1>2
    <3>2. Pieces(m + 1, 1, 0) = <<>> /\ Len(<<>>) = 0
      BY <3>1, OnePieceMore, EmptySeq
    <3>3. QED
      BY <2>1, <3>2
  <2>6. Partly(RequestLengths', reading', m + 1)
    BY <2>1, <2>5 DEF Partly
  <2>7. Runs(RequestLengths', outbox', [of |-> m + 1, at |-> 0 + 1], q)
    BY <1>5, <1>13, <2>1, <2>4
  <2>8. Len(got') <= Len(sent')
    <3>1. \A n \in Nat : \A i \in 1 .. n : i <= n
      OBVIOUS
    <3>2. QED
      BY <1>6, <2>1, <2>2, <3>1, PieceFacts
  <2>9. OutInSync'
    BY <1>13, <2>2, <2>3, <2>5, <2>6, <2>7, <2>8 DEF OutInSync
  <2>10. Channel!Deliver
    <3>1. Len(got) < Len(sent)
      <4>1. \A n \in Nat, l \in Nat : l + 1 \in 1 .. n => l < n
        OBVIOUS
      <4>2. QED
        BY <1>2, <1>6, <4>1, PieceFacts DEF m
    <3>2. got' = Append(got, sent[Len(got) + 1]) /\ UNCHANGED <<sent, ~mDisconnected>>
      BY <1>1, <2>1 DEF m
    <3>3. QED
      BY <3>1, <3>2 DEF Channel!Deliver
  <2>11. QED
    BY <2>9, <2>10
<1>15. CASE ~whole
  <2>1. /\ got' = got /\ reading' = Pieces(m, 1, r + 1) /\ sent' = sent /\ outbox' = Tail(outbox)
    BY <1>1, <1>11, <1>12, <1>15
  <2>2. Len(reading') = r + 1 /\ r + 1 < L
    BY <1>2, <1>7, <1>9, <1>10, <1>15, <2>1
  <2>3. Following(RequestLengths, p) = [of |-> m, at |-> r + 1 + 1]
    BY <2>2 DEF Following, L, p
  <2>4. Partly(RequestLengths', reading', m)
    BY <1>6, <1>13, <2>1, <2>2, RequestLengthsAre DEF Partly, L
  <2>5. Runs(RequestLengths', outbox', [of |-> m, at |-> Len(reading') + 1], q)
    BY <1>5, <1>13, <2>1, <2>2, <2>3
  <2>6. Len(got') + 1 = m
    BY <2>1 DEF m
  <2>7. /\ Len(got') <= Len(sent') /\ \A i \in 1 .. Len(got') : got'[i] = sent'[i]
    BY <2>1 DEF OutInSync
  <2>8. OutInSync'
    BY <1>13, <2>4, <2>5, <2>6, <2>7 DEF OutInSync
  <2>9. QED
    BY <2>1, <2>8
<1>16. QED
  BY <1>14, <1>15
(* A request is made: what is to be sent of it comes next.                 *)
LEMMA MakesInSync ==
  ASSUME Types, OutInSync, NEW r \in Requests, MakeRequest(r)
  PROVE  OutInSync' /\ Channel!Request(r)
<1> DEFINE n == Len(sent)
<1>1. /\ sent \in Seq(AllRequests) /\ r \in AllRequests /\ outbox \in Seq(Piece(sent))
      /\ ~mDisconnected /\ sending = <<>> /\ sent' = Append(sent, r) /\ sending' = Sends(r)
      /\ piece' = 1 /\ UNCHANGED <<mDisconnected, outbox, reading, got>>
  BY DEF Types, MakeRequest, AllRequests, peer
<1>2. /\ sent' \in Seq(AllRequests) /\ Len(sent') = n + 1 /\ n \in Nat
      /\ DOMAIN sent = 1 .. n /\ DOMAIN sent' = 1 .. n + 1
      /\ \A i \in 1 .. n : sent'[i] = sent[i]
      /\ sent'[n + 1] = r
  BY <1>1, MoreMessages
<1>3. \A i \in 1 .. n : i \in 1 .. n + 1
  BY <1>2
<1>4. /\ \A i \in 1 .. n : RequestLengths'[i] = RequestLengths[i]
      /\ RequestLengths'[n + 1] = RequestLength(r)
      /\ DOMAIN RequestLengths' = 1 .. n + 1 /\ DOMAIN RequestLengths = 1 .. n
  <2>1. n + 1 \in 1 .. n + 1
    BY <1>2
  <2>2. QED
    BY <1>2, <1>3, <2>1 DEF RequestLengths
<1>5. PICK q \in [of : Nat, at : Nat] :
        /\ SendingRuns(q)
        /\ Runs(RequestLengths, outbox, [of |-> Len(got) + 1, at |-> Len(reading) + 1], q)
  BY DEF OutInSync
<1>6. Piece(sent) = [of : 1 .. n, at : Nat \ {0}]
  BY PieceFacts
<1>7. Runs(RequestLengths', outbox, [of |-> Len(got) + 1, at |-> Len(reading) + 1], q)
  BY <1>1, <1>2, <1>4, <1>5, <1>6, RunsStay
<1>8. SendingRuns(q)'
  <2>1. q = [of |-> n + 1, at |-> 1]
    BY <1>1, <1>5 DEF SendingRuns
  <2>2. Total(sending') = RequestLength(r) /\ sending' # <<>> /\ RequestLength(r) \in Nat
    BY <1>1, SendsAddUp, LengthsOfRequests
  <2>3. piece' + Total(sending') = RequestLengths'[Len(sent')] + 1
    BY <1>1, <1>2, <1>4, <2>2
  <2>4. q = [of |-> Len(sent'), at |-> piece']
    BY <1>1, <1>2, <2>1
  <2>5. QED
    BY <2>2, <2>3, <2>4 DEF SendingRuns
<1>9. /\ Len(got) \in Nat /\ Len(got) <= n /\ \A i \in 1 .. Len(got) : got[i] = sent[i]
      /\ Partly(RequestLengths, reading, Len(got) + 1)
  BY LenProperties DEF OutInSync, Types
<1>10. Len(got) <= n + 1 /\ \A i \in 1 .. Len(got) : got[i] = sent'[i]
  <2>1. Len(got) <= n + 1 /\ \A i \in 1 .. Len(got) : i \in 1 .. n
    BY <1>2, <1>9
  <2>2. QED
    BY <1>2, <1>9, <2>1
<1>11. Partly(RequestLengths', reading, Len(got) + 1)
  BY <1>3, <1>4, <1>9 DEF Partly
<1>12. OutInSync'
  BY <1>1, <1>2, <1>5, <1>7, <1>8, <1>10, <1>11 DEF OutInSync
<1>13. Channel!Request(r)
  BY <1>1 DEF Channel!Request
<1>14. QED
  BY <1>12, <1>13

(* A call of send: what it sends of the request comes next in the stream.  *)
LEMMA SendsInSync ==
  ASSUME Types, SendingLast, OutInSync, Send, "send" \notin slips'
  PROVE  OutInSync'
<1> DEFINE n == Len(sent)
           h == Head(sending)
           L == RequestLengths[n]
           start == [of |-> Len(got) + 1, at |-> Len(reading) + 1]
<1>1. /\ sending \in Seq(Nat \ {0}) /\ sending # <<>> /\ Len(sending) <= 4 /\ sent # <<>>
      /\ piece \in Nat \ {0} /\ outbox \in Seq(Piece(sent)) /\ sent \in Seq(AllRequests)
      /\ piece' = piece + h /\ UNCHANGED <<sent, reading, got>>
  BY DEF Types, SendingLast, Send, peer
<1>2. RequestLengths' = RequestLengths
  BY <1>1 DEF RequestLengths
<1>3. PICK q \in [of : Nat, at : Nat] :
        /\ SendingRuns(q) /\ Runs(RequestLengths, outbox, start, q)
  BY DEF OutInSync
<1>4. /\ Len(got) <= n /\ \A i \in 1 .. Len(got) : got[i] = sent[i]
      /\ Partly(RequestLengths, reading, Len(got) + 1)
  BY DEF OutInSync
<1>5. CASE mDisconnected' = TRUE /\ UNCHANGED outbox /\ sending' = <<>>
  <2>1. SendingRuns(q)'
    BY <1>5 DEF SendingRuns
  <2>2. QED
    BY <1>1, <1>2, <1>3, <1>4, <1>5, <2>1 DEF OutInSync
<1>6. CASE ~mDisconnected /\ SendsPieces(n, piece, h) /\ sending' = Tail(sending)
  <2>1. /\ n \in Nat \ {0} /\ n \in 1 .. n
    <3>1. \A k \in Nat \ {0} : k \in 1 .. k
      OBVIOUS
    <3>2. QED
      BY <1>1, <3>1, EmptySeq
  <2>2. /\ h \in Nat \ {0} /\ Total(sending) = h + Total(Tail(sending))
        /\ Total(Tail(sending)) \in Nat
        /\ Tail(sending) = <<>> => Total(Tail(sending)) = 0
        /\ Tail(sending) # <<>> => Total(Tail(sending)) > 0
    BY <1>1, TotalOfTail
  <2>3. L \in Nat \ {0} /\ q = [of |-> n, at |-> piece] /\ piece + Total(sending) = L + 1
    BY <1>1, <1>3, <2>1, RequestLengthsAre DEF SendingRuns
  <2>4. outbox \in Seq([of : 1 .. n, at : Nat \ {0}]) /\ outbox \in Seq(Place)
    BY <1>1, PieceFacts
  <2>5. outbox' = outbox \o Pieces(n, piece, h) /\ mDisconnected' = mDisconnected
    BY <1>1, <1>6, <2>1, <2>2, <2>4, SentPieces
  <2>6. piece + h - 1 <= L /\ piece + h - 1 \in Nat /\ piece + h \in Nat
        /\ (Tail(sending) = <<>> => piece + h - 1 = L)
        /\ (Tail(sending) # <<>> => piece + h - 1 < L)
        /\ piece + h + Total(Tail(sending)) = L + 1 /\ piece + h - 1 + 1 = piece + h
    <3> DEFINE T == Total(Tail(sending))
               whole == Tail(sending) = <<>>
    <3>1. /\ h \in Nat \ {0} /\ T \in Nat /\ L \in Nat \ {0} /\ piece \in Nat \ {0}
          /\ piece + (h + T) = L + 1 /\ (whole => T = 0) /\ (~whole => T > 0)
      BY <1>1, <2>2, <2>3
    <3> HIDE DEF L, h, T, whole
    <3>2. /\ piece + h - 1 <= L /\ piece + h - 1 \in Nat /\ piece + h \in Nat
          /\ (whole => piece + h - 1 = L) /\ (~whole => piece + h - 1 < L)
          /\ piece + h + T = L + 1 /\ piece + h - 1 + 1 = piece + h
      BY <3>1
    <3>3. QED
      BY <3>2 DEF T, whole
  <2> DEFINE k == piece + h - 1
             p == [of |-> n, at |-> k]
  <2>7. PICK next : next = Following(RequestLengths, p)
    OBVIOUS
  <2>8. Runs(RequestLengths, Pieces(n, piece, h), q, next)
    BY <1>1, <2>1, <2>2, <2>3, <2>6, <2>7, PiecesRun
  <2>9. Pieces(n, piece, h) \in Seq(Place)
    BY <1>1, <2>1, <2>2, PiecesAre
  <2> HIDE DEF k, h, L, start
  <2>10. Runs(RequestLengths, outbox', start, next)
    BY <1>3, <2>4, <2>5, <2>8, <2>9, RunsJoin
  <2>11. next \in [of : Nat, at : Nat] /\ SendingRuns(next)'
    <3>1. CASE Tail(sending) = <<>>
      <4>1. RequestLengths[n] = k /\ k \in Nat /\ n + 1 \in Nat
        BY <2>1, <2>6, <3>1 DEF L, k
      <4>2. next = [of |-> n + 1, at |-> 1]
        BY <2>7, <4>1, LastFollowed
      <4>3. SendingRuns(next)'
        BY <1>1, <1>6, <3>1, <4>2 DEF SendingRuns
      <4>4. QED
        BY <4>1, <4>2, <4>3
    <3>2. CASE Tail(sending) # <<>>
      <4>1. next = [of |-> n, at |-> k + 1] /\ k + 1 = piece + h
        BY <2>6, <2>7, <3>2 DEF Following, L, k
      <4>2. SendingRuns(next)'
        <5>1. /\ sending' = Tail(sending) /\ piece' = piece + h /\ Len(sent') = n
              /\ RequestLengths'[n] = L
          BY <1>1, <1>2, <1>6 DEF L
        <5>2. piece' + Total(sending') = RequestLengths'[Len(sent')] + 1
          BY <2>6, <5>1
        <5>3. next = [of |-> Len(sent'), at |-> piece']
          BY <4>1, <5>1
        <5>4. QED
          BY <3>2, <5>1, <5>2, <5>3 DEF SendingRuns
      <4>3. QED
        BY <2>1, <2>6, <4>1, <4>2
    <3>3. QED
      BY <3>1, <3>2
  <2>12. QED
    <3>1. Runs(RequestLengths', outbox', [of |-> Len(got') + 1, at |-> Len(reading') + 1], next)
      BY <1>1, <1>2, <2>10 DEF start
    <3>2. QED
      BY <1>1, <1>2, <1>4, <2>11, <3>1 DEF OutInSync
<1>7. QED
  <2>1. SendFails => mDisconnected' = TRUE /\ UNCHANGED outbox
    BY DEF SendFails
  <2>2. mDisconnected \in BOOLEAN
    BY DEF Types
  <2>3. QED
    BY <1>5, <1>6, <2>1, <2>2 DEF Send
(* The request for the configurations is the first thing in the stream.    *)
LEMMA AsksInSync ==
  ASSUME Types, AtStart, OutInSync, GetConfigs
  PROVE  /\ OutInSync'
         /\ Channel!Request(getConfigs)
            \/ (mDisconnected' = TRUE /\ UNCHANGED <<sent, got>>)
<1>1. /\ sent = <<>> /\ sending = <<>> /\ outbox = <<>> /\ got = <<>> /\ reading = <<>>
      /\ ~mDisconnected /\ UNCHANGED <<sending, reading, got>>
  BY DEF GetConfigs, AtStart, peer
<1>2. CASE SendFails /\ UNCHANGED sent
  <2>1. mDisconnected' = TRUE /\ UNCHANGED outbox
    BY <1>2 DEF SendFails
  <2>2. \A q : SendingRuns(q)'
    BY <1>1, <2>1 DEF SendingRuns
  <2>3. RequestLengths' = RequestLengths
    BY <1>2 DEF RequestLengths
  <2>4. QED
    BY <1>1, <1>2, <2>1, <2>2, <2>3 DEF OutInSync
<1>3. CASE SendsPieces(1, 1, 1) /\ sent' = <<getConfigs>>
  <2>1. outbox' = Pieces(1, 1, 1) /\ mDisconnected' = mDisconnected
    <3>1. 1 \in Nat \ {0} /\ 1 \in Nat /\ 1 \in {1} /\ outbox \in Seq([of : {1}, at : Nat \ {0}])
      BY <1>1, EmptySeq
    <3>2. PICK k \in 1 .. 1 : outbox' = outbox \o Pieces(1, 1, k) /\ mDisconnected' = mDisconnected
      BY <1>3, <3>1, SentPieces
    <3>3. k = 1 /\ Pieces(1, 1, 1) \in Seq(Place)
      BY <3>1, PiecesAre
    <3>4. <<>> \o Pieces(1, 1, 1) = Pieces(1, 1, 1)
      BY <3>3, ConcatEmptySeq
    <3>5. QED
      BY <1>1, <3>2, <3>3, <3>4
  <2> DEFINE l == RequestLengths'
             q == [of |-> 2, at |-> 1]
  <2>2. l[1] = 1 /\ DOMAIN l = 1 .. 1
    BY <1>3, LengthsOfRequests DEF RequestLengths
  <2>3. Following(l, [of |-> 1, at |-> 1 + 1 - 1]) = q
    BY <2>2 DEF Following
  <2>4. Runs(l, Pieces(1, 1, 1), [of |-> 1, at |-> 1], Following(l, [of |-> 1, at |-> 1 + 1 - 1]))
    <3>1. 1 \in Nat \ {0} /\ 1 \in Nat /\ 1 + 1 - 1 <= 1
      OBVIOUS
    <3> HIDE DEF l
    <3>2. QED
      BY <2>2, <3>1, PiecesRun
  <2> HIDE DEF l
  <2>5. Runs(l, outbox', [of |-> 1, at |-> 1], q)
    BY <2>1, <2>3, <2>4
  <2>6. SendingRuns(q)'
    BY <1>1, <1>3 DEF SendingRuns
  <2>7. Partly(l, <<>>, 1)
    <3>1. 1 \in Nat /\ 0 \in Nat /\ Len(<<>>) = 0
      BY EmptySeq
    <3>2. QED
      BY <3>1, OnePieceMore DEF Partly
  <2>8. /\ Len(got') = 0 /\ Len(reading') = 0 /\ got' = <<>> /\ reading' = <<>>
        /\ Len(sent') = 1
    BY <1>1, <1>3, EmptySeq
  <2>9. OutInSync'
    BY <2>5, <2>6, <2>7, <2>8 DEF OutInSync, l
  <2>10. Channel!Request(getConfigs)
    BY <1>1, <1>3, <2>1 DEF Channel!Request
  <2>11. QED
    BY <2>9, <2>10
<1>4. QED
  BY <1>2, <1>3 DEF GetConfigs

(* Slips are not forgotten, and a broken connection stays so.              *)
LEMMA ForGood ==
  ASSUME Types, Next
  PROVE  /\ slips \subseteq slips' /\ (mDisconnected' = mDisconnected \/ mDisconnected' = TRUE)
         /\ faults \subseteq faults'
<1>1. CASE Peer
  BY <1>1 DEF Peer, PeerReads, PeerGoesOn, PeerCloses, PeerAnswers, Writes
<1>2. CASE Composer
  BY <1>2 DEF Composer, MakeRequest, Send, SendFails, SendsPieces
<1>3. CASE GetConfigs
  BY <1>3 DEF GetConfigs, SendFails, SendsPieces
<1>4. CASE Socket /\ ~GetConfigs
  BY <1>4 DEF Socket, OnDisplayEvent, OnDisplayInfoAck, OnDisplayBufferAck, OnPresentLayersAck,
              RecvLayer, OutOfMemory, OnUnknown, RecvFails, RecvGets, Stay
<1>5. QED
  BY <1>1, <1>2, <1>3, <1>4 DEF Next

(* Every other step leaves the stream to the remote alone.                 *)
LEMMA OtherSteps ==
  ASSUME Next, ~PeerReads, ~Composer, ~GetConfigs
  PROVE  UNCHANGED <<sent, sending, piece, outbox, reading, got>>
<1>1. CASE Peer
  BY <1>1 DEF Peer, PeerGoesOn, PeerCloses, PeerAnswers, Writes, composer
<1>2. CASE Socket
  BY <1>2 DEF Socket, OnDisplayEvent, OnDisplayInfoAck, OnDisplayBufferAck, OnPresentLayersAck,
              RecvLayer, OutOfMemory, OnUnknown, Stay, composer, peer
<1>3. QED
  BY <1>1, <1>2 DEF Next

LEMMA OutStep ==
  ASSUME Types, AtStart, SendingLast, "send" \in slips \/ OutInSync, Next
  PROVE  /\ "send" \in slips' \/ OutInSync'
         /\ Channel!Next \/ "send" \in slips' \/ UNCHANGED Channel!vars
<1>1. /\ slips \subseteq slips' /\ (mDisconnected' = mDisconnected \/ mDisconnected' = TRUE)
      /\ mDisconnected \in BOOLEAN
  BY ForGood DEF Types
<1>2. CASE "send" \in slips'
  BY <1>2
<1>3. CASE "send" \notin slips'
  <2>1. OutInSync
    BY <1>1, <1>3
  <2>2. ASSUME UNCHANGED <<sent, got>> PROVE Channel!Next \/ UNCHANGED Channel!vars
    BY <1>1, <2>2 DEF Channel!Next, Channel!Break, Channel!vars
  <2>3. CASE PeerReads
    <3>1. OutInSync' /\ (Channel!Deliver \/ UNCHANGED <<sent, got>>)
      BY <2>1, <2>3, ReadsInSync
    <3>2. QED
      BY <2>2, <3>1 DEF Channel!Next
  <2>4. ASSUME NEW r \in Requests, MakeRequest(r)
        PROVE  OutInSync' /\ Channel!Next
    <3>1. OutInSync' /\ Channel!Request(r) /\ r \in AllRequests
      BY <2>1, <2>4, MakesInSync DEF AllRequests
    <3>2. QED
      BY <3>1 DEF Channel!Next
  <2>5. CASE Send
    <3>1. OutInSync'
      BY <1>3, <2>1, <2>5, SendsInSync
    <3>2. UNCHANGED <<sent, got>>
      BY <2>5 DEF Send, peer
    <3>3. QED
      BY <2>2, <3>1, <3>2
  <2>6. CASE GetConfigs
    <3>1. /\ OutInSync'
          /\ \/ Channel!Request(getConfigs)
             \/ mDisconnected' = TRUE /\ UNCHANGED <<sent, got>>
      BY <2>1, <2>6, AsksInSync
    <3>2. getConfigs \in AllRequests
      BY DEF AllRequests
    <3>3. QED
      BY <2>2, <3>1, <3>2 DEF Channel!Next
  <2>7. CASE ~PeerReads /\ ~Composer /\ ~GetConfigs
    <3>1. UNCHANGED <<sent, sending, piece, outbox, reading, got>>
      BY <2>7, OtherSteps
    <3>2. OutInSync'
      BY <1>1, <1>3, <2>1, <3>1, OutKept
    <3>3. QED
      BY <2>2, <3>1, <3>2
  <2>8. QED
    BY <2>3, <2>4, <2>5, <2>6, <2>7 DEF Composer
<1>4. QED
  BY <1>2, <1>3
-----------------------------------------------------------------------------
(* The stream from the remote.                                             *)
LEMMA AnswerLengthsAre ==
  ASSUME Types
  PROVE  /\ DOMAIN AnswerLengths = 1 .. Len(written) /\ DOMAIN written = 1 .. Len(written)
         /\ Len(written) \in Nat
         /\ \A i \in 1 .. Len(written) : /\ written[i] \in Answers
                                         /\ AnswerLengths[i] = AnswerLength(written[i])
                                         /\ AnswerLengths[i] \in Nat \ {0}
<1>1. written \in Seq(Answers) /\ DOMAIN written = 1 .. Len(written) /\ Len(written) \in Nat
  BY PieceFacts DEF Types
<1>2. DOMAIN AnswerLengths = 1 .. Len(written)
  BY <1>1 DEF AnswerLengths
<1>3. ASSUME NEW i \in 1 .. Len(written)
      PROVE  /\ written[i] \in Answers
             /\ AnswerLengths[i] = AnswerLength(written[i])
             /\ AnswerLengths[i] \in Nat \ {0}
  <2>1. written[i] \in Answers
    BY <1>1, ElementOfSeq
  <2>2. AnswerLengths[i] = AnswerLength(written[i])
    BY <1>1 DEF AnswerLengths
  <2>3. QED
    BY <2>1, <2>2, LengthsOfAnswers
<1>4. QED
  BY <1>1, <1>2, <1>3

(* The next piece read of a message, and the next two.                     *)
LEMMA TakesOne ==
  ASSUME NEW length, NEW m \in Nat, NEW b \in Nat, length[m] \in Nat, b < length[m],
         NEW s \in Seq(Place), s # <<>>, NEW q, Runs(length, s, [of |-> m, at |-> b + 1], q)
  PROVE  /\ Head(s) = [of |-> m, at |-> b + 1]
         /\ Pieces(m, 1, b) \o <<Head(s)>> = Pieces(m, 1, b + 1)
         /\ Tail(s) \in Seq(Place)
         /\ Runs(length, Tail(s), Following(length, [of |-> m, at |-> b + 1]), q)
<1>1. /\ Head(s) = [of |-> m, at |-> b + 1]
      /\ Runs(length, Tail(s), Following(length, [of |-> m, at |-> b + 1]), q)
  BY RunsOn
<1>2. Tail(s) \in Seq(Place)
  BY HeadTailProperties
<1>3. QED
  BY <1>1, <1>2, OnePieceMore

LEMMA TakesTwo ==
  ASSUME NEW length, NEW m \in Nat, length[m] \in Nat, length[m] > 2,
         NEW s \in Seq(Place), s # <<>>, Tail(s) # <<>>, NEW q,
         Runs(length, s, [of |-> m, at |-> 2], q)
  PROVE  /\ Pieces(m, 1, 1) \o <<Head(s), Head(Tail(s))>> = Pieces(m, 1, 3)
         /\ Runs(length, Tail(Tail(s)), Following(length, [of |-> m, at |-> 3]), q)
<1>1. /\ 1 \in Nat /\ 2 \in Nat /\ 1 + 1 = 2 /\ 2 + 1 = 3 /\ 1 < length[m] /\ 2 < length[m]
  OBVIOUS
<1>2. /\ Head(s) = [of |-> m, at |-> 2] /\ Pieces(m, 1, 1) \o <<Head(s)>> = Pieces(m, 1, 2)
      /\ Tail(s) \in Seq(Place)
      /\ Runs(length, Tail(s), Following(length, [of |-> m, at |-> 2]), q)
  <2>1. Runs(length, s, [of |-> m, at |-> 1 + 1], q)
    BY <1>1
  <2>2. /\ Head(s) = [of |-> m, at |-> 1 + 1]
        /\ Pieces(m, 1, 1) \o <<Head(s)>> = Pieces(m, 1, 1 + 1)
        /\ Tail(s) \in Seq(Place)
        /\ Runs(length, Tail(s), Following(length, [of |-> m, at |-> 1 + 1]), q)
    BY <1>1, <2>1, TakesOne
  <2>3. QED
    BY <1>1, <2>2
<1>3. Following(length, [of |-> m, at |-> 2]) = [of |-> m, at |-> 2 + 1]
  BY <1>1 DEF Following
<1>4. /\ Head(Tail(s)) = [of |-> m, at |-> 2 + 1]
      /\ Pieces(m, 1, 2) \o <<Head(Tail(s))>> = Pieces(m, 1, 2 + 1)
      /\ Runs(length, Tail(Tail(s)), Following(length, [of |-> m, at |-> 2 + 1]), q)
  <2>1. Runs(length, Tail(s), [of |-> m, at |-> 2 + 1], q)
    BY <1>2, <1>3
  <2>2. QED
    <3>1. /\ Head(Tail(s)) = [of |-> m, at |-> 2 + 1]
          /\ Runs(length, Tail(Tail(s)), Following(length, [of |-> m, at |-> 2 + 1]), q)
      <4>1. ASSUME NEW t \in Seq(Place), t # <<>>, NEW p, Runs(length, t, p, q)
            PROVE  Head(t) = p /\ Runs(length, Tail(t), Following(length, p), q)
        BY <4>1, RunsOn
      <4>2. Tail(s) \in Seq(Place) /\ Tail(s) # <<>>
        BY <1>2
      <4>3. QED
        BY <2>1, <4>1, <4>2
    <3>2. Pieces(m, 1, 2) \o <<[of |-> m, at |-> 2 + 1]>> = Pieces(m, 1, 2 + 1)
      BY <1>1, OnePieceMore
    <3>3. QED
      BY <3>1, <3>2
<1>5. ASSUME NEW x \in Place, NEW y \in Place PROVE <<x>> \o <<y>> = <<x, y>>
  <2>1. <<x>> \in Seq(Place) /\ <<y>> \in Seq(Place) /\ <<x, y>> \in Seq(Place)
    OBVIOUS
  <2>2. /\ Len(<<x>>) = 1 /\ <<x>>[1] = x /\ Len(<<y>>) = 1 /\ <<y>>[1] = y
        /\ Len(<<x, y>>) = 2 /\ <<x, y>>[1] = x /\ <<x, y>>[2] = y
    OBVIOUS
  <2>3. /\ <<x>> \o <<y>> \in Seq(Place) /\ Len(<<x>> \o <<y>>) = 2
        /\ (<<x>> \o <<y>>)[1] = x /\ (<<x>> \o <<y>>)[2] = y
    BY <2>1, <2>2, ConcatProperties
  <2>4. \A i \in 1 .. 2 : (<<x>> \o <<y>>)[i] = <<x, y>>[i]
    BY <2>2, <2>3
  <2>5. QED
    BY <2>1, <2>2, <2>3, <2>4, SeqEqual
<1>6. /\ Pieces(m, 1, 1) \in Seq(Place) /\ <<Head(s)>> \in Seq(Place)
      /\ <<Head(Tail(s))>> \in Seq(Place) /\ Head(s) \in Place /\ Head(Tail(s)) \in Place
  <2>1. [of |-> m, at |-> 2] \in Place /\ [of |-> m, at |-> 2 + 1] \in Place
    BY DEF Place
  <2>2. QED
    <3>1. \A x \in Place : <<x>> \in Seq(Place)
      OBVIOUS
    <3>2. Head(s) \in Place /\ Head(Tail(s)) \in Place
      BY <1>2, <1>4, <2>1
    <3>3. Pieces(m, 1, 1) \in Seq(Place)
      BY <1>1, PiecesAre
    <3>4. QED
      BY <3>1, <3>2, <3>3
<1>7. (Pieces(m, 1, 1) \o <<Head(s)>>) \o <<Head(Tail(s))>>
        = Pieces(m, 1, 1) \o (<<Head(s)>> \o <<Head(Tail(s))>>)
  BY <1>6, ConcatAssociative
<1>8. QED
  BY <1>1, <1>2, <1>4, <1>5, <1>6, <1>7

(* The whole of a message is that message.                                 *)
LEMMA WholeMessage ==
  ASSUME Types, NEW m \in 1 .. Len(written), NEW n \in Nat \ {0}
  PROVE  /\ Proper(Pieces(m, 1, n)) /\ Pieces(m, 1, n)[1].of = m /\ Len(Pieces(m, 1, n)) = n
         /\ n = AnswerLengths[m] => Message(Pieces(m, 1, n)) = m
<1>1. m \in Nat /\ m # 0 /\ 1 \in Nat /\ 1 \in 1 .. n /\ 1 + 1 - 1 = 1
  BY AnswerLengthsAre
<1>2. Len(Pieces(m, 1, n)) = n
  BY <1>1, PiecesAre
<1>3. Pieces(m, 1, n)[1] = [of |-> m, at |-> 1]
  BY <1>1 DEF Pieces
<1>4. Proper(Pieces(m, 1, n)) /\ Pieces(m, 1, n)[1].of = m
  BY <1>2, <1>3 DEF Proper
<1>5. QED
  BY <1>2, <1>4, AnswerLengthsAre DEF Message
(* Steps that do not touch it.                                             *)
LEMMA InKept ==
  ASSUME RestIsLast, "recv" \in slips \/ InInSync,
         slips \subseteq slips', faults \subseteq faults',
         UNCHANGED <<written, rest, inbox, body, type, left, handled>>,
         spc' = spc \/ (spc = "start" /\ spc' = "wait"),
         mDisconnected' = mDisconnected \/ mDisconnected' = TRUE
  PROVE  RestIsLast' /\ ("recv" \in slips' \/ InInSync')
<1>1. AnswerLengths' = AnswerLengths /\ Writing' = Writing
  BY DEF AnswerLengths, Writing
<1>2. RestIsLast'
  BY <1>1 DEF RestIsLast
<1>3. CASE "recv" \in slips
  BY <1>2, <1>3
<1>4. CASE InInSync
  <2>1. /\ spc' = "aborted" => spc = "aborted" /\ "too many" \in faults'
        /\ spc = "aborted" => spc' = "aborted"
        /\ Len(written') = Len(written)
    BY <1>4 DEF InInSync
  <2>2. ASSUME NEW h, Passed(h) PROVE Passed(h)'
    BY <2>2 DEF Passed, ActedOn
  <2>3. ASSUME NEW h, AtMessage(h) PROVE AtMessage(h)'
    BY <1>1, <2>3 DEF AtMessage, Reached
  <2>4. QED
    BY <1>2, <1>4, <2>1, <2>2, <2>3 DEF InInSync
<1>5. QED
  BY <1>3, <1>4

(* What the remote writes comes next in the stream, and the rest of the    *)
(* message after it.                                                       *)
LEMMA WritesRun ==
  ASSUME Types, NEW m \in Nat \ {0}, NEW from \in Nat \ {0}, NEW n \in Nat \ {0},
         NEW length, length = AnswerLengths', length[m] = from + n - 1,
         Len(written') = m, written' # <<>>, Writes(m, from, n)
  PROVE  /\ RestIsLast'
         /\ \A p : Runs(length, inbox, p, [of |-> m, at |-> from]) =>
                  Runs(length, inbox', p, Writing')
<1> DEFINE L == length[m]
<1>1. inbox \in Seq(Place)
  BY PieceFacts DEF Types
<1>2. PICK k \in 1 .. n : /\ inbox' = inbox \o Pieces(m, from, k)
                          /\ rest' = Pieces(m, from + k, n - k)
  BY DEF Writes
<1>3. /\ k \in Nat \ {0} /\ from + k \in Nat \ {0} /\ n - k \in Nat /\ L \in Nat
      /\ from + k - 1 <= L /\ n - k < L /\ L - (n - k) + 1 = from + k
      /\ from + k - 1 \in Nat /\ from + k - 1 + 1 = from + k
      /\ (n - k = 0 => from + k - 1 = L) /\ (n - k # 0 => from + k - 1 < L)
  OBVIOUS
<1>4. /\ rest' \in Seq(Place) /\ Len(rest') = n - k
      /\ n - k # 0 => rest'[1] = [of |-> m, at |-> from + k]
  <2>1. PICK start, count : start = from + k /\ count = n - k
    OBVIOUS
  <2>2. m \in Nat /\ start \in Nat /\ count \in Nat /\ (n - k # 0 => count # 0)
    BY <1>3, <2>1
  <2>3. rest' = Pieces(m, start, count)
    BY <1>2, <2>1
  <2>4. Pieces(m, start, count) \in Seq(Place) /\ Len(Pieces(m, start, count)) = count
    BY <2>2, PiecesAre
  <2>5. count # 0 => Pieces(m, start, count)[1] = [of |-> m, at |-> start]
    BY <2>2, FirstPiece
  <2>6. QED
    BY <2>1, <2>2, <2>3, <2>4, <2>5
<1>5. rest' = <<>> <=> n - k = 0
  BY <1>4, EmptySeq
<1>6. RestIsLast'
  BY <1>2, <1>3, <1>4 DEF RestIsLast
<1>7. PICK next : next = Following(length, [of |-> m, at |-> from + k - 1])
  OBVIOUS
<1>8. Runs(length, Pieces(m, from, k), [of |-> m, at |-> from], next)
  BY <1>3, <1>7, PiecesRun
<1>9. Pieces(m, from, k) \in Seq(Place)
  BY <1>3, PiecesAre
<1>10. ASSUME NEW p, Runs(length, inbox, p, [of |-> m, at |-> from])
       PROVE  Runs(length, inbox', p, next)
  BY <1>10, <1>1, <1>2, <1>8, <1>9, RunsJoin
<1>11. next = Writing'
  <2>1. CASE n - k = 0
    <3>1. next = [of |-> m + 1, at |-> 1]
      BY <1>3, <1>7, <2>1 DEF Following
    <3>2. QED
      BY <1>5, <2>1, <3>1 DEF Writing
  <2>2. CASE n - k # 0
    <3>1. next = [of |-> m, at |-> from + k]
      BY <1>3, <1>7, <2>2 DEF Following
    <3>2. QED
      BY <1>4, <1>5, <2>2, <3>1 DEF Writing
  <2>3. QED
    BY <2>1, <2>2
<1>12. QED
  BY <1>6, <1>10, <1>11

(* So the messages before it stay where they were.                         *)
LEMMA WritesInSync ==
  ASSUME Types, "recv" \in slips \/ InInSync,
         NEW m \in Nat \ {0}, NEW from \in Nat \ {0}, NEW n \in Nat \ {0},
         AnswerLengths'[m] = from + n - 1, Len(written') = m, written' # <<>>,
         Writes(m, from, n), Writing = [of |-> m, at |-> from], Len(written) <= m,
         DOMAIN written' = 1 .. m, \A i \in 1 .. Len(written) : written'[i] = written[i]
  PROVE  RestIsLast' /\ ("recv" \in slips' \/ InInSync')
<1> DEFINE longer == AnswerLengths'
<1>1. /\ UNCHANGED <<mDisconnected, spc, body, type, left, handled, slips>>
      /\ faults \subseteq faults'
      /\ DOMAIN written = 1 .. Len(written) /\ Len(written) \in Nat
      /\ DOMAIN AnswerLengths = 1 .. Len(written)
  BY AnswerLengthsAre DEF Writes, socket
<1>2. \A i \in 1 .. Len(written) : longer[i] = AnswerLengths[i] /\ i \in 1 .. m
  BY <1>1 DEF AnswerLengths
<1>3. RestIsLast' /\ \A p : Runs(longer, inbox, p, [of |-> m, at |-> from]) =>
                             Runs(longer, inbox', p, Writing')
  BY WritesRun
<1>4. inbox \in Seq([of : 1 .. Len(written), at : Nat \ {0}])
  BY PieceFacts DEF Types
<1>5. ASSUME NEW h \in 0 .. Len(written), Passed(h) PROVE Passed(h)'
  <2>1. \A k \in DOMAIN handled : handled[k] \in 1 .. Len(written)
    BY <1>1, <1>5 DEF Passed
  <2>2. 1 .. h \subseteq 1 .. Len(written)
    BY <1>1
  <2>3. QED
    BY <1>1, <1>5, <2>1, <2>2 DEF Passed, ActedOn
<1>6. ASSUME NEW h \in 0 .. Len(written), AtMessage(h) PROVE AtMessage(h)'
  <2>1. body # <<>> => h + 1 \in 1 .. Len(written)
    BY <1>1, <1>6 DEF AtMessage
  <2>2. PICK p : p = Reached(h)
    OBVIOUS
  <2>3. Reached(h)' = p
    BY <1>1, <1>2, <2>1, <2>2 DEF Reached, Following
  <2>4. Runs(AnswerLengths, inbox, p, [of |-> m, at |-> from])
    BY <1>6, <2>2 DEF AtMessage
  <2>5. Runs(longer, inbox, p, [of |-> m, at |-> from])
    <3> HIDE DEF longer
    <3>1. QED
      BY <1>1, <1>2, <1>4, <2>4, RunsStay, ZenonT(60)
  <2>6. Runs(AnswerLengths', inbox', Reached(h)', Writing')
    BY <1>3, <2>3, <2>5
  <2>7. body # <<>> => /\ (h + 1 \in DOMAIN written)' /\ written'[h + 1] = written[h + 1]
                       /\ longer[h + 1] = AnswerLengths[h + 1]
    BY <1>2, <2>1
  <2>8. QED
    BY <1>1, <1>6, <2>6, <2>7 DEF AtMessage
<1>7. CASE InInSync
  <2>1. PICK h \in 0 .. Len(written) :
          Passed(h) /\ (~mDisconnected /\ spc # "aborted" => AtMessage(h))
    BY <1>7 DEF InInSync
  <2>2. Passed(h)' /\ (~mDisconnected' /\ spc' # "aborted" => AtMessage(h)')
    BY <1>1, <1>5, <1>6, <2>1
  <2>3. h \in 0 .. Len(written)' /\ (spc' = "aborted" => "too many" \in faults')
    <3>1. h \in 0 .. m
      BY <1>1
    <3>2. spc = "aborted" => "too many" \in faults
      BY <1>7 DEF InInSync
    <3>3. QED
      BY <1>1, <3>1, <3>2
  <2>4. QED
    BY <1>3, <2>2, <2>3 DEF InInSync
<1>8. QED
  BY <1>1, <1>3, <1>7
LEMMA PeerInSync ==
  ASSUME Types, AtStart, SendingLast, RestIsLast, "recv" \in slips \/ InInSync, Peer
  PROVE  AtStart' /\ SendingLast' /\ RestIsLast' /\ ("recv" \in slips' \/ InInSync')
<1>1. AtStart' /\ SendingLast'
  <2>1. UNCHANGED <<spc, sent, sending, connected, mDisconnected>>
    BY DEF Peer, PeerReads, PeerGoesOn, PeerCloses, PeerAnswers, Writes, composer, socket
  <2>2. SendingLast'
    BY <2>1 DEF SendingLast
  <2>3. spc = "start" => UNCHANGED <<outbox, got, reading>>
    BY DEF AtStart, Peer, PeerReads, PeerGoesOn, PeerCloses, PeerAnswers, Writes
  <2>4. QED
    BY <2>1, <2>2, <2>3 DEF AtStart
<1>2. CASE PeerReads \/ PeerCloses
  <2>1. /\ UNCHANGED <<written, rest, inbox, body, type, left, handled, spc, mDisconnected,
                       slips>>
        /\ faults \subseteq faults'
    BY <1>2 DEF PeerReads, PeerCloses, socket
  <2>2. QED
    BY <1>1, <2>1, InKept
<1>3. ASSUME NEW a \in Answers, PeerAnswers(a)
      PROVE  RestIsLast' /\ ("recv" \in slips' \/ InInSync')
  <2>1. PICK m, n : m = Len(written) + 1 /\ n = AnswerLength(a)
    OBVIOUS
  <2>2. /\ rest = <<>> /\ written' = Append(written, a) /\ Writes(m, 1, n)
        /\ written \in Seq(Answers)
    BY <1>3, <2>1 DEF PeerAnswers, Types
  <2>3. /\ written' \in Seq(Answers) /\ Len(written') = m /\ Len(written) \in Nat
        /\ DOMAIN written' = 1 .. m /\ written'[m] = a
        /\ \A i \in 1 .. Len(written) : written'[i] = written[i]
    BY <2>1, <2>2, MoreMessages
  <2>4. n \in Nat \ {0} /\ 1 + n - 1 = n /\ 1 \in Nat \ {0}
    BY <2>1, LengthsOfAnswers
  <2>5. m \in Nat \ {0} /\ m \in 1 .. m /\ Len(written) <= m
    BY <2>1, <2>3
  <2>6. AnswerLengths'[m] = 1 + n - 1
    BY <2>1, <2>3, <2>4, <2>5 DEF AnswerLengths
  <2>7. written' # <<>>
    BY <2>3, <2>5, EmptySeq
  <2>8. Writing = [of |-> m, at |-> 1]
    BY <2>1, <2>2 DEF Writing
  <2>9. QED
    BY <2>2, <2>3, <2>4, <2>5, <2>6, <2>7, <2>8, WritesInSync
<1>4. CASE PeerGoesOn
  <2>1. PICK m, n : m = Len(written) /\ n = Len(rest)
    OBVIOUS
  <2>2. /\ written' = written /\ rest # <<>> /\ Writes(m, rest[1].at, n) /\ written # <<>>
        /\ n < AnswerLengths[m] /\ rest = Pieces(m, AnswerLengths[m] - n + 1, n)
    BY <1>4, <2>1 DEF PeerGoesOn, RestIsLast
  <2>3. /\ written \in Seq(Answers) /\ rest \in Seq(Piece(written))
    BY DEF Types
  <2>4. m \in Nat \ {0} /\ n \in Nat \ {0}
    BY <2>1, <2>2, <2>3, EmptySeq, LenProperties
  <2>5. m \in 1 .. Len(written) /\ AnswerLengths[m] \in Nat
    BY <2>1, <2>4, AnswerLengthsAre
  <2>6. PICK from : from = AnswerLengths[m] - n + 1
    OBVIOUS
  <2>7. from \in Nat \ {0} /\ AnswerLengths[m] = from + n - 1
    BY <2>2, <2>4, <2>5, <2>6
  <2>8. rest[1] = [of |-> m, at |-> from] /\ rest[1].at = from
    <3>1. rest = Pieces(m, from, n)
      BY <2>2, <2>6
    <3>2. m \in Nat /\ from \in Nat /\ n \in Nat /\ n # 0
      BY <2>4, <2>7
    <3>3. Pieces(m, from, n)[1] = [of |-> m, at |-> from]
      BY <3>2, FirstPiece
    <3>4. QED
      BY <3>1, <3>3
  <2>9. Writing = [of |-> m, at |-> from]
    BY <2>2, <2>8 DEF Writing
  <2>10. DOMAIN written' = 1 .. m /\ Len(written) <= m /\ Len(written') = m
    BY <2>1, <2>2, <2>4, AnswerLengthsAre
  <2>11. /\ AnswerLengths'[m] = from + n - 1 /\ Writes(m, from, n)
         /\ \A i \in 1 .. Len(written) : written'[i] = written[i]
    BY <2>2, <2>7, <2>8 DEF AnswerLengths
  <2>12. Len(written') = m /\ written' # <<>> /\ Len(written) <= m /\ DOMAIN written' = 1 .. m
    BY <2>2, <2>10
  <2>13. QED
    BY <1>1, <2>4, <2>7, <2>9, <2>11, <2>12, WritesInSync
<1>5. QED
  BY <1>1, <1>2, <1>3, <1>4 DEF Peer
-----------------------------------------------------------------------------
(* A recv of one piece gets the next one of the message, and a recv of two *)
(* the next two unless it slips.                                           *)
LEMMA GetsOne ==
  ASSUME Types, NEW h \in 0 .. Len(written), AtMessage(h), RecvGets(1),
         NEW b, b = Len(body), b # 0 => b < AnswerLengths[h + 1]
  PROVE  /\ h + 1 \in 1 .. Len(written) /\ b \in Nat /\ b + 1 <= AnswerLengths[h + 1]
         /\ Head(inbox) = [of |-> h + 1, at |-> b + 1]
         /\ With(1) = Pieces(h + 1, 1, b + 1)
         /\ Runs(AnswerLengths, inbox', Following(AnswerLengths, [of |-> h + 1, at |-> b + 1]),
                 Writing)
<1>1. /\ inbox \in Seq(Place) /\ inbox \in Seq([of : 1 .. Len(written), at : Nat \ {0}])
      /\ body \in Seq(Place)
  BY PieceFacts DEF Types
<1>2. inbox # <<>> /\ inbox' = Tail(inbox) /\ With(1) = body \o <<Head(inbox)>>
  BY Received
<1>3. b \in Nat /\ (b = 0 => body = <<>>) /\ (body = <<>> => b = 0)
  BY <1>1, EmptySeq, LenProperties
<1>4. Runs(AnswerLengths, inbox, Reached(h), Writing) /\ body = Pieces(h + 1, 1, b)
  BY DEF AtMessage
<1>5. h \in Nat /\ h + 1 \in Nat /\ 0 + 1 = 1
  BY AnswerLengthsAre
<1>6. Reached(h) = [of |-> h + 1, at |-> b + 1]
  BY <1>3, <1>5 DEF Reached, Following
<1>7. Head(inbox) = Reached(h) /\ Head(inbox) \in [of : 1 .. Len(written), at : Nat \ {0}]
  BY <1>1, <1>2, <1>4, RunsOn, HeadTailProperties
<1>8. h + 1 \in 1 .. Len(written)
  <2>1. Head(inbox).of = h + 1
    BY <1>6, <1>7
  <2>2. Head(inbox).of \in 1 .. Len(written)
    BY <1>7
  <2>3. QED
    BY <2>1, <2>2
<1>9. AnswerLengths[h + 1] \in Nat \ {0}
  BY <1>8, AnswerLengthsAre
<1>10. b < AnswerLengths[h + 1] /\ b + 1 <= AnswerLengths[h + 1]
  <2>1. PICK L : L = AnswerLengths[h + 1]
    OBVIOUS
  <2>2. L \in Nat \ {0} /\ (b # 0 => b < L)
    BY <1>9, <2>1
  <2>3. b < L /\ b + 1 <= L
    BY <1>3, <2>2
  <2>4. QED
    BY <2>1, <2>3
<1>11. Runs(AnswerLengths, inbox, [of |-> h + 1, at |-> b + 1], Writing)
  BY <1>4, <1>6
<1>12. /\ Pieces(h + 1, 1, b) \o <<Head(inbox)>> = Pieces(h + 1, 1, b + 1)
       /\ Runs(AnswerLengths, Tail(inbox),
               Following(AnswerLengths, [of |-> h + 1, at |-> b + 1]), Writing)
  <2>1. PICK m, length : m = h + 1 /\ length = AnswerLengths
    OBVIOUS
  <2>2. PICK n : n = b
    OBVIOUS
  <2>3. m \in Nat /\ n \in Nat /\ length[m] \in Nat /\ n < length[m]
    BY <1>3, <1>5, <1>9, <1>10, <2>1, <2>2
  <2>4. Runs(length, inbox, [of |-> m, at |-> n + 1], Writing)
    BY <1>11, <2>1, <2>2
  <2>5. inbox \in Seq(Place) /\ inbox # <<>>
    BY <1>1, <1>2
  <2>6. /\ Pieces(m, 1, n) \o <<Head(inbox)>> = Pieces(m, 1, n + 1)
        /\ Runs(length, Tail(inbox), Following(length, [of |-> m, at |-> n + 1]), Writing)
    <3>1. PICK p : p = [of |-> m, at |-> n + 1]
      OBVIOUS
    <3>2. Runs(length, inbox, p, Writing)
      BY <2>4, <3>1
    <3>3. Head(inbox) = p /\ Runs(length, Tail(inbox), Following(length, p), Writing)
      BY <2>5, <3>2, RunsOn
    <3>4. Pieces(m, 1, n) \o <<p>> = Pieces(m, 1, n + 1)
      BY <2>3, <3>1, OnePieceMore
    <3>5. QED
      BY <3>1, <3>3, <3>4
  <2>7. QED
    BY <2>1, <2>2, <2>6
<1>13. QED
  BY <1>2, <1>3, <1>4, <1>6, <1>7, <1>8, <1>10, <1>12

LEMMA GetsTwo ==
  ASSUME Types, NEW h \in 0 .. Len(written), AtMessage(h), RecvGets(2), "recv" \notin slips',
         Len(body) = 1, AnswerLengths[h + 1] > 2
  PROVE  /\ h + 1 \in 1 .. Len(written)
         /\ With(2) = Pieces(h + 1, 1, 3)
         /\ Runs(AnswerLengths, inbox', Following(AnswerLengths, [of |-> h + 1, at |-> 3]),
                 Writing)
<1>1. inbox \in Seq(Place) /\ body \in Seq(Place)
  BY PieceFacts DEF Types
<1>2. /\ inbox # <<>> /\ Tail(inbox) # <<>> /\ inbox' = Tail(Tail(inbox))
      /\ With(2) = body \o <<Head(inbox), Head(Tail(inbox))>>
  BY Received
<1>3. body # <<>>
  <2>1. Len(<<>>) = 0
    OBVIOUS
  <2>2. QED
    BY <2>1
<1>4. /\ Runs(AnswerLengths, inbox, Reached(h), Writing) /\ body = Pieces(h + 1, 1, 1)
      /\ h + 1 \in DOMAIN written
  BY <1>3 DEF AtMessage
<1>5. h + 1 \in 1 .. Len(written) /\ h + 1 \in Nat
  BY <1>4, AnswerLengthsAre
<1>6. AnswerLengths[h + 1] \in Nat
  BY <1>5, AnswerLengthsAre
<1>7. PICK m, length : m = h + 1 /\ length = AnswerLengths
  OBVIOUS
<1>8. length[m] \in Nat /\ length[m] > 2 /\ m \in Nat
  BY <1>5, <1>6, <1>7
<1>9. Reached(h) = [of |-> m, at |-> 2]
  <2>1. Reached(h) = Following(length, [of |-> m, at |-> 1])
    BY <1>3, <1>7 DEF Reached
  <2>2. 1 < length[m] /\ 1 + 1 = 2
    BY <1>8
  <2>3. QED
    BY <2>1, <2>2 DEF Following
<1>10. Runs(length, inbox, [of |-> m, at |-> 2], Writing)
  BY <1>4, <1>7, <1>9
<1>11. /\ Pieces(m, 1, 1) \o <<Head(inbox), Head(Tail(inbox))>> = Pieces(m, 1, 3)
       /\ Runs(length, Tail(Tail(inbox)), Following(length, [of |-> m, at |-> 3]), Writing)
  BY <1>1, <1>2, <1>8, <1>10, TakesTwo, ZenonT(60)
<1>12. QED
  BY <1>2, <1>4, <1>5, <1>7, <1>11
(* A message it knows is done when it has acted on it; any other, when it  *)
(* is read.                                                                *)
LEMMA PassesOn ==
  ASSUME Types, NEW h \in 0 .. Len(written), Passed(h), written' = written,
         h + 1 \in 1 .. Len(written),
         \/ Known(written[h + 1]) /\ handled' = Append(handled, h + 1)
         \/ ~Known(written[h + 1]) /\ handled' = handled
  PROVE  Passed(h + 1)'
<1> DEFINE n == Len(handled)
<1>1. /\ handled \in Seq(0 .. Len(written)) /\ DOMAIN handled = 1 .. n /\ n \in Nat
      /\ h \in Nat /\ h + 1 \in 0 .. Len(written)
  <2>1. h \in Nat /\ h + 1 \in 0 .. Len(written)
    BY AnswerLengthsAre
  <2>2. QED
    BY <2>1, PieceFacts DEF Types
<1>2. /\ \A k \in 1 .. n : handled[k] \in 1 .. h /\ Known(written[handled[k]])
      /\ \A j, k \in 1 .. n : j < k => handled[j] < handled[k]
      /\ \A i \in 1 .. h : Known(written[i]) => \E k \in 1 .. n : handled[k] = i
  BY <1>1 DEF Passed, ActedOn, SMT
<1>3. 1 .. h \subseteq 1 .. h + 1 /\ \A i \in 1 .. h + 1 : i = h + 1 \/ i \in 1 .. h
  BY <1>1
<1>4. CASE ~Known(written[h + 1]) /\ handled' = handled
  <2>1. \A i \in 1 .. h + 1 : Known(written[i]) => \E k \in 1 .. n : handled[k] = i
    BY <1>2, <1>3, <1>4
  <2>2. \A k \in 1 .. n : handled[k] \in 1 .. h + 1
    BY <1>2, <1>3
  <2>3. DOMAIN handled' = 1 .. n
    BY <1>1, <1>4
  <2>4. QED
    BY <1>1, <1>2, <1>4, <2>1, <2>2, <2>3 DEF Passed, ActedOn
<1>5. CASE Known(written[h + 1]) /\ handled' = Append(handled, h + 1)
  <2>1. /\ DOMAIN handled' = 1 .. n + 1 /\ handled'[n + 1] = h + 1
        /\ \A k \in 1 .. n : handled'[k] = handled[k]
    BY <1>1, <1>5, MoreMessages
  <2>2. \A k \in 1 .. n + 1 : k = n + 1 \/ k \in 1 .. n
    BY <1>1
  <2>3. \A k \in 1 .. n + 1 : handled'[k] \in 1 .. h + 1 /\ Known(written[handled'[k]])
    <3>1. h + 1 \in 1 .. h + 1
      BY <1>1
    <3>2. QED
      BY <1>2, <1>3, <1>5, <2>1, <2>2, <3>1
  <2>4. \A j, k \in 1 .. n + 1 : j < k => handled'[j] < handled'[k]
    <3>1. ASSUME NEW j \in 1 .. n + 1, NEW k \in 1 .. n + 1, j < k
          PROVE  handled'[j] < handled'[k]
      <4>1. j \in 1 .. n
        BY <1>1, <3>1
      <4>2. CASE k \in 1 .. n
        BY <1>2, <2>1, <3>1, <4>1, <4>2
      <4>3. CASE k = n + 1
        <5>1. handled[j] \in 1 .. h
          BY <1>2, <4>1
        <5>2. handled[j] < h + 1
          BY <1>1, <5>1
        <5>3. QED
          BY <2>1, <4>1, <4>3, <5>2
      <4>4. QED
        BY <2>2, <4>2, <4>3
    <3>2. QED
      BY <3>1
  <2>5. ASSUME NEW i \in 1 .. h + 1, Known(written[i])
        PROVE  \E k \in 1 .. n + 1 : handled'[k] = i
    <3>1. CASE i = h + 1
      <4>1. n + 1 \in 1 .. n + 1
        BY <1>1
      <4>2. QED
        BY <2>1, <3>1, <4>1
    <3>2. CASE i \in 1 .. h
      <4>1. PICK k \in 1 .. n : handled[k] = i
        BY <1>2, <2>5, <3>2
      <4>2. k \in 1 .. n + 1
        BY <1>1
      <4>3. QED
        BY <2>1, <4>1, <4>2
    <3>3. QED
      BY <1>3, <3>1, <3>2
  <2>6. QED
    BY <2>1, <2>3, <2>4, <2>5 DEF Passed, ActedOn
<1>6. QED
  BY <1>4, <1>5

(* A step that reads on in a message.                                      *)
LEMMA GoesOn ==
  ASSUME Types, NEW h \in 0 .. Len(written), Passed(h), h + 1 \in 1 .. Len(written),
         NEW n \in Nat \ {0}, n <= AnswerLengths[h + 1], body' = Pieces(h + 1, 1, n),
         Runs(AnswerLengths, inbox', Following(AnswerLengths, [of |-> h + 1, at |-> n]), Writing),
         UNCHANGED <<written, rest, handled>>, type' = written[h + 1].type,
         \/ spc' = "message" /\ n = 1
         \/ /\ spc' = "layers" /\ type' = "PRESENT_LAYERS_ACK"
            /\ n + left' = AnswerLengths[h + 1]
  PROVE  InInSync'
<1>1. AnswerLengths' = AnswerLengths /\ Writing' = Writing
  BY DEF AnswerLengths, Writing
<1>2. Passed(h)'
  BY DEF Passed, ActedOn
<1>3. Len(body') = n /\ body' # <<>> /\ h + 1 \in DOMAIN written
  <2>1. h + 1 \in Nat /\ h + 1 \in DOMAIN written /\ 1 \in Nat /\ n \in Nat /\ n # 0
    BY AnswerLengthsAre
  <2>2. Len(body') = n
    BY <2>1, PiecesAre
  <2>3. Len(<<>>) = 0
    OBVIOUS
  <2>4. QED
    BY <2>1, <2>2, <2>3
<1>4. Reached(h)' = Following(AnswerLengths, [of |-> h + 1, at |-> n])
  BY <1>1, <1>3 DEF Reached
<1>5. AtMessage(h)'
  BY <1>1, <1>3, <1>4 DEF AtMessage
<1>6. QED
  BY <1>2, <1>5 DEF InInSync

(* A step that reads the last pieces of a message.                         *)
LEMMA Finishes ==
  ASSUME Types, NEW h \in 0 .. Len(written), Passed(h), h + 1 \in 1 .. Len(written),
         NEW n, n = AnswerLengths[h + 1],
         Runs(AnswerLengths, inbox', Following(AnswerLengths, [of |-> h + 1, at |-> n]), Writing),
         UNCHANGED <<written, rest>>, Done,
         \/ Known(written[h + 1]) /\ Handles(Pieces(h + 1, 1, n))
         \/ ~Known(written[h + 1]) /\ UNCHANGED handled
  PROVE  InInSync'
<1>1. AnswerLengths' = AnswerLengths /\ Writing' = Writing
  BY DEF AnswerLengths, Writing
<1>2. n \in Nat \ {0} /\ h + 1 \in Nat /\ h + 1 \in 0 .. Len(written)
  BY AnswerLengthsAre
<1>3. Passed(h + 1)'
  <2>1. Message(Pieces(h + 1, 1, n)) = h + 1
    BY <1>2, WholeMessage
  <2>2. QED
    BY <2>1, PassesOn DEF Handles
<1>4. body' = <<>> /\ spc' = "wait"
  BY DEF Done
<1>5. Pieces(h + 1 + 1, 1, 0) = <<>> /\ Len(<<>>) = 0
  <2>1. h + 1 + 1 \in Nat
    BY <1>2
  <2>2. QED
    BY <2>1, OnePieceMore
<1>6. Reached(h + 1)' = Following(AnswerLengths, [of |-> h + 1, at |-> n])
  <2>1. Reached(h + 1)' = [of |-> h + 1 + 1, at |-> 1]
    BY <1>4 DEF Reached
  <2>2. QED
    BY <1>2, <2>1 DEF Following
<1>7. AtMessage(h + 1)'
  BY <1>1, <1>4, <1>5, <1>6 DEF AtMessage
<1>8. QED
  BY <1>2, <1>3, <1>4, <1>7 DEF InInSync

(* A step that finds the connection broken.                                *)
LEMMA Breaks ==
  ASSUME InInSync, UNCHANGED <<written, handled>>, mDisconnected' = TRUE, spc' # "aborted"
  PROVE  InInSync'
<1>1. ASSUME NEW h, Passed(h) PROVE Passed(h)'
  BY <1>1 DEF Passed, ActedOn
<1>2. QED
  BY <1>1 DEF InInSync
-----------------------------------------------------------------------------
(* What the header says is of the message the socket thread is at.         *)
LEMMA AtHeader ==
  ASSUME Types, NEW h \in 0 .. Len(written), AtMessage(h), spc = "message" \/ spc = "layers"
  PROVE  /\ h + 1 \in 1 .. Len(written) /\ body # <<>> /\ type = written[h + 1].type
         /\ body = Pieces(h + 1, 1, Len(body)) /\ Len(body) \in Nat \ {0}
         /\ body[1] = [of |-> h + 1, at |-> 1]
         /\ AnswerLengths[h + 1] = AnswerLength(written[h + 1])
         /\ AnswerLengths[h + 1] \in Nat \ {0}
         /\ spc = "message" => Len(body) = 1
<1>1. /\ body # <<>> /\ h + 1 \in DOMAIN written /\ type = written[h + 1].type
      /\ body = Pieces(h + 1, 1, Len(body)) /\ (spc = "message" => Len(body) = 1)
  BY DEF AtMessage
<1>2. body \in Seq(Place)
  BY PieceFacts DEF Types
<1>3. Len(body) \in Nat \ {0}
  BY <1>1, <1>2, EmptySeq, LenProperties
<1>4. h + 1 \in 1 .. Len(written) /\ h + 1 \in Nat
  BY <1>1, AnswerLengthsAre
<1>5. body[1] = [of |-> h + 1, at |-> 1]
  <2>1. PICK n : n = Len(body)
    OBVIOUS
  <2>2. n \in Nat /\ n # 0 /\ 1 \in Nat
    BY <1>3, <2>1
  <2>3. Pieces(h + 1, 1, n)[1] = [of |-> h + 1, at |-> 1]
    BY <1>4, <2>2, FirstPiece
  <2>4. QED
    BY <1>1, <2>1, <2>3
<1>6. QED
  BY <1>1, <1>3, <1>4, <1>5, AnswerLengthsAre

LEMMA EventInSync ==
  ASSUME Types, InInSync, OnDisplayEvent
  PROVE  InInSync'
<1>1. /\ UNCHANGED <<written, rest, handled>> /\ spc = "wait" /\ ~mDisconnected
  BY DEF OnDisplayEvent, Stay, peer
<1>2. CASE RecvFails /\ UNCHANGED spc
  BY <1>1, <1>2, Breaks DEF RecvFails
<1>3. CASE /\ RecvGets(1) /\ body' = With(1) /\ spc' = "message"
           /\ type' \in IF Head(inbox).at = 1 THEN {written[Head(inbox).of].type}
                                              ELSE {a.type : a \in Answers}
  <2>1. PICK h \in 0 .. Len(written) : Passed(h) /\ AtMessage(h)
    BY <1>1 DEF InInSync
  <2>2. body = <<>> /\ Len(<<>>) = 0 /\ 0 + 1 = 1
    BY <1>1, <2>1 DEF AtMessage
  <2>3. PICK b : b = Len(body)
    OBVIOUS
  <2>4. b = 0 /\ b + 1 = 1
    BY <2>2, <2>3
  <2>5. /\ h + 1 \in 1 .. Len(written) /\ b + 1 <= AnswerLengths[h + 1]
        /\ Head(inbox) = [of |-> h + 1, at |-> b + 1] /\ With(1) = Pieces(h + 1, 1, b + 1)
        /\ Runs(AnswerLengths, inbox',
                Following(AnswerLengths, [of |-> h + 1, at |-> b + 1]), Writing)
    BY <1>3, <2>1, <2>3, <2>4, GetsOne
  <2>6. /\ 1 <= AnswerLengths[h + 1] /\ body' = Pieces(h + 1, 1, 1)
        /\ Runs(AnswerLengths, inbox', Following(AnswerLengths, [of |-> h + 1, at |-> 1]), Writing)
        /\ Head(inbox) = [of |-> h + 1, at |-> 1]
    BY <1>3, <2>4, <2>5
  <2>7. type' = written[h + 1].type
    BY <1>3, <2>6
  <2>8. 1 \in Nat \ {0}
    OBVIOUS
  <2>9. QED
    BY <1>1, <1>3, <2>1, <2>5, <2>6, <2>7, <2>8, GoesOn
<1>4. QED
  BY <1>2, <1>3 DEF OnDisplayEvent

LEMMA InfoAckInSync ==
  ASSUME Types, InInSync, OnDisplayInfoAck, "recv" \notin slips'
  PROVE  InInSync'
<1>1. /\ UNCHANGED <<written, rest>> /\ spc = "message" /\ type = "DISPINFO_ACK" /\ Done
  BY DEF OnDisplayInfoAck, Stay, peer
<1>2. CASE RecvFails /\ UNCHANGED handled
  BY <1>1, <1>2, Breaks DEF RecvFails, Done
<1>3. CASE RecvGets(2) /\ Handles(With(2))
  <2>1. PICK h \in 0 .. Len(written) : Passed(h) /\ AtMessage(h)
    BY <1>1, <1>3 DEF InInSync, RecvGets
  <2>2. /\ written[h + 1].type = "DISPINFO_ACK" /\ Len(body) = 1
        /\ AnswerLengths[h + 1] = AnswerLength(written[h + 1])
    BY <1>1, <2>1, AtHeader
  <2>3. AnswerLengths[h + 1] = 3 /\ Known(written[h + 1]) /\ 3 > 2
    BY <2>2 DEF AnswerLength, Known
  <2>4. /\ h + 1 \in 1 .. Len(written) /\ With(2) = Pieces(h + 1, 1, 3)
        /\ Runs(AnswerLengths, inbox', Following(AnswerLengths, [of |-> h + 1, at |-> 3]), Writing)
    BY <1>3, <2>1, <2>2, <2>3, GetsTwo
  <2>5. Handles(Pieces(h + 1, 1, 3))
    BY <1>3, <2>4
  <2>6. QED
    BY <1>1, <2>1, <2>3, <2>4, <2>5, Finishes
<1>4. QED
  BY <1>2, <1>3 DEF OnDisplayInfoAck
LEMMA BufferAckInSync ==
  ASSUME Types, InInSync, OnDisplayBufferAck
  PROVE  InInSync'
<1>1. /\ UNCHANGED <<written, rest>> /\ spc = "message" /\ type = "DISPLAY_ACK" /\ Done
  BY DEF OnDisplayBufferAck, Stay, peer
<1>2. CASE RecvFails /\ UNCHANGED handled
  BY <1>1, <1>2, Breaks DEF RecvFails, Done
<1>3. CASE RecvGets(1) /\ Handles(With(1))
  <2>1. PICK h \in 0 .. Len(written) : Passed(h) /\ AtMessage(h)
    BY <1>1, <1>3 DEF InInSync, RecvGets
  <2>2. /\ written[h + 1].type = "DISPLAY_ACK" /\ Len(body) = 1
        /\ AnswerLengths[h + 1] = AnswerLength(written[h + 1])
    BY <1>1, <2>1, AtHeader
  <2>3. AnswerLengths[h + 1] = 2 /\ Known(written[h + 1])
    BY <2>2 DEF AnswerLength, Known
  <2>4. PICK b : b = Len(body)
    OBVIOUS
  <2>5. b + 1 = 2 /\ (b # 0 => b < AnswerLengths[h + 1])
    BY <2>2, <2>3, <2>4
  <2>6. /\ h + 1 \in 1 .. Len(written) /\ With(1) = Pieces(h + 1, 1, b + 1)
        /\ Runs(AnswerLengths, inbox',
                Following(AnswerLengths, [of |-> h + 1, at |-> b + 1]), Writing)
    BY <1>3, <2>1, <2>4, <2>5, GetsOne
  <2>7. /\ Handles(Pieces(h + 1, 1, 2))
        /\ Runs(AnswerLengths, inbox', Following(AnswerLengths, [of |-> h + 1, at |-> 2]), Writing)
    BY <1>3, <2>5, <2>6
  <2>8. QED
    BY <1>1, <2>1, <2>3, <2>6, <2>7, Finishes
<1>4. QED
  BY <1>2, <1>3 DEF OnDisplayBufferAck

(* The count of a message that came as it was written is its own.          *)
LEMMA LayersAckInSync ==
  ASSUME Types, InInSync, OnPresentLayersAck, "recv" \notin slips'
  PROVE  InInSync'
<1>1. /\ UNCHANGED <<written, rest>> /\ spc = "message" /\ type = "PRESENT_LAYERS_ACK"
  BY DEF OnPresentLayersAck, Stay, peer
<1>2. CASE RecvFails /\ Done /\ UNCHANGED handled
  BY <1>1, <1>2, Breaks DEF RecvFails, Done
<1>3. ASSUME RecvGets(2),
             NEW n \in IF CountCame(With(2)) THEN {written[body[1].of].n} ELSE LayerCounts,
             \/ LayersToRead(n) = 0 /\ Handles(With(2)) /\ Done
             \/ /\ LayersToRead(n) # 0
                /\ left' = LayersToRead(n) /\ spc' = "layers" /\ body' = With(2)
                /\ UNCHANGED <<type, handled>>
      PROVE  InInSync'
  <2>1. PICK h \in 0 .. Len(written) : Passed(h) /\ AtMessage(h)
    BY <1>1, <1>3 DEF InInSync, RecvGets
  <2>2. /\ h + 1 \in 1 .. Len(written) /\ type = written[h + 1].type /\ Len(body) = 1
        /\ body[1].of = h + 1 /\ written[h + 1].type = "PRESENT_LAYERS_ACK"
        /\ AnswerLengths[h + 1] = AnswerLength(written[h + 1])
    <3>1. /\ h + 1 \in 1 .. Len(written) /\ type = written[h + 1].type /\ Len(body) = 1
          /\ body[1] = [of |-> h + 1, at |-> 1]
          /\ AnswerLengths[h + 1] = AnswerLength(written[h + 1])
      BY <1>1, <2>1, AtHeader
    <3>2. QED
      BY <1>1, <3>1
  <2>3. PICK count : count = written[h + 1].n
    OBVIOUS
  <2>4. count \in Nat
    BY <2>2, <2>3, AnswerLengthsAre, LengthsOfAnswers
  <2>5. AnswerLengths[h + 1] = 3 + count /\ Known(written[h + 1])
    BY <2>2, <2>3 DEF AnswerLength, Known
  <2>6. AnswerLengths[h + 1] > 2 /\ 3 <= AnswerLengths[h + 1] /\ 3 \in Nat \ {0}
    BY <2>4, <2>5
  <2>7. /\ With(2) = Pieces(h + 1, 1, 3)
        /\ Runs(AnswerLengths, inbox', Following(AnswerLengths, [of |-> h + 1, at |-> 3]), Writing)
    BY <1>3, <2>1, <2>2, <2>6, GetsTwo
  <2>8. CountCame(With(2))
    <3>1. /\ Proper(Pieces(h + 1, 1, 3)) /\ Pieces(h + 1, 1, 3)[1].of = h + 1
          /\ Len(Pieces(h + 1, 1, 3)) = 3
      BY <2>2, <2>6, WholeMessage
    <3>2. QED
      BY <2>2, <2>7, <3>1 DEF CountCame
  <2>9. n = count
    BY <2>2, <2>3, <2>8
  <2>10. CASE n = 0
    <3>1. Handles(Pieces(h + 1, 1, 3)) /\ Done
      BY <1>3, <2>7, <2>10 DEF LayersToRead
    <3>2. AnswerLengths[h + 1] = 3
      BY <2>4, <2>5, <2>9, <2>10
    <3>3. QED
      BY <1>1, <2>1, <2>2, <2>5, <2>7, <3>1, <3>2, Finishes
  <2>11. CASE n # 0
    <3>1. /\ left' = count /\ spc' = "layers" /\ body' = Pieces(h + 1, 1, 3)
          /\ UNCHANGED <<type, handled>>
      BY <1>3, <2>7, <2>9, <2>11 DEF LayersToRead
    <3>2. /\ 3 + left' = AnswerLengths[h + 1] /\ type' = written[h + 1].type
          /\ type' = "PRESENT_LAYERS_ACK"
      BY <1>1, <2>2, <2>5, <3>1
    <3>3. QED
      BY <1>1, <2>1, <2>2, <2>6, <2>7, <3>1, <3>2, GoesOn
  <2>12. QED
    BY <2>10, <2>11
<1>4. QED
  BY <1>2, <1>3 DEF OnPresentLayersAck
LEMMA LayerInSync ==
  ASSUME Types, HeaderKept, InInSync, RecvLayer
  PROVE  InInSync'
<1>1. /\ UNCHANGED <<written, rest>> /\ spc = "layers" /\ left # 0 /\ left \in Nat
  BY DEF RecvLayer, Stay, peer, HeaderKept, Types
<1>2. CASE RecvFails /\ Done /\ UNCHANGED handled
  BY <1>1, <1>2, Breaks DEF RecvFails, Done
<1>3. CASE /\ RecvGets(1)
           /\ \/ left = 1 /\ Handles(With(1)) /\ Done
              \/ /\ left # 1 /\ left' = left - 1 /\ body' = With(1)
                 /\ UNCHANGED <<spc, type, handled>>
  <2>1. PICK h \in 0 .. Len(written) : Passed(h) /\ AtMessage(h)
    BY <1>1, <1>3 DEF InInSync, RecvGets
  <2>2. PICK b : b = Len(body)
    OBVIOUS
  <2>3. /\ type = "PRESENT_LAYERS_ACK" /\ b + left = AnswerLengths[h + 1]
    BY <1>1, <2>1, <2>2 DEF AtMessage
  <2>4. b \in Nat \ {0} /\ type = written[h + 1].type
    BY <1>1, <2>1, <2>2, AtHeader
  <2>5. b < AnswerLengths[h + 1]
    BY <1>1, <2>3, <2>4
  <2>6. /\ h + 1 \in 1 .. Len(written) /\ With(1) = Pieces(h + 1, 1, b + 1)
        /\ b + 1 <= AnswerLengths[h + 1]
        /\ Runs(AnswerLengths, inbox',
                Following(AnswerLengths, [of |-> h + 1, at |-> b + 1]), Writing)
    BY <1>3, <2>1, <2>2, <2>5, GetsOne
  <2>7. PICK n : n = b + 1
    OBVIOUS
  <2>8. n \in Nat \ {0}
    BY <2>4, <2>7
  <2>9. CASE left = 1
    <3>1. Handles(Pieces(h + 1, 1, n)) /\ Done /\ n = AnswerLengths[h + 1]
      BY <1>3, <2>3, <2>6, <2>7, <2>9
    <3>2. Known(written[h + 1])
      BY <2>3, <2>4 DEF Known
    <3>3. QED
      BY <1>1, <2>1, <2>6, <2>7, <3>1, <3>2, Finishes
  <2>10. CASE left # 1
    <3>1. /\ body' = Pieces(h + 1, 1, n) /\ spc' = "layers" /\ UNCHANGED <<type, handled>>
      BY <1>1, <1>3, <2>6, <2>7, <2>10
    <3>2. n + left' = AnswerLengths[h + 1]
      <4>1. left' = left - 1
        BY <1>3, <2>10
      <4>2. QED
        BY <1>1, <2>3, <2>4, <2>7, <4>1
    <3>3. /\ type' = "PRESENT_LAYERS_ACK" /\ type' = written[h + 1].type
          /\ n <= AnswerLengths[h + 1]
      BY <2>3, <2>4, <2>6, <2>7, <3>1
    <3>4. QED
      BY <1>1, <2>1, <2>6, <2>7, <2>8, <3>1, <3>2, <3>3, GoesOn
  <2>11. QED
    BY <2>9, <2>10
<1>4. QED
  BY <1>2, <1>3 DEF RecvLayer

(* A count that came and asks for more memory than there is was written.   *)
LEMMA MemoryInSync ==
  ASSUME Types, InInSync, ManyKept, OutOfMemory, "recv" \notin slips'
  PROVE  InInSync'
<1>1. /\ spc = "message" /\ type = "PRESENT_LAYERS_ACK" /\ RecvGets(2)
      /\ CountCame(With(2)) => written[body[1].of].n > Memory
      /\ spc' = "aborted" /\ UNCHANGED <<written, handled, faults>>
  BY DEF OutOfMemory, Stay, peer
<1>2. PICK h \in 0 .. Len(written) : Passed(h) /\ AtMessage(h)
  BY <1>1 DEF InInSync, RecvGets
<1>3. /\ h + 1 \in 1 .. Len(written) /\ type = written[h + 1].type /\ Len(body) = 1
      /\ body[1].of = h + 1 /\ AnswerLengths[h + 1] = AnswerLength(written[h + 1])
  <2>1. /\ h + 1 \in 1 .. Len(written) /\ type = written[h + 1].type /\ Len(body) = 1
        /\ body[1] = [of |-> h + 1, at |-> 1]
        /\ AnswerLengths[h + 1] = AnswerLength(written[h + 1])
    BY <1>1, <1>2, AtHeader
  <2>2. QED
    BY <2>1
<1>4. PICK count : count = written[h + 1].n
  OBVIOUS
<1>5. count \in Nat
  BY <1>3, <1>4, AnswerLengthsAre, LengthsOfAnswers
<1>6. AnswerLengths[h + 1] = 3 + count
  BY <1>1, <1>3, <1>4 DEF AnswerLength
<1>7. AnswerLengths[h + 1] > 2 /\ 3 \in Nat \ {0}
  BY <1>5, <1>6
<1>8. With(2) = Pieces(h + 1, 1, 3)
  BY <1>1, <1>2, <1>3, <1>7, GetsTwo
<1>9. /\ Proper(Pieces(h + 1, 1, 3)) /\ Pieces(h + 1, 1, 3)[1].of = h + 1
      /\ Len(Pieces(h + 1, 1, 3)) = 3
  BY <1>3, <1>7, WholeMessage
<1>10. CountCame(With(2))
  BY <1>3, <1>8, <1>9 DEF CountCame
<1>11. TooMany(written[h + 1])
  BY <1>1, <1>3, <1>10 DEF TooMany
<1>12. "too many" \in faults
  BY <1>3, <1>11, AnswerLengthsAre DEF ManyKept
<1>13. Passed(h)'
  BY <1>1, <1>2 DEF Passed, ActedOn
<1>14. QED
  BY <1>1, <1>12, <1>13 DEF InInSync

(* A message it has no case for is read to its end when what was read is   *)
(* that message.                                                           *)
LEMMA UnknownInSync ==
  ASSUME Types, InInSync, OnUnknown, "recv" \notin slips'
  PROVE  InInSync'
<1>1. /\ UNCHANGED <<written, rest, handled>> /\ spc = "message" /\ Done
      /\ ~Known([type |-> type])
  BY DEF OnUnknown, Stay, peer
<1>2. CASE RecvFails
  BY <1>1, <1>2, Breaks DEF RecvFails, Done
<1>3. CASE /\ inbox # <<>> /\ ~mDisconnected
           /\ slips' = slips \union {s \in {"recv"} : Message(With(UnknownRoom)) = 0}
           /\ inbox' = SubSeq(inbox, Smaller(UnknownRoom, Len(inbox)) + 1, Len(inbox))
  <2>1. PICK h \in 0 .. Len(written) : Passed(h) /\ AtMessage(h)
    BY <1>1, <1>3 DEF InInSync
  <2>2. /\ h + 1 \in 1 .. Len(written) /\ type = written[h + 1].type /\ Len(body) = 1
        /\ body[1] = [of |-> h + 1, at |-> 1] /\ body # <<>>
        /\ AnswerLengths[h + 1] = AnswerLength(written[h + 1])
        /\ AnswerLengths[h + 1] \in Nat \ {0}
    BY <1>1, <2>1, AtHeader
  <2>3. ~Known(written[h + 1])
    BY <1>1, <2>2 DEF Known
  <2>4. inbox \in Seq(Place) /\ body \in Seq(Place)
    BY PieceFacts DEF Types
  <2>5. PICK k, came : k = Smaller(UnknownRoom, Len(inbox)) /\ came = SubSeq(inbox, 1, k)
    OBVIOUS
  <2>6. /\ k \in 1 .. Len(inbox) /\ Len(inbox) \in Nat
        /\ came \in Seq(Place) /\ Len(came) = k /\ \A i \in 1 .. k : came[i] = inbox[i]
    BY <1>3, <2>4, <2>5, SomeTaken
  <2>7. PICK pieces : pieces = body \o came
    OBVIOUS
  <2>8. Message(pieces) # 0
    BY <1>3, <2>5, <2>7 DEF With
  <2>9. pieces[1] = body[1] /\ Len(pieces) = 1 + k /\ pieces[1 + k] = inbox[k]
    <3>1. /\ Len(pieces) = Len(body) + Len(came)
          /\ \A i \in 1 .. Len(body) + Len(came) :
               pieces[i] = IF i <= Len(body) THEN body[i] ELSE came[i - Len(body)]
      BY <2>4, <2>6, <2>7, ConcatProperties
    <3>2. /\ 1 \in 1 .. 1 + k /\ 1 + k \in 1 .. 1 + k /\ ~(1 + k <= 1) /\ 1 + k - 1 = k
          /\ k \in 1 .. k
      BY <2>6
    <3>3. QED
      BY <2>2, <2>6, <3>1, <3>2
  <2>10. PICK L : L = AnswerLengths[h + 1]
    OBVIOUS
  <2>11. pieces = Pieces(h + 1, 1, L) /\ Len(pieces) = L
    <3>1. Proper(pieces) /\ Len(pieces) = AnswerLength(written[pieces[1].of])
      BY <2>8 DEF Message
    <3>2. pieces[1].of = h + 1
      BY <2>2, <2>9
    <3>3. QED
      BY <2>2, <2>10, <3>1, <3>2 DEF Proper
  <2>12. inbox[k] = [of |-> h + 1, at |-> L]
    <3>1. L \in 1 .. L /\ 1 + L - 1 = L
      BY <2>2, <2>10
    <3>2. Pieces(h + 1, 1, L)[L] = [of |-> h + 1, at |-> 1 + L - 1]
      BY <3>1 DEF Pieces
    <3>3. QED
      BY <2>9, <2>11, <3>1, <3>2
  <2>13. Runs(AnswerLengths, inbox', Following(AnswerLengths, [of |-> h + 1, at |-> L]), Writing)
    <3>1. Runs(AnswerLengths, inbox, Reached(h), Writing)
      BY <2>1 DEF AtMessage
    <3>2. Runs(AnswerLengths, SubSeq(inbox, k + 1, Len(inbox)),
               Following(AnswerLengths, inbox[k]), Writing)
      BY <2>4, <2>6, <3>1, RunsFrom
    <3>3. QED
      BY <1>3, <2>5, <2>12, <3>2
  <2>14. QED
    BY <1>1, <2>1, <2>2, <2>3, <2>10, <2>13, Finishes
<1>4. QED
  BY <1>2, <1>3 DEF OnUnknown
LEMMA InStep ==
  ASSUME Types, AtStart, SendingLast, InInv, Next
  PROVE  RestIsLast' /\ ("recv" \in slips' \/ InInSync')
<1>1. /\ RestIsLast /\ HeaderKept /\ ManyKept /\ ("recv" \in slips \/ InInSync)
      /\ slips \subseteq slips' /\ faults \subseteq faults'
      /\ mDisconnected' = mDisconnected \/ mDisconnected' = TRUE
  BY ForGood DEF InInv
<1>2. CASE Peer
  BY <1>1, <1>2, PeerInSync
<1>3. CASE Composer
  <2>1. UNCHANGED <<written, rest, inbox, body, type, left, handled, spc>>
    BY <1>3 DEF Composer, Send, MakeRequest, peer, socket
  <2>2. QED
    BY <1>1, <2>1, InKept
<1>4. CASE GetConfigs
  <2>1. /\ UNCHANGED <<written, rest, inbox, body, type, left, handled>>
        /\ spc = "start" /\ spc' = "wait"
    BY <1>4 DEF GetConfigs, peer
  <2>2. QED
    BY <1>1, <2>1, InKept
<1>5. CASE Socket /\ ~GetConfigs
  <2>1. UNCHANGED <<written, rest>>
    BY <1>5 DEF Socket, OnDisplayEvent, OnDisplayInfoAck, OnDisplayBufferAck,
                OnPresentLayersAck, RecvLayer, OutOfMemory, OnUnknown, Stay, peer
  <2>2. RestIsLast'
    BY <1>1, <2>1 DEF RestIsLast, AnswerLengths
  <2>3. CASE "recv" \notin slips'
    <3>1. InInSync
      BY <1>1, <2>3
    <3>2. InInSync'
      BY <1>1, <1>5, <2>3, <3>1, EventInSync, InfoAckInSync, BufferAckInSync, LayersAckInSync,
         LayerInSync, MemoryInSync, UnknownInSync DEF Socket
    <3>3. QED
      BY <2>2, <3>2
  <2>4. QED
    BY <2>2, <2>3
<1>6. QED
  BY <1>2, <1>3, <1>4, <1>5 DEF Next

(* What the remote writes counts against it.                               *)
LEMMA ManyStep ==
  ASSUME Types, ManyKept, Next
  PROVE  ManyKept'
<1>1. faults \subseteq faults'
  BY ForGood
<1>2. CASE UNCHANGED written
  BY <1>1, <1>2 DEF ManyKept
<1>3. ASSUME NEW a \in Answers, PeerAnswers(a) PROVE ManyKept'
  <2>1. PICK m : m = Len(written) + 1
    OBVIOUS
  <2>2. /\ written' = Append(written, a) /\ Writes(m, 1, AnswerLength(a))
        /\ written \in Seq(Answers)
    BY <1>3, <2>1 DEF PeerAnswers, Types
  <2>3. /\ Len(written) \in Nat /\ DOMAIN written = 1 .. Len(written)
        /\ DOMAIN written' = 1 .. m /\ written'[m] = a
        /\ \A i \in 1 .. Len(written) : written'[i] = written[i]
    BY <2>1, <2>2, MoreMessages
  <2>4. TooMany(written'[m]) => "too many" \in faults'
    BY <2>2 DEF Writes
  <2>5. \A i \in 1 .. m : i = m \/ i \in 1 .. Len(written)
    BY <2>1, <2>3
  <2>6. QED
    BY <1>1, <2>3, <2>4, <2>5 DEF ManyKept
<1>4. CASE PeerReads \/ PeerGoesOn \/ PeerCloses \/ Composer \/ Socket
  <2>1. UNCHANGED written
    BY <1>4 DEF PeerReads, PeerGoesOn, PeerCloses, Composer, MakeRequest, Send, Socket,
                GetConfigs, OnDisplayEvent, OnDisplayInfoAck, OnDisplayBufferAck,
                OnPresentLayersAck, RecvLayer, OutOfMemory, OnUnknown, Stay, peer
  <2>2. QED
    BY <1>2, <2>1
<1>5. QED
  BY <1>3, <1>4 DEF Next, Peer
-----------------------------------------------------------------------------
(* What is missing of a message written in one go is in the stream.        *)
LEMMA MessageComes ==
  ASSUME Types, InInSync, HeaderKept, ~mDisconnected, rest = <<>>,
         \A i \in DOMAIN written : Known(written[i]), spc = "message" \/ spc = "layers"
  PROVE  /\ inbox # <<>> /\ Known([type |-> type])
         /\ spc = "message" /\ type # "DISPLAY_ACK" => Len(inbox) > 1
<1>1. PICK h \in 0 .. Len(written) : Passed(h) /\ AtMessage(h)
  BY DEF InInSync
<1>2. PICK b, L, m : b = Len(body) /\ L = AnswerLengths[h + 1] /\ m = h + 1
  OBVIOUS
<1>3. /\ m \in 1 .. Len(written) /\ body # <<>> /\ type = written[m].type
      /\ b \in Nat \ {0} /\ L = AnswerLength(written[m]) /\ L \in Nat \ {0}
      /\ spc = "message" => b = 1
  BY <1>1, <1>2, AtHeader
<1>4. Known(written[m]) /\ Known([type |-> type])
  <2>1. Known(written[m])
    BY <1>3, AnswerLengthsAre
  <2>2. QED
    BY <1>3, <2>1 DEF Known
<1>5. b < L /\ (spc = "message" /\ type # "DISPLAY_ACK" => b + 1 < L)
  <2>1. CASE spc = "layers"
    <3>1. left \in Nat \ {0} /\ b + left = L
      BY <1>1, <1>2, <2>1 DEF Types, HeaderKept, AtMessage
    <3>2. QED
      BY <1>3, <2>1, <3>1
  <2>2. CASE spc = "message"
    <3>1. b = 1
      BY <1>3, <2>2
    <3>2. PICK n : n = written[m].n
      OBVIOUS
    <3>3. n \in Nat
      BY <1>3, <3>2, AnswerLengthsAre, LengthsOfAnswers
    <3>4. CASE type = "DISPLAY_ACK"
      BY <1>3, <3>1, <3>4 DEF AnswerLength
    <3>5. CASE type = "DISPINFO_ACK"
      BY <1>3, <3>1, <3>5 DEF AnswerLength
    <3>6. CASE type = "PRESENT_LAYERS_ACK"
      <4>1. L = 3 + n
        BY <1>3, <3>2, <3>6 DEF AnswerLength
      <4>2. QED
        BY <3>1, <3>3, <4>1
    <3>7. QED
      BY <1>4, <3>4, <3>5, <3>6 DEF Known
  <2>3. QED
    BY <2>1, <2>2
<1>6. Reached(h) = [of |-> m, at |-> b + 1]
  BY <1>2, <1>3, <1>5 DEF Reached, Following
<1>7. Runs(AnswerLengths, inbox, [of |-> m, at |-> b + 1], Writing) /\ Writing.at = 1
  <2>1. Runs(AnswerLengths, inbox, Reached(h), Writing)
    BY <1>1 DEF AtMessage
  <2>2. QED
    BY <1>6, <2>1 DEF Writing
<1>8. b + 1 # 1 /\ b + 1 \in Nat
  BY <1>3
<1>9. inbox # <<>>
  BY <1>7, <1>8 DEF Runs
<1>10. inbox \in Seq(Place)
  BY PieceFacts DEF Types
<1>11. ASSUME b + 1 < L, Len(inbox) = 1 PROVE FALSE
  <2>1. /\ inbox[1] = [of |-> m, at |-> b + 1]
        /\ Following(AnswerLengths, inbox[1]) = Writing
    BY <1>7, <1>9, <1>11 DEF Runs
  <2>2. Following(AnswerLengths, inbox[1]) = [of |-> m, at |-> b + 1 + 1]
    BY <1>2, <1>11, <2>1 DEF Following
  <2>3. b + 1 + 1 = 1
    BY <1>7, <2>1, <2>2
  <2>4. QED
    BY <1>3, <2>3
<1>12. Len(inbox) \in Nat \ {0}
  BY <1>9, <1>10, EmptySeq, LenProperties
<1>13. QED
  <2>1. ASSUME b + 1 < L PROVE Len(inbox) > 1
    <3>1. Len(inbox) # 1
      BY <1>11, <2>1
    <3>2. PICK k : k = Len(inbox)
      OBVIOUS
    <3>3. k > 1
      BY <1>12, <3>1, <3>2
    <3>4. QED
      BY <3>2, <3>3
  <2>2. QED
    BY <1>4, <1>5, <1>9, <2>1
LEMMA WellBehavedStep ==
  ASSUME Types, InInv, WellBehaved, Next
  PROVE  WellBehaved'
<1>1. SUFFICES ASSUME faults' = {}
               PROVE  /\ ~mDisconnected' /\ "recv" \notin slips' /\ rest' = <<>> /\ ~closed'
                      /\ \A i \in DOMAIN written' : Known(written'[i])
  BY DEF WellBehaved
<1> DEFINE Goal == /\ ~mDisconnected' /\ "recv" \notin slips' /\ rest' = <<>> /\ ~closed'
                   /\ \A i \in DOMAIN written' : Known(written'[i])
<1>2. /\ ~mDisconnected /\ "recv" \notin slips /\ rest = <<>> /\ ~closed
      /\ \A i \in DOMAIN written : Known(written[i])
  BY <1>1, ForGood DEF WellBehaved
<1>3. InInSync /\ HeaderKept
  BY <1>2 DEF InInv
<1>4. CASE UNCHANGED <<written, rest, closed>> /\ ~mDisconnected' /\ "recv" \notin slips'
  BY <1>2, <1>4
<1>5. CASE PeerReads \/ PeerCloses \/ PeerGoesOn
  BY <1>1, <1>2, <1>4, <1>5 DEF PeerReads, PeerCloses, PeerGoesOn
<1>6. ASSUME NEW a \in Answers, PeerAnswers(a) PROVE Goal
  <2>1. PICK m, n : m = Len(written) + 1 /\ n = AnswerLength(a)
    OBVIOUS
  <2>2. /\ written' = Append(written, a) /\ Writes(m, 1, n) /\ written \in Seq(Answers)
    BY <1>6, <2>1 DEF PeerAnswers, Types
  <2>3. /\ Len(written) \in Nat /\ DOMAIN written = 1 .. Len(written)
        /\ DOMAIN written' = 1 .. m /\ written'[m] = a
        /\ \A i \in 1 .. Len(written) : written'[i] = written[i]
    BY <2>1, <2>2, MoreMessages
  <2>4. n \in Nat \ {0} /\ m \in Nat
    BY <2>1, <2>3, LengthsOfAnswers
  <2>5. PICK k \in 1 .. n : /\ rest' = Pieces(m, 1 + k, n - k)
                            /\ faults' = faults \union {f \in {"in parts"} : k < n}
                                  \union {f \in {"unhandled"} : ~Known(written'[m])}
                                  \union {f \in {"too many"} : TooMany(written'[m])}
    BY <2>2 DEF Writes
  <2>6. Known(a) /\ ~(k < n)
    BY <1>1, <2>3, <2>5
  <2>7. rest' = <<>>
    <3>1. PICK start, count : start = 1 + k /\ count = n - k
      OBVIOUS
    <3>2. start \in Nat /\ count = 0 /\ count \in Nat
      BY <2>4, <2>6, <3>1
    <3>3. Len(Pieces(m, start, count)) = count /\ Pieces(m, start, count) \in Seq(Place)
      BY <2>4, <3>2, PiecesAre
    <3>4. Pieces(m, start, count) = <<>>
      BY <3>2, <3>3, EmptySeq
    <3>5. QED
      BY <2>5, <3>1, <3>4
  <2>8. ASSUME NEW i \in DOMAIN written' PROVE Known(written'[i])
    <3>1. i = m \/ i \in 1 .. Len(written)
      BY <2>1, <2>3
    <3>2. QED
      BY <1>2, <2>3, <2>6, <3>1
  <2>9. ~mDisconnected' /\ "recv" \notin slips' /\ ~closed'
    BY <1>2, <2>2 DEF Writes
  <2>10. QED
    BY <2>7, <2>8, <2>9
<1>7. ASSUME SendFails PROVE FALSE
  BY <1>1, <1>2, <1>7 DEF SendFails
<1>8. ASSUME NEW m, NEW from, NEW n, SendsPieces(m, from, n)
      PROVE  ~mDisconnected' /\ "recv" \notin slips'
  BY <1>2, <1>8 DEF SendsPieces
<1>9. CASE Composer
  <2>1. UNCHANGED <<written, rest, closed>>
    BY <1>9 DEF Composer, MakeRequest, Send, peer
  <2>2. ~mDisconnected' /\ "recv" \notin slips'
    BY <1>2, <1>7, <1>8, <1>9 DEF Composer, MakeRequest, Send
  <2>3. QED
    BY <1>4, <2>1, <2>2
<1>10. CASE GetConfigs
  <2>1. UNCHANGED <<written, rest, closed>>
    BY <1>10 DEF GetConfigs, peer
  <2>2. ~mDisconnected' /\ "recv" \notin slips'
    BY <1>7, <1>8, <1>10 DEF GetConfigs
  <2>3. QED
    BY <1>4, <2>1, <2>2
<1>11. ASSUME RecvGets(1) PROVE ~mDisconnected' /\ "recv" \notin slips'
  BY <1>2, <1>11, Received
<1>12. ASSUME RecvGets(2), Len(inbox) > 1 PROVE ~mDisconnected' /\ "recv" \notin slips'
  <2>1. PICK k : k = Len(inbox)
    OBVIOUS
  <2>2. k \in Nat /\ k > 1
    BY <1>12, <2>1, LenProperties DEF Types
  <2>3. Smaller(2, k) = 2 /\ ~(2 < 2)
    BY <2>2 DEF Smaller
  <2>4. slips' = slips
    BY <1>12, <2>1, <2>3 DEF RecvGets
  <2>5. QED
    BY <1>2, <1>12, <2>4 DEF RecvGets
<1>13. ASSUME RecvFails PROVE inbox = <<>>
  BY <1>2, <1>13 DEF RecvFails
<1>14. CASE OnDisplayEvent
  <2>1. RecvGets(1) /\ UNCHANGED <<written, rest, closed>>
    BY <1>2, <1>13, <1>14 DEF OnDisplayEvent, Readable, Stay, peer
  <2>2. QED
    BY <1>4, <1>11, <2>1
<1>15. CASE Socket /\ ~GetConfigs /\ ~OnDisplayEvent
  <2>1. UNCHANGED <<written, rest, closed>> /\ (spc = "message" \/ spc = "layers")
    BY <1>15 DEF Socket, OnDisplayInfoAck, OnDisplayBufferAck, OnPresentLayersAck, RecvLayer,
                 OutOfMemory, OnUnknown, Stay, peer
  <2>2. /\ inbox # <<>> /\ Known([type |-> type])
        /\ spc = "message" /\ type # "DISPLAY_ACK" => Len(inbox) > 1
    BY <1>2, <1>3, <2>1, MessageComes
  <2>3. CASE OnDisplayBufferAck \/ RecvLayer
    <3>1. RecvGets(1)
      BY <1>13, <2>2, <2>3 DEF OnDisplayBufferAck, RecvLayer
    <3>2. QED
      BY <1>4, <1>11, <2>1, <3>1
  <2>4. CASE OnDisplayInfoAck \/ OnPresentLayersAck \/ OutOfMemory
    <3>1. RecvGets(2)
      BY <1>13, <2>2, <2>4 DEF OnDisplayInfoAck, OnPresentLayersAck, OutOfMemory
    <3>2. Len(inbox) > 1
      BY <2>2, <2>4 DEF OnDisplayInfoAck, OnPresentLayersAck, OutOfMemory
    <3>3. QED
      BY <1>4, <1>12, <2>1, <3>1, <3>2
  <2>5. CASE OnUnknown
    BY <2>2, <2>5 DEF OnUnknown
  <2>6. QED
    BY <1>15, <2>3, <2>4, <2>5 DEF Socket
<1>16. QED
  BY <1>5, <1>6, <1>9, <1>10, <1>14, <1>15 DEF Next, Peer
-----------------------------------------------------------------------------
(* The inductive invariant.                                                *)
StreamInv == Types /\ OutInv /\ InInv /\ WellBehaved

LEMMA StreamInit == Init => StreamInv
<1> SUFFICES ASSUME Init PROVE StreamInv
  OBVIOUS
<1>1. /\ mDisconnected = FALSE /\ sent = <<>> /\ sending = <<>> /\ piece = 1
      /\ outbox = <<>> /\ inbox = <<>> /\ reading = <<>> /\ got = <<>> /\ written = <<>>
      /\ rest = <<>> /\ closed = FALSE /\ spc = "start" /\ body = <<>> /\ type = "none"
      /\ left = 0 /\ handled = <<>> /\ connected = FALSE /\ faults = {} /\ slips = {}
  BY DEF Init
<1>2. /\ \A S : <<>> \in Seq(S)
      /\ Len(<<>>) = 0 /\ DOMAIN <<>> = {} /\ 1 \in Nat \ {0} /\ 0 \in Nat /\ 0 + 1 = 1
  OBVIOUS
<1>3. Types
  <2>1. Len(outbox) <= Room
    BY <1>1, <1>2, StreamAssumption DEF StreamAssumption
  <2>2. QED
    BY <1>1, <1>2, <2>1 DEF Types
<1>4. Pieces(1, 1, 0) = <<>>
  BY OnePieceMore
<1>5. OutInv
  <2>1. AtStart /\ SendingLast
    BY <1>1 DEF AtStart, SendingLast
  <2>2. Partly(RequestLengths, reading, Len(got) + 1)
    BY <1>1, <1>2, <1>4 DEF Partly
  <2>3. PICK q : q = [of |-> 1, at |-> 1]
    OBVIOUS
  <2>4. q \in [of : Nat, at : Nat] /\ SendingRuns(q)
    BY <1>1, <1>2, <2>3 DEF SendingRuns
  <2>5. Runs(RequestLengths, outbox, [of |-> Len(got) + 1, at |-> Len(reading) + 1], q)
    BY <1>1, <1>2, <2>3 DEF Runs
  <2>6. Len(got) <= Len(sent) /\ \A i \in 1 .. Len(got) : got[i] = sent[i]
    BY <1>1, <1>2
  <2>7. OutInSync
    BY <2>2, <2>4, <2>5, <2>6 DEF OutInSync
  <2>8. QED
    BY <2>1, <2>7 DEF OutInv
<1>6. InInv
  <2>1. RestIsLast /\ HeaderKept
    BY <1>1 DEF RestIsLast, HeaderKept
  <2>2. Passed(0)
    BY <1>1, <1>2 DEF Passed
  <2>3. AtMessage(0)
    BY <1>1, <1>2, <1>4 DEF AtMessage, Runs, Reached, Writing
  <2>4. 0 \in 0 .. Len(written) /\ spc # "aborted" /\ ManyKept
    BY <1>1, <1>2 DEF ManyKept
  <2>5. QED
    BY <2>1, <2>2, <2>3, <2>4 DEF InInv, InInSync
<1>7. WellBehaved
  BY <1>1, <1>2 DEF WellBehaved
<1>8. QED
  BY <1>3, <1>5, <1>6, <1>7 DEF StreamInv

LEMMA StreamInductive == StreamInv /\ [Next]_vars => StreamInv'
<1>1. ASSUME StreamInv, Next PROVE StreamInv'
  <2>1. /\ Types /\ HeaderKept /\ AtStart /\ SendingLast /\ InInv /\ WellBehaved
        /\ RestIsLast /\ ManyKept /\ ("send" \in slips \/ OutInSync) /\ ("recv" \in slips \/ InInSync)
    BY <1>1 DEF StreamInv, OutInv, InInv
  <2>2. Types' /\ HeaderKept' /\ AtStart' /\ SendingLast'
    <3>1. CASE Peer
      BY <2>1, <3>1, PeerTypes, PeerInSync
    <3>2. CASE Composer
      BY <2>1, <3>2, ComposerTypes
    <3>3. CASE Socket
      BY <2>1, <3>3, SocketTypes
    <3>4. QED
      BY <1>1, <3>1, <3>2, <3>3 DEF Next
  <2>3. "send" \in slips' \/ OutInSync'
    BY <1>1, <2>1, OutStep
  <2>4. RestIsLast' /\ ("recv" \in slips' \/ InInSync')
    BY <1>1, <2>1, InStep
  <2>5. WellBehaved'
    BY <1>1, <2>1, WellBehavedStep
  <2>6. ManyKept'
    BY <1>1, <2>1, ManyStep
  <2>7. QED
    BY <2>2, <2>3, <2>4, <2>5, <2>6 DEF StreamInv, OutInv, InInv
<1>2. ASSUME StreamInv, UNCHANGED vars PROVE StreamInv'
  <2>1. UNCHANGED <<mDisconnected, sent, sending, piece, outbox, inbox, reading, got, written,
                    rest, closed, spc, body, type, left, handled, connected, faults, slips>>
    BY <1>2 DEF vars, composer, peer, socket
  <2>2. Types' /\ WellBehaved' /\ HeaderKept' /\ ManyKept' /\ AtStart' /\ SendingLast'
    BY <1>2, <2>1 DEF StreamInv, OutInv, InInv, Types, Piece, WellBehaved, HeaderKept, ManyKept,
                      AtStart, SendingLast
  <2>3. "send" \in slips' \/ OutInSync'
    BY <1>2, <2>1, OutKept DEF StreamInv, OutInv
  <2>4. RestIsLast' /\ ("recv" \in slips' \/ InInSync')
    BY <1>2, <2>1, InKept DEF StreamInv, InInv
  <2>5. QED
    BY <2>2, <2>3, <2>4 DEF StreamInv, OutInv, InInv
<1>3. QED
  BY <1>1, <1>2

LEMMA StreamInvariant == Spec => []StreamInv
<1>1. QED
  BY StreamInit, StreamInductive, PTL DEF Spec

-----------------------------------------------------------------------------
(* The variables have their types, and the process dies only when a number *)
(* of layers did not come or a remote sent one there is no memory for.     *)
THEOREM StreamTyped == Spec => []TypeOK
<1>1. StreamInv => TypeOK
  BY DEF StreamInv, InInv, InInSync, TypeOK
<1>2. QED
  BY <1>1, StreamInvariant, PTL

(* The socket thread acts on the messages it knows, in the order they were *)
(* written, on each once and leaving out none, as long as every recv got   *)
(* what it was for.                                                        *)
THEOREM AnswersAreActedOn == Spec => []AnswersMatch
<1>1. ASSUME Types, NEW h \in 0 .. Len(written), Passed(h), "recv" \notin slips
      PROVE  AnswersMatch
  <2>1. DOMAIN written = 1 .. Len(written) /\ Len(written) \in Nat /\ h \in Nat
    BY <1>1, AnswerLengthsAre
  <2>2. 1 .. h \subseteq DOMAIN written
    BY <2>1
  <2>3. ASSUME NEW k \in DOMAIN handled, NEW i \in DOMAIN written, i < handled[k],
               Known(written[i])
        PROVE  ActedOn(i)
    <3>1. handled[k] \in 1 .. h
      BY <1>1, <2>3 DEF Passed
    <3>2. i \in 1 .. h
      BY <2>1, <2>3, <3>1
    <3>3. QED
      BY <1>1, <2>3, <3>2 DEF Passed
  <2>4. QED
    BY <1>1, <2>2, <2>3 DEF Passed, AnswersMatch
<1>2. StreamInv => AnswersMatch
  BY <1>1 DEF StreamInv, InInv, InInSync, AnswersMatch
<1>3. QED
  BY <1>2, StreamInvariant, PTL

(* A remote that keeps up with the requests, writes only messages          *)
(* onDisplayEvent has a case for, each in one go, and does not hang up is  *)
(* never taken for disconnected.                                           *)
THEOREM WellBehavedStays == Spec => []WellBehavedKept
<1>1. StreamInv => WellBehavedKept
  BY DEF StreamInv, WellBehaved, WellBehavedKept
<1>2. QED
  BY <1>1, StreamInvariant, PTL

(* The remote gets the requests whole and in the order they were made, as  *)
(* RequestChannel says, until a send that had room for a part counts as    *)
(* success.                                                                *)
THEOREM RequestsArrive == Spec => RequestsDelivered
<1>1. Init => Channel!Init
  BY DEF Init, Channel!Init
<1>2. StreamInv /\ [Next]_vars => [Channel!Next \/ "send" \in slips']_Channel!vars
  <2>1. ASSUME StreamInv, Next
        PROVE  Channel!Next \/ "send" \in slips' \/ UNCHANGED Channel!vars
    BY <2>1, OutStep DEF StreamInv, OutInv
  <2>2. ASSUME UNCHANGED vars PROVE UNCHANGED Channel!vars
    BY <2>2 DEF vars, composer, peer, Channel!vars
  <2>3. QED
    BY <2>1, <2>2
<1>3. QED
  BY <1>1, <1>2, StreamInvariant, PTL DEF Spec, RequestsDelivered
=============================================================================

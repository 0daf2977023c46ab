------------------------- MODULE UioDisplay_proofs -------------------------
(***************************************************************************)
(* Proofs about UioDisplay, for every set of rotations and any number of   *)
(* posts, starts, failed locks and crashes.                                *)
(***************************************************************************)
EXTENDS UioDisplay, TLAPS

Filling == {"init", "idle", "store", "lock", "copy", "position"}
Announced == {"flag", "rotate"}

(* While postFb fills frame_id the descriptor points elsewhere; from the   *)
(* store of dataPos to the toggle it points at frame_id.  An odd number of *)
(* failed posts exchanges the two.                                         *)
SlotInv ==
  /\ pc \in Filling => IF missed THEN dataPos \in {frame_id, NoPos}
                                 ELSE dataPos # frame_id
  /\ pc \in Announced => dataPos = frame_id /\ ~missed
  /\ pc = "finish" => IF missed THEN dataPos # frame_id
                               ELSE dataPos \in {frame_id, NoPos}

(* The advertised slot is half-written only by the frame that makes up for *)
(* a failed one, and by a crash in the middle of its copy.                 *)
WholeInv ==
  /\ dataPos \in Slots /\ ~whole[dataPos] => missed /\ pc \in {"copy", "down"}
  /\ pc = "position" => whole[frame_id]

(* The rotation follows the pixels from the end of the copy on.            *)
RotationInv ==
  /\ update => dataPos \in Slots
  /\ pc \in {"idle", "store", "lock", "copy", "finish"} /\ update =>
       rotate = rotOf[dataPos]
  /\ pc = "init" => ~update
  /\ pc \in {"position", "flag", "rotate"} => rotOf[frame_id] = mRot

DoubleBufferInv == TypeOK /\ SlotInv /\ WholeInv /\ RotationInv

-----------------------------------------------------------------------------
(* NextSlot alternates between the two slots.                              *)
LEMMA NextSlotOther ==
  ASSUME NEW s \in Slots PROVE NextSlot(s) \in Slots /\ NextSlot(s) # s
  BY DEF NextSlot, Slots

(* Type correctness, for every value of the constants.                     *)
THEOREM TypeCorrect == Safety => []TypeOK
<1>1. Init => TypeOK
  <2> SUFFICES ASSUME Init PROVE TypeOK
    OBVIOUS
  <2> USE UioAssumption DEF UioAssumption, Init
  <2>1. /\ hflags \subseteq Signals /\ reg \subseteq Signals /\ preg \subseteq Signals
        /\ update \in BOOLEAN /\ dataPos \in Slots \union {NoPos}
        /\ rotate \in Rotations /\ mRot \in Rotations
    OBVIOUS
  <2>2. /\ content \in [Slots -> Nat] /\ rotOf \in [Slots -> Rotations]
        /\ whole \in [Slots -> BOOLEAN]
    OBVIOUS
  <2>3. frame_id \in Slots /\ starts \in 0 .. MaxStarts /\ posted \in 0 .. MaxPosts
    BY DEF Slots
  <2>4. cslot \in Slots \union {NoPos} /\ cseq \in Nat /\ shown \in Nat
    OBVIOUS
  <2>5. QED
    BY <2>1, <2>2, <2>3, <2>4 DEF TypeOK
<1>2. TypeOK /\ [Next]_vars => TypeOK'
  <2> SUFFICES ASSUME TypeOK, [Next]_vars PROVE TypeOK'
    OBVIOUS
  <2> USE UioAssumption DEF UioAssumption, TypeOK, mapping, host, client
  <2>1. CASE StartHost
    <3>1. starts' \in 0 .. MaxStarts /\ frame_id' \in Slots
      BY <2>1 DEF StartHost, Slots
    <3>2. QED
      BY <2>1, <3>1 DEF StartHost
  <2>2. CASE StartPolling
    BY <2>2 DEF StartPolling, WithoutRestart
  <2>3. CASE Crash
    BY <2>3 DEF Crash
  <2>4. CASE \E r \in Rotations : SetRotation(r)
    BY <2>4 DEF SetRotation
  <2>5. CASE PostBegin
    BY <2>5 DEF PostBegin
  <2>6. CASE PostStep
    <3>1. CASE StoreFlags
      BY <3>1 DEF StoreFlags, WithoutReady
    <3>2. CASE LockFails
      BY <3>2 DEF LockFails
    <3>3. CASE BeginCopy
      BY <3>3 DEF BeginCopy
    <3>4. CASE EndCopy
      BY <3>4 DEF EndCopy
    <3>5. CASE Position
      BY <3>5 DEF Position
    <3>6. CASE Flag
      BY <3>6 DEF Flag
    <3>7. CASE Rotate
      BY <3>7 DEF Rotate
    <3>8. CASE Finish
      BY <3>8, NextSlotOther DEF Finish
    <3>9. QED
      BY <2>6, <3>1, <3>2, <3>3, <3>4, <3>5, <3>6, <3>7, <3>8 DEF PostStep
  <2>7. CASE PollStep
    BY <2>7 DEF PollStep, PollTest, PollLoad, PollStore, WithoutRestart
  <2>8. CASE \E f \in Signals : ClientSignal(f)
    BY <2>8 DEF ClientSignal
  <2>9. CASE ClientStep
    <3>1. CASE ClientClear
      BY <3>1 DEF ClientClear
    <3>2. CASE ClientRead
      BY <3>2 DEF ClientRead
    <3>3. CASE ClientDone
      BY <3>3 DEF ClientDone
    <3>4. QED
      BY <2>9, <3>1, <3>2, <3>3 DEF ClientStep
  <2>10. CASE UNCHANGED vars
    BY <2>10 DEF vars
  <2>11. QED
    BY <2>1, <2>2, <2>3, <2>4, <2>5, <2>6, <2>7, <2>8, <2>9, <2>10 DEF Next
<1>3. QED
  BY <1>1, <1>2, PTL DEF Safety

-----------------------------------------------------------------------------
(* The strengthening is inductive.                                         *)
LEMMA DoubleBufferInductive ==
  ASSUME DoubleBufferInv, TypeOK', [Next]_vars
  PROVE  DoubleBufferInv'
<1> USE DEF DoubleBufferInv, SlotInv, WholeInv, RotationInv, TypeOK, mapping,
            host, client, Filling, Announced
<1>1. CASE StartHost
  BY <1>1 DEF StartHost, Slots, NoPos
<1>2. CASE StartPolling
  BY <1>2 DEF StartPolling
<1>3. CASE Crash
  BY <1>3 DEF Crash
<1>4. CASE \E r \in Rotations : SetRotation(r)
  BY <1>4 DEF SetRotation
<1>5. CASE PostBegin
  BY <1>5 DEF PostBegin
<1>6. CASE PostStep
  <2>1. CASE StoreFlags
    BY <2>1 DEF StoreFlags
  <2>2. CASE LockFails
    BY <2>2 DEF LockFails
  <2>3. CASE BeginCopy
    BY <2>3 DEF BeginCopy
  <2>4. CASE EndCopy
    <3>1. /\ pc = "copy" /\ pc' = "position" /\ frame_id' = frame_id
          /\ dataPos' = dataPos /\ missed' = missed /\ update' = update
          /\ mRot' = mRot
          /\ whole' = [whole EXCEPT ![frame_id] = TRUE]
          /\ rotOf' = [rotOf EXCEPT ![frame_id] = mRot]
      BY <2>4 DEF EndCopy
    <3>2. SlotInv'
      BY <3>1
    <3>3. WholeInv'
      BY <3>1 DEF Slots, NoPos
    <3>4. RotationInv'
      BY <3>1
    <3>5. QED
      BY <3>2, <3>3, <3>4
  <2>5. CASE Position
    BY <2>5 DEF Position
  <2>6. CASE Flag
    BY <2>6 DEF Flag
  <2>7. CASE Rotate
    BY <2>7 DEF Rotate
  <2>8. CASE Finish
    <3>1. /\ pc = "finish" /\ pc' = "idle" /\ frame_id' = NextSlot(frame_id)
          /\ UNCHANGED <<dataPos, missed, update, rotate, rotOf, whole>>
      BY <2>8 DEF Finish
    <3>2. frame_id' \in Slots /\ frame_id' # frame_id
      BY <3>1, NextSlotOther
    <3>3. SlotInv'
      BY <3>1, <3>2 DEF Slots, NoPos
    <3>4. WholeInv' /\ RotationInv'
      BY <3>1
    <3>5. QED
      BY <3>3, <3>4
  <2>9. QED
    BY <1>6, <2>1, <2>2, <2>3, <2>4, <2>5, <2>6, <2>7, <2>8 DEF PostStep
<1>7. CASE PollStep
  BY <1>7 DEF PollStep, PollTest, PollLoad, PollStore
<1>8. CASE \E f \in Signals : ClientSignal(f)
  BY <1>8 DEF ClientSignal
<1>9. CASE ClientStep
  BY <1>9 DEF ClientStep, ClientClear, ClientRead, ClientDone
<1>10. CASE UNCHANGED vars
  BY <1>10 DEF vars
<1>11. QED
  BY <1>1, <1>2, <1>3, <1>4, <1>5, <1>6, <1>7, <1>8, <1>9, <1>10 DEF Next

LEMMA DoubleBufferInvariant == Safety => []DoubleBufferInv
<1>1. Init /\ TypeOK => DoubleBufferInv
  BY DEF Init, DoubleBufferInv, SlotInv, WholeInv, RotationInv, Filling,
         Announced, Slots, NoPos
<1>2. DoubleBufferInv /\ TypeOK' /\ [Next]_vars => DoubleBufferInv'
  BY DoubleBufferInductive
<1>3. QED
  BY <1>1, <1>2, TypeCorrect, PTL DEF Safety

(* postFb rewrites the slot the client has been given only after an odd    *)
(* number of failed posts, whatever the client does and wherever the       *)
(* process crashes.                                                        *)
THEOREM DoubleBuffer == Safety => []DoubleBuffered
<1>1. DoubleBufferInv => DoubleBuffered
  BY DEF DoubleBufferInv, SlotInv, Filling, DoubleBuffered
<1>2. QED
  BY <1>1, DoubleBufferInvariant, PTL

(* The advertised slot holds the pixels of one frame, on the same terms.   *)
THEOREM WholeFrames == Safety => []AdvertisedWhole
<1>1. DoubleBufferInv => AdvertisedWhole
  BY DEF DoubleBufferInv, WholeInv, AdvertisedWhole
<1>2. QED
  BY <1>1, DoubleBufferInvariant, PTL

(* Between two calls of postFb an announced frame carries the rotation its *)
(* pixels were copied under.                                               *)
THEOREM RotationFollowsPixels == Safety => []SettledRotation
<1>1. DoubleBufferInv => SettledRotation
  BY DEF DoubleBufferInv, RotationInv, SettledRotation
<1>2. QED
  BY <1>1, DoubleBufferInvariant, PTL
-----------------------------------------------------------------------------
(* The reader.  Slots hold posts in the order they were made.              *)
ContentInv ==
  /\ \A s \in Slots : content[s] <= posted
  /\ pc \in {"store", "lock", "copy"} => \A s \in Slots : content[s] < posted
  /\ pc = "position" => /\ content[frame_id] = posted
                        /\ \A s \in Slots \ {frame_id} : content[s] < posted

(* In the first run of the process a client that copies a slot has a newer *)
(* frame advertised to it as soon as another slot is; a tear finds that    *)
(* slot in use again, or comes from making up for a failed post, until the *)
(* frame that tears is complete.                                           *)
Newer == content[dataPos] > cseq

ReaderInv ==
  /\ starts = 0 => pc = "down" /\ cpc = "wait" /\ ~update
  /\ starts = 1 /\ cpc = "copy" =>
       /\ cslot \in Slots /\ dataPos \in Slots
       /\ cseq <= content[cslot]
       /\ cslot # dataPos => Newer
       /\ ctorn => Newer \/ (missed /\ pc \in {"copy", "down"})

LEMMA ContentInductive ==
  ASSUME TypeOK, ContentInv, [Next]_vars PROVE ContentInv'
<1> USE UioAssumption DEF UioAssumption, ContentInv, TypeOK, mapping, host, client
<1>1. CASE StartHost \/ StartPolling \/ Crash
  BY <1>1 DEF StartHost, StartPolling, Crash
<1>2. CASE PostBegin
  BY <1>2 DEF PostBegin
<1>3. CASE StoreFlags \/ LockFails \/ BeginCopy
  BY <1>3 DEF StoreFlags, LockFails, BeginCopy
<1>4. CASE EndCopy
  <2>1. /\ pc = "copy" /\ pc' = "position" /\ UNCHANGED <<frame_id, posted>>
        /\ content' = [content EXCEPT ![frame_id] = posted]
    BY <1>4 DEF EndCopy
  <2>2. content'[frame_id] = posted /\ \A s \in Slots \ {frame_id} : content'[s] = content[s]
    BY <2>1
  <2>3. QED
    BY <2>1, <2>2
<1>5. CASE Position \/ Flag \/ Rotate \/ Finish
  BY <1>5 DEF Position, Flag, Rotate, Finish
<1>6. CASE PollStep
  BY <1>6 DEF PollStep, PollTest, PollLoad, PollStore
<1>7. CASE \E r \in Rotations : SetRotation(r)
  BY <1>7 DEF SetRotation
<1>8. CASE \E f \in Signals : ClientSignal(f)
  BY <1>8 DEF ClientSignal
<1>9. CASE ClientStep
  BY <1>9 DEF ClientStep, ClientClear, ClientRead, ClientDone
<1>10. CASE UNCHANGED vars
  BY <1>10 DEF vars
<1>11. QED
  BY <1>1, <1>2, <1>3, <1>4, <1>5, <1>6, <1>7, <1>8, <1>9, <1>10 DEF Next, PostStep

(* A step that touches neither the frames nor the reader.                  *)
LEMMA ReaderKept ==
  ASSUME ReaderInv, starts # 0,
         UNCHANGED <<starts, cpc, cslot, cseq, ctorn, dataPos, content>>,
         missed /\ pc \in {"copy", "down"} => missed' /\ pc' \in {"copy", "down"}
  PROVE  ReaderInv'
  BY DEF ReaderInv, Newer

LEMMA ReaderInductive ==
  ASSUME DoubleBufferInv, ContentInv, ReaderInv, [Next]_vars
  PROVE  ReaderInv'
<1> USE DEF mapping, host, client
<1>1. CASE StartHost
  <2>1. starts' = starts + 1 /\ cpc' = cpc /\ starts \in Nat
    BY <1>1 DEF StartHost, DoubleBufferInv, TypeOK
  <2>2. QED
    BY <2>1 DEF ReaderInv
<1>2. CASE StartPolling \/ \E r \in Rotations : SetRotation(r)
  BY <1>2, ReaderKept DEF StartPolling, SetRotation, ReaderInv
<1>3. CASE Crash
  BY <1>3, ReaderKept DEF Crash, ReaderInv
<1>4. CASE PostBegin \/ StoreFlags \/ LockFails \/ Flag \/ Rotate \/ Finish
  BY <1>4, ReaderKept
     DEF PostBegin, StoreFlags, LockFails, Flag, Rotate, Finish, ReaderInv
<1>5. CASE BeginCopy
  <2>1. /\ pc = "lock" /\ pc' = "copy"
        /\ ctorn' = (ctorn \/ (cpc = "copy" /\ cslot = frame_id))
        /\ UNCHANGED <<starts, missed, cpc, cslot, cseq, dataPos, content>>
    BY <1>5 DEF BeginCopy
  <2>2. starts = 1 /\ cpc = "copy" /\ ctorn' => Newer \/ missed
    BY <2>1 DEF ReaderInv, DoubleBufferInv, SlotInv, Filling
  <2>3. QED
    BY <2>1, <2>2 DEF ReaderInv, Newer
<1>6. CASE EndCopy
  <2>1. /\ pc = "copy" /\ frame_id \in Slots /\ posted \in Nat
        /\ content' = [content EXCEPT ![frame_id] = posted]
        /\ UNCHANGED <<starts, missed, cpc, cslot, cseq, ctorn, dataPos>>
    BY <1>6, UioAssumption DEF EndCopy, DoubleBufferInv, TypeOK, UioAssumption
  <2>2. \A s \in Slots : content'[s] >= content[s] /\ content[s] \in Nat /\ content'[s] \in Nat
    BY <2>1 DEF ContentInv, DoubleBufferInv, TypeOK
  <2>3. starts # 0
    BY <2>1 DEF ReaderInv
  <2>4. ASSUME starts = 1, cpc = "copy" PROVE Newer => Newer'
    BY <2>1, <2>2, <2>4 DEF ReaderInv, Newer, DoubleBufferInv, TypeOK
  <2>5. ASSUME starts = 1, cpc = "copy", missed PROVE Newer'
    <3>1. dataPos = frame_id
      BY <2>1, <2>5 DEF ReaderInv, DoubleBufferInv, SlotInv, Filling, Slots, NoPos
    <3>2. content'[dataPos] = posted
      BY <2>1, <3>1 DEF DoubleBufferInv, TypeOK
    <3>3. cseq < posted
      BY <2>1, <2>5 DEF ReaderInv, ContentInv, DoubleBufferInv, TypeOK
    <3>4. QED
      BY <2>1, <3>2, <3>3 DEF Newer, DoubleBufferInv, TypeOK
  <2>6. ASSUME starts = 1, cpc = "copy" PROVE cseq <= content'[cslot]
    BY <2>2, <2>6 DEF ReaderInv, DoubleBufferInv, TypeOK
  <2>7. QED
    BY <2>1, <2>3, <2>4, <2>5, <2>6 DEF ReaderInv
<1>7. CASE Position
  <2>1. /\ pc = "position" /\ frame_id \in Slots /\ dataPos' = frame_id
        /\ UNCHANGED <<starts, cpc, cslot, cseq, ctorn, content>>
    BY <1>7 DEF Position, DoubleBufferInv, TypeOK
  <2>2. content[frame_id] = posted
    BY <2>1 DEF ContentInv
  <2>3. ASSUME starts = 1, cpc = "copy", cslot # frame_id PROVE Newer'
    BY <2>1, <2>2, <2>3 DEF Newer, ContentInv, ReaderInv, DoubleBufferInv, TypeOK
  <2>4. ASSUME starts = 1, cpc = "copy", ctorn PROVE Newer'
    BY <2>1, <2>2, <2>4 DEF Newer, ContentInv, ReaderInv, DoubleBufferInv, TypeOK
  <2>5. starts # 0
    BY <2>1 DEF ReaderInv
  <2>6. QED
    BY <2>1, <2>3, <2>4, <2>5 DEF ReaderInv
<1>8. CASE PollStep \/ \E f \in Signals : ClientSignal(f)
  BY <1>8 DEF PollStep, PollTest, PollLoad, PollStore, ClientSignal, ReaderInv, Newer
<1>9. CASE ClientClear
  BY <1>9 DEF ClientClear, ReaderInv
<1>10. CASE ClientRead
  <2>1. /\ cslot' = dataPos
        /\ UNCHANGED <<starts, dataPos, content, whole, missed, pc, update>>
        /\ cpc' = "copy" => /\ dataPos \in Slots /\ cseq' = content[dataPos]
                            /\ ctorn' = ~whole[dataPos]
        /\ cpc = "read"
    BY <1>10 DEF ClientRead
  <2>2. dataPos \in Slots => content[dataPos] <= content[dataPos]
    BY DEF DoubleBufferInv, TypeOK
  <2>3. dataPos \in Slots /\ ~whole[dataPos] => missed /\ pc \in {"copy", "down"}
    BY DEF DoubleBufferInv, WholeInv
  <2>4. QED
    BY <2>1, <2>2, <2>3 DEF ReaderInv
<1>11. CASE ClientDone
  BY <1>11 DEF ClientDone, ReaderInv
<1>12. CASE UNCHANGED vars
  BY <1>12 DEF vars, ReaderInv, Newer
<1>13. QED
  BY <1>1, <1>2, <1>3, <1>4, <1>5, <1>6, <1>7, <1>8, <1>9, <1>10, <1>11, <1>12
     DEF Next, PostStep, ClientStep

(* In the first run of the process a frame is torn under the client only   *)
(* when a newer one is advertised, unless an odd number of posts failed.   *)
THEOREM TornFramesAreOld == Safety => []TornOnlyAfterNewer
<1>1. Init => ContentInv /\ ReaderInv
  BY DEF Init, ContentInv, ReaderInv
<1>2. TypeOK /\ ContentInv /\ [Next]_vars => ContentInv'
  BY ContentInductive
<1>3. DoubleBufferInv /\ ContentInv /\ ReaderInv /\ [Next]_vars => ReaderInv'
  BY ReaderInductive
<1>4. ReaderInv => TornOnlyAfterNewer
  BY DEF ReaderInv, Newer, TornOnlyAfterNewer
<1>5. QED
  BY <1>1, <1>2, <1>3, <1>4, TypeCorrect, DoubleBufferInvariant, PTL DEF Safety
=============================================================================

----------------------------- MODULE UioDisplay -----------------------------
(***************************************************************************)
(* The shared-memory display of src/uio.  The composer thread of the hwc   *)
(* process copies each frame into one of two slots of a uio mapping and    *)
(* describes it in the KVMFR header; a poll thread of the same process     *)
(* acknowledges the client's RESTART signal; a client in another process   *)
(* (or on the other side of a VM boundary) reads header and slots.         *)
(* Nothing in the code synchronises the three, so every access to the      *)
(* mapping that another party can see is a step of its own: the header     *)
(* flags are read and written back in two steps, a slot is rewritten       *)
(* between a begin and an end, and the frame fields are stored in program  *)
(* order.  The hwc process may crash between any two steps and start       *)
(* again; the mapping survives it.                                         *)
(***************************************************************************)
EXTENDS Naturals

CONSTANTS
  Rotations,     \* values checkRotation passes to setRotation (0 .. 3)
  MaxPosts,      \* bound: frames posted over the whole behaviour
  MaxStarts      \* bound: times the hwc process is started

ASSUME UioAssumption ==
  /\ 0 \in Rotations
  /\ MaxPosts \in Nat
  /\ MaxStarts \in Nat

Slots == 0 .. 1      \* app.frame[MAX_FRAMES]
NoPos == 2           \* dataPos of a zeroed header: no slot starts there
Signals == {"RESTART", "READY"}

VARIABLES
  \* the mapping
  hflags,    \* KVMFRHeader.flags
  update,    \* KVMFRFrame.flags holds KVMFR_FRAME_FLAG_UPDATE
  dataPos,   \* KVMFRFrame.dataPos, as the slot it is the offset of
  rotate,    \* KVMFRFrame.rotate
  content,   \* the post whose pixels a slot holds, 0 for none
  whole,     \* FALSE while the pixels of a slot are of two frames
  \* the hwc process
  pc,        \* where the composer thread is in postFb
  reg,       \* header flags it has loaded and not stored yet, else {}
  frame_id,  \* the slot the next frame goes to
  mRot,      \* rotation set by checkRotation
  ppc, preg, \* the same for the poll thread
  starts,    \* how often the process has started
  \* the client
  cpc, cslot, cseq, ctorn,
  shown,     \* newest post the client has displayed untorn
  \* history
  posted,    \* calls of postFb so far
  rotOf,     \* rotation in force when a slot was filled
  missed     \* an odd number of posts failed since the last described frame

mapping == <<hflags, update, dataPos, rotate, content, whole>>
host == <<pc, reg, frame_id, mRot, ppc, preg, starts>>
client == <<cpc, cslot, cseq, ctorn, shown>>
vars == <<mapping, host, client, posted, rotOf, missed>>

Init ==
  /\ hflags \in SUBSET Signals
  /\ update = FALSE /\ dataPos = NoPos /\ rotate = 0
  /\ content = [s \in Slots |-> 0] /\ whole = [s \in Slots |-> TRUE]
  /\ pc = "down" /\ reg = {} /\ frame_id = 0 /\ mRot = 0
  /\ ppc = "down" /\ preg = {} /\ starts = 0
  /\ cpc = "wait" /\ cslot = NoPos /\ cseq = 0 /\ ctorn = FALSE /\ shown = 0
  /\ posted = 0 /\ rotOf = [s \in Slots |-> 0] /\ missed = FALSE

(* What init and threadProc leave of the header flags.                     *)
WithoutReady(flags) == flags \ {"READY"}
WithoutRestart(flags) == flags \ {"RESTART"}

(* The slot of the next frame, and what it would be without the step.      *)
NextSlotSame(id) == id
NextSlot(id) == (id + 1) % 2

-----------------------------------------------------------------------------
(* The process starts: init maps the device, zeroes the frame descriptor   *)
(* and clears RESTART, the last in two steps.                              *)
StartHost ==
  /\ pc = "down" /\ starts < MaxStarts
  /\ starts' = starts + 1
  /\ update' = FALSE /\ dataPos' = NoPos /\ rotate' = 0
  /\ frame_id' = 0 /\ mRot' = 0 /\ missed' = FALSE
  /\ reg' = hflags
  /\ pc' = "init"
  /\ UNCHANGED <<hflags, content, whole, ppc, preg, client, posted, rotOf>>

StartPolling ==
  /\ pc = "init"
  /\ hflags' = WithoutRestart(reg)
  /\ reg' = {}
  /\ pc' = "idle" /\ ppc' = "test"
  /\ UNCHANGED <<update, dataPos, rotate, content, whole, frame_id, mRot, preg,
                 starts, client, posted, rotOf, missed>>

(* The process dies at any point; the mapping keeps what it holds.         *)
Crash ==
  /\ pc # "down"
  /\ pc' = "down" /\ ppc' = "down"
  /\ reg' = {} /\ preg' = {}
  /\ UNCHANGED <<mapping, frame_id, mRot, starts, client, posted, rotOf,
                 missed>>

(* validate runs on the composer thread, between two presents.             *)
SetRotation(r) ==
  /\ pc = "idle"
  /\ mRot' = r
  /\ UNCHANGED <<mapping, pc, reg, frame_id, ppc, preg, starts, client, posted,
                 rotOf, missed>>

-----------------------------------------------------------------------------
(* postFb, step by step.                                                   *)
PostBegin ==
  /\ pc = "idle" /\ posted < MaxPosts
  /\ posted' = posted + 1
  /\ reg' = hflags
  /\ pc' = "store"
  /\ UNCHANGED <<mapping, frame_id, mRot, ppc, preg, starts, client, rotOf,
                 missed>>

StoreFlags ==
  /\ pc = "store"
  /\ hflags' = WithoutReady(reg)
  /\ reg' = {}
  /\ pc' = "lock"
  /\ UNCHANGED <<update, dataPos, rotate, content, whole, frame_id, mRot, ppc,
                 preg, starts, client, posted, rotOf, missed>>

LockFails ==
  /\ pc = "lock"
  /\ missed' = ~missed
  /\ pc' = "finish"
  /\ UNCHANGED <<mapping, reg, frame_id, mRot, ppc, preg, starts, client,
                 posted, rotOf>>

BeginCopy ==
  /\ pc = "lock"
  /\ whole' = [whole EXCEPT ![frame_id] = FALSE]
  /\ ctorn' = (ctorn \/ (cpc = "copy" /\ cslot = frame_id))
  /\ pc' = "copy"
  /\ UNCHANGED <<hflags, update, dataPos, rotate, content, reg, frame_id, mRot,
                 ppc, preg, starts, cpc, cslot, cseq, shown, posted, rotOf,
                 missed>>

EndCopy ==
  /\ pc = "copy"
  /\ whole' = [whole EXCEPT ![frame_id] = TRUE]
  /\ content' = [content EXCEPT ![frame_id] = posted]
  /\ rotOf' = [rotOf EXCEPT ![frame_id] = mRot]
  /\ pc' = "position"
  /\ UNCHANGED <<hflags, update, dataPos, rotate, reg, frame_id, mRot, ppc,
                 preg, starts, client, posted, missed>>

(* type, width, height, stride and pitch go with dataPos: they are the     *)
(* same for every frame of a display.                                      *)
Position ==
  /\ pc = "position"
  /\ dataPos' = frame_id
  /\ missed' = FALSE
  /\ pc' = "flag"
  /\ UNCHANGED <<hflags, update, rotate, content, whole, reg, frame_id, mRot,
                 ppc, preg, starts, client, posted, rotOf>>

(* Without raising UPDATE (a mutant).                                      *)
FlagForgotten ==
  /\ pc = "flag"
  /\ pc' = "rotate"
  /\ UNCHANGED <<mapping, reg, frame_id, mRot, ppc, preg, starts, client,
                 posted, rotOf, missed>>

Flag ==
  /\ pc = "flag"
  /\ update' = TRUE
  /\ pc' = "rotate"
  /\ UNCHANGED <<hflags, dataPos, rotate, content, whole, reg, frame_id, mRot,
                 ppc, preg, starts, client, posted, rotOf, missed>>

(* Without storing the rotation (a mutant).                                *)
RotateForgotten ==
  /\ pc = "rotate"
  /\ pc' = "finish"
  /\ UNCHANGED <<mapping, reg, frame_id, mRot, ppc, preg, starts, client,
                 posted, rotOf, missed>>

Rotate ==
  /\ pc = "rotate"
  /\ rotate' = mRot
  /\ pc' = "finish"
  /\ UNCHANGED <<hflags, update, dataPos, content, whole, reg, frame_id, mRot,
                 ppc, preg, starts, client, posted, rotOf, missed>>

(* frame_id moves on whether or not a frame was posted.                    *)
Finish ==
  /\ pc = "finish"
  /\ frame_id' = NextSlot(frame_id)
  /\ pc' = "idle"
  /\ UNCHANGED <<mapping, reg, mRot, ppc, preg, starts, client, posted, rotOf,
                 missed>>

PostStep == \/ StoreFlags \/ LockFails \/ BeginCopy \/ EndCopy
            \/ Position \/ Flag \/ Rotate \/ Finish

-----------------------------------------------------------------------------
(* threadProc: test, then a read and a write of the flags, then a sleep.   *)
PollTest ==
  /\ ppc = "test" /\ "RESTART" \in hflags
  /\ ppc' = "load"
  /\ UNCHANGED <<mapping, pc, reg, frame_id, mRot, preg, starts, client, posted,
                 rotOf, missed>>

PollLoad ==
  /\ ppc = "load"
  /\ preg' = hflags
  /\ ppc' = "store"
  /\ UNCHANGED <<mapping, pc, reg, frame_id, mRot, starts, client, posted,
                 rotOf, missed>>

PollStore ==
  /\ ppc = "store"
  /\ hflags' = WithoutRestart(preg)
  /\ preg' = {}
  /\ ppc' = "test"
  /\ UNCHANGED <<update, dataPos, rotate, content, whole, pc, reg, frame_id,
                 mRot, starts, client, posted, rotOf, missed>>

PollStep == PollTest \/ PollLoad \/ PollStore

-----------------------------------------------------------------------------
(* The client, which is not part of the repository: it signals the host,   *)
(* and takes a frame by clearing UPDATE, reading the descriptor and        *)
(* copying the slot it names.                                              *)
ClientSignal(f) ==
  /\ hflags' = hflags \union {f}
  /\ UNCHANGED <<update, dataPos, rotate, content, whole, host, client, posted,
                 rotOf, missed>>

ClientClear ==
  /\ cpc = "wait" /\ update
  /\ update' = FALSE
  /\ cpc' = "read"
  /\ UNCHANGED <<hflags, dataPos, rotate, content, whole, host, cslot, cseq,
                 ctorn, shown, posted, rotOf, missed>>

ClientRead ==
  /\ cpc = "read"
  /\ cslot' = dataPos
  /\ IF dataPos \in Slots
       THEN /\ cpc' = "copy"
            /\ cseq' = content[dataPos]
            /\ ctorn' = ~whole[dataPos]
       ELSE cpc' = "wait" /\ UNCHANGED <<cseq, ctorn>>
  /\ UNCHANGED <<mapping, host, shown, posted, rotOf, missed>>

ClientDone ==
  /\ cpc = "copy"
  /\ cpc' = "wait"
  /\ shown' = IF ctorn \/ cseq < shown THEN shown ELSE cseq
  /\ cslot' = NoPos /\ cseq' = 0 /\ ctorn' = FALSE
  /\ UNCHANGED <<mapping, host, posted, rotOf, missed>>

ClientStep == ClientClear \/ ClientRead \/ ClientDone

Next ==
  \/ StartHost \/ StartPolling \/ Crash
  \/ \E r \in Rotations : SetRotation(r)
  \/ PostBegin \/ PostStep
  \/ PollStep
  \/ \E f \in Signals : ClientSignal(f)
  \/ ClientStep

Safety == Init /\ [][Next]_vars

(* The scheduler runs both threads of the process and the client; nothing  *)
(* makes the framework post, rotate or the client signal.                  *)
Spec == Safety /\ WF_vars(PostStep) /\ WF_vars(PollStep) /\ WF_vars(ClientStep)

-----------------------------------------------------------------------------
TypeOK ==
  /\ hflags \subseteq Signals /\ reg \subseteq Signals /\ preg \subseteq Signals
  /\ update \in BOOLEAN
  /\ dataPos \in Slots \union {NoPos}
  /\ rotate \in Rotations /\ mRot \in Rotations
  /\ content \in [Slots -> Nat] /\ rotOf \in [Slots -> Rotations]
  /\ whole \in [Slots -> BOOLEAN]
  /\ pc \in {"down", "init", "idle", "store", "lock", "copy", "position",
             "flag", "rotate", "finish"}
  /\ frame_id \in Slots
  /\ ppc \in {"down", "test", "load", "store"}
  /\ missed \in BOOLEAN
  /\ starts \in 0 .. MaxStarts /\ posted \in 0 .. MaxPosts
  /\ cpc \in {"wait", "read", "copy"}
  /\ cslot \in Slots \union {NoPos}
  /\ cseq \in Nat /\ shown \in Nat /\ ctorn \in BOOLEAN

(* "frame update available", "offset to the frame": while UPDATE is up a   *)
(* whole frame is there.  A failed lock breaks it, as frame_id moves on    *)
(* all the same, and the next frame is copied over the advertised one.     *)
UpdateAvailable == update => dataPos \in Slots /\ whole[dataPos]

(* Double buffering: postFb does not rewrite the slot whose offset the     *)
(* descriptor gives the client, whatever the client and a crash do, unless *)
(* an odd number of posts failed since a frame was last described.         *)
DoubleBuffered == pc = "copy" /\ ~missed => dataPos # frame_id

(* The slot the descriptor points at holds the pixels of one frame, also   *)
(* when the process crashed halfway through a copy and started again.      *)
AdvertisedWhole == ~missed /\ dataPos \in Slots => whole[dataPos]

(* Once postFb has returned, an announced frame carries the rotation that  *)
(* was in force when its pixels were copied.                               *)
SettledRotation == pc = "idle" /\ update => rotate = rotOf[dataPos]

(* A frame is torn under the client only when the client was so slow that  *)
(* a newer frame is already advertised: no frame the client could still    *)
(* prefer is lost.  A restart zeroes the descriptor and breaks this, so    *)
(* the claim is for one run of the process.                                *)
TornOnlyAfterNewer ==
  starts = 1 /\ ~missed /\ cpc = "copy" /\ ctorn => content[dataPos] > cseq

(* The frame that is advertised when posting stops reaches the screen of   *)
(* the client, although the client and postFb race for the UPDATE flag and *)
(* later posts may fail; only a newer frame in a slot may keep it from it. *)
LastFrameReachesClient ==
  \A n \in 1 .. MaxPosts :
    (pc = "idle" /\ dataPos \in Slots /\ content[dataPos] = n)
      ~> (shown >= n \/ pc = "down" \/ \E s \in Slots : content[s] > n)

(* A RESTART signal of the client is acknowledged, although postFb may     *)
(* write the flag back after the poll thread has cleared it.               *)
RestartAcknowledged ==
  "RESTART" \in hflags ~> ("RESTART" \notin hflags \/ ppc = "down")
=============================================================================

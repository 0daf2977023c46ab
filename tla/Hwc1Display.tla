----------------------------- MODULE Hwc1Display -----------------------------
(***************************************************************************)
(* Hwc1Display as operators on the record of one display.  SurfaceFlinger  *)
(* hands prepare and set a list of n layers, the last of them the          *)
(* framebuffer target; overlays are the others it will not compose into    *)
(* that target, turned says that the first has a transform.  Handles of    *)
(* layers and of framebuffer targets differ.                               *)
(***************************************************************************)
EXTENDS Naturals

NoRemote == "none"
NoBuffer == "null"

NewDisplay(rd) == [mRemoteDisplay |-> rd, mSingleLayer |-> FALSE,
                   mFbtBuffers |-> {}, mAppBuffers |-> {}]

Lists == [n : 1 .. 3, turned : BOOLEAN, overlays : SUBSET {0, 1}]

-----------------------------------------------------------------------------
(* prepare.  opt is mEnableSingleLayerOpt, geometry HWC_GEOMETRY_CHANGED.  *)
singleLayer(list) == list.n = 2 /\ ~list.turned

StaysSingle(d, list) == d.mSingleLayer \/ singleLayer(list)
BecomesSingle(d, list) == singleLayer(list)

(* exitSingleLayer takes the buffers back from the remote and forgets them. *)
exitsSingleLayer(d, list, geometry, opt) ==
  geometry /\ opt /\ d.mSingleLayer /\ ~singleLayer(list)
  /\ d.mRemoteDisplay # NoRemote

AppsKept(d) == d.mAppBuffers
AppsLeft(d) == {}

TakenBack(d, list, geometry, opt) ==
  IF exitsSingleLayer(d, list, geometry, opt) THEN d.mAppBuffers ELSE {}

Prepared(d, list, geometry, opt) ==
  [d EXCEPT
     !.mSingleLayer = IF geometry /\ opt THEN BecomesSingle(d, list) ELSE @,
     !.mAppBuffers = IF exitsSingleLayer(d, list, geometry, opt)
                       THEN AppsLeft(d) ELSE @]

(* The composition types prepare leaves in the list.                       *)
Retyped(d, list, geometry, opt) ==
  LET kept == IF geometry THEN {} ELSE list.overlays
      single == opt /\ Prepared(d, list, geometry, opt).mSingleLayer IN
    [list EXCEPT !.overlays = kept \union (IF single THEN {0} ELSE {})]

-----------------------------------------------------------------------------
(* set: the buffer it asks the remote to show, NoBuffer if none.  app and  *)
(* fbt are the handles of the first layer and of the framebuffer target.   *)
ShowsApp(d, list, opt) ==
  list.n >= 2 /\ opt /\ d.mSingleLayer /\ d.mRemoteDisplay # NoRemote
ShowsFbt(d, list, opt) ==
  list.n >= 2 /\ d.mRemoteDisplay # NoRemote /\ ~ShowsApp(d, list, opt)

Displayed(d, list, app, fbt, opt) ==
  CASE ShowsApp(d, list, opt) -> app
    [] ShowsFbt(d, list, opt) -> fbt
    [] OTHER -> NoBuffer

(* What is new is announced first and remembered.                          *)
Announced(d, list, app, fbt, opt) ==
  [d EXCEPT !.mAppBuffers = IF ShowsApp(d, list, opt) THEN @ \union {app} ELSE @,
            !.mFbtBuffers = IF ShowsFbt(d, list, opt)
                              THEN @ \union ({fbt} \ {NoBuffer}) ELSE @]

Created(d, list, app, fbt, opt) ==
  LET e == Announced(d, list, app, fbt, opt) IN
    (e.mAppBuffers \ d.mAppBuffers) \union (e.mFbtBuffers \ d.mFbtBuffers)
=============================================================================

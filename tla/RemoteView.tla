----------------------------- MODULE RemoteView -----------------------------
(***************************************************************************)
(* What a remote display knows, as a record, and the requests of           *)
(* RemoteDisplay as operators on it.  The remote is not part of the code:  *)
(* it is assumed to note what it is told, and to ignore a layer it does    *)
(* not know.  Buffers are never taken back: nobody calls removeBuffer.     *)
(***************************************************************************)
EXTENDS Naturals, Functions

(* mode: the one it asked for; buffers: announced to it; layers: ids it    *)
(* was told of; infos and shown: the state and the buffer it was sent for  *)
(* some of them; requests: the kinds of request it got, "fb" and "layers". *)
Fresh(mode) ==
  [mode |-> mode, buffers |-> {}, rotation |-> 0,
   layers |-> {}, infos |-> <<>>, shown |-> <<>>, requests |-> {}]

createBuffer(p, b) == [p EXCEPT !.buffers = @ \union {b}]

displayBuffer(p) == [p EXCEPT !.requests = @ \union {"fb"}]

setRotation(p, rotation) ==
  [p EXCEPT !.rotation = rotation, !.requests = @ \union {"fb"}]

createLayer(p, id) ==
  [p EXCEPT !.layers = @ \union {id}, !.requests = @ \union {"layers"}]

removeLayer(p, id) ==
  [p EXCEPT !.layers = @ \ {id}, !.requests = @ \union {"layers"},
            !.infos = Restrict(@, DOMAIN @ \ {id}),
            !.shown = Restrict(@, DOMAIN @ \ {id})]

(* infos and buffers: functions on the ids of the layers in the request.   *)
Told(p, old, new) ==
  [i \in DOMAIN old \union (DOMAIN new \intersect p.layers) |->
     IF i \in DOMAIN new THEN new[i] ELSE old[i]]

updateLayers(p, infos) ==
  [p EXCEPT !.infos = Told(p, @, infos), !.requests = @ \union {"layers"}]

presentLayers(p, buffers) ==
  [p EXCEPT !.shown = Told(p, @, buffers), !.requests = @ \union {"layers"}]
=============================================================================

--------------------------- MODULE MCRemoteStream ---------------------------
(* A request of each shape, and each message of the remote: layers there   *)
(* is and there is no memory for, and one that nobody handles with and     *)
(* without a body.                                                         *)
EXTENDS RemoteStream

MCRequests ==
  {[op |-> "createBuffer", n |-> 1], [op |-> "removeBuffer", n |-> 0],
   [op |-> "displayBuffer", n |-> 0], [op |-> "presentLayers", n |-> 1]}
MCAnswers ==
  {[type |-> "DISPINFO_ACK", n |-> 0], [type |-> "DISPLAY_ACK", n |-> 0],
   [type |-> "PRESENT_LAYERS_ACK", n |-> 1], [type |-> "PRESENT_LAYERS_ACK", n |-> 2],
   [type |-> "SERVER_IP_REQ", n |-> 0], [type |-> "SERVER_IP_REQ", n |-> 1]}
=============================================================================

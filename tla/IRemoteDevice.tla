--------------------------- MODULE IRemoteDevice ---------------------------
(***************************************************************************)
(* What the remote display manager relies on when it hands RemoteDisplay   *)
(* objects to a device through the IRemoteDevice interface: the device may *)
(* keep a pointer from addRemoteDisplay to removeRemoteDisplay and not     *)
(* longer, because the manager destroys the object when the removal        *)
(* returns.                                                                *)
(***************************************************************************)
CONSTANT Remotes   \* RemoteDisplay objects, each created and destroyed once

VARIABLES
  held,   \* objects the device keeps a pointer to
  taken   \* objects the manager has taken back

vars == <<held, taken>>

Init == held = {} /\ taken = {}

addRemoteDisplay(rd) ==
  /\ rd \notin taken
  /\ held' = held \union {rd}
  /\ UNCHANGED taken

(* Also called for an object that was never added.                         *)
removeRemoteDisplay(rd) ==
  /\ rd \notin taken
  /\ held' = held \ {rd}
  /\ taken' = taken \union {rd}

Next == \E rd \in Remotes : addRemoteDisplay(rd) \/ removeRemoteDisplay(rd)

Spec == Init /\ [][Next]_vars
=============================================================================

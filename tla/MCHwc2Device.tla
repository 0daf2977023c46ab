---------------------------- MODULE MCHwc2Device ----------------------------
(* Instances of Hwc2Device for TLC.                                        *)
EXTENDS Hwc2Device, TLC

CONSTANTS r1, r2, r3

MCRemotes == {r1, r2, r3}
MCSymmetry == Permutations({r2, r3})

(* One remote has the size displays are made with and takes the primary as *)
(* it is; the others are larger and ask for a hotplug.                     *)
MCSizeOf == [r \in MCRemotes |-> IF r = r1 THEN "default" ELSE "large"]
MCPrimaryHotplug == {r2, r3}

(* The code as committed, with up to four uio nodes; and with the early    *)
(* returns of the remote display manager lifted, with none.                *)
MCBuilds == ({TRUE} \X {1, 3, 4}) \union {<<FALSE, 0>>}
=============================================================================

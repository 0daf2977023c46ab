----------------------------- MODULE MCHwc1Device -----------------------------
(* Instances of Hwc1Device for TLC.                                        *)
EXTENDS Hwc1Device, TLC

CONSTANTS r1, r2, r3, a1, a2, f1, f2

MCRemotes == {r1, r2, r3}
MCApps == {a1, a2}
MCFbts == {f1, f2}

(* The target alone, one layer, one that is turned, two layers; what the   *)
(* types were before matters only until prepare resets them.               *)
MCLists == {[n |-> 1, turned |-> FALSE, overlays |-> {}],
            [n |-> 2, turned |-> FALSE, overlays |-> {}],
            [n |-> 2, turned |-> TRUE, overlays |-> {0}],
            [n |-> 3, turned |-> FALSE, overlays |-> {0, 1}]}

MCSymmetry == Permutations(MCRemotes) \union Permutations(MCApps)
                \union Permutations(MCFbts)
=============================================================================

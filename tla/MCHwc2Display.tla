---------------------------- MODULE MCHwc2Display ----------------------------
(* Instances of Hwc2Display for TLC.                                       *)
EXTENDS Hwc2Display, TLC

CONSTANTS t1, b1, b2, f1, f2, f3

MCBuffers == {b1, b2}
MCFences == {f1, f2, f3}
MCSymmetry == Permutations(MCBuffers)
MCFenceSymmetry == Permutations(MCFences)

Green == <<0, 1, 0>>
MCColors == {Green}
=============================================================================

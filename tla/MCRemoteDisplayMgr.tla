------------------------- MODULE MCRemoteDisplayMgr -------------------------
(* Instances of RemoteDisplayMgr for TLC.                                  *)
EXTENDS RemoteDisplayMgr, TLC

CONSTANTS c1, c2, c3

TwoConns == {c1, c2}
ThreeConns == {c1, c2, c3}
ThreeSymmetric == Permutations(ThreeConns)
=============================================================================

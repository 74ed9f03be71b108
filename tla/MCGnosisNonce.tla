--------------------------- MODULE MCGnosisNonce ---------------------------
(* Instances of GnosisNonce for TLC.                                       *)
EXTENDS GnosisNonce, TLC

CONSTANTS r1, r2, r3

ThreeRequests == {r1, r2, r3}
TwoRequests   == {r1, r2}
=============================================================================

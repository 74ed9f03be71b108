--------------------------- MODULE MCMultiNonce ---------------------------
(* Instances of MultiNonce for TLC.                                        *)
EXTENDS MultiNonce, TLC

CONSTANTS r1, r2, r3, r4

FourRequests == {r1, r2, r3, r4}
=============================================================================

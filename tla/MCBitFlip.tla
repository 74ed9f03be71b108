----------------------------- MODULE MCBitFlip -----------------------------
(* Instances of BitFlip for TLC, with the words that its sets of bits      *)
(* stand for.                                                              *)
EXTENDS BitFlipWords, TLC

CONSTANTS r1, r2, r3

Requests == {r1, r2, r3}
=============================================================================

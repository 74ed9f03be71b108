---------------------------- MODULE BitFlipWords ----------------------------
(***************************************************************************)
(* The words that the sets of bits in BitFlip stand for.                   *)
(***************************************************************************)
EXTENDS BitFlip, BitWords

ASSUME SameWidthAssumption == Width = BitsPerWord

(* On every bitmap that the chain comes to hold, the mask, the test for a  *)
(* power of two and the wrapping subtraction of `bitflip' accept the words *)
(* that ReplayRules accepts as sets of bits, zero and the highest bit      *)
(* included, and store what it stores.                                     *)
BitflipIsOnSets ==
  \A bitmap \in {onchain[i] : i \in Index} : bitflipIsOnSets(WordOf[bitmap])

(* In every bitmap the client comes to remember, the bit it finds and the  *)
(* word it makes of it by adding are those of BitFlip; a full one, and the *)
(* last bit of one, are recognised.                                        *)
SearchIsOnSets == mBitmap # Unknown => searchIsOnSets(WordOf[mBitmap])
=============================================================================

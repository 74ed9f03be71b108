---------------------------- MODULE ReplayRules ----------------------------
(***************************************************************************)
(* The three rules by which a stored word accepts a nonce, as operators on *)
(* the word alone: `nonce' and `bitflip' of ReplayProtection.sol and       *)
(* `update' of BitFlipNonceStore.sol.                                      *)
(*                                                                         *)
(* A uint256 is a natural number where the code counts with it and the set *)
(* of its one bits where the code masks with it.  A counter moves by one   *)
(* for each accepted transaction, so it does not reach 2^256.              *)
(***************************************************************************)
EXTENDS Naturals

(* `nonce': accepted only as the very next of its queue.                   *)
nonceAccepts_AtLeast(stored, n) == n >= stored  \* broken: gaps are let through
nonceAccepts_AtMost(stored, n) == n <= stored   \* broken: old nonces are let through
nonceAccepts(stored, n) == n = stored

nonceStored_Same(stored) == stored              \* broken: the increment is lost
nonceStored(stored) == stored + 1

(* `bitflip': exactly one bit, not set yet.                                *)
bitflipAccepts(bitmap, bits) ==
  /\ bits # {}
  /\ \A b, c \in bits : b = c
  /\ bitmap \cap bits = {}
bitflipStored(bitmap, bits) == bitmap \cup bits

(* `update': at least one of the bits is not set yet.                      *)
updateAccepts_Any(bitmap, bits) == bits # {}    \* broken: used bits are let through
updateAccepts(bitmap, bits) == bitmap \cap bits # bits
updateStored(bitmap, bits) == bitmap \cup bits
=============================================================================

------------------------- MODULE MCMetaTransaction -------------------------
(* Instances of MetaTransaction for TLC.                                   *)
EXTENDS MetaTransaction, TLC
=============================================================================

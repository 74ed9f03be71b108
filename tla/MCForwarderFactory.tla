------------------------- MODULE MCForwarderFactory -------------------------
(* An instance of ForwarderFactory for TLC: two Signer objects of one      *)
(* address and one of another.                                             *)
EXTENDS ForwarderFactory, TLC

CONSTANTS c1, c2, c3, s1, s2, s3

Callers == {c1, c2, c3}
Signers == {s1, s2, s3}
Types   == {"ProxyAccount", "RelayHub"}
Chains  == {"MAINNET"}
Kinds   == {"MULTINONCE"}
Address == s1 :> "a" @@ s2 :> "a" @@ s3 :> "b"
=============================================================================

-------------------------- MODULE MCWalletSession --------------------------
(* Instances of WalletSession for TLC.                                     *)
EXTENDS WalletSession

(* Two places, with every pair of replay protections; which of them is in  *)
(* which place makes no difference.                                        *)
Pairs ==
  {ts \in [{"s", "t"} -> {"BITFLIP", "MULTINONCE", "NONCE"}] :
     <<ts["s"], ts["t"]>> \notin {<<"NONCE", "BITFLIP">>, <<"NONCE", "MULTINONCE">>,
                                 <<"MULTINONCE", "BITFLIP">>}}

(* No options, and mainnet's factory with another master copy.             *)
Options ==
  {NoOptions,
   [proxyFactoryAddress |-> "PROXY_FACTORY_ADDRESS_MAINNET",
    gnosisSafeMaster    |-> "another master copy"]}
=============================================================================

------------------------- MODULE MCMetaForwarding -------------------------
(* Instances of MetaForwarding for TLC.                                    *)
EXTENDS MetaForwarding

CONSTANTS alice, bob, hub, wallet, bobsWallet

Plain(callType)      == [callType |-> callType, revertOnFail |-> FALSE]
Required(callType)   == [callType |-> callType, revertOnFail |-> TRUE]

MultiNonce(signer, forwarder, nonce, inBatch, calls) ==
  [signer |-> signer, forwarder |-> forwarder,
   authority |-> multiNonceAddress, queue |-> 0, nonce |-> nonce,
   bits |-> {}, batch |-> inBatch, calls |-> calls]
Bits(authority, signer, forwarder, bits, inBatch, calls) ==
  [signer |-> signer, forwarder |-> forwarder,
   authority |-> authority, queue |-> 0, nonce |-> 0,
   bits |-> bits, batch |-> inBatch, calls |-> calls]

(* In alice's queue of the hub nonce 1 was signed twice, for forward and   *)
(* for a batch whose second call must succeed.  Bob has a queue of his own *)
(* and a bit in the BitFlipNonceStore, which alice's calls can reach too.  *)
HubSigned ==
  [a0 |-> MultiNonce(alice, hub, 0, FALSE, <<Plain("CALL")>>),
   a1 |-> MultiNonce(alice, hub, 1, FALSE, <<Plain("CALL")>>),
   b1 |-> MultiNonce(alice, hub, 1, TRUE, <<Plain("CALL"), Required("CALL")>>),
   m0 |-> MultiNonce(bob, hub, 0, FALSE, <<Plain("CALL")>>),
   n0 |-> Bits(nonceStoreAddress, bob, hub, {0}, TRUE, <<Required("CALL")>>)]
HubTx == DOMAIN HubSigned
NoWallet == [x \in {} |-> alice]

(* Alice's wallet and bob's.  A bit was signed for a delegated call and    *)
(* again for a batch whose second call type the loop refuses; the built-in *)
(* flip of two bits at once is never good; sets of bits in the             *)
(* BitFlipNonceStore overlap, and bob signed one of them for the wallet    *)
(* that is not his.                                                        *)
WalletSigned ==
  [f0  |-> Bits(bitFlipAddress, alice, wallet, {0}, FALSE, <<Plain("DELEGATE")>>),
   g0  |-> Bits(bitFlipAddress, alice, wallet, {0}, TRUE, <<Plain("CALL"), Plain("BATCH")>>),
   f01 |-> Bits(bitFlipAddress, alice, wallet, {0, 1}, FALSE, <<Plain("CALL")>>),
   s01 |-> Bits(nonceStoreAddress, alice, wallet, {0, 1}, FALSE, <<Plain("CALL")>>),
   s1  |-> Bits(nonceStoreAddress, alice, wallet, {1}, FALSE, <<Plain("CALL")>>),
   t0  |-> Bits(nonceStoreAddress, bob, wallet, {1}, FALSE, <<Plain("CALL")>>)]
WalletTx == DOMAIN WalletSigned
WalletSigner == [x \in {wallet, bobsWallet} |-> IF x = wallet THEN alice ELSE bob]
=============================================================================

------------------------- MODULE ReplayProtection -------------------------
(***************************************************************************)
(* Replay protection of the on-chain forwarders: ReplayProtection.sol, the *)
(* contract RelayHub and ProxyAccount inherit, and BitFlipNonceStore.sol,  *)
(* the authority a forwarder may call instead.                             *)
(*                                                                         *)
(* The module has no variables.  Its operators take the contract storage   *)
(* `w' (a record, see World in MetaForwarding) and say when `verify'       *)
(* accepts a signed meta-transaction and what it leaves in storage.        *)
(*                                                                         *)
(* The mapping `nonceStore' is kept as two functions: `nonces' is its part *)
(* whose keys hash the authority multiNonce, `flips' the part hashed with  *)
(* bitFlip.                                                                *)
(***************************************************************************)
EXTENDS ReplayRules, Sequences

CONSTANTS
  Key,        \* addresses of signing keys
  Forwarder,  \* addresses of the forwarder contracts; one element stands for
              \* a pair (address, chain id), the two are signed together
  Queue,      \* the "queue" / "index" half of the replay protection
  Bit,        \* bit positions of a bitmap (0..255 in the code)
  Tx,         \* names of the signed meta-transactions
  Signed      \* what each of them says

multiNonceAddress == "multiNonce"        \* address(0)
bitFlipAddress    == "bitFlip"           \* address(1)
nonceStoreAddress == "BitFlipNonceStore" \* a deployed BitFlipNonceStore

Authority == {multiNonceAddress, bitFlipAddress, nonceStoreAddress}

(* One element of the signed call list.  Target, value and calldata are    *)
(* left out: the forwarders never look at them.                            *)
CallType == {"CALL", "DELEGATE", "BATCH"}
Call     == [callType : CallType, revertOnFail : BOOLEAN]

MetaTx ==
  [signer    : Key,
   forwarder : Forwarder,           \* address(this) and chain id signed for
   authority : Authority,
   queue     : Queue,
   nonce     : Nat,                 \* the other half, for multiNonce
   bits      : SUBSET Bit,          \* the other half, for the bitmaps
   batch     : BOOLEAN,             \* signed for batch() or for forward()
   calls     : Seq(Call)]

ASSUME SignedAssumption == Signed \in [Tx -> MetaTx]

(* forward() carries exactly one call and has no revertOnFail.             *)
ASSUME ForwardAssumption ==
  \A t \in Tx : ~Signed[t].batch =>
    Len(Signed[t].calls) = 1 /\ ~Signed[t].calls[1].revertOnFail

(* An address recovered from a signature over other data.                  *)
Stranger == Forwarder \X Tx
Who      == Key \cup Stranger

(* A caller of BitFlipNonceStore that is no forwarder; one is enough.      *)
Outsider == "outsider"
ASSUME OutsiderAssumption == Outsider \notin Forwarder

(* Nobody holds the key of a recovered stranger.                           *)
ASSUME StrangerAssumption == Key \cap Stranger = {}

-----------------------------------------------------------------------------
(* ECDSA.recover over (callData, replayProtection, authority, this, chain):*)
(* the signer where the hash is the one that was signed, else an address   *)
(* nobody chose.                                                           *)
recover(f, t) ==
  IF Signed[t].forwarder = f THEN Signed[t].signer ELSE <<f, t>>

(* H(signer, queue, authority); `f' is the contract whose storage it is.   *)
queueIndex_NoSigner(f, who, queue) ==  \* broken: the signer not hashed
  <<f, CHOOSE k \in Key : TRUE, queue>>
queueIndex(f, who, queue) == <<f, who, queue>>

(* BitFlipNonceStore.updateFor: H(msg.sender, target, index).              *)
targetIndex_NoSender(sender, who, queue) ==  \* broken: msg.sender not hashed
  <<Outsider, who, queue>>
targetIndex(sender, who, queue) == <<sender, who, queue>>

StoreIndex  == Forwarder \X Who \X Queue
TargetIndex == (Forwarder \cup {Outsider}) \X Who \X Queue

-----------------------------------------------------------------------------
indexOf(f, t) == queueIndex(f, recover(f, t), Signed[t].queue)
targetIndexOf(f, t) == targetIndex(f, recover(f, t), Signed[t].queue)

(* `verify' does not revert.                                               *)
verifyAccepts(w, f, t) ==
  CASE Signed[t].authority = multiNonceAddress ->
         nonceAccepts(w.nonces[indexOf(f, t)], Signed[t].nonce)
    [] Signed[t].authority = bitFlipAddress ->
         bitflipAccepts(w.flips[indexOf(f, t)], Signed[t].bits)
    [] OTHER ->
         updateAccepts(w.bitmaps[targetIndexOf(f, t)], Signed[t].bits)

(* What a successful `verify' leaves: the nonce is spent, and the event    *)
(* ReplayProtectionInfo (here: forwarder and transaction) is in the log.   *)
spent(w, f, t) ==
  CASE Signed[t].authority = multiNonceAddress ->
         [w EXCEPT !.nonces[indexOf(f, t)] = nonceStored(@)]
    [] Signed[t].authority = bitFlipAddress ->
         [w EXCEPT !.flips[indexOf(f, t)] = bitflipStored(@, Signed[t].bits)]
    [] OTHER ->
         [w EXCEPT !.bitmaps[targetIndexOf(f, t)] = updateStored(@, Signed[t].bits)]
verified_NotSpent(w, f, t) ==  \* broken: the nonce is not written
  [w EXCEPT !.accepted = Append(@, [at |-> f, tx |-> t])]
verified(w, f, t) ==
  [spent(w, f, t) EXCEPT !.accepted = Append(@, [at |-> f, tx |-> t])]

-----------------------------------------------------------------------------
(* Two log entries draw on the same queue or bitmap ...                    *)
SameQueue(d, e) ==
  /\ d.at = e.at
  /\ recover(d.at, d.tx) = recover(e.at, e.tx)
  /\ Signed[d.tx].authority = Signed[e.tx].authority
  /\ Signed[d.tx].queue = Signed[e.tx].queue

(* ... and are the same use of replay protection.                          *)
SameUse(d, e) ==
  /\ SameQueue(d, e)
  /\ IF Signed[d.tx].authority = multiNonceAddress
     THEN Signed[d.tx].nonce = Signed[e.tx].nonce
     ELSE Signed[d.tx].bits = Signed[e.tx].bits
=============================================================================

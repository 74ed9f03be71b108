------------------------------ MODULE Forwarder ------------------------------
(***************************************************************************)
(* What the forwarder classes share: the abstract class Forwarder.  ABI    *)
(* encoding and keccak256 are injective, so an encoded or hashed value is  *)
(* the tuple of what goes into it.  A user's object is a record; a field   *)
(* that it leaves out is Absent.                                           *)
(***************************************************************************)
EXTENDS SequencesExt

CONSTANT Absent

Default(x, default) == IF x = Absent THEN default ELSE x

isDeployTx(t) == t.salt # Absent

(* A call of the DelegateDeployer.                                         *)
encodeForDeploy(initCode, extraData, value) ==
  [to |-> "DelegateDeployer", data |-> <<initCode, value, extraData>>]

(* The address at which CREATE2 puts a contract.                           *)
create2(from, salt, initCode) == [from |-> from, salt |-> salt, initCode |-> initCode]

(* DelegateDeployer.deploy: where it creates the contract.  The account    *)
(* that makes the call (context) is the creator if it delegates it.        *)
deploy(context, c) ==
  create2(IF c.callType = "DELEGATE" THEN context ELSE "DelegateDeployer", c.data[3], c.data[1])
=============================================================================

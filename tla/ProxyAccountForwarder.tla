------------------------ MODULE ProxyAccountForwarder ------------------------
(* The methods of the class, and the tuple that its contract hashes.       *)
EXTENDS Forwarder

defaultCallData(d) ==
  [to |-> d.to, value |-> Default(d.value, 0), data |-> Default(d.data, "0x"),
   callType |-> Default(d.callType, "CALL")]

defaultRevertableCallData(d) ==
  LET c == defaultCallData(d)
  IN [to |-> c.to, value |-> c.value, data |-> c.data, callType |-> c.callType,
      revertOnFail |-> Default(d.revertOnFail, FALSE)]

deployDataToCallData_Call(initCode, extraData, value) ==  \* broken: the wallet calls the deployer
  LET c == encodeForDeploy(initCode, extraData, value)
  IN [to |-> c.to, data |-> c.data, value |-> 0, callType |-> "CALL"]
deployDataToCallData(initCode, extraData, value) ==
  LET c == encodeForDeploy(initCode, extraData, value)
  IN [to |-> c.to, data |-> c.data, value |-> 0, callType |-> "DELEGATE"]

deployDataToBatchCallData(initCode, extraData, value, revertOnFail) ==
  LET c == encodeForDeploy(initCode, extraData, value)
  IN [to |-> c.to, data |-> c.data, value |-> 0, callType |-> "DELEGATE",
      revertOnFail |-> Default(revertOnFail, FALSE)]

(* The wallet creates the contract: CREATE2 runs in its context.           *)
computeAddressForDeployedContract(address, initData, extraData) ==
  create2(address, extraData, initData)

(* Where the wallet of a signer is: a clone of the base account.           *)
getAddress(signersAddress) ==
  create2("ProxyAccountDeployer", signersAddress, "clone of BaseAccount")

getWalletDeployTransaction(signersAddress) ==
  [to |-> "ProxyAccountDeployer", signer |-> signersAddress]

(* createProxyAccount: the address of the clone it makes for call c.       *)
createClone(c) == create2(c.to, c.signer, "clone of BaseAccount")

encodeCallData(d) ==
  LET defaulted == defaultCallData(d)
  IN <<defaulted.callType, defaulted.to, defaulted.value, defaulted.data>>

encodeForForward(d) == defaultCallData(d)

(* The fields of a call in the order in which an array of them is encoded. *)
tupleOf(c) == <<c.to, c.value, c.data, c.revertOnFail, c.callType>>

encodeBatchCallData(txBatch) ==
  <<"BATCH", [i \in DOMAIN txBatch |-> tupleOf(defaultRevertableCallData(txBatch[i]))]>>

encodeForBatchForward(txBatch) ==
  [i \in DOMAIN txBatch |-> defaultRevertableCallData(txBatch[i])]

(* The arguments of `forward' and `batch' as the ABI lays them out, each   *)
(* struct in the order of its declaration; authorised stands for the three *)
(* that follow the calls.                                                  *)
forwardArguments(c, authorised)   == << <<c.to, c.value, c.data, c.callType>> >> \o authorised
batchArguments(calls, authorised) == << [i \in DOMAIN calls |-> tupleOf(calls[i])] >> \o authorised

decodeTx(args) ==
  [_metaTx |-> [to |-> args[1][1], value |-> args[1][2], data |-> args[1][3],
                callType |-> args[1][4]],
   _replayProtection |-> args[2], _replayProtectionAuthority |-> args[3],
   _signature |-> args[4]]

(* A flag and a call type are a word each: true is the word of DELEGATE.   *)
decodeBatchTx_AsForward(args) ==  \* broken: the order of MetaTx, not of RevertableMetaTx
  [_metaTxList |->
     [i \in DOMAIN args[1] |->
        LET a == args[1][i]
        IN [to |-> a[1], value |-> a[2], data |-> a[3],
            callType |-> IF a[4] THEN "DELEGATE" ELSE "CALL",
            revertOnFail |-> a[5] = "DELEGATE"]],
   _replayProtection |-> args[2], _replayProtectionAuthority |-> args[3],
   _signature |-> args[4]]
decodeBatchTx(args) ==
  [_metaTxList |->
     [i \in DOMAIN args[1] |->
        LET a == args[1][i]
        IN [to |-> a[1], value |-> a[2], data |-> a[3], revertOnFail |-> a[4],
            callType |-> a[5]]],
   _replayProtection |-> args[2], _replayProtectionAuthority |-> args[3],
   _signature |-> args[4]]

(* encodedData in ProxyAccount.forward and in ProxyAccount.batch.          *)
encodedForward(c)   == <<c.callType, c.to, c.value, c.data>>
encodedBatch_NoCallType(calls) ==  \* broken: how to call is not signed
  <<"BATCH", [i \in DOMAIN calls |-> tupleOf([calls[i] EXCEPT !.callType = "CALL"])]>>
encodedBatch(calls) == <<"BATCH", [i \in DOMAIN calls |-> tupleOf(calls[i])]>>
=============================================================================

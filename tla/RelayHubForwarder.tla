-------------------------- MODULE RelayHubForwarder --------------------------
(* The methods of the class, and the tuple that its contract hashes.  The  *)
(* hub has no ether: its calls carry no value, nor do its deployments.     *)
EXTENDS Forwarder

callDataWithDefaults(d) == [to |-> d.to, data |-> Default(d.data, "0x")]

revertableCallDataWithDefaults(d) ==
  LET c == callDataWithDefaults(d)
  IN [to |-> c.to, data |-> c.data, revertOnFail |-> Default(d.revertOnFail, FALSE)]

deployDataToCallData(initCode, extraData) == encodeForDeploy(initCode, extraData, 0)

deployDataToBatchCallData(initCode, extraData, revertOnFail) ==
  LET c == encodeForDeploy(initCode, extraData, 0)
  IN [to |-> c.to, data |-> c.data, revertOnFail |-> Default(revertOnFail, FALSE)]

encodeCallData(d) ==
  LET defaulted == callDataWithDefaults(d) IN <<"CALL", defaulted.to, defaulted.data>>

encodeForForward(d) == callDataWithDefaults(d)

tupleOf(c) == <<c.to, c.data, c.revertOnFail>>

encodeBatchCallData(batchTx) ==
  <<"BATCH", [i \in DOMAIN batchTx |-> tupleOf(revertableCallDataWithDefaults(batchTx[i]))]>>

encodeForBatchForward_Default(batchTx) ==  \* broken: another default than the signed one
  [i \in DOMAIN batchTx |->
     [revertableCallDataWithDefaults(batchTx[i])
        EXCEPT !.revertOnFail = Default(batchTx[i].revertOnFail, TRUE)]]
encodeForBatchForward(batchTx) ==
  [i \in DOMAIN batchTx |-> revertableCallDataWithDefaults(batchTx[i])]

(* The arguments of `forward' and `batch' as the ABI lays them out.        *)
forwardArguments(c, authorised)   == << <<c.to, c.data>> >> \o authorised
batchArguments(calls, authorised) == << [i \in DOMAIN calls |-> tupleOf(calls[i])] >> \o authorised

decodeTx(args) ==
  [_metaTx |-> [to |-> args[1][1], data |-> args[1][2]],
   _replayProtection |-> args[2], _replayProtectionAuthority |-> args[3],
   _signature |-> args[4]]

decodeBatchTx(args) ==
  [_metaTxList |->
     [i \in DOMAIN args[1] |->
        LET a == args[1][i] IN [to |-> a[1], data |-> a[2], revertOnFail |-> a[3]]],
   _replayProtection |-> args[2], _replayProtectionAuthority |-> args[3],
   _signature |-> args[4]]

(* encodedData in RelayHub.forward and in RelayHub.batch.                  *)
encodedForward(c)   == <<"CALL", c.to, c.data>>
encodedBatch(calls) == <<"BATCH", [i \in DOMAIN calls |-> tupleOf(calls[i])]>>
=============================================================================

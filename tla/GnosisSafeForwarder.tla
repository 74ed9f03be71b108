------------------------- MODULE GnosisSafeForwarder -------------------------
(* The methods of the class and of MultiSender, through which it batches.  *)
(* The Safe itself is not in the repository: it runs one call, under the   *)
(* hash that hashAndSign builds.                                           *)
EXTENDS Forwarder

defaultCallData(d) ==
  [to |-> d.to, value |-> Default(d.value, 0), data |-> Default(d.data, "0x"),
   callType |-> Default(d.callType, "CALL")]

defaultRevertableCallData(d) ==
  LET c == defaultCallData(d)
  IN [to |-> c.to, value |-> c.value, data |-> c.data, callType |-> c.callType,
      revertOnFail |-> Default(d.revertOnFail, FALSE)]

deployDataToCallData(initCode, extraData, value) ==
  LET c == encodeForDeploy(initCode, extraData, value)
  IN [to |-> c.to, data |-> c.data, value |-> 0, callType |-> "DELEGATE"]

deployDataToBatchCallData(initCode, extraData, value, revertOnFail) ==
  LET c == encodeForDeploy(initCode, extraData, value)
  IN [to |-> c.to, data |-> c.data, value |-> 0, callType |-> "DELEGATE",
      revertOnFail |-> Default(revertOnFail, FALSE)]

(* The wallet creates the contract: CREATE2 runs in its context.           *)
computeAddressForDeployedContract(address, initData, extraData) ==
  create2(address, extraData, initData)

(* The constructor's defaults for its options.                             *)
defaultOptions(options) ==
  [proxyFactoryAddress     |-> Default(options.proxyFactoryAddress, "ProxyFactory"),
   gnosisSafeMasterAddress |-> Default(options.gnosisSafeMaster, "GnosisSafe")]

(* The calldata of the new Safe's setup (one owner, threshold one), and    *)
(* the salt, which holds the chain.                                        *)
setup(signersAddress) == <<signersAddress, 1>>
saltOf(chainId) == <<chainId, "anydotcryto">>

(* The creation code of the proxies: mainnet's factory was compiled by     *)
(* another compiler than the library's.                                    *)
ProxyCode(factory) ==
  IF factory = "PROXY_FACTORY_ADDRESS_MAINNET" THEN "mainnet's proxy" ELSE "library's proxy"

(* Where the Safe of a signer is.                                          *)
getAddress(signersAddress, chainId, options) ==
  create2(options.proxyFactoryAddress,
          <<setup(signersAddress), saltOf(chainId)>>,
          <<IF options.proxyFactoryAddress = "PROXY_FACTORY_ADDRESS_MAINNET"
            THEN "mainnet's proxy" ELSE "library's proxy",
            options.gnosisSafeMasterAddress>>)

getWalletDeployTransaction(signersAddress, chainId, options) ==
  [to |-> options.proxyFactoryAddress, master |-> options.gnosisSafeMasterAddress,
   setup |-> setup(signersAddress), salt |-> saltOf(chainId)]

(* The factory's own: where it creates the proxy for call c.               *)
createProxyWithNonce(c) ==
  create2(c.to, <<c.setup, c.salt>>, <<ProxyCode(c.to), c.master>>)

(* MultiSender.batch, and the struct MultiSend.batch decodes it to.        *)
batch(txs) ==
  [to   |-> "MultiSend",
   data |-> [i \in DOMAIN txs |-> <<txs[i].to, txs[i].value, txs[i].data,
                                    txs[i].revertOnFail, txs[i].callType>>]]
metaTxList(data) ==
  [i \in DOMAIN data |-> [to |-> data[i][1], value |-> data[i][2], data |-> data[i][3],
                          revertOnFail |-> data[i][4], callType |-> data[i][5]]]

decodeBatch(data) ==
  [i \in DOMAIN data |->
     LET a == data[i]
     IN [to |-> a[1], value |-> a[2], data |-> a[3], revertOnFail |-> a[4], callType |-> a[5]]]

(* What signAndEncodeBatchMetaTransaction passes on as a single call.      *)
batchCallData(dataList) ==
  LET c == batch([i \in DOMAIN dataList |-> defaultRevertableCallData(dataList[i])])
  IN [to |-> c.to, data |-> c.data, value |-> 0, callType |-> "DELEGATE"]

(* The arguments of execTransaction as the ABI lays them out: gas is not   *)
(* refunded, so the numbers and addresses about it are zero.               *)
execTransactionArguments(c, signature) ==
  <<c.to, c.value, c.data, c.callType, 0, 0, 0, "AddressZero", "AddressZero", signature>>

decodeTx(args) ==
  [to |-> args[1], value |-> args[2], data |-> args[3], operation |-> args[4],
   safeTxGas |-> args[5], baseGas |-> args[6], gasPrice |-> args[7],
   gasToken |-> args[8], refundReceiver |-> args[9], signatures |-> args[10]]

hashAndSign(c) == <<c.to, c.value, c.data, c.callType>>

(* The hash that the Safe recovers the signer from in execTransaction.     *)
transactionHash(c) == <<c.to, c.value, c.data, c.callType>>
=============================================================================

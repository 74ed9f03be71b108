-------------------------- MODULE MetaTransaction --------------------------
(***************************************************************************)
(* One call of signMetaTransaction, from the objects a user passes to the  *)
(* calls that the contract makes for them, for each of the three classes   *)
(* of forwarder.                                                           *)
(*                                                                         *)
(* The Proxy Account's and the RelayHub's forwarder read the objects       *)
(* twice: to sign them, before the replay protection is awaited, and to    *)
(* send them, after the signature is there.  The user may write to them in *)
(* between.  The Gnosis Safe's copies them before its first await.         *)
(***************************************************************************)
EXTENDS SequencesExt

CONSTANTS
  To,       \* targets
  Data,     \* calldata, or init code
  Amount,   \* wei
  Salt,     \* what a user may give as salt
  Absent,   \* an optional field that is left out
  MaxBatch  \* bound: calls in a batch

ASSUME AbsentAssumption ==
  /\ Absent \notin To /\ Absent \notin Data /\ Absent \notin Amount /\ Absent \notin Salt
  /\ Absent \notin BOOLEAN /\ Absent \notin {"CALL", "DELEGATE"}
  /\ Absent \notin Data \X (Amount \cup {0}) \X Salt
  /\ "DelegateDeployer" \notin To /\ "MultiSend" \notin To

ASSUME MaxBatchAssumption == MaxBatch \in Nat

PA == INSTANCE ProxyAccountForwarder
RH == INSTANCE RelayHubForwarder
GS == INSTANCE GnosisSafeForwarder

Kind == {"ProxyAccount", "RelayHub", "GnosisSafe"}

(* What the types let a user pass; with a salt it is a deployment.  A      *)
(* RelayHub call has no value and no callType, a single call no            *)
(* revertOnFail.                                                           *)
UserCall(k, b) ==
  LET opt(S)    == S \cup {Absent}
      wallet(S) == IF k = "RelayHub" THEN {Absent} ELSE opt(S)
      revert    == IF b THEN opt(BOOLEAN) ELSE {Absent}
  IN [to : To, data : IF k = "RelayHub" THEN Data ELSE opt(Data),
      value : wallet(Amount), salt : {Absent}, callType : wallet({"CALL", "DELEGATE"}),
      revertOnFail : revert]
     \cup
     [to : {Absent}, data : Data, value : wallet(Amount), salt : Salt,
      callType : {Absent}, revertOnFail : revert]

VARIABLES
  kind,     \* the forwarder in use
  isBatch,  \* an array was passed
  asked,    \* what was passed, a sequence of one if no array
  object,   \* the user's objects as they are now
  signed,   \* the tuple that is hashed for the signature
  sent,     \* the arguments that signMetaTransaction encoded
  relayed,  \* the arguments of the transaction a relayer published
  made,     \* the calls the contract makes
  pc

vars == <<kind, isBatch, asked, object, signed, sent, relayed, made, pc>>

Init ==
  /\ kind \in Kind
  /\ isBatch \in BOOLEAN
  /\ asked \in IF isBatch THEN SeqOf(UserCall(kind, TRUE), MaxBatch)
                          ELSE [1..1 -> UserCall(kind, FALSE)]
  /\ object = asked
  /\ signed = <<>> /\ sent = <<>> /\ relayed = <<>> /\ made = <<>>
  /\ pc = "called"

-----------------------------------------------------------------------------
(* The user's call, or the call that deploys.  An array is mapped, and     *)
(* revertOnFail is not passed on.                                          *)
callData(t) ==
  LET value == PA!Default(t.value, 0)
  IN IF ~PA!isDeployTx(t) THEN t
     ELSE CASE kind = "ProxyAccount" ->
                 IF isBatch THEN PA!deployDataToBatchCallData(t.data, t.salt, value, Absent)
                            ELSE PA!deployDataToCallData(t.data, t.salt, value)
            [] kind = "RelayHub" ->
                 IF isBatch THEN RH!deployDataToBatchCallData(t.data, t.salt, Absent)
                            ELSE RH!deployDataToCallData(t.data, t.salt)
            [] kind = "GnosisSafe" ->
                 IF isBatch THEN GS!deployDataToBatchCallData(t.data, t.salt, value, Absent)
                            ELSE GS!deployDataToCallData(t.data, t.salt, value)

callDataOf(objects) == [i \in DOMAIN objects |-> callData(objects[i])]

(* The single call a Safe runs.                                            *)
safeCall(calls) ==
  IF isBatch THEN GS!batchCallData(calls) ELSE GS!defaultCallData(calls[1])

(* What is signed for the calls,                                           *)
toSign(calls) ==
  CASE kind = "ProxyAccount" -> IF isBatch THEN PA!encodeBatchCallData(calls)
                                           ELSE PA!encodeCallData(calls[1])
    [] kind = "RelayHub"     -> IF isBatch THEN RH!encodeBatchCallData(calls)
                                           ELSE RH!encodeCallData(calls[1])
    [] kind = "GnosisSafe"   -> GS!hashAndSign(safeCall(calls))

(* what is sent for them,                                                  *)
toSend(calls) ==
  CASE kind = "ProxyAccount" -> IF isBatch THEN PA!encodeForBatchForward(calls)
                                           ELSE <<PA!encodeForForward(calls[1])>>
    [] kind = "RelayHub"     -> IF isBatch THEN RH!encodeForBatchForward(calls)
                                           ELSE <<RH!encodeForForward(calls[1])>>
    [] kind = "GnosisSafe"   -> <<safeCall(calls)>>

(* and the tuple the contract checks the signature against.                *)
encodedData(args) ==
  CASE kind = "ProxyAccount" -> IF isBatch THEN PA!encodedBatch(args)
                                           ELSE PA!encodedForward(args[1])
    [] kind = "RelayHub"     -> IF isBatch THEN RH!encodedBatch(args)
                                           ELSE RH!encodedForward(args[1])
    [] kind = "GnosisSafe"   -> GS!transactionHash(args[1])

(* The transaction's calldata: the calls, with what was signed along.      *)
Authorised == <<"replayProtection", "replayProtectionAuthority", "signature">>
calldata(args) ==
  CASE kind = "ProxyAccount" -> IF isBatch THEN PA!batchArguments(args, Authorised)
                                           ELSE PA!forwardArguments(args[1], Authorised)
    [] kind = "RelayHub"     -> IF isBatch THEN RH!batchArguments(args, Authorised)
                                           ELSE RH!forwardArguments(args[1], Authorised)
    [] kind = "GnosisSafe"   -> GS!execTransactionArguments(args[1], "signature")

-----------------------------------------------------------------------------
(* signMetaTransaction up to its first await.  (The Safe's hash is         *)
(* computed later, from the copy it makes here.)                           *)
SignMetaTransaction ==
  /\ pc = "called"
  /\ signed' = toSign(callDataOf(asked))
  /\ pc' = "signing"
  /\ UNCHANGED <<kind, isBatch, asked, object, sent, relayed, made>>

(* The user writes to an object of his, to point it at another target.     *)
Write(i, to) ==
  /\ pc = "signing"
  /\ ~PA!isDeployTx(object[i])
  /\ object' = [object EXCEPT ![i].to = to]
  /\ UNCHANGED <<kind, isBatch, asked, signed, sent, relayed, made, pc>>

(* The signature is there.  A deployment was copied when the call was      *)
(* made; any other call of a MiniForwarder is still the user's object.     *)
EncodeForForward ==
  /\ pc = "signing"
  /\ sent' = toSend(callDataOf(IF kind = "GnosisSafe" THEN asked ELSE object))
  /\ pc' = "sent"
  /\ UNCHANGED <<kind, isBatch, asked, object, signed, relayed, made>>

(* A relayer publishes a transaction with the signature: the one it was    *)
(* given, or one that differs from it in one respect.                      *)
Relay ==
  /\ pc = "sent"
  /\ \/ relayed' = sent
     \/ \E i \in DOMAIN sent, to \in To : relayed' = [sent EXCEPT ![i].to = to]
     \/ /\ kind # "RelayHub"
        /\ \E i \in DOMAIN sent :
             \/ \E v \in Amount \cup {0} : relayed' = [sent EXCEPT ![i].value = v]
             \/ \E c \in {"CALL", "DELEGATE"} : relayed' = [sent EXCEPT ![i].callType = c]
     \/ /\ isBatch /\ kind # "GnosisSafe"
        /\ \/ relayed' = Reverse(sent)
           \/ sent # <<>> /\ relayed' = Tail(sent)
           \/ \E i \in DOMAIN sent : relayed' = [sent EXCEPT ![i].revertOnFail = ~@]
     \/ /\ isBatch /\ kind = "GnosisSafe"
        /\ relayed' = [sent EXCEPT ![1].data = Reverse(@)]
  /\ pc' = "relayed"
  /\ UNCHANGED <<kind, isBatch, asked, object, signed, sent, made>>

(* The contract: the signer of the tuple it builds is recovered, and is    *)
(* the user if the user signed that tuple; then the calls are made.  A     *)
(* Safe delegates to MultiSend, which makes the calls of the list.         *)
Execute ==
  /\ pc = "relayed"
  /\ IF encodedData(relayed) = signed
     THEN /\ made' = IF kind = "GnosisSafe" /\ isBatch
                     THEN GS!metaTxList(relayed[1].data) ELSE relayed
          /\ pc' = "executed"
     ELSE /\ UNCHANGED made
          /\ pc' = "rejected"
  /\ UNCHANGED <<kind, isBatch, asked, object, signed, sent, relayed>>

Next ==
  \/ SignMetaTransaction
  \/ \E i \in DOMAIN object, to \in To : Write(i, to)
  \/ EncodeForForward
  \/ Relay
  \/ Execute

Spec == Init /\ [][Next]_vars

-----------------------------------------------------------------------------
(* The calls a contract makes are those the user asked for when he called  *)
(* signMetaTransaction, one by one and in that order, whatever happened to *)
(* his objects since and whatever the relayer published: a deployment goes *)
(* through the DelegateDeployer with his init code, amount and salt.       *)
(* (Its revertOnFail is the subject of RevertsAsAsked, its address of      *)
(* DeployedWhereComputed.)                                                 *)
ExecutedAsAsked ==
  pc = "executed" =>
    /\ Len(made) = Len(asked)
    /\ \A i \in DOMAIN asked :
         LET a      == asked[i]
             m      == made[i]
             wallet == kind # "RelayHub"
             amount == IF a.value = Absent THEN 0 ELSE a.value
         IN IF a.salt # Absent
            THEN /\ m.to = "DelegateDeployer" /\ m.data = <<a.data, amount, a.salt>>
                 /\ wallet => m.value = 0
            ELSE /\ m.to = a.to
                 /\ m.data = IF a.data = Absent THEN "0x" ELSE a.data
                 /\ wallet => /\ m.value = amount
                              /\ m.callType = "DELEGATE" <=> a.callType = "DELEGATE"
                 /\ isBatch => (m.revertOnFail <=> a.revertOnFail = TRUE)

(* A deployment ends up at the address that the wallet's forwarder         *)
(* computed for it, which tells its user where to find it, be it made      *)
(* alone, in a batch, or through MultiSend.                                *)
DeployedWhereComputed ==
  pc = "executed" /\ kind # "RelayHub" =>
    \A i \in DOMAIN asked : asked[i].salt # Absent =>
      LET a == asked[i]
      IN PA!deploy("wallet", made[i]) =
           IF kind = "ProxyAccount"
           THEN PA!computeAddressForDeployedContract("wallet", a.data, a.salt)
           ELSE GS!computeAddressForDeployedContract("wallet", a.data, a.salt)

(* What is sent is accepted if the relayer passes it on: signing, sending  *)
(* and the contract put the same defaults in the same fields.  Only a      *)
(* write by the user between the two readings can spoil it, and that not   *)
(* for a Safe.                                                             *)
RejectedOnlyIfWritten ==
  pc = "rejected" /\ relayed = sent => kind # "GnosisSafe" /\ object # asked

(* Whoever decodes a transaction that a contract executed, with decodeTx,  *)
(* decodeBatchTx or (for what a Safe delegates to MultiSend) decodeBatch,  *)
(* reads the calls the contract made, field by field, and finds the replay *)
(* protection and the signature it was authorised with in their places.    *)
DecodedAsMade ==
  pc = "executed" =>
    LET args == calldata(relayed)
        authorised(d) == <<d._replayProtection, d._replayProtectionAuthority, d._signature>>
    IN CASE kind # "GnosisSafe" /\ ~isBatch ->
              LET d == IF kind = "RelayHub" THEN RH!decodeTx(args) ELSE PA!decodeTx(args)
              IN made = <<d._metaTx>> /\ authorised(d) = Authorised
         [] kind # "GnosisSafe" /\ isBatch ->
              LET d == IF kind = "RelayHub" THEN RH!decodeBatchTx(args) ELSE PA!decodeBatchTx(args)
              IN made = d._metaTxList /\ authorised(d) = Authorised
         [] OTHER ->
              LET d == GS!decodeTx(args)
              IN /\ made = IF isBatch THEN GS!decodeBatch(d.data)
                           ELSE <<[to |-> d.to, value |-> d.value, data |-> d.data,
                                   callType |-> d.operation]>>
                 /\ d.signatures = "signature" /\ d.gasPrice = 0

(* proxyAccounts.md:253: "An additional feature is `revertOnFail` which    *)
(* lets you decide if the entire batch of transactions should revert if    *)
(* the meta-transaction fails."  Read as a property of every element of    *)
(* the batch that signMetaTransaction's types let a user write.            *)
RevertsAsAsked ==
  pc = "executed" /\ isBatch =>
    \A i \in DOMAIN asked : asked[i].revertOnFail = TRUE => made[i].revertOnFail
=============================================================================

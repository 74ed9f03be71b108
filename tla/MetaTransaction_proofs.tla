----------------------- MODULE MetaTransaction_proofs -----------------------
(***************************************************************************)
(* Proofs about MetaTransaction, for any targets, data, amounts and salts  *)
(* and batches of any length.  What is signed determines, field by field,  *)
(* what may be sent with the signature, in each class of forwarder and     *)
(* for single calls and batches.                                           *)
(***************************************************************************)
EXTENDS MetaTransaction, SequenceTheorems, TLAPS

(* A sequence whose elements are known by their index.                     *)
IsList(s) == \E n \in Nat : s = [i \in 1..n |-> s[i]]

(* The arguments of a transaction have the fields of the contract's        *)
(* struct, and no other.                                                   *)
HasFields(c) ==
  CASE kind = "ProxyAccount" /\ isBatch ->
         c = [to |-> c.to, value |-> c.value, data |-> c.data, callType |-> c.callType,
              revertOnFail |-> c.revertOnFail]
    [] kind = "RelayHub" /\ isBatch ->
         c = [to |-> c.to, data |-> c.data, revertOnFail |-> c.revertOnFail]
    [] kind = "RelayHub" /\ ~isBatch -> c = [to |-> c.to, data |-> c.data]
    [] OTHER ->
         c = [to |-> c.to, value |-> c.value, data |-> c.data, callType |-> c.callType]
Formed(args) ==
  /\ IsList(args)
  /\ kind = "GnosisSafe" \/ ~isBatch => DOMAIN args = {1}
  /\ \A i \in DOMAIN args : HasFields(args[i])

-----------------------------------------------------------------------------
LEMMA ListOfOne ==
  ASSUME NEW s, IsList(s), DOMAIN s = {1}
  PROVE  s = <<s[1]>>
<1>1. PICK n \in Nat : s = [i \in 1..n |-> s[i]]
  BY DEF IsList
<1>2. 1..n = {1}
  BY <1>1
<1>3. n = 1
  BY <1>2
<1> QED BY <1>1, <1>3

(* Two arguments for which the contract builds the same tuple are the      *)
(* same: what is accepted with a signature is what the library encodes for *)
(* the calls that were signed.                                             *)
LEMMA SentIsSigned ==
  ASSUME kind \in Kind, isBatch \in BOOLEAN,
         NEW calls, IsList(calls), isBatch \/ DOMAIN calls = {1},
         NEW args, Formed(args), encodedData(args) = toSign(calls)
  PROVE  args = toSend(calls)
<1>1. CASE kind = "ProxyAccount" /\ isBatch
  <2>1. PA!encodedBatch(args) = PA!encodeBatchCallData(calls)
    BY <1>1 DEF encodedData, toSign
  <2>2. [i \in DOMAIN args |-> PA!tupleOf(args[i])]
          = [i \in DOMAIN calls |-> PA!tupleOf(PA!defaultRevertableCallData(calls[i]))]
    BY <2>1 DEF PA!encodedBatch, PA!encodeBatchCallData
  <2>3. DOMAIN args = DOMAIN calls
    BY <2>2
  <2>4. ASSUME NEW i \in DOMAIN calls
        PROVE  args[i] = PA!defaultRevertableCallData(calls[i])
    <3>1. PA!tupleOf(args[i]) = PA!tupleOf(PA!defaultRevertableCallData(calls[i]))
      BY <2>2, <2>3
    <3>2. HasFields(args[i])
      BY <2>3 DEF Formed
    <3>3. args[i] = [to |-> args[i].to, value |-> args[i].value, data |-> args[i].data,
                     callType |-> args[i].callType, revertOnFail |-> args[i].revertOnFail]
      BY <1>1, <3>2 DEF HasFields
    <3> QED BY <3>1, <3>3 DEF PA!tupleOf, PA!defaultRevertableCallData
  <2>5. args = PA!encodeForBatchForward(calls)
    BY <2>3, <2>4 DEF Formed, IsList, PA!encodeForBatchForward
  <2> QED BY <1>1, <2>5 DEF toSend
<1>2. CASE kind = "ProxyAccount" /\ ~isBatch
  <2>1. PA!encodedForward(args[1]) = PA!encodeCallData(calls[1])
    BY <1>2 DEF encodedData, toSign
  <2>2. args[1] = [to |-> args[1].to, value |-> args[1].value, data |-> args[1].data,
                   callType |-> args[1].callType]
    BY <1>2 DEF Formed, HasFields
  <2>3. args[1] = PA!encodeForForward(calls[1])
    BY <2>1, <2>2 DEF PA!encodedForward, PA!encodeCallData, PA!encodeForForward, PA!defaultCallData
  <2>4. args = <<args[1]>>
    BY <1>2, ListOfOne DEF Formed
  <2> QED BY <1>2, <2>3, <2>4 DEF toSend
<1>3. CASE kind = "RelayHub" /\ isBatch
  <2>1. RH!encodedBatch(args) = RH!encodeBatchCallData(calls)
    BY <1>3 DEF encodedData, toSign
  <2>2. [i \in DOMAIN args |-> RH!tupleOf(args[i])]
          = [i \in DOMAIN calls |-> RH!tupleOf(RH!revertableCallDataWithDefaults(calls[i]))]
    BY <2>1 DEF RH!encodedBatch, RH!encodeBatchCallData
  <2>3. DOMAIN args = DOMAIN calls
    BY <2>2
  <2>4. ASSUME NEW i \in DOMAIN calls
        PROVE  args[i] = RH!revertableCallDataWithDefaults(calls[i])
    <3>1. RH!tupleOf(args[i]) = RH!tupleOf(RH!revertableCallDataWithDefaults(calls[i]))
      BY <2>2, <2>3
    <3>2. HasFields(args[i])
      BY <2>3 DEF Formed
    <3>3. args[i] = [to |-> args[i].to, data |-> args[i].data,
                     revertOnFail |-> args[i].revertOnFail]
      BY <1>3, <3>2 DEF HasFields
    <3> QED BY <3>1, <3>3 DEF RH!tupleOf, RH!revertableCallDataWithDefaults
  <2>5. args = RH!encodeForBatchForward(calls)
    BY <2>3, <2>4 DEF Formed, IsList, RH!encodeForBatchForward
  <2> QED BY <1>3, <2>5 DEF toSend
<1>4. CASE kind = "RelayHub" /\ ~isBatch
  <2>1. RH!encodedForward(args[1]) = RH!encodeCallData(calls[1])
    BY <1>4 DEF encodedData, toSign
  <2>2. args[1] = [to |-> args[1].to, data |-> args[1].data]
    BY <1>4 DEF Formed, HasFields
  <2>3. args[1] = RH!encodeForForward(calls[1])
    BY <2>1, <2>2 DEF RH!encodedForward, RH!encodeCallData, RH!encodeForForward,
       RH!callDataWithDefaults
  <2>4. args = <<args[1]>>
    BY <1>4, ListOfOne DEF Formed
  <2> QED BY <1>4, <2>3, <2>4 DEF toSend
<1>5. CASE kind = "GnosisSafe"
  <2>1. GS!transactionHash(args[1]) = GS!hashAndSign(safeCall(calls))
    BY <1>5 DEF encodedData, toSign
  <2>2. args[1] = [to |-> args[1].to, value |-> args[1].value, data |-> args[1].data,
                   callType |-> args[1].callType]
    BY <1>5 DEF Formed, HasFields
  <2>3. safeCall(calls) = [to |-> safeCall(calls).to, value |-> safeCall(calls).value,
                           data |-> safeCall(calls).data, callType |-> safeCall(calls).callType]
    BY DEF safeCall, GS!batchCallData, GS!defaultCallData
  <2>4. args[1] = safeCall(calls)
    BY <2>1, <2>2, <2>3 DEF GS!transactionHash, GS!hashAndSign
  <2>5. args = <<args[1]>>
    BY <1>5, ListOfOne DEF Formed
  <2> QED BY <1>5, <2>4, <2>5 DEF toSend
<1> QED BY <1>1, <1>2, <1>3, <1>4, <1>5 DEF Kind

(* And what the library sends is what it signed.                           *)
LEMMA SendsWhatItSigns ==
  ASSUME kind \in Kind, isBatch \in BOOLEAN, NEW calls
  PROVE  encodedData(toSend(calls)) = toSign(calls)
<1>1. CASE kind = "ProxyAccount"
  BY <1>1 DEF encodedData, toSend, toSign, PA!encodedBatch, PA!encodeBatchCallData,
     PA!encodeForBatchForward, PA!encodedForward, PA!encodeCallData, PA!encodeForForward
<1>2. CASE kind = "RelayHub"
  BY <1>2 DEF encodedData, toSend, toSign, RH!encodedBatch, RH!encodeBatchCallData,
     RH!encodeForBatchForward, RH!encodedForward, RH!encodeCallData, RH!encodeForForward
<1>3. CASE kind = "GnosisSafe"
  BY <1>3 DEF encodedData, toSend, toSign, GS!transactionHash, GS!hashAndSign
<1> QED BY <1>1, <1>2, <1>3 DEF Kind

(* It sends one well-formed struct per call.                               *)
LEMMA SendFormed ==
  ASSUME kind \in Kind, isBatch \in BOOLEAN,
         NEW calls, IsList(calls), isBatch \/ DOMAIN calls = {1}
  PROVE  Formed(toSend(calls))
<1>1. PICK n \in Nat : calls = [i \in 1..n |-> calls[i]]
  BY DEF IsList
<1>2. ASSUME NEW c PROVE IsList(<<c>>) /\ DOMAIN <<c>> = {1} /\ <<c>>[1] = c
  BY DEF IsList
<1>3. CASE kind = "ProxyAccount" /\ isBatch
  <2>1. toSend(calls) = [i \in 1..n |-> PA!defaultRevertableCallData(calls[i])]
    BY <1>1, <1>3 DEF toSend, PA!encodeForBatchForward
  <2>2. \A c : HasFields(PA!defaultRevertableCallData(c))
    BY <1>3 DEF HasFields, PA!defaultRevertableCallData
  <2> QED BY <1>3, <2>1, <2>2 DEF Formed, IsList
<1>4. CASE kind = "ProxyAccount" /\ ~isBatch
  <2>1. toSend(calls) = <<PA!defaultCallData(calls[1])>>
    BY <1>4 DEF toSend, PA!encodeForForward
  <2>2. HasFields(PA!defaultCallData(calls[1]))
    BY <1>4 DEF HasFields, PA!defaultCallData
  <2> QED BY <1>2, <1>4, <2>1, <2>2 DEF Formed
<1>5. CASE kind = "RelayHub" /\ isBatch
  <2>1. toSend(calls) = [i \in 1..n |-> RH!revertableCallDataWithDefaults(calls[i])]
    BY <1>1, <1>5 DEF toSend, RH!encodeForBatchForward
  <2>2. \A c : HasFields(RH!revertableCallDataWithDefaults(c))
    BY <1>5 DEF HasFields, RH!revertableCallDataWithDefaults
  <2> QED BY <1>5, <2>1, <2>2 DEF Formed, IsList
<1>6. CASE kind = "RelayHub" /\ ~isBatch
  <2>1. toSend(calls) = <<RH!callDataWithDefaults(calls[1])>>
    BY <1>6 DEF toSend, RH!encodeForForward
  <2>2. HasFields(RH!callDataWithDefaults(calls[1]))
    BY <1>6 DEF HasFields, RH!callDataWithDefaults
  <2> QED BY <1>2, <1>6, <2>1, <2>2 DEF Formed
<1>7. CASE kind = "GnosisSafe"
  <2>1. toSend(calls) = <<safeCall(calls)>>
    BY <1>7 DEF toSend
  <2>2. HasFields(safeCall(calls))
    BY <1>7 DEF HasFields, safeCall, GS!batchCallData, GS!defaultCallData
  <2> QED BY <1>2, <1>7, <2>1, <2>2 DEF Formed
<1> QED BY <1>3, <1>4, <1>5, <1>6, <1>7 DEF Kind

(* One who publishes it with another field, order or number of calls still *)
(* publishes well-formed structs.                                          *)
LEMMA ExceptHasFields ==
  ASSUME kind \in Kind, isBatch \in BOOLEAN, NEW c, HasFields(c), NEW x
  PROVE  /\ HasFields([c EXCEPT !.to = x])
         /\ kind # "RelayHub" => /\ HasFields([c EXCEPT !.value = x])
                                 /\ HasFields([c EXCEPT !.callType = x])
         /\ kind = "GnosisSafe" => HasFields([c EXCEPT !.data = x])
         /\ isBatch /\ kind # "GnosisSafe" => HasFields([c EXCEPT !.revertOnFail = x])
<1>1. CASE kind = "ProxyAccount" /\ isBatch
  <2>1. c = [to |-> c.to, value |-> c.value, data |-> c.data, callType |-> c.callType,
             revertOnFail |-> c.revertOnFail]
    BY <1>1 DEF HasFields
  <2>2. ASSUME NEW d, d = [to |-> d.to, value |-> d.value, data |-> d.data,
                           callType |-> d.callType, revertOnFail |-> d.revertOnFail]
        PROVE  HasFields(d)
    BY <1>1, <2>2 DEF HasFields
  <2> QED BY <1>1, <2>1, <2>2
<1>2. CASE kind = "RelayHub" /\ isBatch
  <2>1. c = [to |-> c.to, data |-> c.data, revertOnFail |-> c.revertOnFail]
    BY <1>2 DEF HasFields
  <2>2. ASSUME NEW d, d = [to |-> d.to, data |-> d.data, revertOnFail |-> d.revertOnFail]
        PROVE  HasFields(d)
    BY <1>2, <2>2 DEF HasFields
  <2> QED BY <1>2, <2>1, <2>2
<1>3. CASE kind = "RelayHub" /\ ~isBatch
  <2>1. c = [to |-> c.to, data |-> c.data]
    BY <1>3 DEF HasFields
  <2>2. ASSUME NEW d, d = [to |-> d.to, data |-> d.data] PROVE HasFields(d)
    BY <1>3, <2>2 DEF HasFields
  <2> QED BY <1>3, <2>1, <2>2
<1>4. CASE kind = "GnosisSafe" \/ (kind = "ProxyAccount" /\ ~isBatch)
  <2>1. c = [to |-> c.to, value |-> c.value, data |-> c.data, callType |-> c.callType]
    BY <1>4 DEF HasFields
  <2>2. ASSUME NEW d, d = [to |-> d.to, value |-> d.value, data |-> d.data,
                           callType |-> d.callType]
        PROVE  HasFields(d)
    BY <1>4, <2>2 DEF HasFields
  <2> QED BY <1>4, <2>1, <2>2
<1> QED BY <1>1, <1>2, <1>3, <1>4 DEF Kind

LEMMA ExceptFormed ==
  ASSUME NEW args, Formed(args), NEW i \in DOMAIN args, NEW c, HasFields(c)
  PROVE  Formed([args EXCEPT ![i] = c])
<1> DEFINE new == [args EXCEPT ![i] = c]
<1>1. PICK n \in Nat : args = [j \in 1..n |-> args[j]]
  BY DEF Formed, IsList
<1>2. new = [j \in 1..n |-> new[j]] /\ DOMAIN new = DOMAIN args
  BY <1>1
<1>3. \A j \in DOMAIN new : HasFields(new[j])
  BY <1>2 DEF Formed
<1> HIDE DEF new
<1>4. Formed(new)
  BY <1>2, <1>3 DEF Formed, IsList
<1> QED BY <1>4 DEF new

LEMMA RelayFormed ==
  ASSUME kind \in Kind, isBatch \in BOOLEAN, Formed(sent), Relay
  PROVE  Formed(relayed')
<1>1. CASE relayed' = sent
  BY <1>1
<1>2. ASSUME NEW i \in DOMAIN sent, NEW x,
             \/ relayed' = [sent EXCEPT ![i].to = x]
             \/ kind # "RelayHub" /\ relayed' = [sent EXCEPT ![i].value = x]
             \/ kind # "RelayHub" /\ relayed' = [sent EXCEPT ![i].callType = x]
             \/ /\ isBatch /\ kind # "GnosisSafe"
                /\ relayed' = [sent EXCEPT ![i].revertOnFail = x]
             \/ kind = "GnosisSafe" /\ relayed' = [sent EXCEPT ![i].data = x]
      PROVE  Formed(relayed')
  <2>1. HasFields(sent[i])
    BY DEF Formed
  <2>2. ASSUME NEW c, HasFields(c), relayed' = [sent EXCEPT ![i] = c]
        PROVE  Formed(relayed')
    BY <2>2, ExceptFormed
  <2>3. CASE relayed' = [sent EXCEPT ![i].to = x]
    BY <2>1, <2>2, <2>3, ExceptHasFields
  <2>4. CASE kind # "RelayHub" /\ relayed' = [sent EXCEPT ![i].value = x]
    BY <2>1, <2>2, <2>4, ExceptHasFields
  <2>5. CASE kind # "RelayHub" /\ relayed' = [sent EXCEPT ![i].callType = x]
    BY <2>1, <2>2, <2>5, ExceptHasFields
  <2>6. CASE isBatch /\ kind # "GnosisSafe" /\ relayed' = [sent EXCEPT ![i].revertOnFail = x]
    BY <2>1, <2>2, <2>6, ExceptHasFields
  <2>7. CASE kind = "GnosisSafe" /\ relayed' = [sent EXCEPT ![i].data = x]
    BY <2>1, <2>2, <2>7, ExceptHasFields
  <2> QED BY <1>2, <2>3, <2>4, <2>5, <2>6, <2>7
<1>3. CASE isBatch /\ kind # "GnosisSafe" /\ relayed' = Reverse(sent)
  <2>1. PICK n \in Nat : sent = [i \in 1..n |-> sent[i]]
    BY DEF Formed, IsList
  <2>2. sent \in Seq({sent[i] : i \in 1..n}) /\ Len(sent) = n
    BY <2>1
  <2>3. relayed' = [i \in 1..n |-> sent[n - i + 1]]
    BY <1>3, <2>2 DEF Reverse
  <2>4. \A i \in 1..n : n - i + 1 \in 1..n
    BY <2>1
  <2>5. DOMAIN sent = 1..n /\ \A i \in 1..n : HasFields(sent[i])
    BY <2>1 DEF Formed
  <2>6. \A i \in 1..n : HasFields(relayed'[i])
    BY <2>3, <2>4, <2>5
  <2> QED BY <1>3, <2>3, <2>6 DEF Formed, IsList
<1>4. CASE isBatch /\ kind # "GnosisSafe" /\ sent # <<>> /\ relayed' = Tail(sent)
  <2>1. PICK n \in Nat : sent = [i \in 1..n |-> sent[i]]
    BY DEF Formed, IsList
  <2>2. sent \in Seq({sent[i] : i \in 1..n}) /\ Len(sent) = n /\ n # 0
    BY <1>4, <2>1
  <2>3. relayed' = [i \in 1..(n - 1) |-> sent[i + 1]]
    <3>1. /\ Tail(sent) \in Seq({sent[i] : i \in 1..n}) /\ Len(Tail(sent)) = n - 1
          /\ \A i \in 1..(n - 1) : Tail(sent)[i] = sent[i + 1]
      BY <1>4, <2>2, HeadTailProperties
    <3>2. Tail(sent) = [i \in 1..(n - 1) |-> Tail(sent)[i]]
      BY <3>1, LenProperties
    <3> QED BY <1>4, <3>1, <3>2
  <2>4. \A i \in 1..(n - 1) : i + 1 \in 1..n
    BY <2>1
  <2>5. DOMAIN sent = 1..n /\ \A i \in 1..n : HasFields(sent[i])
    BY <2>1 DEF Formed
  <2>6. \A i \in 1..(n - 1) : HasFields(relayed'[i])
    BY <2>3, <2>4, <2>5
  <2>7. n - 1 \in Nat
    BY <2>2
  <2> QED BY <1>4, <2>3, <2>6, <2>7 DEF Formed, IsList
<1>5. CASE /\ kind = "GnosisSafe"
           /\ relayed' = [sent EXCEPT ![1].data = Reverse(@)]
  <2>1. DOMAIN sent = {1}
    BY <1>5 DEF Formed
  <2> QED BY <1>2, <1>5, <2>1
<1>6. CASE /\ isBatch /\ kind # "GnosisSafe"
           /\ \E i \in DOMAIN sent : relayed' = [sent EXCEPT ![i].revertOnFail = ~@]
  BY <1>2, <1>6
<1> QED BY <1>1, <1>2, <1>3, <1>4, <1>5, <1>6 DEF Relay

-----------------------------------------------------------------------------
(* What was passed, and the user's objects, which stay objects of the same *)
(* types.                                                                  *)
Given ==
  /\ kind \in Kind /\ isBatch \in BOOLEAN
  /\ \E n \in Nat : /\ isBatch \/ n = 1
                    /\ asked \in [1..n -> UserCall(kind, isBatch)]
                    /\ object \in [1..n -> UserCall(kind, isBatch)]

(* What the steps so far have made of it.                                  *)
Read == IF kind = "GnosisSafe" THEN asked ELSE object
Progress ==
  /\ pc \in {"called", "signing", "sent", "relayed", "executed", "rejected"}
  /\ pc # "called" => signed = toSign(callDataOf(asked))
  /\ pc \notin {"called", "signing"} => sent = toSend(callDataOf(Read))
  /\ pc \in {"relayed", "executed", "rejected"} => Formed(relayed)
  /\ pc = "executed" =>
       /\ encodedData(relayed) = signed
       /\ made = IF kind = "GnosisSafe" /\ isBatch THEN GS!metaTxList(relayed[1].data)
                                                   ELSE relayed
  /\ pc = "rejected" => encodedData(relayed) # signed
IInv == Given /\ Progress

(* How objects are encoded never changes.                                  *)
LEMMA SameEncoding ==
  ASSUME UNCHANGED <<kind, isBatch>>
  PROVE  /\ \A objects : callDataOf(objects)' = callDataOf(objects)
         /\ \A calls : toSign(calls)' = toSign(calls) /\ toSend(calls)' = toSend(calls)
         /\ \A args : encodedData(args)' = encodedData(args)
<1>1. \A t : callData(t)' = callData(t)
  BY DEF callData
<1>2. \A objects : callDataOf(objects)' = callDataOf(objects)
  BY <1>1 DEF callDataOf
<1>3. \A calls : safeCall(calls)' = safeCall(calls)
  BY DEF safeCall
<1>4. \A calls : toSign(calls)' = toSign(calls)
  BY <1>3 DEF toSign
<1>5. \A calls : toSend(calls)' = toSend(calls)
  BY <1>3 DEF toSend
<1>6. \A args : encodedData(args)' = encodedData(args)
  BY DEF encodedData
<1> QED BY <1>2, <1>4, <1>5, <1>6

(* The calls of a list of objects are a list of the same length.           *)
LEMMA CallsOfObjects ==
  ASSUME Given, NEW objects \in {asked, object}
  PROVE  /\ IsList(callDataOf(objects)) /\ DOMAIN callDataOf(objects) = DOMAIN asked
         /\ isBatch \/ DOMAIN callDataOf(objects) = {1}
<1>1. PICK n \in Nat : /\ isBatch \/ n = 1
                       /\ asked \in [1..n -> UserCall(kind, isBatch)]
                       /\ object \in [1..n -> UserCall(kind, isBatch)]
  BY DEF Given
<1>2. DOMAIN objects = 1..n /\ DOMAIN asked = 1..n
  BY <1>1
<1>3. /\ callDataOf(objects) = [i \in 1..n |-> callDataOf(objects)[i]]
      /\ DOMAIN callDataOf(objects) = 1..n
  BY <1>2 DEF callDataOf
<1>4. isBatch \/ 1..n = {1}
  BY <1>1
<1> QED BY <1>2, <1>3, <1>4 DEF IsList

(* What is no deployment has a target, which may be written to.            *)
LEMMA WriteTo ==
  ASSUME NEW t \in UserCall(kind, isBatch), t.salt = Absent, NEW to \in To
  PROVE  [t EXCEPT !.to = to] \in UserCall(kind, isBatch)
<1>1. Absent \notin Salt
  BY AbsentAssumption
<1> QED BY <1>1 DEF UserCall

LEMMA InitIInv == Init => IInv
<1> SUFFICES ASSUME Init PROVE IInv
  OBVIOUS
<1>1. Given
  <2>1. CASE isBatch
    <3>1. PICK n \in 0..MaxBatch : asked \in [1..n -> UserCall(kind, TRUE)]
      BY <2>1 DEF Init, SeqOf
    <3>2. n \in Nat /\ isBatch = TRUE
      BY <2>1, MaxBatchAssumption DEF Init
    <3> QED BY <3>1, <3>2 DEF Init, Given
  <2>2. CASE ~isBatch
    BY <2>2 DEF Init, Given
  <2> QED BY <2>1, <2>2
<1>2. Progress
  BY DEF Init, Progress
<1> QED BY <1>1, <1>2 DEF IInv

LEMMA NextIInv == IInv /\ [Next]_vars => IInv'
<1> SUFFICES ASSUME IInv, [Next]_vars PROVE IInv'
  OBVIOUS
<1>1. UNCHANGED <<kind, isBatch, asked>>
  BY DEF Next, vars, SignMetaTransaction, Write, EncodeForForward, Relay, Execute
<1>2. ASSUME object' = object PROVE Given'
  BY <1>1, <1>2 DEF IInv, Given
<1>3. /\ callDataOf(asked)' = callDataOf(asked)
      /\ \A c : toSign(c)' = toSign(c) /\ toSend(c)' = toSend(c)
      /\ \A c : encodedData(c)' = encodedData(c)
      /\ \A c : Formed(c)' <=> Formed(c)
  BY <1>1, SameEncoding DEF Formed, HasFields
<1>4. CASE SignMetaTransaction
  BY <1>1, <1>2, <1>3, <1>4 DEF SignMetaTransaction, IInv, Progress
<1>5. ASSUME NEW i \in DOMAIN object, NEW to \in To, Write(i, to) PROVE IInv'
  <2>1. object'[i] = [object[i] EXCEPT !.to = to] /\ object[i] \in UserCall(kind, isBatch)
    BY <1>5 DEF Write, IInv, Given
  <2>2. object'[i] \in UserCall(kind, isBatch)
    BY <1>5, <2>1, WriteTo DEF Write, PA!isDeployTx
  <2>3. Given'
    BY <1>1, <1>5, <2>2 DEF Write, IInv, Given
  <2>4. Progress'
    BY <1>1, <1>3, <1>5 DEF Write, IInv, Progress
  <2> QED BY <2>3, <2>4 DEF IInv
<1>6. CASE EncodeForForward
  <2>1. Read' = Read /\ callDataOf(Read)' = callDataOf(Read)
    BY <1>1, <1>6, SameEncoding DEF EncodeForForward, Read
  <2> QED BY <1>1, <1>2, <1>3, <1>6, <2>1 DEF EncodeForForward, IInv, Progress, Read
<1>7. ASSUME object' = object PROVE callDataOf(Read)' = callDataOf(Read)
  BY <1>1, <1>7, SameEncoding DEF Read
<1>8. CASE Relay
  <2>1. Formed(sent)
    BY <1>8, CallsOfObjects, SendFormed DEF Relay, IInv, Progress, Given, Read
  <2>2. Formed(relayed')
    BY <1>8, <2>1, RelayFormed DEF IInv, Given
  <2>3. Progress'
    BY <1>1, <1>3, <1>7, <1>8, <2>2 DEF Relay, IInv, Progress
  <2> QED BY <1>2, <1>8, <2>3 DEF Relay, IInv
<1>9. CASE Execute
  <2>1. Progress'
    BY <1>1, <1>3, <1>7, <1>9 DEF Execute, IInv, Progress
  <2> QED BY <1>2, <1>9, <2>1 DEF Execute, IInv
<1>10. CASE UNCHANGED vars
  BY <1>1, <1>2, <1>3, <1>7, <1>10 DEF vars, IInv, Progress
<1> QED BY <1>4, <1>5, <1>6, <1>8, <1>9, <1>10 DEF Next

(* What is signed, sent and executed keeps to the user's object, and to    *)
(* what the program does with it, in every reachable state.                *)
THEOREM Invariance == Spec => []IInv
BY InitIInv, NextIInv, PTL DEF Spec

-----------------------------------------------------------------------------
(* The call that the contract makes for an object.                         *)
CallFor(t) ==
  CASE kind = "ProxyAccount" ->
         IF isBatch THEN PA!defaultRevertableCallData(callData(t))
                    ELSE PA!defaultCallData(callData(t))
    [] kind = "RelayHub" ->
         IF isBatch THEN RH!revertableCallDataWithDefaults(callData(t))
                    ELSE RH!callDataWithDefaults(callData(t))
    [] kind = "GnosisSafe" ->
         IF isBatch THEN GS!defaultRevertableCallData(callData(t))
                    ELSE GS!defaultCallData(callData(t))

(* A Safe's calls are unpacked from the data of its one call.              *)
LEMMA Unpacked ==
  ASSUME kind = "GnosisSafe", isBatch, NEW calls
  PROVE  GS!metaTxList(safeCall(calls).data)
           = [i \in DOMAIN calls |-> GS!defaultRevertableCallData(calls[i])]
<1> DEFINE txs  == [i \in DOMAIN calls |-> GS!defaultRevertableCallData(calls[i])]
           data == [i \in DOMAIN txs |-> <<txs[i].to, txs[i].value, txs[i].data,
                                           txs[i].revertOnFail, txs[i].callType>>]
<1>1. safeCall(calls).data = data
  BY DEF safeCall, GS!batchCallData, GS!batch
<1>2. DOMAIN data = DOMAIN calls /\ DOMAIN txs = DOMAIN calls
  OBVIOUS
<1>3. ASSUME NEW i \in DOMAIN calls
      PROVE  [to |-> data[i][1], value |-> data[i][2], data |-> data[i][3],
              revertOnFail |-> data[i][4], callType |-> data[i][5]]
               = GS!defaultRevertableCallData(calls[i])
  <2>1. data[i] = <<txs[i].to, txs[i].value, txs[i].data, txs[i].revertOnFail, txs[i].callType>>
    BY <1>2
  <2>2. txs[i] = GS!defaultRevertableCallData(calls[i])
    BY <1>2
  <2> QED BY <2>1, <2>2 DEF GS!defaultRevertableCallData
<1> HIDE DEF data, txs
<1> QED BY <1>1, <1>2, <1>3 DEF GS!metaTxList

LEMMA CallsMade ==
  ASSUME IInv, pc = "executed"
  PROVE  made = [i \in DOMAIN asked |-> CallFor(asked[i])]
<1> DEFINE calls == callDataOf(asked)
<1>1. kind \in Kind /\ isBatch \in BOOLEAN
  BY DEF IInv, Given
<1>2. IsList(calls) /\ DOMAIN calls = DOMAIN asked /\ (isBatch \/ DOMAIN calls = {1})
  BY CallsOfObjects DEF IInv
<1>3. relayed = toSend(calls)
  BY <1>1, <1>2, SentIsSigned DEF IInv, Progress
<1>4. \A i \in DOMAIN asked : calls[i] = callData(asked[i])
  BY DEF callDataOf
<1> HIDE DEF calls
<1>5. CASE kind = "ProxyAccount"
  <2>1. CASE isBatch
    <3>1. made = [i \in DOMAIN calls |-> PA!defaultRevertableCallData(calls[i])]
      BY <1>3, <1>5, <2>1 DEF IInv, Progress, toSend, PA!encodeForBatchForward
    <3>2. \A i \in DOMAIN asked : CallFor(asked[i]) = PA!defaultRevertableCallData(calls[i])
      BY <1>4, <1>5, <2>1 DEF CallFor
    <3> QED BY <1>2, <3>1, <3>2
  <2>2. CASE ~isBatch
    <3>1. made = <<PA!defaultCallData(calls[1])>>
      BY <1>3, <1>5, <2>2 DEF IInv, Progress, toSend, PA!encodeForForward
    <3>2. \A i \in DOMAIN asked : CallFor(asked[i]) = PA!defaultCallData(calls[i])
      BY <1>4, <1>5, <2>2 DEF CallFor
    <3> QED BY <1>2, <2>2, <3>1, <3>2
  <2> QED BY <2>1, <2>2
<1>6. CASE kind = "RelayHub"
  <2>1. CASE isBatch
    <3>1. made = [i \in DOMAIN calls |-> RH!revertableCallDataWithDefaults(calls[i])]
      BY <1>3, <1>6, <2>1 DEF IInv, Progress, toSend, RH!encodeForBatchForward
    <3>2. \A i \in DOMAIN asked : CallFor(asked[i]) = RH!revertableCallDataWithDefaults(calls[i])
      BY <1>4, <1>6, <2>1 DEF CallFor
    <3> QED BY <1>2, <3>1, <3>2
  <2>2. CASE ~isBatch
    <3>1. made = <<RH!callDataWithDefaults(calls[1])>>
      BY <1>3, <1>6, <2>2 DEF IInv, Progress, toSend, RH!encodeForForward
    <3>2. \A i \in DOMAIN asked : CallFor(asked[i]) = RH!callDataWithDefaults(calls[i])
      BY <1>4, <1>6, <2>2 DEF CallFor
    <3> QED BY <1>2, <2>2, <3>1, <3>2
  <2> QED BY <2>1, <2>2
<1>7. CASE kind = "GnosisSafe"
  <2>1. relayed = <<safeCall(calls)>>
    BY <1>3, <1>7 DEF toSend
  <2>2. CASE isBatch
    <3>1. made = GS!metaTxList(safeCall(calls).data)
      BY <1>7, <2>1, <2>2 DEF IInv, Progress
    <3>2. made = [i \in DOMAIN calls |-> GS!defaultRevertableCallData(calls[i])]
      BY <1>7, <2>2, <3>1, Unpacked
    <3>3. \A i \in DOMAIN asked : CallFor(asked[i]) = GS!defaultRevertableCallData(calls[i])
      BY <1>4, <1>7, <2>2 DEF CallFor
    <3> QED BY <1>2, <3>2, <3>3
  <2>3. CASE ~isBatch
    <3>1. made = <<GS!defaultCallData(calls[1])>>
      BY <2>1, <2>3 DEF IInv, Progress, safeCall
    <3>2. \A i \in DOMAIN asked : CallFor(asked[i]) = GS!defaultCallData(calls[i])
      BY <1>4, <1>7, <2>3 DEF CallFor
    <3> QED BY <1>2, <2>3, <3>1, <3>2
  <2> QED BY <2>2, <2>3
<1> QED BY <1>1, <1>5, <1>6, <1>7 DEF Kind

(* That call for a deployment, which delegates to the DelegateDeployer if  *)
(* a wallet makes it.                                                      *)
Wei(t) == IF t.value = Absent THEN 0 ELSE t.value
LEMMA CallForDeployment ==
  ASSUME kind \in Kind, isBatch \in BOOLEAN, NEW t \in UserCall(kind, isBatch), t.salt # Absent
  PROVE  /\ CallFor(t).to = "DelegateDeployer"
         /\ CallFor(t).data = <<t.data, Wei(t), t.salt>>
         /\ kind # "RelayHub" => /\ CallFor(t).value = 0
                                 /\ CallFor(t).callType = "DELEGATE"
<1>1. t.data \in Data /\ t.salt \in Salt /\ t.value \in Amount \cup {Absent}
  BY DEF UserCall
<1>2. <<t.data, Wei(t), t.salt>> # Absent
  <2>1. <<t.data, Wei(t), t.salt>> \in Data \X (Amount \cup {0}) \X Salt
    BY <1>1 DEF Wei
  <2> QED BY <2>1, AbsentAssumption
<1>3. "DELEGATE" # Absent
  BY AbsentAssumption
<1>4. kind = "RelayHub" => Wei(t) = 0
  BY DEF UserCall, Wei
<1>5. CASE kind = "ProxyAccount"
  <2>1. /\ callData(t).to = "DelegateDeployer" /\ callData(t).data = <<t.data, Wei(t), t.salt>>
        /\ callData(t).value = 0 /\ callData(t).callType = "DELEGATE"
    <3>1. CASE isBatch
      <4>1. callData(t) = PA!deployDataToBatchCallData(t.data, t.salt, Wei(t), Absent)
        BY <1>5, <3>1 DEF callData, PA!isDeployTx, PA!Default, Wei
      <4> QED BY <4>1 DEF PA!deployDataToBatchCallData, PA!encodeForDeploy
    <3>2. CASE ~isBatch
      <4>1. callData(t) = PA!deployDataToCallData(t.data, t.salt, Wei(t))
        BY <1>5, <3>2 DEF callData, PA!isDeployTx, PA!Default, Wei
      <4> QED BY <4>1 DEF PA!deployDataToCallData, PA!encodeForDeploy
    <3> QED BY <3>1, <3>2
  <2>2. CASE isBatch
    <3>1. CallFor(t) = PA!defaultRevertableCallData(callData(t))
      BY <1>5, <2>2 DEF CallFor
    <3> QED BY <1>2, <1>3, <2>1, <3>1 DEF PA!defaultRevertableCallData, PA!defaultCallData, PA!Default
  <2>3. CASE ~isBatch
    <3>1. CallFor(t) = PA!defaultCallData(callData(t))
      BY <1>5, <2>3 DEF CallFor
    <3> QED BY <1>2, <1>3, <2>1, <3>1 DEF PA!defaultCallData, PA!Default
  <2> QED BY <2>2, <2>3
<1>6. CASE kind = "RelayHub"
  <2>1. callData(t).to = "DelegateDeployer" /\ callData(t).data = <<t.data, Wei(t), t.salt>>
    <3>1. CASE isBatch
      <4>1. callData(t) = RH!deployDataToBatchCallData(t.data, t.salt, Absent)
        BY <1>6, <3>1 DEF callData, PA!isDeployTx
      <4> QED BY <1>4, <1>6, <4>1 DEF RH!deployDataToBatchCallData, RH!encodeForDeploy
    <3>2. CASE ~isBatch
      <4>1. callData(t) = RH!deployDataToCallData(t.data, t.salt)
        BY <1>6, <3>2 DEF callData, PA!isDeployTx
      <4> QED BY <1>4, <1>6, <4>1 DEF RH!deployDataToCallData, RH!encodeForDeploy
    <3> QED BY <3>1, <3>2
  <2>2. CASE isBatch
    <3>1. CallFor(t) = RH!revertableCallDataWithDefaults(callData(t))
      BY <1>6, <2>2 DEF CallFor
    <3> QED BY <1>2, <1>6, <2>1, <3>1 DEF RH!revertableCallDataWithDefaults, RH!callDataWithDefaults, RH!Default
  <2>3. CASE ~isBatch
    <3>1. CallFor(t) = RH!callDataWithDefaults(callData(t))
      BY <1>6, <2>3 DEF CallFor
    <3> QED BY <1>2, <1>6, <2>1, <3>1 DEF RH!callDataWithDefaults, RH!Default
  <2> QED BY <2>2, <2>3
<1>7. CASE kind = "GnosisSafe"
  <2>1. /\ callData(t).to = "DelegateDeployer" /\ callData(t).data = <<t.data, Wei(t), t.salt>>
        /\ callData(t).value = 0 /\ callData(t).callType = "DELEGATE"
    <3>1. CASE isBatch
      <4>1. callData(t) = GS!deployDataToBatchCallData(t.data, t.salt, Wei(t), Absent)
        BY <1>7, <3>1 DEF callData, PA!isDeployTx, PA!Default, Wei
      <4> QED BY <4>1 DEF GS!deployDataToBatchCallData, GS!encodeForDeploy
    <3>2. CASE ~isBatch
      <4>1. callData(t) = GS!deployDataToCallData(t.data, t.salt, Wei(t))
        BY <1>7, <3>2 DEF callData, PA!isDeployTx, PA!Default, Wei
      <4> QED BY <4>1 DEF GS!deployDataToCallData, GS!encodeForDeploy
    <3> QED BY <3>1, <3>2
  <2>2. CASE isBatch
    <3>1. CallFor(t) = GS!defaultRevertableCallData(callData(t))
      BY <1>7, <2>2 DEF CallFor
    <3> QED BY <1>2, <1>3, <2>1, <3>1 DEF GS!defaultRevertableCallData, GS!defaultCallData, GS!Default
  <2>3. CASE ~isBatch
    <3>1. CallFor(t) = GS!defaultCallData(callData(t))
      BY <1>7, <2>3 DEF CallFor
    <3> QED BY <1>2, <1>3, <2>1, <3>1 DEF GS!defaultCallData, GS!Default
  <2> QED BY <2>2, <2>3
<1> QED BY <1>5, <1>6, <1>7 DEF Kind

(* And for another call, which is as the user wrote it, with defaults for  *)
(* what he left out.                                                       *)
LEMMA CallForCall ==
  ASSUME kind \in Kind, isBatch \in BOOLEAN, NEW t \in UserCall(kind, isBatch), t.salt = Absent
  PROVE  /\ CallFor(t).to = t.to
         /\ CallFor(t).data = IF t.data = Absent THEN "0x" ELSE t.data
         /\ kind # "RelayHub" => /\ CallFor(t).value = Wei(t)
                                 /\ CallFor(t).callType = IF t.callType = Absent THEN "CALL"
                                                                                 ELSE t.callType
<1>1. callData(t) = t
  BY DEF callData, PA!isDeployTx
<1>2. CASE kind = "ProxyAccount" /\ isBatch
  <2>1. CallFor(t) = PA!defaultRevertableCallData(t)
    BY <1>1, <1>2 DEF CallFor
  <2> QED BY <1>2, <2>1 DEF PA!defaultRevertableCallData, PA!defaultCallData, PA!Default, Wei
<1>3. CASE kind = "ProxyAccount" /\ ~isBatch
  <2>1. CallFor(t) = PA!defaultCallData(t)
    BY <1>1, <1>3 DEF CallFor
  <2> QED BY <1>3, <2>1 DEF PA!defaultCallData, PA!Default, Wei
<1>4. CASE kind = "RelayHub" /\ isBatch
  <2>1. CallFor(t) = RH!revertableCallDataWithDefaults(t)
    BY <1>1, <1>4 DEF CallFor
  <2> QED BY <1>4, <2>1 DEF RH!revertableCallDataWithDefaults, RH!callDataWithDefaults, RH!Default
<1>5. CASE kind = "RelayHub" /\ ~isBatch
  <2>1. CallFor(t) = RH!callDataWithDefaults(t)
    BY <1>1, <1>5 DEF CallFor
  <2> QED BY <1>5, <2>1 DEF RH!callDataWithDefaults, RH!Default
<1>6. CASE kind = "GnosisSafe" /\ isBatch
  <2>1. CallFor(t) = GS!defaultRevertableCallData(t)
    BY <1>1, <1>6 DEF CallFor
  <2> QED BY <1>6, <2>1 DEF GS!defaultRevertableCallData, GS!defaultCallData, GS!Default, Wei
<1>7. CASE kind = "GnosisSafe" /\ ~isBatch
  <2>1. CallFor(t) = GS!defaultCallData(t)
    BY <1>1, <1>7 DEF CallFor
  <2> QED BY <1>7, <2>1 DEF GS!defaultCallData, GS!Default, Wei
<1> QED BY <1>2, <1>3, <1>4, <1>5, <1>6, <1>7 DEF Kind

(* In a batch it reverts the batch if it fails, if the user asked for that. *)
LEMMA CallForRevert ==
  ASSUME kind \in Kind, isBatch, NEW t \in UserCall(kind, isBatch), t.salt = Absent
  PROVE  CallFor(t).revertOnFail = IF t.revertOnFail = Absent THEN FALSE ELSE t.revertOnFail
<1>1. callData(t) = t
  BY DEF callData, PA!isDeployTx
<1>2. CASE kind = "ProxyAccount"
  <2>1. CallFor(t) = PA!defaultRevertableCallData(t)
    BY <1>1, <1>2 DEF CallFor
  <2> QED BY <2>1 DEF PA!defaultRevertableCallData, PA!Default
<1>3. CASE kind = "RelayHub"
  <2>1. CallFor(t) = RH!revertableCallDataWithDefaults(t)
    BY <1>1, <1>3 DEF CallFor
  <2> QED BY <2>1 DEF RH!revertableCallDataWithDefaults, RH!Default
<1>4. CASE kind = "GnosisSafe"
  <2>1. CallFor(t) = GS!defaultRevertableCallData(t)
    BY <1>1, <1>4 DEF CallFor
  <2> QED BY <2>1 DEF GS!defaultRevertableCallData, GS!Default
<1> QED BY <1>2, <1>3, <1>4 DEF Kind

-----------------------------------------------------------------------------
(* Whatever the user wrote to his objects and the relayer published, the   *)
(* calls that a contract makes are those asked for.                        *)
THEOREM AsAsked == Spec => []ExecutedAsAsked
<1>1. IInv => ExecutedAsAsked
  <2> SUFFICES ASSUME IInv, pc = "executed" PROVE ExecutedAsAsked
    BY DEF ExecutedAsAsked
  <2>1. PICK n \in Nat : asked \in [1..n -> UserCall(kind, isBatch)]
    BY DEF IInv, Given
  <2>2. made = [i \in 1..n |-> CallFor(asked[i])]
    BY <2>1, CallsMade
  <2>3. Len(made) = Len(asked)
    BY <2>1, <2>2
  <2>4. ASSUME NEW i \in DOMAIN asked
        PROVE  LET a      == asked[i]
                   m      == made[i]
                   wallet == kind # "RelayHub"
                   amount == IF a.value = Absent THEN 0 ELSE a.value
               IN IF a.salt # Absent
                  THEN /\ m.to = "DelegateDeployer" /\ m.data = <<a.data, amount, a.salt>>
                       /\ wallet => m.value = 0
                  ELSE /\ m.to = a.to
                       /\ m.data = IF a.data = Absent THEN "0x" ELSE a.data
                       /\ wallet => /\ m.value = amount
                                    /\ m.callType = "DELEGATE" <=> a.callType = "DELEGATE"
                       /\ isBatch => (m.revertOnFail <=> a.revertOnFail = TRUE)
    <3>1. /\ kind \in Kind /\ isBatch \in BOOLEAN /\ made[i] = CallFor(asked[i])
          /\ asked[i] \in UserCall(kind, isBatch)
      BY <2>1, <2>2 DEF IInv, Given
    <3>2. CASE asked[i].salt # Absent
      BY <3>1, <3>2, CallForDeployment DEF Wei
    <3>3. CASE asked[i].salt = Absent
      <4>1. ASSUME isBatch PROVE asked[i].revertOnFail \in {TRUE, FALSE, Absent}
        BY <3>1, <4>1 DEF UserCall
      <4>2. ASSUME isBatch PROVE made[i].revertOnFail <=> asked[i].revertOnFail = TRUE
        <5> DEFINE r == asked[i].revertOnFail
        <5>1. made[i].revertOnFail = IF r = Absent THEN FALSE ELSE r
          BY <3>1, <3>3, <4>2, CallForRevert
        <5>2. TRUE # Absent /\ FALSE # Absent
          BY AbsentAssumption
        <5>3. CASE r = TRUE
          BY <5>1, <5>2, <5>3, Zenon
        <5>4. CASE r = FALSE
          BY <5>1, <5>2, <5>4, Zenon
        <5>5. CASE r = Absent
          BY <5>1, <5>2, <5>5, Zenon
        <5> QED BY <4>1, <4>2, <5>3, <5>4, <5>5, Zenon
      <4>3. /\ made[i].to = asked[i].to
            /\ made[i].data = IF asked[i].data = Absent THEN "0x" ELSE asked[i].data
            /\ kind # "RelayHub" =>
                 /\ made[i].value = Wei(asked[i])
                 /\ made[i].callType = "DELEGATE" <=> asked[i].callType = "DELEGATE"
        BY <3>1, <3>3, CallForCall, AbsentAssumption
      <4> QED BY <3>3, <4>2, <4>3 DEF Wei
    <3> QED BY <3>2, <3>3
  <2> QED BY <2>3, <2>4 DEF ExecutedAsAsked
<1> QED BY <1>1, Invariance, PTL

(* A wallet's deployments end up where its forwarder told the user.        *)
THEOREM DeployedAsComputed == Spec => []DeployedWhereComputed
<1>1. IInv => DeployedWhereComputed
  <2> SUFFICES ASSUME IInv, pc = "executed", kind # "RelayHub",
                      NEW i \in DOMAIN asked, asked[i].salt # Absent
               PROVE  PA!deploy("wallet", made[i]) =
                        IF kind = "ProxyAccount"
                        THEN PA!computeAddressForDeployedContract("wallet", asked[i].data, asked[i].salt)
                        ELSE GS!computeAddressForDeployedContract("wallet", asked[i].data, asked[i].salt)
    BY DEF DeployedWhereComputed
  <2>1. kind \in Kind /\ isBatch \in BOOLEAN /\ asked[i] \in UserCall(kind, isBatch)
    BY DEF IInv, Given
  <2>2. made[i] = CallFor(asked[i])
    BY CallsMade
  <2>3. /\ made[i].callType = "DELEGATE"
        /\ made[i].data = <<asked[i].data, Wei(asked[i]), asked[i].salt>>
    BY <2>1, <2>2, CallForDeployment
  <2>4. made[i].data[3] = asked[i].salt /\ made[i].data[1] = asked[i].data
    BY <2>3
  <2> QED BY <2>3, <2>4 DEF PA!deploy, PA!create2, PA!computeAddressForDeployedContract,
         GS!create2, GS!computeAddressForDeployedContract
<1> QED BY <1>1, Invariance, PTL

(* A transaction passed on as it was sent is refused only if the user      *)
(* wrote to his objects, and a Safe's never.                               *)
THEOREM AcceptedUnlessWritten == Spec => []RejectedOnlyIfWritten
<1>1. IInv => RejectedOnlyIfWritten
  <2> SUFFICES ASSUME IInv, pc = "rejected", relayed = sent, kind = "GnosisSafe" \/ object = asked
               PROVE  FALSE
    BY DEF RejectedOnlyIfWritten
  <2> DEFINE calls == callDataOf(asked)
  <2>1. Read = asked
    BY DEF Read
  <2>2. sent = toSend(calls) /\ signed = toSign(calls) /\ encodedData(relayed) # signed
    BY <2>1 DEF IInv, Progress
  <2>3. /\ kind \in Kind /\ isBatch \in BOOLEAN
        /\ IsList(calls) /\ (isBatch \/ DOMAIN calls = {1})
    BY CallsOfObjects DEF IInv, Given
  <2> HIDE DEF calls
  <2>4. encodedData(toSend(calls)) = toSign(calls)
    BY <2>3, SendsWhatItSigns
  <2> QED BY <2>2, <2>4
<1> QED BY <1>1, Invariance, PTL

-----------------------------------------------------------------------------
(* The four arguments of a transaction, in their places.                   *)
LEMMA ArgumentsInPlace ==
  ASSUME NEW x
  PROVE  <<x>> \o Authorised = <<x, "replayProtection", "replayProtectionAuthority", "signature">>
<1> DEFINE S == {x, "replayProtection", "replayProtectionAuthority", "signature"}
           s == <<x>>
<1>1. /\ s \in Seq(S) /\ Len(s) = 1 /\ s[1] = x
      /\ Authorised \in Seq(S) /\ Len(Authorised) = 3
      /\ Authorised[1] = "replayProtection" /\ Authorised[2] = "replayProtectionAuthority"
      /\ Authorised[3] = "signature"
  BY DEF Authorised
<1> DEFINE a == s \o Authorised
<1> HIDE DEF S, s
<1>2. /\ a \in Seq(S) /\ Len(a) = Len(s) + Len(Authorised)
      /\ \A i \in 1..Len(s) + Len(Authorised) :
           a[i] = IF i <= Len(s) THEN s[i] ELSE Authorised[i - Len(s)]
  BY <1>1, ConcatProperties, Zenon
<1> HIDE DEF a
<1>3. Len(a) = 4 /\ \A i \in 1..4 : a[i] = IF i <= 1 THEN s[i] ELSE Authorised[i - 1]
  BY <1>1, <1>2
<1>4. a[1] = x /\ a[2] = Authorised[1] /\ a[3] = Authorised[2] /\ a[4] = Authorised[3]
  BY <1>1, <1>3
<1>5. a = <<x, "replayProtection", "replayProtectionAuthority", "signature">>
  BY <1>1, <1>2, <1>3, <1>4
<1> QED BY <1>5 DEF a, s

(* A single call is decoded to the call that was made,                     *)
LEMMA DecodedSingle ==
  ASSUME kind \in {"ProxyAccount", "RelayHub"}, ~isBatch, NEW args, Formed(args)
  PROVE  LET d == IF kind = "RelayHub" THEN RH!decodeTx(calldata(args)) ELSE PA!decodeTx(calldata(args))
         IN /\ args = <<d._metaTx>>
            /\ <<d._replayProtection, d._replayProtectionAuthority, d._signature>> = Authorised
<1>1. args = <<args[1]>> /\ HasFields(args[1])
  BY ListOfOne DEF Formed
<1>2. CASE kind = "ProxyAccount"
  <2> DEFINE x == <<args[1].to, args[1].value, args[1].data, args[1].callType>>
  <2>1. calldata(args) = <<x>> \o Authorised
    BY <1>2 DEF calldata, PA!forwardArguments
  <2>2. args[1] = [to |-> x[1], value |-> x[2], data |-> x[3], callType |-> x[4]]
    BY <1>1, <1>2 DEF HasFields
  <2> HIDE DEF x
  <2> DEFINE a == calldata(args)
  <2>3. a = <<x, "replayProtection", "replayProtectionAuthority", "signature">>
    BY <2>1, ArgumentsInPlace
  <2> HIDE DEF a
  <2>4. /\ args = <<PA!decodeTx(a)._metaTx>>
        /\ <<PA!decodeTx(a)._replayProtection, PA!decodeTx(a)._replayProtectionAuthority,
             PA!decodeTx(a)._signature>> = Authorised
    BY <1>1, <2>2, <2>3 DEF PA!decodeTx, Authorised
  <2> QED BY <1>2, <2>4 DEF a
<1>3. CASE kind = "RelayHub"
  <2> DEFINE x == <<args[1].to, args[1].data>>
  <2>1. calldata(args) = <<x>> \o Authorised
    BY <1>3 DEF calldata, RH!forwardArguments
  <2>2. args[1] = [to |-> x[1], data |-> x[2]]
    BY <1>1, <1>3 DEF HasFields
  <2> HIDE DEF x
  <2> DEFINE a == calldata(args)
  <2>3. a = <<x, "replayProtection", "replayProtectionAuthority", "signature">>
    BY <2>1, ArgumentsInPlace
  <2> HIDE DEF a
  <2>4. /\ args = <<RH!decodeTx(a)._metaTx>>
        /\ <<RH!decodeTx(a)._replayProtection, RH!decodeTx(a)._replayProtectionAuthority,
             RH!decodeTx(a)._signature>> = Authorised
    BY <1>1, <2>2, <2>3 DEF RH!decodeTx, Authorised
  <2> QED BY <1>3, <2>4 DEF a
<1> QED BY <1>2, <1>3

(* and a batch to the list of them, in its order.                          *)
LEMMA DecodedBatch ==
  ASSUME kind \in {"ProxyAccount", "RelayHub"}, isBatch, NEW args, Formed(args)
  PROVE  LET d == IF kind = "RelayHub" THEN RH!decodeBatchTx(calldata(args))
                                       ELSE PA!decodeBatchTx(calldata(args))
         IN /\ args = d._metaTxList
            /\ <<d._replayProtection, d._replayProtectionAuthority, d._signature>> = Authorised
<1>1. args = [i \in DOMAIN args |-> args[i]] /\ \A i \in DOMAIN args : HasFields(args[i])
  BY DEF Formed, IsList
<1>2. CASE kind = "ProxyAccount"
  <2> DEFINE x == [i \in DOMAIN args |-> PA!tupleOf(args[i])]
  <2>1. calldata(args) = <<x>> \o Authorised
    BY <1>2 DEF calldata, PA!batchArguments
  <2>2. DOMAIN x = DOMAIN args /\ \A i \in DOMAIN args : x[i] = PA!tupleOf(args[i])
    OBVIOUS
  <2> HIDE DEF x
  <2>3. ASSUME NEW i \in DOMAIN args
        PROVE  args[i] = [to |-> x[i][1], value |-> x[i][2], data |-> x[i][3],
                          revertOnFail |-> x[i][4], callType |-> x[i][5]]
    <3>1. args[i] = [to |-> args[i].to, value |-> args[i].value, data |-> args[i].data,
                     callType |-> args[i].callType, revertOnFail |-> args[i].revertOnFail]
      BY <1>1, <1>2 DEF HasFields
    <3> QED BY <2>2, <3>1 DEF PA!tupleOf
  <2> DEFINE a == calldata(args)
             list == [i \in DOMAIN x |-> [to |-> x[i][1], value |-> x[i][2], data |-> x[i][3],
                                          revertOnFail |-> x[i][4], callType |-> x[i][5]]]
  <2>4. a = <<x, "replayProtection", "replayProtectionAuthority", "signature">>
    BY <2>1, ArgumentsInPlace
  <2> HIDE DEF a
  <2>5. args = list
    BY <1>1, <2>2, <2>3
  <2>6. PA!decodeBatchTx(a)._metaTxList = list
    BY <2>4 DEF PA!decodeBatchTx
  <2>7. <<PA!decodeBatchTx(a)._replayProtection, PA!decodeBatchTx(a)._replayProtectionAuthority,
          PA!decodeBatchTx(a)._signature>> = Authorised
    BY <2>4 DEF PA!decodeBatchTx, Authorised
  <2> HIDE DEF list
  <2> QED BY <1>2, <2>5, <2>6, <2>7 DEF a
<1>3. CASE kind = "RelayHub"
  <2> DEFINE x == [i \in DOMAIN args |-> RH!tupleOf(args[i])]
  <2>1. calldata(args) = <<x>> \o Authorised
    BY <1>3 DEF calldata, RH!batchArguments
  <2>2. DOMAIN x = DOMAIN args /\ \A i \in DOMAIN args : x[i] = RH!tupleOf(args[i])
    OBVIOUS
  <2> HIDE DEF x
  <2>3. ASSUME NEW i \in DOMAIN args
        PROVE  args[i] = [to |-> x[i][1], data |-> x[i][2], revertOnFail |-> x[i][3]]
    <3>1. args[i] = [to |-> args[i].to, data |-> args[i].data,
                     revertOnFail |-> args[i].revertOnFail]
      BY <1>1, <1>3 DEF HasFields
    <3> QED BY <2>2, <3>1 DEF RH!tupleOf
  <2> DEFINE a == calldata(args)
             list == [i \in DOMAIN x |-> [to |-> x[i][1], data |-> x[i][2],
                                          revertOnFail |-> x[i][3]]]
  <2>4. a = <<x, "replayProtection", "replayProtectionAuthority", "signature">>
    BY <2>1, ArgumentsInPlace
  <2> HIDE DEF a
  <2>5. args = list
    BY <1>1, <2>2, <2>3
  <2>6. RH!decodeBatchTx(a)._metaTxList = list
    BY <2>4 DEF RH!decodeBatchTx
  <2>7. <<RH!decodeBatchTx(a)._replayProtection, RH!decodeBatchTx(a)._replayProtectionAuthority,
          RH!decodeBatchTx(a)._signature>> = Authorised
    BY <2>4 DEF RH!decodeBatchTx, Authorised
  <2> HIDE DEF list
  <2> QED BY <1>3, <2>5, <2>6, <2>7 DEF a
<1> QED BY <1>2, <1>3

(* Whoever decodes an executed transaction reads the calls that the        *)
(* contract made.                                                          *)
THEOREM Decoded == Spec => []DecodedAsMade
<1>1. IInv => DecodedAsMade
  <2> SUFFICES ASSUME IInv, pc = "executed" PROVE DecodedAsMade
    BY DEF DecodedAsMade
  <2>1. kind \in Kind /\ isBatch \in BOOLEAN /\ Formed(relayed)
    BY DEF IInv, Given, Progress
  <2>2. CASE kind # "GnosisSafe" /\ ~isBatch
    <3>1. made = relayed
      BY <2>2 DEF IInv, Progress
    <3> QED BY <2>1, <2>2, <3>1, DecodedSingle DEF DecodedAsMade, Kind
  <2>3. CASE kind # "GnosisSafe" /\ isBatch
    <3>1. made = relayed
      BY <2>3 DEF IInv, Progress
    <3> QED BY <2>1, <2>3, <3>1, DecodedBatch DEF DecodedAsMade, Kind
  <2>4. CASE kind = "GnosisSafe"
    <3> DEFINE d == GS!decodeTx(calldata(relayed))
    <3>1. /\ relayed = <<relayed[1]>>
          /\ relayed[1] = [to |-> relayed[1].to, value |-> relayed[1].value,
                           data |-> relayed[1].data, callType |-> relayed[1].callType]
      BY <2>1, <2>4, ListOfOne DEF Formed, HasFields
    <3>2. /\ d.to = relayed[1].to /\ d.value = relayed[1].value /\ d.data = relayed[1].data
          /\ d.operation = relayed[1].callType /\ d.signatures = "signature" /\ d.gasPrice = 0
      BY <2>4 DEF calldata, GS!decodeTx, GS!execTransactionArguments
    <3>3. made = IF isBatch THEN GS!decodeBatch(d.data) ELSE relayed
      BY <2>4, <3>2 DEF IInv, Progress, GS!metaTxList, GS!decodeBatch
    <3> QED BY <2>4, <3>1, <3>2, <3>3 DEF DecodedAsMade
  <2> QED BY <2>1, <2>2, <2>3, <2>4
<1> QED BY <1>1, Invariance, PTL
=============================================================================

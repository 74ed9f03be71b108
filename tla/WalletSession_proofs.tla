------------------------ MODULE WalletSession_proofs ------------------------
(***************************************************************************)
(* Proofs about WalletSession, for any number of places, runs and stops,   *)
(* of queues, bitmaps and bits, and any options of a Safe's forwarder.     *)
(***************************************************************************)
EXTENDS WalletSession, WellFoundedInduction, TLAPS

(* A client's memory has an entry of its own kind for what it has read; a  *)
(* transaction needs no replay protection exactly if it creates the wallet.*)
Typed ==
  /\ TypeOK
  /\ DOMAIN memory = Session /\ DOMAIN index = Session /\ DOMAIN code = {"wallet", "echo"}
  /\ \A s \in Session : type[s] # "BITFLIP" => index[s] \in Queue
  /\ \A s \in Session :
       /\ pc[s] \in {"begin", "deploy"} => step[s] = "wallet"
       /\ pc[s] \in {"sign", "read"} => step[s] # "wallet"
  /\ \A t \in pending : t.step = "wallet" <=> t.use = NoUse

-----------------------------------------------------------------------------
(* The three addresses that the library computes, and the chain's.         *)
LEMMA WalletWhereComputed == created(deployWallet) = address
BY DEF created, deployWallet, address, PA!createClone, PA!getAddress,
       PA!getWalletDeployTransaction, PA!create2, GS!createProxyWithNonce, GS!getAddress,
       GS!getWalletDeployTransaction, GS!create2, GS!ProxyCode

LEMMA EchoWhereComputed == PA!deploy(address, deployEcho) = echoAddress
<1>1. deployEcho.callType = "DELEGATE" /\ deployEcho.data = <<"Echo", 0, "0x123">>
  BY DEF deployEcho, PA!deployDataToCallData, GS!deployDataToCallData, PA!encodeForDeploy,
         GS!encodeForDeploy
<1> QED BY <1>1 DEF echoAddress, PA!deploy, PA!create2, GS!create2,
      PA!computeAddressForDeployedContract, GS!computeAddressForDeployedContract

LEMMA MessageToEcho == sendMessage.to = echoAddress
BY DEF sendMessage, PA!defaultCallData, GS!defaultCallData

LEMMA SameAddress ==
  ASSUME wallet' = wallet
  PROVE  address' = address /\ echoAddress' = echoAddress
<1>1. address' = address
  BY DEF address, isSafe
<1>2. echoAddress' = echoAddress
  BY <1>1 DEF echoAddress, isSafe
<1> QED BY <1>1, <1>2

LEMMA AllTypes ==
  /\ Queue \subseteq Nat /\ 0 \in Queue
  /\ \A w : TypesOf(w) \subseteq [Session -> {"BITFLIP", "MULTINONCE", "NONCE"}]
<1>1. Queue \subseteq Nat /\ 0 \in Queue
  BY BoundsAssumption DEF Queue
<1>2. \A w : TypesOf(w) \subseteq [Session -> {"BITFLIP", "MULTINONCE", "NONCE"}]
  BY BoundsAssumption DEF TypesOf
<1> QED BY <1>1, <1>2

(* findEmptyBit finds a bit that is 0, unless the bitmap is full.          *)
LEMMA EmptyBit ==
  ASSUME NEW bitmap, ~(Bit \subseteq bitmap)
  PROVE  findEmptyBit(bitmap) \in Bit \ bitmap
<1>1. Bit \ bitmap # {} /\ Bit \ bitmap \in SUBSET Nat
  BY BoundsAssumption
<1>2. \A m, n \in Nat : m < n => <<m, n>> \in OpToRel(<, Nat)
  BY DEF OpToRel
<1>3. ASSUME NEW S \in SUBSET Nat, S # {} PROVE \E b \in S : \A c \in S : b <= c
  <2>1. PICK b \in S : \A c \in S : ~(<<c, b>> \in OpToRel(<, Nat))
    BY <1>3, NatLessThanWellFounded, WFMin, Zenon
  <2>2. \A c \in S : ~(c < b)
    BY <1>2, <2>1, Zenon
  <2> QED BY <2>2
<1>4. \E b \in Bit : b \notin bitmap /\ \A c \in Bit \ bitmap : b <= c
  BY <1>1, <1>3
<1> QED BY <1>4 DEF findEmptyBit

(* What a client gives for a request.                                      *)
LEMMA UseOf ==
  ASSUME Typed, NEW s \in Session, pc[s] = "sign", index[s] \in DOMAIN memory[s],
         type[s] = "BITFLIP" => ~(Bit \subseteq memory[s][index[s]])
  PROVE  /\ use(s) \in Use /\ use(s) # NoUse
         /\ type[s] = "BITFLIP" =>
              /\ use(s)[1] = "bitFlip" /\ use(s)[2] = index[s] /\ index[s] \in Index
              /\ use(s)[3] \in Bit \ memory[s][index[s]]
         /\ type[s] # "BITFLIP" =>
              /\ use(s)[1] = "multiNonce" /\ use(s)[2] = index[s] /\ index[s] \in Queue
              /\ use(s)[3] = memory[s][index[s]] /\ use(s)[3] \in Nat
<1>1. CASE type[s] = "BITFLIP"
  <2>1. index[s] \in Index /\ findEmptyBit(memory[s][index[s]]) \in Bit \ memory[s][index[s]]
    BY <1>1, EmptyBit DEF Typed, TypeOK
  <2> QED BY <1>1, <2>1 DEF use, Use, NoUse
<1>2. CASE type[s] # "BITFLIP"
  <2>1. index[s] \in Queue /\ memory[s][index[s]] \in Nat
    BY <1>2 DEF Typed, TypeOK
  <2> QED BY <1>2, <2>1 DEF use, Use, NoUse
<1> QED BY <1>1, <1>2

(* The part of the type invariant that is about the clients of replay      *)
(* protection.                                                             *)
Clients ==
  /\ DOMAIN memory = Session /\ DOMAIN index = Session
  /\ \A s \in Session :
       /\ type[s] # "BITFLIP" => index[s] \in Queue
       /\ index[s] \in Queue \cup Index
       /\ \A i \in DOMAIN memory[s] :
            IF type[s] = "BITFLIP" THEN i \in Index /\ memory[s][i] \in SUBSET Bit
            ELSE i \in Queue /\ memory[s][i] \in Nat

LEMMA ReadsTyped ==
  ASSUME Typed, NEW s \in Session, NodeReads(s)
  PROVE  Clients'
<1>1. CASE type[s] = "BITFLIP"
  <2>1. PICK i \in Index : /\ index' = [index EXCEPT ![s] = i]
                           /\ memory' = [memory EXCEPT ![s] = Hold(memory[s], i, store.flips[i])]
                           /\ DOMAIN memory[s] = {}
    BY <1>1 DEF NodeReads
  <2>2. store.flips[i] \in SUBSET Bit /\ type' = type
    BY DEF Typed, TypeOK, Store, NodeReads
  <2>3. memory'[s] = [j \in {i} |-> store.flips[i]]
    BY <2>1 DEF Hold, Typed
  <2>4. \A j \in DOMAIN memory'[s] : j \in Index /\ memory'[s][j] \in SUBSET Bit
    BY <2>2, <2>3
  <2> QED BY <1>1, <2>1, <2>2, <2>4 DEF Typed, TypeOK, Clients
<1>2. CASE type[s] # "BITFLIP"
  <2>1. /\ memory' = [memory EXCEPT ![s] = Hold(memory[s], index[s], store.nonces[index[s]])]
        /\ index' = index /\ type' = type
    BY <1>2 DEF NodeReads
  <2>2. index[s] \in Queue /\ store.nonces[index[s]] \in Nat
    BY <1>2 DEF Typed, TypeOK, Store
  <2>3. \A j \in DOMAIN memory'[s] : j \in Queue /\ memory'[s][j] \in Nat
    BY <1>2, <2>1, <2>2 DEF Hold, Typed, TypeOK
  <2> QED BY <1>2, <2>1, <2>2, <2>3 DEF Typed, TypeOK, Clients
<1> QED BY <1>1, <1>2

LEMMA SignTyped ==
  ASSUME Typed, NEW s \in Session, SignAndSend(s)
  PROVE  Clients'
<1>1. pc[s] = "sign" /\ type' = type /\ Remember(s) /\ index[s] \in DOMAIN memory[s]
  BY DEF SignAndSend
<1>2. type[s] = "BITFLIP" => use(s)[3] \in Bit
  BY UseOf DEF SignAndSend
<1>3. CASE type[s] = "BITFLIP"
  <2>1. /\ memory' = [memory EXCEPT ![s][index[s]] = @ \cup {use(s)[3]}]
        /\ index' = index
    BY <1>1, <1>3 DEF Remember
  <2> QED BY <1>1, <1>2, <1>3, <2>1 DEF Typed, TypeOK, Clients
<1>4. CASE type[s] # "BITFLIP"
  <2>1. /\ memory' = [memory EXCEPT ![s][index[s]] = @ + 1]
        /\ index' = [index EXCEPT ![s] = (@ + 1) % (IF type[s] = "NONCE" THEN 1 ELSE Concurrency)]
    BY <1>1, <1>4 DEF Remember
  <2>2. index[s] \in Nat
    BY <1>4, AllTypes DEF Typed
  <2>3. (index[s] + 1) % Concurrency \in Queue /\ (index[s] + 1) % 1 \in Queue
    BY <2>2, BoundsAssumption, AllTypes DEF Queue
  <2>4. index'[s] \in Queue
    BY <2>1, <2>3 DEF Typed
  <2> QED BY <1>1, <1>4, <2>1, <2>4 DEF Typed, TypeOK, Clients
<1> QED BY <1>3, <1>4

(* What a step sends has a type, and says truly whether it needs replay    *)
(* protection.                                                             *)
LEMMA SendTyped ==
  ASSUME Typed, NEW s \in Session, NEW u \in Use, Send(s, u), step[s] = "wallet" <=> u = NoUse
  PROVE  /\ pending' \in SUBSET Tx
         /\ \A t \in pending' : t.step = "wallet" <=> t.use = NoUse
<1>1. [by |-> s, run |-> run[s], step |-> step[s], use |-> u] \in Tx
  BY DEF Typed, TypeOK, Tx
<1> QED BY <1>1 DEF Typed, TypeOK, Send

LEMMA ProgramTyped ==
  ASSUME Typed, NEW s \in Session, Program(s) \/ Stop(s)
  PROVE  Typed'
<1>a. Place = {"begin", "deploy", "sign", "wait", "read", "done", "failed"}
      /\ Step = {"wallet", "echo", "message"}
  BY DEF Place, Step
<1>b. NoUse \in Use
  BY DEF Use
<1> USE DEF Goto
<1>1. CASE IsWalletDeployed(s)
  BY <1>1, <1>a DEF IsWalletDeployed, Typed, TypeOK, chain
<1>2. CASE SendWalletDeploy(s)
  <2>1. step[s] = "wallet"
    BY <1>2 DEF SendWalletDeploy, Typed
  <2>2. /\ pending' \in SUBSET Tx
        /\ \A t \in pending' : t.step = "wallet" <=> t.use = NoUse
    BY <1>2, <1>b, <2>1, SendTyped DEF SendWalletDeploy
  <2> QED BY <1>2, <1>a, <2>2 DEF SendWalletDeploy, Send, Typed, TypeOK, chain
<1>3. CASE NodeReads(s)
  <2>1. Clients'
    BY <1>3, ReadsTyped
  <2> QED BY <1>3, <2>1 DEF NodeReads, Typed, TypeOK, Clients, chain
<1>4. CASE SignAndSend(s)
  <2>1. Clients'
    BY <1>4, SignTyped
  <2>2. step[s] # "wallet" /\ use(s) \in Use /\ use(s) # NoUse
    BY <1>4, UseOf DEF SignAndSend, Typed
  <2>3. /\ pending' \in SUBSET Tx
        /\ \A t \in pending' : t.step = "wallet" <=> t.use = NoUse
    BY <1>4, <2>2, SendTyped DEF SignAndSend
  <2> QED BY <1>4, <1>a, <2>1, <2>3 DEF SignAndSend, Send, Typed, TypeOK, Clients, chain
<1>5. CASE Wait(s)
  BY <1>5, <1>a DEF Wait, Typed, TypeOK, chain
<1>6. CASE LastMessage(s)
  BY <1>6, <1>a DEF LastMessage, Typed, TypeOK, chain
<1>7. CASE Stop(s)
  BY <1>7, <1>a, BoundsAssumption DEF Stop, Typed, TypeOK, chain
<1>8. CASE RunAgain(s)
  <2>1. run' \in [Session -> 1..MaxRuns]
    BY <1>8, BoundsAssumption DEF RunAgain, Typed, TypeOK
  <2>2. DOMAIN Empty = {} /\ 0 \in Queue
    BY AllTypes DEF Empty
  <2>3. Clients'
    BY <1>8, <2>2 DEF RunAgain, Typed, TypeOK, Clients, chain
  <2> QED BY <1>8, <1>a, <2>1, <2>3 DEF RunAgain, Typed, TypeOK, Clients, chain
<1> QED BY <1>1, <1>2, <1>3, <1>4, <1>5, <1>6, <1>7, <1>8 DEF Program

LEMMA StoreTyped ==
  ASSUME Typed, NEW t \in pending, t.step # "wallet", spend(t.use)
  PROVE  store' \in Store
<1>1. t.use \in ({"multiNonce"} \X Queue \X Nat) \cup ({"bitFlip"} \X Index \X Bit)
  BY DEF Typed, TypeOK, Tx, Use
<1>2. CASE t.use \in {"bitFlip"} \X Index \X Bit
  BY <1>2 DEF spend, bitflipStored, Typed, TypeOK, Store
<1>3. CASE t.use \in {"multiNonce"} \X Queue \X Nat
  BY <1>3 DEF spend, nonceStored, Typed, TypeOK, Store
<1> QED BY <1>1, <1>2, <1>3

LEMMA MineTyped ==
  ASSUME Typed, NEW t \in pending, Mine(t)
  PROVE  Typed'
<1>1. CASE MineWallet(t)
  <2>1. PICK ok \in BOOLEAN : Mined(t, ok)
    BY <1>1 DEF MineWallet
  <2> QED BY <1>1, <2>1 DEF MineWallet, Mined, Typed, TypeOK, program
<1>2. CASE MineMetaTx(t)
  <2>1. PICK ok \in BOOLEAN : Mined(t, ok)
    BY <1>2 DEF MineMetaTx
  <2>2. store' \in Store /\ heard' \in SUBSET Tx /\ DOMAIN code' = DOMAIN code
    BY <1>2, StoreTyped DEF MineMetaTx, Typed, TypeOK
  <2> QED BY <2>1, <2>2 DEF Mined, Typed, TypeOK, program
<1> QED BY <1>1, <1>2 DEF Mine

(* Type correctness.                                                       *)
LEMMA TypedInv == Spec => []Typed
<1>1. Init => Typed
  <2> SUFFICES ASSUME Init PROVE Typed
    OBVIOUS
  <2>1. Empty = [i \in {} |-> 0] /\ 0 \in Queue
    BY AllTypes DEF Empty
  <2>2. store \in Store
    BY DEF Init, Store
  <2>3. run \in [Session -> 1..MaxRuns] /\ stops \in 0..MaxStops
    BY BoundsAssumption DEF Init
  <2> QED BY <2>1, <2>2, <2>3 DEF Init, Typed, TypeOK, Place, Step
<1>2. Typed /\ [Next]_vars => Typed'
  <2> SUFFICES ASSUME Typed, [Next]_vars PROVE Typed'
    OBVIOUS
  <2>1. CASE Next
    BY <2>1, ProgramTyped, MineTyped DEF Next
  <2>2. CASE UNCHANGED vars
    BY <2>2 DEF vars, program, chain, Typed, TypeOK
  <2> QED BY <2>1, <2>2
<1> QED BY <1>1, <1>2, PTL DEF Spec

(* Programs, clients, wallet and transactions are of their types.          *)
THEOREM TypeCorrect == Spec => []TypeOK
<1>1. Typed => TypeOK
  BY DEF Typed
<1> QED BY <1>1, TypedInv, PTL

-----------------------------------------------------------------------------
(* Who has come past a transaction has the wallet behind him, or the       *)
(* wallet and Echo, and so have the transactions that he sent.             *)
Behind ==
  /\ \A s \in Session : step[s] # "wallet" => address \in code.wallet
  /\ \A s \in Session : step[s] = "message" => echoAddress \in code.echo
  /\ \A t \in pending : t.step # "wallet" => address \in code.wallet
  /\ \A t \in pending : t.step = "message" => echoAddress \in code.echo

Effects == Typed /\ Behind /\ SuccessMeansEffect

LEMMA ProgramEffects ==
  ASSUME Effects, NEW s \in Session, Program(s) \/ Stop(s)
  PROVE  Behind' /\ SuccessMeansEffect'
<1>a. DOMAIN step = Session /\ \A r \in Session : step[r] \in {"wallet", "echo", "message"}
  BY DEF Effects, Typed, TypeOK, Step
<1> USE DEF Goto
<1>b. /\ wallet' = wallet /\ code' = code /\ mined' = mined /\ heard' = heard
      /\ address' = address /\ echoAddress' = echoAddress
  <2>1. wallet' = wallet /\ code' = code /\ mined' = mined /\ heard' = heard
    BY DEF Program, Stop, IsWalletDeployed, SendWalletDeploy, NodeReads, SignAndSend, Wait,
           LastMessage, RunAgain, chain
  <2> QED BY <2>1, SameAddress
<1>c. SuccessMeansEffect'
  BY <1>b DEF Effects, SuccessMeansEffect
<1>d. CASE step' = step /\ pending' = pending
  BY <1>b, <1>c, <1>d DEF Effects, Behind
<1>e. CASE step' = step /\ \E u : Send(s, u)
  <2>1. PICK u : pending' = pending \cup
                   {[by |-> s, run |-> run[s], step |-> step[s], use |-> u]}
    BY <1>e DEF Send
  <2> QED BY <1>b, <1>c, <1>e, <2>1 DEF Effects, Behind
<1>1. CASE IsWalletDeployed(s)
  <2>1. CASE address \in code.wallet
    BY <1>1, <1>a, <1>b, <1>c, <2>1 DEF IsWalletDeployed, Effects, Behind
  <2>2. CASE address \notin code.wallet
    BY <1>1, <1>d, <2>2 DEF IsWalletDeployed
  <2> QED BY <2>1, <2>2
<1>2. CASE SendWalletDeploy(s)
  BY <1>2, <1>e DEF SendWalletDeploy
<1>3. CASE NodeReads(s)
  BY <1>3, <1>d DEF NodeReads
<1>4. CASE SignAndSend(s)
  BY <1>4, <1>e DEF SignAndSend
<1>5. CASE Wait(s)
  <2>1. CASE Result(s, TRUE) /\ step' = [step EXCEPT ![s] = IF @ = "wallet" THEN "echo" ELSE "message"]
                             /\ step[s] # "message"
    <3>1. PICK m \in mined : m.ok /\ m.tx.step = step[s]
      BY <2>1 DEF Result
    <3>2. CASE step[s] = "wallet"
      BY <1>5, <1>a, <1>b, <1>c, <2>1, <3>1, <3>2 DEF Wait, Effects, Behind, SuccessMeansEffect
    <3>3. CASE step[s] = "echo"
      BY <1>5, <1>a, <1>b, <1>c, <2>1, <3>1, <3>3 DEF Wait, Effects, Behind, SuccessMeansEffect
    <3> QED BY <1>a, <2>1, <3>2, <3>3
  <2>2. CASE step' = step
    BY <1>5, <1>d, <2>2 DEF Wait
  <2> QED BY <1>5, <2>1, <2>2 DEF Wait
<1>6. CASE LastMessage(s)
  BY <1>6, <1>d DEF LastMessage
<1>7. CASE Stop(s)
  BY <1>7, <1>d DEF Stop, program
<1>8. CASE RunAgain(s)
  BY <1>8, <1>a, <1>b, <1>c DEF RunAgain, Effects, Behind
<1> QED BY <1>c, <1>1, <1>2, <1>3, <1>4, <1>5, <1>6, <1>7, <1>8 DEF Program

(* What being mined must have done for a transaction that stands.          *)
Done(t) ==
  CASE t.step = "wallet"  -> address \in code.wallet
    [] t.step = "echo"    -> echoAddress \in code.echo
    [] t.step = "message" -> t \in heard

LEMMA MinedEffects ==
  ASSUME Effects, NEW t \in pending, NEW ok \in BOOLEAN, Mined(t, ok), ok => Done(t)',
         code.wallet \subseteq code'.wallet, code.echo \subseteq code'.echo, heard \subseteq heard'
  PROVE  Behind' /\ SuccessMeansEffect'
<1>1. /\ wallet' = wallet /\ step' = step /\ pending' \subseteq pending
      /\ mined' = mined \cup {[tx |-> t, ok |-> ok]}
      /\ address' = address /\ echoAddress' = echoAddress
  BY SameAddress DEF Mined, program
<1>2. Behind'
  BY <1>1 DEF Effects, Behind
<1>3. SuccessMeansEffect'
  <2> SUFFICES ASSUME NEW m \in mined', m.ok
               PROVE  Done(m.tx)'
    BY DEF SuccessMeansEffect, Done
  <2>1. CASE m \in mined
    <3>1. Done(m.tx) /\ m.tx.step \in {"wallet", "echo", "message"}
      BY <2>1 DEF Effects, SuccessMeansEffect, Done, Typed, TypeOK, Tx, Step
    <3> QED BY <1>1, <3>1 DEF Done
  <2>2. CASE m = [tx |-> t, ok |-> ok]
    BY <2>2
  <2> QED BY <1>1, <2>1, <2>2
<1> QED BY <1>2, <1>3

LEMMA MineEffects ==
  ASSUME Effects, NEW t \in pending, Mine(t)
  PROVE  Behind' /\ SuccessMeansEffect'
<1>a. DOMAIN code = {"wallet", "echo"} /\ t.step \in {"wallet", "echo", "message"}
  BY DEF Effects, Typed, TypeOK, Tx, Step
<1>1. CASE MineWallet(t)
  <2> DEFINE ok == address \notin code.wallet
  <2>1. /\ Mined(t, ok) /\ heard' = heard /\ t.step = "wallet"
        /\ code' = [code EXCEPT !.wallet = @ \cup {address}]
    BY <1>1, WalletWhereComputed DEF MineWallet
  <2>2. address' = address
    BY <2>1, SameAddress DEF Mined
  <2>3. Done(t)'
    BY <1>a, <2>1, <2>2 DEF Done
  <2>4. ok \in BOOLEAN
    OBVIOUS
  <2> HIDE DEF ok
  <2> QED BY <1>a, <2>1, <2>3, <2>4, MinedEffects
<1>2. CASE MineMetaTx(t)
  <2> DEFINE ok == accepts(t.use)
  <2>1. /\ address \in code.wallet /\ t.step # "wallet"
        /\ t.step = "message" => sendMessage.to \in code.echo
    BY <1>2, MessageToEcho DEF MineMetaTx, Effects, Behind
  <2>2. ok \in BOOLEAN /\ (address \in code.wallet => ok) = ok
    BY <2>1 DEF accepts, bitflipAccepts, nonceAccepts
  <2>3. Mined(t, ok)
    <3> HIDE DEF ok
    <3>1. Mined(t, address \in code.wallet => ok)
      BY <1>2 DEF MineMetaTx, ok
    <3> QED BY <2>2, <3>1, Zenon
  <2>4. address' = address /\ echoAddress' = echoAddress
    BY <2>3, SameAddress DEF Mined
  <2>5. CASE ok
    <3>1. /\ t.step = "echo" => code' = [code EXCEPT !.echo = @ \cup {echoAddress}]
          /\ t.step = "message" => code' = code
          /\ heard' = IF t.step = "message" THEN heard \cup {t} ELSE heard
      BY <1>2, <1>a, <2>1, <2>5, EchoWhereComputed DEF MineMetaTx
    <3>2. Done(t)'
      BY <1>a, <2>1, <2>4, <3>1 DEF Done
    <3> HIDE DEF ok
    <3> QED BY <1>a, <2>1, <2>2, <2>3, <3>1, <3>2, MinedEffects
  <2>6. CASE ~ok
    <3>1. code' = code /\ heard' = heard
      BY <1>2, <2>6 DEF MineMetaTx
    <3> HIDE DEF ok
    <3> QED BY <2>2, <2>3, <2>6, <3>1, MinedEffects
  <2> QED BY <2>5, <2>6
<1> QED BY <1>1, <1>2 DEF Mine

(* A transaction that does not revert has done what it was sent for,       *)
(* whichever run of the program sent it and whoever was there before.      *)
LEMMA EffectsInv == Spec => []Effects
<1>1. Init => Behind /\ SuccessMeansEffect
  BY DEF Init, Behind, SuccessMeansEffect
<1>2. Effects /\ [Next]_vars => Behind' /\ SuccessMeansEffect'
  <2> SUFFICES ASSUME Effects, [Next]_vars PROVE Behind' /\ SuccessMeansEffect'
    OBVIOUS
  <2>1. CASE Next
    BY <2>1, ProgramEffects, MineEffects DEF Next
  <2>2. CASE UNCHANGED vars
    <3>1. /\ address' = address /\ echoAddress' = echoAddress /\ step' = step
          /\ code' = code /\ pending' = pending /\ mined' = mined /\ heard' = heard
      BY <2>2, SameAddress DEF vars, program, chain
    <3> QED BY <3>1 DEF Effects, Behind, SuccessMeansEffect
  <2> QED BY <2>1, <2>2
<1>3. Typed /\ Behind /\ SuccessMeansEffect <=> Effects
  BY DEF Effects
<1> QED BY <1>1, <1>2, <1>3, TypedInv, PTL DEF Spec

(* What is mined without reverting did what it was sent for.               *)
THEOREM SessionEffects == Spec => []SuccessMeansEffect
<1>1. Effects => SuccessMeansEffect
  BY DEF Effects
<1> QED BY <1>1, EffectsInv, PTL

-----------------------------------------------------------------------------
(* A run sends a transaction for each of its steps at most, in their       *)
(* order, and no two with the same use: its memory has those that it gave. *)
Sent == pending \cup {m.tx : m \in mined}

NotAhead(t) ==
  /\ pc[t.by] \in {"begin", "deploy", "sign"} => t.step # step[t.by]
  /\ pc[t.by] \in {"begin", "deploy", "sign", "wait"} =>
       /\ step[t.by] = "wallet" => t.step = "wallet"
       /\ step[t.by] = "echo" => t.step # "message"

Remembered(t) ==
  /\ t.use[2] \in DOMAIN memory[t.by]
  /\ IF type[t.by] = "BITFLIP"
     THEN t.use[1] = "bitFlip" /\ t.use[3] \in memory[t.by][t.use[2]]
     ELSE t.use[1] = "multiNonce" /\ t.use[3] < memory[t.by][t.use[2]]

OfRun(t) ==
  /\ t.run <= run[t.by]
  /\ t.run = run[t.by] => NotAhead(t) /\ (t.step # "wallet" => Remembered(t))

SameInRun(t, u) ==
  /\ t.by = u.by /\ t.run = u.run
  /\ t.step = u.step \/ (t.step # "wallet" /\ t.use = u.use)

Runs ==
  /\ \A t \in Sent : OfRun(t) /\ (t.step = "wallet" <=> t.use = NoUse)
  /\ \A t, u \in Sent : SameInRun(t, u) => t = u
  /\ \A m \in mined : m.tx \notin pending

LEMMA SentTyped ==
  ASSUME Typed
  PROVE  \A t \in Sent : /\ t \in Tx /\ t.by \in Session /\ t.run \in Nat /\ run[t.by] \in Nat
                         /\ t.step \in {"wallet", "echo", "message"}
BY BoundsAssumption DEF Typed, TypeOK, Tx, Sent, Step

(* A step of one place leaves the other places' runs as they were.         *)
LEMMA OtherRuns ==
  ASSUME Typed, NEW s \in Session, Program(s) \/ Stop(s), NEW t \in Sent, t.by # s, OfRun(t)
  PROVE  OfRun(t)'
<1>1. t.by \in Session
  BY SentTyped
<1>2. DOMAIN pc = Session /\ DOMAIN step = Session /\ DOMAIN run = Session /\ DOMAIN memory = Session
  BY DEF Typed, TypeOK
<1>3. /\ pc'[t.by] = pc[t.by] /\ step'[t.by] = step[t.by] /\ run'[t.by] = run[t.by]
      /\ memory'[t.by] = memory[t.by] /\ type' = type
  <2> USE <1>1, <1>2 DEF Goto
  <2>1. CASE IsWalletDeployed(s) \/ LastMessage(s) \/ Wait(s) \/ SendWalletDeploy(s)
    BY <2>1 DEF IsWalletDeployed, LastMessage, Wait, SendWalletDeploy, Send
  <2>2. CASE NodeReads(s)
    BY <2>2 DEF NodeReads
  <2>3. CASE SignAndSend(s)
    BY <2>3 DEF SignAndSend, Send, Remember
  <2>4. CASE RunAgain(s) \/ Stop(s)
    BY <2>4 DEF RunAgain, Stop
  <2> QED BY <2>1, <2>2, <2>3, <2>4 DEF Program
<1> QED BY <1>3 DEF OfRun, NotAhead, Remembered

(* What is sent is the first for its step, with a use that the memory does *)
(* not have.                                                               *)
LEMMA SendRuns ==
  ASSUME Typed, Runs, NEW s \in Session, NEW u \in Use, Send(s, u),
         step[s] = "wallet" <=> u = NoUse,
         pc[s] \in {"deploy", "sign"}, mined' = mined,
         \A t \in Sent : OfRun(t)',
         \A t \in Sent : t.by = s /\ t.run = run[s] /\ t.step # "wallet" => t.use # u,
         NEW new, new = [by |-> s, run |-> run[s], step |-> step[s], use |-> u],
         OfRun(new)'
  PROVE  Runs'
<1>1. Sent' = Sent \cup {new} /\ pending' = pending \cup {new}
  BY DEF Sent, Send
<1>2. \A t \in Sent : t.by = s /\ t.run = run[s] => t.step # step[s]
  BY DEF Runs, OfRun, NotAhead
<1>3. \A t \in Sent : ~SameInRun(t, new) /\ ~SameInRun(new, t)
  BY <1>2 DEF SameInRun, Runs
<1>4. new \notin Sent
  BY <1>2
<1>5. \A t \in Sent' : OfRun(t)' /\ (t.step = "wallet" <=> t.use = NoUse)
  <2>1. new.step = "wallet" <=> new.use = NoUse
    OBVIOUS
  <2> SUFFICES ASSUME NEW t \in Sent'
               PROVE  OfRun(t)' /\ (t.step = "wallet" <=> t.use = NoUse)
    OBVIOUS
  <2>2. CASE t \in Sent
    BY <2>2 DEF Runs
  <2>3. CASE t = new
    BY <2>1, <2>3
  <2> QED BY <1>1, <2>2, <2>3
<1>6. \A t, v \in Sent' : SameInRun(t, v) => t = v
  BY <1>1, <1>3 DEF Runs
<1>7. \A m \in mined' : m.tx \notin pending'
  BY <1>1, <1>4 DEF Runs, Sent
<1> QED BY <1>5, <1>6, <1>7 DEF Runs, SameInRun

LEMMA ProgramRuns ==
  ASSUME Typed, Runs, NEW s \in Session, Program(s) \/ Stop(s)
  PROVE  Runs'
<1>a. /\ step[s] \in {"wallet", "echo", "message"} /\ run[s] \in Nat
      /\ DOMAIN pc = Session /\ DOMAIN step = Session /\ DOMAIN run = Session
      /\ DOMAIN memory = Session
  BY BoundsAssumption DEF Typed, TypeOK, Step
<1>b. \A t \in Sent : OfRun(t) /\ (t.by # s => OfRun(t)')
  BY OtherRuns DEF Runs
<1>c. ASSUME Sent' = Sent, mined' = mined, pending' = pending,
             \A t \in Sent : t.by = s => OfRun(t)'
      PROVE  Runs'
  BY <1>b, <1>c DEF Runs, SameInRun
<1>d. \A t \in Sent : t.run \in Nat /\ t.step \in {"wallet", "echo", "message"}
  BY SentTyped
<1> USE DEF Goto
<1>1. CASE IsWalletDeployed(s)
  <2>1. \A t \in Sent : t.by = s => OfRun(t)'
    BY <1>1, <1>a, <1>b, <1>d DEF IsWalletDeployed, Typed, OfRun, NotAhead, Remembered
  <2> QED BY <1>1, <1>c, <2>1 DEF IsWalletDeployed, chain, Sent
<1>2. CASE SendWalletDeploy(s)
  <2> PICK new : new = [by |-> s, run |-> run[s], step |-> step[s], use |-> NoUse]
    OBVIOUS
  <2>1. step[s] = "wallet" /\ NoUse \in Use
    BY <1>2 DEF SendWalletDeploy, Typed, Use
  <2>2. \A t \in Sent : t.by = s => OfRun(t)'
    BY <1>2, <1>a, <1>b, <1>d DEF SendWalletDeploy, Send, OfRun, NotAhead, Remembered
  <2>3. OfRun(new)'
    BY <1>2, <1>a, <2>1 DEF SendWalletDeploy, Send, OfRun, NotAhead
  <2>4. \A t \in Sent : t.by = s /\ t.run = run[s] /\ t.step # "wallet" => t.use # NoUse
    BY DEF Runs
  <2> HIDE DEF OfRun
  <2> QED BY <1>2, <1>b, <2>1, <2>2, <2>3, <2>4, SendRuns DEF SendWalletDeploy, chain
<1>3. CASE NodeReads(s)
  <2>1. \A t \in Sent : t.by = s => OfRun(t)'
    <3>1. CASE type[s] = "BITFLIP"
      BY <1>3, <1>a, <1>b, <1>d, <3>1 DEF NodeReads, OfRun, NotAhead, Remembered
    <3>2. CASE type[s] # "BITFLIP"
      BY <1>3, <1>a, <1>b, <1>d, <3>2 DEF NodeReads, Hold, OfRun, NotAhead, Remembered
    <3> QED BY <3>1, <3>2
  <2> QED BY <1>3, <1>c, <2>1 DEF NodeReads, chain, Sent
<1>4. CASE SignAndSend(s)
  <2> PICK u : u = use(s)
    OBVIOUS
  <2> PICK new : new = [by |-> s, run |-> run[s], step |-> step[s], use |-> u]
    OBVIOUS
  <2> DEFINE i == index[s]
  <2>1. /\ u \in Use /\ u # NoUse /\ u[2] = i /\ i \in DOMAIN memory[s]
        /\ IF type[s] = "BITFLIP"
           THEN u[1] = "bitFlip" /\ u[3] \in Bit \ memory[s][i]
           ELSE u[1] = "multiNonce" /\ u[3] = memory[s][i] /\ u[3] \in Nat
    BY <1>4, UseOf DEF SignAndSend
  <2>2. step[s] # "wallet" /\ pc[s] = "sign" /\ Send(s, u) /\ type' = type /\ run' = run
        /\ mined' = mined /\ step' = step /\ pc' = [pc EXCEPT ![s] = "wait"]
    BY <1>4 DEF SignAndSend, Send, Typed, chain
  <2>3. memory' = [memory EXCEPT ![s][i] = IF type[s] = "BITFLIP" THEN @ \cup {u[3]} ELSE @ + 1]
    BY <1>4 DEF SignAndSend, Remember
  <2> HIDE DEF i
  <2>4. \A t \in Sent : t.by = s /\ t.run = run[s] /\ t.step # "wallet" =>
          Remembered(t) /\ Remembered(t)' /\ t.use # u
    <3> SUFFICES ASSUME NEW t \in Sent, t.by = s, t.run = run[s], t.step # "wallet"
                 PROVE  Remembered(t) /\ Remembered(t)' /\ t.use # u
      OBVIOUS
    <3>1. Remembered(t)
      BY <1>b DEF OfRun
    <3>2. t.use \in Use /\ t.use # NoUse
      BY SentTyped DEF Runs, Tx
    <3>3. CASE type[s] = "BITFLIP"
      BY <1>a, <2>1, <2>2, <2>3, <3>1, <3>3 DEF Remembered
    <3>4. CASE type[s] # "BITFLIP"
      <4>1. t.use[3] \in Nat
        BY <3>1, <3>2, <3>4 DEF Remembered, Use
      <4> QED BY <1>a, <2>1, <2>2, <2>3, <3>1, <3>4, <4>1 DEF Remembered
    <3> QED BY <3>3, <3>4
  <2>5. \A t \in Sent : t.by = s => OfRun(t)'
    BY <1>a, <1>b, <1>d, <2>2, <2>4 DEF OfRun, NotAhead
  <2>6. OfRun(new)'
    <3>1. Remembered(new)'
      BY <1>a, <2>1, <2>2, <2>3 DEF Remembered
    <3> QED BY <1>a, <2>2, <3>1 DEF OfRun, NotAhead, Remembered
  <2> QED BY <1>b, <2>1, <2>2, <2>4, <2>5, <2>6, SendRuns
<1>5. CASE Wait(s)
  <2>1. \A t \in Sent : t.by = s => Remembered(t)' = Remembered(t) /\ run' = run
    BY <1>5 DEF Wait, Remembered
  <2>2. \A t \in Sent : t.by = s /\ t.run = run[s] => NotAhead(t)'
    <3>1. CASE step[s] = "wallet"
      BY <1>5, <1>a, <1>b, <1>d, <3>1 DEF Wait, OfRun, NotAhead
    <3>2. CASE step[s] = "echo"
      BY <1>5, <1>a, <1>b, <1>d, <3>2 DEF Wait, OfRun, NotAhead
    <3>3. CASE step[s] = "message"
      BY <1>5, <1>a, <1>b, <1>d, <3>3 DEF Wait, OfRun, NotAhead
    <3> QED BY <1>a, <3>1, <3>2, <3>3
  <2>3. \A t \in Sent : t.by = s => OfRun(t)'
    <3> HIDE DEF Goto
    <3> QED BY <1>b, <2>1, <2>2 DEF OfRun
  <2> QED BY <1>5, <1>c, <2>3 DEF Wait, chain, Sent
<1>6. CASE LastMessage(s)
  <2>1. \A t \in Sent : t.by = s => OfRun(t)'
    BY <1>6, <1>a, <1>b, <1>d DEF LastMessage, OfRun, NotAhead, Remembered
  <2> QED BY <1>6, <1>c, <2>1 DEF LastMessage, chain, Sent
<1>7. CASE Stop(s)
  <2>1. \A t \in Sent : t.by = s => OfRun(t)'
    BY <1>7, <1>a, <1>b, <1>d DEF Stop, program, OfRun, NotAhead, Remembered
  <2> QED BY <1>7, <1>c, <2>1 DEF Stop, chain, program, Sent
<1>8. CASE RunAgain(s)
  <2>1. \A t \in Sent : t.by = s => OfRun(t)'
    BY <1>8, <1>a, <1>b, <1>d DEF RunAgain, OfRun
  <2> QED BY <1>8, <1>c, <2>1 DEF RunAgain, chain, Sent
<1> QED BY <1>1, <1>2, <1>3, <1>4, <1>5, <1>6, <1>7, <1>8 DEF Program

LEMMA MineRuns ==
  ASSUME Typed, Runs, NEW t \in pending, NEW ok, Mined(t, ok)
  PROVE  Runs' /\ Sent' = Sent
<1>1. Sent' = Sent
  <2>1. pending' = pending \ {t} /\ mined' = mined \cup {[tx |-> t, ok |-> ok]}
    BY DEF Mined
  <2>2. {m.tx : m \in mined'} = {m.tx : m \in mined} \cup {t}
    <3> PICK n : n = [tx |-> t, ok |-> ok]
      OBVIOUS
    <3>1. mined' = mined \cup {n} /\ n.tx = t
      BY <2>1
    <3> QED BY <3>1
  <2> QED BY <2>1, <2>2 DEF Sent
<1>2. /\ pending' = pending \ {t} /\ mined' = mined \cup {[tx |-> t, ok |-> ok]}
      /\ type' = type /\ pc' = pc /\ step' = step /\ memory' = memory /\ run' = run
  BY DEF Mined, program
<1>3. \A u \in Sent : OfRun(u)'
  BY <1>2 DEF Runs, OfRun, NotAhead, Remembered
<1>4. \A m \in mined' : m.tx \notin pending'
  BY <1>2 DEF Runs
<1> QED BY <1>1, <1>3, <1>4 DEF Runs, SameInRun

-----------------------------------------------------------------------------
(* Nothing waits for a nonce that is still to come: a nonce that is on its *)
(* way is at most the store's, and so is the next one of a client, unless  *)
(* it waits for the transaction before.                                    *)
Awaits(s, q) ==
  /\ pc[s] = "wait"
  /\ \E t \in Sent : /\ t.by = s /\ t.run = run[s] /\ t.step = step[s] /\ t.use[1] = "multiNonce"
                    /\ t.use[2] = q /\ t.use[3] + 1 = memory[s][q]

NoGap ==
  /\ \A t \in pending : t.use[1] = "multiNonce" => t.use[3] <= store.nonces[t.use[2]]
  /\ \A s \in Session : pc[s] \in {"begin", "deploy", "sign", "wait"} /\ type[s] # "BITFLIP" =>
       \A q \in DOMAIN memory[s] : memory[s][q] <= store.nonces[q] \/ Awaits(s, q)

(* What is spent, and that a wallet is there, was the doing of one         *)
(* transaction that stands.                                                *)
Spent(u) ==
  IF u[1] = "bitFlip" THEN u[3] \in store.flips[u[2]] ELSE u[3] < store.nonces[u[2]]

Done1(u) == \E n \in mined : n.ok /\ n.tx.step # "wallet" /\ n.tx.use = u

Books ==
  /\ \A m \in mined : m.ok /\ m.tx.step # "wallet" => Spent(m.tx.use)
  /\ \A u \in Use : u # NoUse /\ Spent(u) => Done1(u)
  /\ address \in code.wallet => \E n \in mined : n.ok /\ n.tx.step = "wallet"

Claims == Effects /\ Runs /\ NoGap /\ Books /\ OneOfEachWins

LEMMA UseTyped ==
  ASSUME Typed, NEW u \in Use, u # NoUse
  PROVE  \/ /\ u[1] = "multiNonce" /\ u[2] \in Queue /\ u[3] \in Nat
            /\ u = <<u[1], u[2], u[3]>> /\ store.nonces[u[2]] \in Nat
         \/ /\ u[1] = "bitFlip" /\ u[2] \in Index /\ u[3] \in Bit
            /\ u = <<u[1], u[2], u[3]>> /\ store.flips[u[2]] \in SUBSET Bit
<1>1. store.nonces \in [Queue -> Nat] /\ store.flips \in [Index -> SUBSET Bit]
  BY DEF Typed, TypeOK, Store
<1>2. CASE u \in {"multiNonce"} \X Queue \X Nat
  BY <1>1, <1>2
<1>3. CASE u \in {"bitFlip"} \X Index \X Bit
  BY <1>1, <1>3
<1> QED BY <1>2, <1>3 DEF Use

(* What a client has of queue q once its run goes on.                      *)
LEMMA Awaited ==
  ASSUME Claims, NEW s \in Session, type[s] # "BITFLIP", NEW q \in DOMAIN memory[s],
         \/ pc[s] \in {"begin", "deploy", "sign"}
         \/ pc[s] = "wait" /\ Result(s, TRUE)
  PROVE  memory[s][q] <= store.nonces[q]
<1>1. memory[s][q] <= store.nonces[q] \/ Awaits(s, q)
  BY DEF Claims, NoGap
<1>2. CASE Awaits(s, q)
  <2>1. PICK t \in Sent : /\ t.by = s /\ t.run = run[s] /\ t.step = step[s]
                          /\ t.use[1] = "multiNonce" /\ t.use[2] = q /\ t.use[3] + 1 = memory[s][q]
    BY <1>2 DEF Awaits
  <2>2. PICK m \in mined : m.tx.by = s /\ m.tx.run = run[s] /\ m.tx.step = step[s] /\ m.ok
    BY <1>2 DEF Awaits, Result
  <2>3. m.tx = t
    BY <2>1, <2>2 DEF Claims, Runs, SameInRun, Sent
  <2>4. t.use \in Use /\ t.use # NoUse /\ t.step # "wallet"
    BY <2>1, SentTyped DEF Claims, Effects, Runs, Tx, NoUse
  <2>5. t.use[3] < store.nonces[q]
    BY <2>1, <2>2, <2>3, <2>4 DEF Claims, Books, Spent
  <2> QED BY <2>1, <2>4, <2>5, UseTyped DEF Claims, Effects
<1> QED BY <1>1, <1>2

LEMMA ProgramNoGap ==
  ASSUME Claims, NEW s \in Session, Program(s) \/ Stop(s)
  PROVE  NoGap'
<1>a. /\ DOMAIN pc = Session /\ DOMAIN step = Session /\ DOMAIN run = Session
      /\ DOMAIN memory = Session
      /\ \A q \in Queue : store.nonces[q] \in Nat
      /\ type[s] # "BITFLIP" => \A q \in DOMAIN memory[s] : q \in Queue /\ memory[s][q] \in Nat
  BY DEF Claims, Effects, Typed, TypeOK, Store
<1> DEFINE Ready == type[s] # "BITFLIP" => \A q \in DOMAIN memory[s] : memory[s][q] <= store.nonces[q]
<1> USE DEF Goto
<1>b. /\ store' = store /\ mined' = mined /\ type' = type /\ pending \subseteq pending'
      /\ \A r \in Session \ {s} : /\ pc'[r] = pc[r] /\ step'[r] = step[r] /\ run'[r] = run[r]
                                   /\ memory'[r] = memory[r]
  <2> USE <1>a DEF chain
  <2>1. CASE IsWalletDeployed(s) \/ LastMessage(s) \/ Wait(s) \/ SendWalletDeploy(s)
    BY <2>1 DEF IsWalletDeployed, LastMessage, Wait, SendWalletDeploy, Send
  <2>2. CASE NodeReads(s)
    BY <2>2 DEF NodeReads
  <2>3. CASE SignAndSend(s)
    BY <2>3 DEF SignAndSend, Send, Remember
  <2>4. CASE RunAgain(s) \/ Stop(s)
    BY <2>4 DEF RunAgain, Stop, program
  <2> QED BY <2>1, <2>2, <2>3, <2>4 DEF Program
<1>c. Sent \subseteq Sent'
  BY <1>b DEF Sent
<1>d. \A r \in Session \ {s} : \A q : Awaits(r, q) => Awaits(r, q)'
  BY <1>b, <1>c DEF Awaits
<1>e. ASSUME \A t \in pending' \ pending : t.use[1] = "multiNonce" => t.use[3] <= store.nonces[t.use[2]],
             pc'[s] \in {"begin", "deploy", "sign", "wait"} /\ type[s] # "BITFLIP" =>
               \A q \in DOMAIN memory'[s] : memory'[s][q] <= store.nonces[q] \/ Awaits(s, q)'
      PROVE  NoGap'
  BY <1>b, <1>d, <1>e DEF Claims, NoGap
<1>f. ASSUME pending' = pending, memory' = memory, Ready
      PROVE  NoGap'
  BY <1>e, <1>f
<1>g. pc[s] \in {"begin", "deploy", "sign"} \/ (pc[s] = "wait" /\ Result(s, TRUE)) => Ready
  BY Awaited
<1> HIDE DEF Ready
<1>1. CASE IsWalletDeployed(s)
  BY <1>1, <1>f, <1>g DEF IsWalletDeployed
<1>2. CASE SendWalletDeploy(s)
  <2>1. Ready
    BY <1>2, <1>g DEF SendWalletDeploy
  <2>2. PICK new : new = [by |-> s, run |-> run[s], step |-> step[s], use |-> NoUse]
    OBVIOUS
  <2>3. pending' = pending \cup {new} /\ new.use[1] # "multiNonce" /\ memory' = memory
    BY <1>2, <2>2 DEF SendWalletDeploy, Send, NoUse
  <2> QED BY <1>e, <2>1, <2>3 DEF Ready
<1>3. CASE NodeReads(s)
  <2>1. Ready /\ pending' = pending
    BY <1>3, <1>g DEF NodeReads
  <2>2. ASSUME type[s] # "BITFLIP", NEW q \in DOMAIN memory'[s] PROVE memory'[s][q] <= store.nonces[q]
    <3>1. memory'[s] = Hold(memory[s], index[s], store.nonces[index[s]]) /\ index[s] \in Queue
      BY <1>3, <1>a, <2>2 DEF NodeReads, Claims, Effects, Typed
    <3>2. DOMAIN memory'[s] = DOMAIN memory[s] \cup {index[s]}
      BY <3>1 DEF Hold
    <3>3. memory'[s][q] = IF q = index[s] THEN store.nonces[q] ELSE memory[s][q]
      BY <2>2, <3>1, <3>2 DEF Hold
    <3> QED BY <1>a, <2>1, <2>2, <3>1, <3>2, <3>3 DEF Ready
  <2> QED BY <1>e, <2>1, <2>2
<1>4. CASE SignAndSend(s)
  <2> PICK u : u = use(s)
    OBVIOUS
  <2> PICK new : new = [by |-> s, run |-> run[s], step |-> step[s], use |-> u]
    OBVIOUS
  <2>1. /\ pc[s] = "sign" /\ pending' = pending \cup {new} /\ pc'[s] = "wait" /\ run' = run /\ step' = step
        /\ new \in Sent'
    BY <1>4, <1>a DEF SignAndSend, Send, Sent
  <2>2. Ready
    BY <1>g, <2>1
  <2>3. CASE type[s] = "BITFLIP"
    <3>1. u[1] = "bitFlip"
      BY <1>4, <2>3 DEF use
    <3> QED BY <1>e, <2>1, <2>3, <3>1
  <2>4. CASE type[s] # "BITFLIP"
    <3>1. /\ u[1] = "multiNonce" /\ u[2] = index[s] /\ u[3] = memory[s][index[s]]
          /\ index[s] \in DOMAIN memory[s]
          /\ memory' = [memory EXCEPT ![s][index[s]] = @ + 1]
      BY <1>4, <2>4 DEF SignAndSend, Remember, use
    <3>2. u[3] <= store.nonces[u[2]]
      BY <2>2, <2>4, <3>1 DEF Ready
    <3>3. DOMAIN memory'[s] = DOMAIN memory[s] /\ memory'[s][index[s]] = u[3] + 1
          /\ \A q \in DOMAIN memory[s] : q # index[s] => memory'[s][q] = memory[s][q]
      BY <1>a, <3>1
    <3>4. \A q \in DOMAIN memory'[s] : memory'[s][q] <= store.nonces[q] \/ Awaits(s, q)'
      <4>1. \A q : q = index[s] => Awaits(s, q)'
        BY <2>1, <3>1, <3>3 DEF Awaits
      <4> QED BY <2>2, <2>4, <3>3, <4>1 DEF Ready
    <3> QED BY <1>e, <2>1, <3>2, <3>4
  <2> QED BY <2>3, <2>4
<1>5. CASE Wait(s)
  <2>1. CASE pc'[s] = "sign"
    BY <1>5, <1>a, <1>f, <1>g, <2>1 DEF Wait
  <2>2. CASE pc'[s] \in {"failed", "read"}
    BY <1>5, <1>e, <2>2 DEF Wait
  <2> QED BY <1>5, <1>a, <2>1, <2>2 DEF Wait
<1>6. CASE LastMessage(s)
  BY <1>6, <1>a, <1>e DEF LastMessage
<1>7. CASE Stop(s)
  BY <1>7, <1>a, <1>e DEF Stop
<1>8. CASE RunAgain(s)
  <2>1. DOMAIN memory'[s] = {} /\ pending' = pending
    BY <1>8, <1>a DEF RunAgain, Empty
  <2> QED BY <1>e, <2>1
<1> QED BY <1>1, <1>2, <1>3, <1>4, <1>5, <1>6, <1>7, <1>8 DEF Program

LEMMA ProgramBooks ==
  ASSUME Claims, NEW s \in Session, Program(s) \/ Stop(s)
  PROVE  Books' /\ OneOfEachWins'
<1>1. wallet' = wallet /\ store' = store /\ mined' = mined /\ code' = code
  BY DEF Program, Stop, IsWalletDeployed, SendWalletDeploy, NodeReads, SignAndSend, Wait,
         LastMessage, RunAgain, chain
<1>2. address' = address
  BY <1>1, SameAddress
<1> QED BY <1>1, <1>2 DEF Claims, Books, Spent, Done1, OneOfEachWins, SameClaim

(* Mining only ever spends.                                                *)
LEMMA Spending ==
  ASSUME Typed, NEW u \in Use, u # NoUse, accepts(u), spend(u)
  PROVE  /\ ~Spent(u)
         /\ \A v \in Use : v # NoUse => (Spent(v)' <=> Spent(v) \/ v = u)
         /\ \A q \in Queue : store.nonces[q] <= store'.nonces[q]
<1>a. /\ DOMAIN store = {"nonces", "flips"} /\ store.nonces \in [Queue -> Nat]
      /\ store.flips \in [Index -> SUBSET Bit]
  BY DEF Typed, TypeOK, Store
<1>1. CASE u[1] = "bitFlip"
  <2>1. u[2] \in Index /\ u[3] \in Bit /\ u = <<u[1], u[2], u[3]>>
    BY <1>1, UseTyped
  <2>2. store' = [store EXCEPT !.flips[u[2]] = @ \cup {u[3]}] /\ u[3] \notin store.flips[u[2]]
    BY <1>1 DEF accepts, spend, bitflipAccepts, bitflipStored
  <2>3. store'.nonces = store.nonces
    BY <1>a, <2>2
  <2>4. \A i \in Index : store'.flips[i] = IF i = u[2] THEN store.flips[i] \cup {u[3]} ELSE store.flips[i]
    BY <1>a, <2>2
  <2>5. \A v \in Use : v # NoUse => (Spent(v)' <=> Spent(v) \/ v = u)
    <3> SUFFICES ASSUME NEW v \in Use, v # NoUse
                 PROVE  Spent(v)' <=> Spent(v) \/ v = u
      OBVIOUS
    <3>1. CASE v[1] = "multiNonce"
      BY <1>1, <2>3, <3>1 DEF Spent
    <3>2. CASE v[1] = "bitFlip" /\ v[2] # u[2]
      BY <2>4, <3>2, UseTyped DEF Spent
    <3>3. CASE v[1] = "bitFlip" /\ v[2] = u[2]
      <4>1. v = u <=> v[3] = u[3]
        BY <1>1, <2>1, <3>3, UseTyped
      <4> QED BY <2>1, <2>4, <3>3, <4>1 DEF Spent
    <3> QED BY <3>1, <3>2, <3>3, UseTyped
  <2> QED BY <1>1, <1>a, <2>2, <2>3, <2>5 DEF Spent
<1>2. CASE u[1] # "bitFlip"
  <2>1. u[1] = "multiNonce" /\ u[2] \in Queue /\ u[3] \in Nat /\ u = <<u[1], u[2], u[3]>>
    BY <1>2, UseTyped
  <2>2. store' = [store EXCEPT !.nonces[u[2]] = @ + 1] /\ u[3] = store.nonces[u[2]]
    BY <1>2 DEF accepts, spend, nonceAccepts, nonceStored
  <2>3. store'.flips = store.flips
    BY <1>a, <2>2
  <2>4. \A q \in Queue : store'.nonces[q] = IF q = u[2] THEN store.nonces[q] + 1 ELSE store.nonces[q]
    BY <1>a, <2>2
  <2>5. \A v \in Use : v # NoUse => (Spent(v)' <=> Spent(v) \/ v = u)
    BY <1>a, <2>1, <2>2, <2>3, <2>4, UseTyped DEF Spent
  <2>6. ~Spent(u)
    BY <1>a, <2>1, <2>2 DEF Spent
  <2>7. \A q \in Queue : store.nonces[q] <= store'.nonces[q]
    BY <1>a, <2>4
  <2> QED BY <2>5, <2>6, <2>7
<1> QED BY <1>1, <1>2

(* A store that does not shrink leaves no gap where there was none.        *)
LEMMA MineNoGap ==
  ASSUME Claims, NEW t \in pending, NEW ok, Mined(t, ok),
         \A q \in Queue : store'.nonces[q] \in Nat /\ store.nonces[q] <= store'.nonces[q]
  PROVE  NoGap'
<1>1. /\ Sent' = Sent /\ pending' \subseteq pending /\ pc' = pc /\ step' = step /\ memory' = memory
      /\ run' = run /\ type' = type
  BY MineRuns DEF Mined, program, Claims, Effects
<1>2. \A s \in Session, q \in Queue : Awaits(s, q) => Awaits(s, q)'
  BY <1>1 DEF Awaits
<1>3. \A u \in pending : u.use[1] = "multiNonce" =>
        u.use[2] \in Queue /\ u.use[3] \in Nat /\ store.nonces[u.use[2]] \in Nat
  BY UseTyped DEF Claims, Effects, Typed, TypeOK, Tx, NoUse
<1>4. \A s \in Session : type[s] # "BITFLIP" => \A q \in DOMAIN memory[s] :
        q \in Queue /\ memory[s][q] \in Nat /\ store.nonces[q] \in Nat
  BY DEF Claims, Effects, Typed, TypeOK, Store
<1>5. \A u \in pending' : u.use[1] = "multiNonce" => u.use[3] <= store'.nonces[u.use[2]]
  BY <1>1, <1>3 DEF Claims, NoGap
<1>6. \A s \in Session : pc[s] \in {"begin", "deploy", "sign", "wait"} /\ type[s] # "BITFLIP" =>
        \A q \in DOMAIN memory[s] : memory[s][q] <= store'.nonces[q] \/ Awaits(s, q)'
  BY <1>2, <1>4 DEF Claims, NoGap
<1> QED BY <1>1, <1>5, <1>6 DEF NoGap

(* One more transaction is mined: it stands if no other with the same      *)
(* claim did, and reverts if one did.                                      *)
LEMMA OneMore ==
  ASSUME Claims, NEW t \in pending, NEW ok \in BOOLEAN, Mined(t, ok),
         ok => \A n \in mined : n.ok => ~SameClaim(n.tx, t) /\ ~SameClaim(t, n.tx),
         ~ok => \E n \in mined : n.ok /\ SameClaim(t, n.tx)
  PROVE  OneOfEachWins'
<1> PICK m : m = [tx |-> t, ok |-> ok]
  OBVIOUS
<1>1. mined' = mined \cup {m} /\ m.tx = t /\ m.ok = ok
  BY DEF Mined
<1>2. \A n \in mined : n.tx \in Sent /\ n.tx # t
  BY DEF Claims, Runs, Sent
<1>3. ASSUME NEW n \in mined, SameClaim(t, n.tx)
      PROVE  <<n.tx.by, n.tx.run>> # <<t.by, t.run>>
  BY <1>2, <1>3 DEF SameClaim, Claims, Runs, SameInRun, Sent
<1>4. \A a, b \in mined' : a.ok /\ b.ok /\ SameClaim(a.tx, b.tx) => a = b
  BY <1>1 DEF Claims, OneOfEachWins
<1>5. \A a \in mined' : ~a.ok =>
        \E n \in mined' : /\ n.ok /\ SameClaim(a.tx, n.tx)
                         /\ <<n.tx.by, n.tx.run>> # <<a.tx.by, a.tx.run>>
  <2> SUFFICES ASSUME NEW a \in mined', ~a.ok
               PROVE  \E n \in mined' : /\ n.ok /\ SameClaim(a.tx, n.tx)
                                       /\ <<n.tx.by, n.tx.run>> # <<a.tx.by, a.tx.run>>
    OBVIOUS
  <2>1. CASE a \in mined
    BY <1>1, <2>1 DEF Claims, OneOfEachWins
  <2>2. CASE a = m
    BY <1>1, <1>3, <2>2
  <2> QED BY <1>1, <2>1, <2>2
<1>6. \A x, y : SameClaim(x, y)' <=> SameClaim(x, y)
  BY DEF SameClaim
<1> QED BY <1>4, <1>5 DEF OneOfEachWins, SameClaim

LEMMA MineWalletClaims ==
  ASSUME Claims, NEW t \in pending, MineWallet(t)
  PROVE  NoGap' /\ Books' /\ OneOfEachWins'
<1> DEFINE free == address \notin code.wallet
<1> PICK m : m = [tx |-> t, ok |-> free]
  OBVIOUS
<1>1. /\ t.step = "wallet" /\ Mined(t, free) /\ store' = store
      /\ mined' = mined \cup {m} /\ m.tx = t /\ (m.ok <=> free)
      /\ code' = [code EXCEPT !.wallet = @ \cup {address}]
  BY WalletWhereComputed DEF MineWallet, Mined
<1>2. address' = address
  BY <1>1, SameAddress DEF Mined
<1>3. NoGap'
  BY <1>1, MineNoGap DEF Claims, Effects, Typed, TypeOK, Store
<1>4. \A n \in mined : n.ok /\ n.tx.step = "wallet" => ~free
  BY DEF Claims, Effects, SuccessMeansEffect
<1>5. \A n \in mined : n.tx \in Sent /\ n.tx # t
  BY DEF Claims, Runs, Sent
<1>6. Books'
  <2>1. \A n \in mined' : n.ok /\ n.tx.step # "wallet" => n \in mined
    BY <1>1
  <2>2. address \in code.wallet => \E n \in mined' : n.ok /\ n.tx.step = "wallet"
    BY <1>1 DEF Claims, Books
  <2>3. ~(address \in code.wallet) => \E n \in mined' : n.ok /\ n.tx.step = "wallet"
    BY <1>1
  <2> QED BY <1>1, <1>2, <2>1, <2>2, <2>3 DEF Claims, Books, Spent, Done1
<1>7. free => \A n \in mined : n.ok => ~SameClaim(n.tx, t) /\ ~SameClaim(t, n.tx)
  BY <1>1, <1>4, SentTyped DEF SameClaim, Claims, Effects, Runs, Sent
<1>8. ~free => \E n \in mined : n.ok /\ SameClaim(t, n.tx)
  BY <1>1 DEF Claims, Books, SameClaim
<1>9. OneOfEachWins'
  <2>1. free \in BOOLEAN /\ Mined(t, free)
    BY <1>1
  <2> HIDE DEF free
  <2> QED BY <1>7, <1>8, <2>1, OneMore
<1> QED BY <1>3, <1>6, <1>9

LEMMA MineMetaTxClaims ==
  ASSUME Claims, NEW t \in pending, MineMetaTx(t)
  PROVE  NoGap' /\ Books' /\ OneOfEachWins'
<1> DEFINE ok == accepts(t.use)
<1> PICK m : m = [tx |-> t, ok |-> ok]
  OBVIOUS
<1>1. /\ address \in code.wallet /\ t.step # "wallet" /\ t.use # NoUse /\ t.use \in Use /\ t \in Sent
  BY DEF MineMetaTx, Claims, Effects, Behind, Typed, TypeOK, Tx, Sent
<1>2. ok \in BOOLEAN /\ (address \in code.wallet => ok) = ok
  BY <1>1 DEF accepts, bitflipAccepts, nonceAccepts
<1>3. Mined(t, ok)
  <2> HIDE DEF ok
  <2>1. Mined(t, address \in code.wallet => ok)
    BY DEF MineMetaTx, ok
  <2> QED BY <1>2, <2>1, Zenon
<1>4. mined' = mined \cup {m} /\ m.tx = t /\ m.ok = ok /\ wallet' = wallet
  BY <1>3 DEF Mined
<1>5. address' = address /\ address \in code'.wallet
  <2>1. DOMAIN code = {"wallet", "echo"} /\ address' = address
    BY <1>4, SameAddress DEF Claims, Effects, Typed
  <2> QED BY <1>1, <2>1 DEF MineMetaTx
<1>6. IF ok THEN spend(t.use) ELSE store' = store
  BY <1>1 DEF MineMetaTx
<1>7. \A q \in Queue : store.nonces[q] \in Nat
  BY DEF Claims, Effects, Typed, TypeOK, Store
<1>8. \A n \in mined : n.tx \in Sent /\ n.tx.use \in Use /\ (n.tx.step = "wallet" <=> n.tx.use = NoUse)
  BY SentTyped DEF Claims, Effects, Runs, Sent, Tx
<1>9. CASE ok
  <2>1. /\ ~Spent(t.use)
        /\ \A v \in Use : v # NoUse => (Spent(v)' <=> Spent(v) \/ v = t.use)
        /\ \A q \in Queue : store.nonces[q] <= store'.nonces[q]
    BY <1>1, <1>6, <1>9, Spending DEF Claims, Effects
  <2>2. store' \in Store
    BY <1>1, <1>6, <1>9, StoreTyped DEF Claims, Effects
  <2>3. \A n \in mined : n.ok => ~SameClaim(n.tx, t) /\ ~SameClaim(t, n.tx)
    BY <1>1, <1>8, <2>1 DEF SameClaim, Claims, Books
  <2> HIDE DEF ok
  <2>4. OneOfEachWins'
    BY <1>2, <1>3, <1>9, <2>3, OneMore
  <2>5. NoGap'
    BY <1>3, <2>1, <2>2, MineNoGap DEF Store
  <2>6. \A n \in mined' : n.ok /\ n.tx.step # "wallet" => Spent(n.tx.use)'
    BY <1>1, <1>4, <1>8, <2>1 DEF Claims, Books
  <2>7. \A u \in Use : u # NoUse /\ Spent(u)' => Done1(u)'
    BY <1>1, <1>4, <1>9, <2>1 DEF Claims, Books, Done1
  <2>8. \E n \in mined' : n.ok /\ n.tx.step = "wallet"
    BY <1>1, <1>4 DEF Claims, Books
  <2> QED BY <2>4, <2>5, <2>6, <2>7, <2>8 DEF Books, Spent
<1>10. CASE ~ok
  <2>1. store' = store
    BY <1>6, <1>10
  <2>2. Spent(t.use)
    <3>1. t.use[1] = "multiNonce" => t.use[3] <= store.nonces[t.use[2]]
      BY DEF Claims, NoGap
    <3> QED BY <1>1, <1>10, <3>1, UseTyped
        DEF Spent, accepts, nonceAccepts, bitflipAccepts, Claims, Effects
  <2>3. \E n \in mined : n.ok /\ SameClaim(t, n.tx)
    BY <1>1, <2>2 DEF Claims, Books, Done1, SameClaim
  <2> HIDE DEF ok
  <2>4. OneOfEachWins'
    BY <1>2, <1>3, <1>10, <2>3, OneMore
  <2>5. NoGap'
    BY <1>3, <1>7, <2>1, MineNoGap
  <2>6. \A n \in mined' : n.ok => n \in mined
    BY <1>4, <1>10
  <2>7. \A u : (Spent(u)' <=> Spent(u)) /\ (Done1(u) => Done1(u)')
    BY <1>4, <2>1 DEF Spent, Done1
  <2>8. \E n \in mined' : n.ok /\ n.tx.step = "wallet"
    BY <1>1, <1>4 DEF Claims, Books
  <2> QED BY <2>1, <2>4, <2>5, <2>6, <2>7, <2>8 DEF Claims, Books, Spent
<1> QED BY <1>9, <1>10

LEMMA ClaimsInv == Spec => []Claims
<1>1. Init => Runs /\ NoGap /\ Books /\ OneOfEachWins
  <2> SUFFICES ASSUME Init PROVE Runs /\ NoGap /\ Books /\ OneOfEachWins
    OBVIOUS
  <2>1. Sent = {} /\ mined = {} /\ pending = {} /\ address \notin code.wallet
    BY DEF Init, Sent
  <2>2. \A s \in Session : DOMAIN memory[s] = {}
    BY DEF Init, Empty
  <2>3. \A u \in Use : u # NoUse => ~Spent(u)
    BY AllTypes DEF Init, Use, Spent
  <2> QED BY <2>1, <2>2, <2>3 DEF Runs, NoGap, Books, OneOfEachWins
<1>2. Claims /\ Effects' /\ [Next]_vars => Claims'
  <2> SUFFICES ASSUME Claims, Effects', [Next]_vars PROVE Claims'
    OBVIOUS
  <2>1. ASSUME NEW s \in Session, Program(s) \/ Stop(s) PROVE Claims'
    BY <2>1, ProgramRuns, ProgramNoGap, ProgramBooks DEF Claims, Effects
  <2>2. ASSUME NEW t \in pending, Mine(t) PROVE Claims'
    <3>1. PICK ok : Mined(t, ok)
      BY <2>2 DEF Mine, MineWallet, MineMetaTx
    <3>2. Runs'
      BY <3>1, MineRuns DEF Claims, Effects
    <3> QED BY <2>2, <3>2, MineWalletClaims, MineMetaTxClaims DEF Claims, Mine
  <2>3. CASE UNCHANGED vars
    <3>1. /\ address' = address /\ Sent' = Sent /\ pc' = pc /\ step' = step /\ memory' = memory
          /\ run' = run /\ type' = type /\ store' = store /\ code' = code /\ pending' = pending
          /\ mined' = mined
      BY <2>3, SameAddress DEF vars, program, chain, Sent
    <3>2. Runs'
      BY <3>1 DEF Claims, Runs, OfRun, NotAhead, Remembered, SameInRun
    <3>3. NoGap'
      BY <3>1 DEF Claims, NoGap, Awaits
    <3>4. Books' /\ OneOfEachWins'
      BY <3>1 DEF Claims, Books, Spent, Done1, OneOfEachWins, SameClaim
    <3> QED BY <3>2, <3>3, <3>4 DEF Claims
  <2> QED BY <2>1, <2>2, <2>3 DEF Next
<1>3. Effects /\ Runs /\ NoGap /\ Books /\ OneOfEachWins <=> Claims
  BY DEF Claims
<1> QED BY <1>1, <1>2, <1>3, EffectsInv, PTL DEF Spec

(* What reverts lost a use, or a wallet, to another; one of each wins.     *)
THEOREM SessionClaims == Spec => []OneOfEachWins
<1>1. Claims => OneOfEachWins
  BY DEF Claims
<1> QED BY <1>1, ClaimsInv, PTL

-----------------------------------------------------------------------------
(* The safety half of LastGetsThrough.                                     *)
(*                                                                         *)
(* A run waits for what it has on its way, and for what it has sent; who   *)
(* is past the last wait has been heard; a bitmap is drawn once.           *)
WaitsFor(s) ==
  /\ \A t \in pending : t.by = s /\ t.run = run[s] /\ pc[s] # "failed" =>
       pc[s] = "wait" /\ t.step = step[s]
  /\ pc[s] = "wait" => \E t \in Sent : t.by = s /\ t.run = run[s] /\ t.step = step[s]
  /\ pc[s] \in {"read", "done"} => step[s] = "message" /\ \E t \in heard : t.by = s
  /\ type[s] = "BITFLIP" => DOMAIN memory[s] \subseteq {index[s]}

Waits == Claims /\ \A s \in Session : WaitsFor(s)

(* What a step of one place leaves alone.                                  *)
LEMMA Frame ==
  ASSUME Typed, NEW s \in Session, Program(s) \/ Stop(s)
  PROVE  /\ wallet' = wallet /\ type' = type /\ code' = code /\ store' = store
         /\ mined' = mined /\ heard' = heard
         /\ address' = address /\ echoAddress' = echoAddress
         /\ \A r \in Session \ {s} : /\ pc'[r] = pc[r] /\ step'[r] = step[r] /\ run'[r] = run[r]
                                     /\ memory'[r] = memory[r] /\ index'[r] = index[r]
         /\ \/ pending' = pending
            \/ \E u : Send(s, u)
         /\ Sent \subseteq Sent'
<1>1. /\ wallet' = wallet /\ type' = type /\ code' = code /\ store' = store
      /\ mined' = mined /\ heard' = heard
      /\ pending' = pending \/ \E u : Send(s, u)
  BY DEF Program, Stop, IsWalletDeployed, SendWalletDeploy, NodeReads, SignAndSend, Wait,
         LastMessage, RunAgain, chain
<1>2. DOMAIN pc = Session /\ DOMAIN step = Session /\ DOMAIN run = Session /\ DOMAIN memory = Session
      /\ DOMAIN index = Session
  BY DEF Typed, TypeOK
<1>3. \A r \in Session \ {s} : /\ pc'[r] = pc[r] /\ step'[r] = step[r] /\ run'[r] = run[r]
                               /\ memory'[r] = memory[r] /\ index'[r] = index[r]
  <2> USE <1>2 DEF Goto
  <2>1. CASE IsWalletDeployed(s) \/ LastMessage(s) \/ Wait(s) \/ SendWalletDeploy(s)
    BY <2>1 DEF IsWalletDeployed, LastMessage, Wait, SendWalletDeploy, Send
  <2>2. CASE NodeReads(s)
    BY <2>2 DEF NodeReads
  <2>3. CASE SignAndSend(s)
    BY <2>3 DEF SignAndSend, Send, Remember
  <2>4. CASE RunAgain(s) \/ Stop(s)
    BY <2>4 DEF RunAgain, Stop
  <2> QED BY <2>1, <2>2, <2>3, <2>4 DEF Program
<1>4. Sent \subseteq Sent'
  BY <1>1 DEF Sent, Send
<1> QED BY <1>1, <1>3, <1>4, SameAddress

(* While a run does not wait, or what it waits for is mined, it has        *)
(* nothing on its way.                                                     *)
LEMMA NothingOnItsWay ==
  ASSUME Waits, NEW s \in Session, pc[s] # "failed", pc[s] # "wait" \/ \E ok : Result(s, ok),
         NEW t \in pending, t.by = s, t.run = run[s]
  PROVE  FALSE
<1>1. pc[s] = "wait" /\ t.step = step[s]
  BY DEF Waits, WaitsFor
<1>2. PICK m \in mined : m.tx.by = s /\ m.tx.run = run[s] /\ m.tx.step = step[s]
  BY <1>1 DEF Result
<1>3. m.tx = t
  BY <1>1, <1>2 DEF Waits, Claims, Runs, SameInRun, Sent
<1> QED BY <1>3 DEF Waits, Claims, Runs

(* A step of a run, or its end.                                            *)
LEMMA ProgramWaits ==
  ASSUME Waits, NEW s \in Session, Program(s) \/ Stop(s)
  PROVE  \A r \in Session : WaitsFor(r)'
<1> USE DEF Goto
<1>a. Typed /\ Runs
  BY DEF Waits, Claims, Effects
<1>b. DOMAIN pc = Session /\ DOMAIN step = Session /\ DOMAIN run = Session /\ DOMAIN memory = Session
      /\ DOMAIN index = Session /\ WaitsFor(s)
  BY <1>a DEF Typed, TypeOK, Waits
<1>c. type' = type /\ heard' = heard /\ mined' = mined /\ Sent \subseteq Sent'
  BY <1>a, Frame
<1>1. ASSUME NEW r \in Session, r # s PROVE WaitsFor(r)'
  <2>1. /\ pc'[r] = pc[r] /\ step'[r] = step[r] /\ run'[r] = run[r] /\ memory'[r] = memory[r]
        /\ index'[r] = index[r]
        /\ \A t \in pending' : t.by = r => t \in pending
    BY <1>1, <1>a, Frame DEF Send
  <2> QED BY <1>1, <1>c, <2>1 DEF Waits, WaitsFor
<1>2. WaitsFor(s)'
  <2>1. CASE IsWalletDeployed(s)
    <3>1. /\ pc[s] = "begin" /\ pc'[s] \in {"sign", "deploy"}
          /\ pending' = pending /\ memory' = memory /\ index' = index /\ run' = run
      BY <1>b, <2>1 DEF IsWalletDeployed
    <3> QED BY <1>b, <1>c, <3>1 DEF WaitsFor
  <2>2. ASSUME NEW u, Send(s, u), pc[s] \in {"deploy", "sign"}, step' = step, run' = run,
               type[s] = "BITFLIP" => index' = index /\ DOMAIN memory'[s] = DOMAIN memory[s]
        PROVE  WaitsFor(s)'
    <3> DEFINE new == [by |-> s, run |-> run[s], step |-> step[s], use |-> u]
    <3>1. pc'[s] = "wait" /\ pending' = pending \cup {new} /\ new \in Sent'
      BY <1>b, <2>2 DEF Send, Sent
    <3>2. new.by = s /\ new.run = run[s] /\ new.step = step[s]
      OBVIOUS
    <3> HIDE DEF new
    <3>3. \A t \in pending : ~(t.by = s /\ t.run = run[s])
      BY <1>b, <2>2 DEF WaitsFor
    <3> QED BY <1>b, <1>c, <2>2, <3>1, <3>2, <3>3 DEF WaitsFor
  <2>3. CASE SendWalletDeploy(s)
    BY <2>2, <2>3 DEF SendWalletDeploy
  <2>4. CASE NodeReads(s)
    <3>1. pc' = pc /\ pc[s] = "sign" /\ pending' = pending /\ step' = step /\ run' = run
      BY <2>4 DEF NodeReads
    <3>2. type[s] = "BITFLIP" => DOMAIN memory'[s] \subseteq {index'[s]}
      BY <1>b, <2>4 DEF NodeReads, Hold
    <3> QED BY <1>b, <1>c, <3>1, <3>2 DEF WaitsFor
  <2>5. CASE SignAndSend(s)
    <3>1. type[s] = "BITFLIP" => index' = index /\ DOMAIN memory'[s] = DOMAIN memory[s]
      BY <1>b, <2>5 DEF SignAndSend, Remember
    <3> QED BY <2>2, <2>5, <3>1 DEF SignAndSend
  <2>6. CASE Wait(s)
    <3>1. /\ pc[s] = "wait" /\ \E ok : Result(s, ok)
          /\ pending' = pending /\ memory' = memory /\ index' = index /\ run' = run
          /\ pc'[s] \in {"failed", "read", "sign"}
      BY <1>b, <2>6 DEF Wait
    <3>2. \A t \in pending : ~(t.by = s /\ t.run = run[s])
      BY <3>1, NothingOnItsWay
    <3>3. pc'[s] = "read" => step'[s] = "message" /\ \E t \in heard : t.by = s
      <4>1. pc'[s] = "read" => Result(s, TRUE) /\ step[s] = "message" /\ step' = step
        BY <1>b, <2>6 DEF Wait
      <4> QED BY <4>1 DEF Result, Waits, Claims, Effects, SuccessMeansEffect
    <3> QED BY <1>b, <1>c, <3>1, <3>2, <3>3 DEF WaitsFor
  <2>7. CASE LastMessage(s)
    <3>1. /\ pc[s] = "read" /\ pc'[s] \in {"done", "failed"}
          /\ pending' = pending /\ memory' = memory /\ index' = index /\ run' = run /\ step' = step
      BY <1>b, <2>7 DEF LastMessage
    <3> QED BY <1>b, <1>c, <3>1 DEF WaitsFor
  <2>8. CASE RunAgain(s)
    <3>1. /\ run'[s] = run[s] + 1 /\ run[s] \in Nat /\ pc'[s] = "begin" /\ pending' = pending
          /\ DOMAIN memory'[s] = {}
      BY <1>a, <1>b, <2>8, BoundsAssumption DEF RunAgain, Empty, Typed, TypeOK
    <3>2. \A t \in pending : t.by = s => t.run \in Nat /\ t.run <= run[s]
      BY <1>a, SentTyped DEF Runs, OfRun, Sent
    <3> QED BY <1>c, <3>1, <3>2 DEF WaitsFor
  <2>9. CASE Stop(s)
    <3>1. /\ pc'[s] = "failed"
          /\ pending' = pending /\ memory' = memory /\ index' = index /\ run' = run
      BY <1>b, <2>9 DEF Stop
    <3> QED BY <1>b, <1>c, <3>1 DEF WaitsFor
  <2> QED BY <2>1, <2>3, <2>4, <2>5, <2>6, <2>7, <2>8, <2>9 DEF Program
<1> QED BY <1>1, <1>2

(* With what the chain mines, always.                                      *)
LEMMA WaitsInv == Spec => []Waits
<1>1. Init => \A s \in Session : WaitsFor(s)
  BY DEF Init, WaitsFor, Empty
<1>2. Waits /\ Claims' /\ [Next]_vars => Waits'
  <2> SUFFICES ASSUME Waits, Claims', [Next]_vars PROVE \A s \in Session : WaitsFor(s)'
    BY DEF Waits
  <2>1. ASSUME NEW s \in Session, Program(s) \/ Stop(s) PROVE \A r \in Session : WaitsFor(r)'
    BY <2>1, ProgramWaits
  <2>2. ASSUME NEW t \in pending, Mine(t) PROVE \A r \in Session : WaitsFor(r)'
    <3>1. PICK ok : Mined(t, ok)
      BY <2>2 DEF Mine, MineWallet, MineMetaTx
    <3>2. Sent' = Sent /\ pending' \subseteq pending
      BY <3>1, MineRuns DEF Mined, Waits, Claims, Effects
    <3>3. heard \subseteq heard'
      BY <2>2 DEF Mine, MineWallet, MineMetaTx
    <3>4. /\ pc' = pc /\ step' = step /\ memory' = memory /\ index' = index /\ run' = run
          /\ type' = type
      BY <3>1 DEF Mined, program
    <3> QED BY <3>2, <3>3, <3>4 DEF Waits, WaitsFor
  <2>3. CASE UNCHANGED vars
    BY <2>3 DEF vars, program, chain, Waits, WaitsFor, Sent
  <2> QED BY <2>1, <2>2, <2>3 DEF Next
<1>3. Waits <=> Claims /\ \A s \in Session : WaitsFor(s)
  BY DEF Waits
<1> QED BY <1>1, <1>2, <1>3, ClaimsInv, PTL DEF Spec

-----------------------------------------------------------------------------
(* A run that was started after everything else was over: nobody comes     *)
(* before it any more, its memory is not behind the chain, and nothing it  *)
(* sends reverts.                                                          *)
Over(s) == pc[s] = "done" \/ (pc[s] = "failed" /\ run[s] = MaxRuns)

Current(s) ==
  \A i \in DOMAIN memory[s] :
    IF type[s] = "BITFLIP" THEN store.flips[i] \subseteq memory[s][i]
    ELSE store.nonces[i] <= memory[s][i]

Unrivalled(s) ==
  /\ stops = MaxStops /\ pc[s] # "failed"
  /\ \A r \in Session \ {s} : Over(r)
  /\ \A t \in pending : t.by = s /\ t.run = run[s]
  /\ \A t \in pending : IF t.step = "wallet" THEN address \notin code.wallet ELSE accepts(t.use)
  /\ \A m \in mined : m.tx.by = s /\ m.tx.run = run[s] => m.ok
  /\ pc[s] = "deploy" => address \notin code.wallet
  /\ Current(s)

(* Whoever is left alone, in the run that he is in or in one after it.     *)
Last(s) == LeftAlone(s) \/ Unrivalled(s)

(* What is left to do: runs to start, and steps of this one.               *)
StepsLeft(s) == CASE step[s] = "wallet" -> 20 [] step[s] = "echo" -> 10 [] OTHER -> 0
WithinStep(s) ==
  CASE pc[s] = "begin"  -> 9
    [] pc[s] = "deploy" -> 8
    [] pc[s] = "sign"   -> IF index[s] \in DOMAIN memory[s] THEN 6 ELSE 7
    [] pc[s] = "wait"   -> IF pending = {} THEN 4 ELSE 5
    [] OTHER            -> 3
Left(s) ==
  40 * (MaxRuns - run[s]) +
    IF pc[s] \in {"done", "failed"} THEN 0 ELSE StepsLeft(s) + WithinStep(s)

(* What the actions of the last run ask for, and the chain's: a bitmap     *)
(* that is full is the only obstacle.                                      *)
GoesOn(s) ==
  \/ pc[s] \in {"begin", "deploy", "read"}
  \/ pc[s] = "failed" /\ run[s] < MaxRuns
  \/ pc[s] = "wait" /\ (pending # {} \/ \E ok \in BOOLEAN : Result(s, ok))
  \/ pc[s] = "sign" /\ IF index[s] \in DOMAIN memory[s]
                       THEN type[s] = "BITFLIP" => ~(Bit \subseteq memory[s][index[s]])
                       ELSE type[s] = "BITFLIP" => DOMAIN memory[s] = {} /\ Index # {}
Full(s) ==
  /\ pc[s] = "sign" /\ type[s] = "BITFLIP"
  /\ index[s] \in DOMAIN memory[s] /\ Bit \subseteq memory[s][index[s]]

(* Only the last one takes steps.                                          *)
LEMMA OnlyTheLast ==
  ASSUME NEW s \in Session, Last(s), NEW r \in Session, Program(r) \/ Stop(r)
  PROVE  r = s /\ Program(s) /\ stops' = stops
<1>1. ~Stop(r)
  <2>1. stops = MaxStops /\ ~(stops < MaxStops)
    BY BoundsAssumption DEF Last, LeftAlone, Unrivalled
  <2> QED BY <2>1 DEF Stop
<1>2. ASSUME r # s PROVE FALSE
  <2>1. pc[r] = "done" \/ (pc[r] = "failed" /\ run[r] = MaxRuns)
    BY <1>2 DEF Last, LeftAlone, Unrivalled, Over
  <2>2. pc[r] \in {"begin", "deploy", "sign", "wait", "read"} \/ RunAgain(r)
    BY <1>1 DEF Program, IsWalletDeployed, SendWalletDeploy, NodeReads, SignAndSend, Wait,
                LastMessage
  <2>3. RunAgain(r) => pc[r] = "failed" /\ run[r] < MaxRuns
    BY DEF RunAgain
  <2> QED BY <2>1, <2>2, <2>3, BoundsAssumption
<1>3. Program(s) => stops' = stops
  BY DEF Program, IsWalletDeployed, SendWalletDeploy, NodeReads, SignAndSend, Wait, LastMessage,
         RunAgain
<1> QED BY <1>1, <1>2, <1>3

(* He has one transaction on its way at most, the one he waits for.        *)
LEMMA OneOnItsWay ==
  ASSUME Waits, NEW s \in Session, Last(s)
  PROVE  /\ \A t \in pending : t.by = s /\ t.run = run[s] /\ pc[s] = "wait" /\ t.step = step[s]
         /\ \A t, u \in pending : t = u
         /\ pc[s] # "wait" \/ (\E ok : Result(s, ok)) => pending = {}
<1>1. \A t \in pending : t.by = s /\ t.run = run[s] /\ pc[s] # "failed"
  BY DEF Last, LeftAlone, Unrivalled
<1>2. \A t \in pending : pc[s] = "wait" /\ t.step = step[s]
  BY <1>1 DEF Waits, WaitsFor
<1>3. \A t, u \in pending : t = u
  BY <1>1, <1>2 DEF Waits, Claims, Runs, SameInRun, Sent
<1>4. pc[s] # "wait" \/ (\E ok : Result(s, ok)) => pending = {}
  BY <1>1, NothingOnItsWay
<1> QED BY <1>1, <1>2, <1>3, <1>4

(* Left alone in a run, or, from the next one on, without rivals.          *)
LEMMA LeftAloneGoesOn ==
  ASSUME Waits, NEW s \in Session, LeftAlone(s), Program(s)
  PROVE  Last(s)'
<1> USE DEF Goto
<1>a. Typed /\ Runs /\ Last(s)
  BY DEF Waits, Claims, Effects, Last
<1>b. DOMAIN pc = Session /\ DOMAIN run = Session /\ DOMAIN memory = Session /\ run[s] \in Nat
  BY <1>a, BoundsAssumption DEF Typed, TypeOK
<1>c. stops' = MaxStops /\ mined' = mined /\ \A r \in Session \ {s} : Over(r)'
  <2>1. stops' = stops
    BY <1>a, OnlyTheLast
  <2> QED BY <1>a, <2>1, Frame DEF LeftAlone, Over
<1>1. CASE RunAgain(s)
  <2>1. /\ pc[s] = "failed" /\ pc'[s] = "begin" /\ run'[s] = run[s] + 1 /\ pending' = pending
        /\ DOMAIN memory'[s] = {}
    BY <1>b, <1>1 DEF RunAgain, Empty
  <2>2. pending = {}
    BY <2>1 DEF LeftAlone
  <2>3. \A m \in mined : m.tx.by = s => m.tx.run \in Nat /\ m.tx.run <= run[s]
    BY <1>a, SentTyped DEF Runs, OfRun, Sent
  <2> QED BY <1>b, <1>c, <2>1, <2>2, <2>3 DEF Last, Unrivalled, Current
<1>2. CASE ~RunAgain(s)
  <2>1. run' = run
    BY <1>2 DEF Program, IsWalletDeployed, SendWalletDeploy, NodeReads, SignAndSend, Wait, LastMessage
  <2>2. \A t \in pending' : t.by = s /\ t.run = run[s] /\ pc'[s] = "wait"
    <3>1. CASE pending' = pending
      <4>1. pc[s] # "wait" \/ (\E ok : Result(s, ok))
        BY <1>2 DEF Program, IsWalletDeployed, SendWalletDeploy, NodeReads, SignAndSend, Wait,
                    LastMessage
      <4> QED BY <1>a, <3>1, <4>1, OneOnItsWay
    <3>2. ASSUME NEW u, Send(s, u), pc[s] # "wait" PROVE \A t \in pending' : t.by = s /\ t.run = run[s] /\ pc'[s] = "wait"
      BY <1>a, <1>b, <3>2, OneOnItsWay DEF Send
    <3> QED BY <1>2, <3>1, <3>2 DEF Program, IsWalletDeployed, SendWalletDeploy, NodeReads,
              SignAndSend, Wait, LastMessage
  <2> QED BY <1>b, <1>c, <2>1, <2>2 DEF Last, LeftAlone, Over
<1> QED BY <1>1, <1>2

(* And while a transaction of his is mined.                                *)
LEMMA LeftAloneMines ==
  ASSUME NEW s \in Session, LeftAlone(s), NEW t \in pending, Mine(t)
  PROVE  LeftAlone(s)'
<1>1. PICK ok : Mined(t, ok)
  BY DEF Mine, MineWallet, MineMetaTx
<1>2. pending' \subseteq pending /\ pc' = pc /\ run' = run /\ stops' = stops
  BY <1>1 DEF Mined, program
<1> QED BY <1>2 DEF LeftAlone

(* What is sent in a run without rivals will stand.                        *)
LEMMA SendUnrivalled ==
  ASSUME Waits, NEW s \in Session, Unrivalled(s), NEW u, Send(s, u), pending = {},
         run' = run, mined' = mined, type' = type, store' = store, stops' = stops,
         \A r \in Session \ {s} : Over(r)',
         pc[s] # "wait", address' = address, code' = code,
         IF step[s] = "wallet" THEN address \notin code.wallet ELSE accepts(u),
         Current(s)'
  PROVE  Unrivalled(s)'
<1> DEFINE new == [by |-> s, run |-> run[s], step |-> step[s], use |-> u]
<1>1. pending' = {new} /\ pc'[s] = "wait"
  BY DEF Send, Goto, Waits, Claims, Effects, Typed, TypeOK
<1>2. new.by = s /\ new.run = run[s] /\ new.step = step[s] /\ new.use = u
  OBVIOUS
<1> HIDE DEF new
<1>3. accepts(u)' <=> accepts(u)
  BY DEF accepts
<1>4. \A t \in pending' : t = new
  BY <1>1
<1>5. \A t \in pending' : IF t.step = "wallet" THEN address' \notin code'.wallet ELSE accepts(t.use)'
  BY <1>2, <1>3, <1>4 DEF accepts
<1> QED BY <1>1, <1>2, <1>4, <1>5 DEF Unrivalled

(* The first read is current, and so is what is remembered of one's own    *)
(* uses: each use given is the next one, and nothing fails.                *)
LEMMA UnrivalledGoesOn ==
  ASSUME Waits, NEW s \in Session, Unrivalled(s), Program(s)
  PROVE  Unrivalled(s)'
<1> USE DEF Goto
<1>a. Typed /\ Last(s) /\ WaitsFor(s)
  BY DEF Waits, Claims, Effects, Last
<1>b. /\ DOMAIN pc = Session /\ DOMAIN memory = Session
      /\ pc[s] \in {"begin", "deploy"} => step[s] = "wallet"
      /\ pc[s] \in {"sign", "read"} => step[s] # "wallet"
  BY <1>a DEF Typed, TypeOK
<1>c. /\ stops' = stops /\ mined' = mined /\ type' = type /\ store' = store /\ code' = code
      /\ address' = address /\ echoAddress' = echoAddress
  BY <1>a, OnlyTheLast, Frame
<1>d. \A r \in Session \ {s} : Over(r)'
  BY <1>a, Frame DEF Unrivalled, Over
<1>e. ASSUME pending' = pending, pending = {}, run' = run, pc'[s] # "failed", Current(s)',
             pc'[s] = "deploy" => address \notin code.wallet
      PROVE  Unrivalled(s)'
  BY <1>c, <1>d, <1>e DEF Unrivalled
<1>1. CASE IsWalletDeployed(s)
  <2>1. /\ pending' = pending /\ memory' = memory /\ run' = run /\ pc[s] # "wait"
        /\ IF address \in code.wallet THEN pc'[s] = "sign" ELSE pc'[s] = "deploy"
    BY <1>1, <1>b DEF IsWalletDeployed
  <2> QED BY <1>a, <1>c, <1>e, <2>1, OneOnItsWay DEF Unrivalled, Current
<1>2. CASE SendWalletDeploy(s)
  <2>1. Send(s, NoUse) /\ memory' = memory /\ run' = run /\ pc[s] = "deploy"
    BY <1>2 DEF SendWalletDeploy
  <2>2. Current(s)'
    BY <1>c, <2>1 DEF Unrivalled, Current
  <2> QED BY <1>a, <1>b, <1>c, <1>d, <2>1, <2>2, OneOnItsWay, SendUnrivalled DEF Unrivalled
<1>3. CASE NodeReads(s)
  <2>1. pending' = pending /\ run' = run /\ pc' = pc /\ pc[s] = "sign"
    BY <1>3 DEF NodeReads
  <2>2. Current(s)'
    <3>1. CASE type[s] = "BITFLIP"
      <4>1. PICK i \in Index : memory' = [memory EXCEPT ![s] = Hold(memory[s], i, store.flips[i])]
                               /\ DOMAIN memory[s] = {}
        BY <1>3, <3>1 DEF NodeReads
      <4>2. DOMAIN memory'[s] = {i} /\ memory'[s][i] = store.flips[i]
        BY <1>b, <4>1 DEF Hold
      <4> QED BY <1>c, <3>1, <4>2 DEF Current
    <3>2. CASE type[s] # "BITFLIP"
      <4> DEFINE q == index[s]
      <4>1. memory' = [memory EXCEPT ![s] = Hold(memory[s], q, store.nonces[q])]
        BY <1>3, <3>2 DEF NodeReads
      <4>2. store.nonces[q] \in Nat
        BY <1>a, <3>2 DEF Typed, TypeOK, Store
      <4>3. /\ DOMAIN memory'[s] = DOMAIN memory[s] \cup {q}
            /\ \A i \in DOMAIN memory'[s] :
                 memory'[s][i] = IF i = q THEN store.nonces[q] ELSE memory[s][i]
        BY <1>b, <4>1 DEF Hold
      <4> QED BY <1>c, <3>2, <4>2, <4>3 DEF Current, Unrivalled
    <3> QED BY <3>1, <3>2
  <2> QED BY <1>a, <1>e, <2>1, <2>2, OneOnItsWay
<1>4. CASE SignAndSend(s)
  <2>1. /\ pc[s] = "sign" /\ index[s] \in DOMAIN memory[s] /\ Send(s, use(s)) /\ Remember(s)
        /\ run' = run /\ (type[s] = "BITFLIP" => ~(Bit \subseteq memory[s][index[s]]))
    BY <1>4 DEF SignAndSend
  <2>2. CASE type[s] = "BITFLIP"
    <3>1. /\ use(s)[1] = "bitFlip" /\ use(s)[2] = index[s]
          /\ use(s)[3] \in Bit \ memory[s][index[s]]
          /\ store.flips[index[s]] \subseteq memory[s][index[s]]
      BY <1>a, <2>1, <2>2, UseOf DEF Unrivalled, Current
    <3>2. accepts(use(s))
      BY <3>1 DEF accepts, bitflipAccepts
    <3>3. Current(s)'
      <4>1. memory' = [memory EXCEPT ![s][index[s]] = @ \cup {use(s)[3]}]
        BY <2>1, <2>2 DEF Remember
      <4>2. /\ DOMAIN memory'[s] = DOMAIN memory[s]
            /\ \A i \in DOMAIN memory[s] : memory[s][i] \subseteq memory'[s][i]
        BY <1>b, <4>1
      <4> QED BY <1>c, <2>2, <4>2 DEF Current, Unrivalled
    <3> QED BY <1>a, <1>b, <1>c, <1>d, <2>1, <3>2, <3>3, OneOnItsWay, SendUnrivalled
  <2>3. CASE type[s] # "BITFLIP"
    <3> DEFINE q == index[s]
    <3>1. /\ use(s)[1] = "multiNonce" /\ use(s)[2] = q /\ use(s)[3] = memory[s][q]
          /\ store.nonces[q] <= memory[s][q] /\ memory[s][q] \in Nat /\ store.nonces[q] \in Nat
      BY <1>a, <2>1, <2>3, UseOf DEF Unrivalled, Current, Typed, TypeOK, Store
    <3>2. memory[s][q] <= store.nonces[q]
      BY <2>1, <2>3, Awaited DEF Waits
    <3>3. accepts(use(s))
      BY <3>1, <3>2 DEF accepts, nonceAccepts
    <3>4. Current(s)'
      <4>1. memory' = [memory EXCEPT ![s][q] = @ + 1]
        BY <2>1, <2>3 DEF Remember
      <4>2. /\ DOMAIN memory'[s] = DOMAIN memory[s]
            /\ \A i \in DOMAIN memory[s] : memory'[s][i] = memory[s][i] + IF i = q THEN 1 ELSE 0
        <5>1. \A i \in DOMAIN memory[s] : memory[s][i] \in Nat
          BY <1>a, <2>3 DEF Typed, TypeOK
        <5> QED BY <1>b, <4>1, <5>1
      <4>3. \A i \in DOMAIN memory[s] : memory[s][i] \in Nat /\ store.nonces[i] \in Nat
        BY <1>a, <2>3 DEF Typed, TypeOK, Store
      <4> QED BY <1>c, <2>3, <4>2, <4>3 DEF Current, Unrivalled
    <3> QED BY <1>a, <1>b, <1>c, <1>d, <2>1, <3>3, <3>4, OneOnItsWay, SendUnrivalled
  <2> QED BY <2>2, <2>3
<1>5. CASE Wait(s)
  <2>1. /\ pending' = pending /\ memory' = memory /\ run' = run /\ \E ok : Result(s, ok)
    BY <1>5 DEF Wait
  <2>2. ~Result(s, FALSE)
    BY DEF Result, Unrivalled
  <2>3. pc'[s] \in {"read", "sign"}
    BY <1>5, <1>b, <2>2 DEF Wait
  <2> QED BY <1>a, <1>c, <1>e, <2>1, <2>3, OneOnItsWay DEF Unrivalled, Current
<1>6. CASE LastMessage(s)
  <2>1. pc[s] = "read" /\ pending' = pending /\ memory' = memory /\ run' = run
    BY <1>6 DEF LastMessage
  <2>2. echoAddress \in code.echo
    BY <1>a, <2>1 DEF WaitsFor, Waits, Claims, Effects, Behind
  <2>3. pc'[s] = "done"
    BY <1>6, <1>b, <2>2 DEF LastMessage
  <2> QED BY <1>a, <1>c, <1>e, <2>1, <2>3, OneOnItsWay DEF Unrivalled, Current
<1>7. ~RunAgain(s)
  BY DEF Unrivalled, RunAgain
<1> QED BY <1>1, <1>2, <1>3, <1>4, <1>5, <1>6, <1>7 DEF Program

(* The chain moves by what is remembered, and by nothing else.             *)
LEMMA UnrivalledMines ==
  ASSUME Waits, NEW s \in Session, Unrivalled(s), NEW t \in pending, Mine(t)
  PROVE  Unrivalled(s)'
<1>a. /\ Typed /\ Last(s) /\ t.by = s /\ t.run = run[s] /\ pc[s] = "wait" /\ pending \ {t} = {}
      /\ t \in Sent
  BY OneOnItsWay DEF Waits, Claims, Effects, Last, Sent
<1>b. PICK ok : Mined(t, ok) /\ ok = TRUE
  <2>1. CASE MineWallet(t)
    BY <2>1, WalletWhereComputed DEF MineWallet, Unrivalled
  <2>2. CASE MineMetaTx(t)
    <3>1. Mined(t, address \in code.wallet => accepts(t.use)) /\ accepts(t.use)
      BY <2>2 DEF MineMetaTx, Unrivalled
    <3> QED BY <3>1
  <2> QED BY <2>1, <2>2 DEF Mine
<1>c. /\ pending' = {} /\ wallet' = wallet /\ type' = type /\ stops' = stops /\ pc' = pc
      /\ run' = run /\ memory' = memory /\ mined' = mined \cup {[tx |-> t, ok |-> TRUE]}
  BY <1>a, <1>b DEF Mined, program
<1>1. Current(s)'
  <2>1. CASE store' = store
    BY <1>c, <2>1 DEF Unrivalled, Current
  <2>2. CASE store' # store
    <3>1. t.step # "wallet" /\ t.use \in Use /\ t.use # NoUse /\ spend(t.use) /\ accepts(t.use)
      BY <1>a, <2>2 DEF Mine, MineWallet, MineMetaTx, Typed, TypeOK, Tx, NoUse
    <3>2. Remembered(t)
      BY <1>a, <3>1 DEF Waits, Claims, Runs, OfRun
    <3>3. /\ DOMAIN store = {"nonces", "flips"} /\ store.nonces \in [Queue -> Nat]
          /\ store.flips \in [Index -> SUBSET Bit]
      BY <1>a DEF Typed, TypeOK, Store
    <3>4. CASE type[s] = "BITFLIP"
      <4>1. t.use[1] = "bitFlip" /\ t.use[2] \in Index /\ t.use[3] \in memory[s][t.use[2]]
        BY <1>a, <3>1, <3>2, <3>4, UseTyped DEF Remembered
      <4>2. \A i \in Index : store'.flips[i] = IF i = t.use[2] THEN store.flips[i] \cup {t.use[3]} ELSE store.flips[i]
        <5>1. store' = [store EXCEPT !.flips[t.use[2]] = @ \cup {t.use[3]}]
          BY <3>1, <4>1 DEF spend, bitflipStored
        <5> QED BY <3>3, <5>1
      <4>3. \A i \in DOMAIN memory[s] : i \in Index
        BY <1>a, <3>4 DEF Typed, TypeOK
      <4>4. \A i \in DOMAIN memory[s] : store'.flips[i] \subseteq memory[s][i]
        <5> SUFFICES ASSUME NEW i \in DOMAIN memory[s]
                     PROVE  store'.flips[i] \subseteq memory[s][i]
          OBVIOUS
        <5>1. store.flips[i] \subseteq memory[s][i]
          BY <3>4 DEF Unrivalled, Current
        <5>2. CASE i = t.use[2]
          BY <4>1, <4>2, <5>1, <5>2
        <5>3. CASE i # t.use[2]
          BY <4>2, <4>3, <5>1, <5>3
        <5> QED BY <5>2, <5>3
      <4> QED BY <1>c, <3>4, <4>4 DEF Current
    <3>5. CASE type[s] # "BITFLIP"
      <4>1. /\ t.use[1] = "multiNonce" /\ t.use[2] \in Queue /\ t.use[3] < memory[s][t.use[2]]
            /\ t.use[3] \in Nat /\ t.use[3] = store.nonces[t.use[2]]
        BY <1>a, <3>1, <3>2, <3>5, UseTyped DEF Remembered, accepts, nonceAccepts
      <4>2. \A q \in Queue : store'.nonces[q] = IF q = t.use[2] THEN store.nonces[q] + 1 ELSE store.nonces[q]
        BY <3>1, <3>3, <4>1 DEF spend, nonceStored
      <4>3. \A i \in DOMAIN memory[s] : i \in Queue /\ memory[s][i] \in Nat /\ store.nonces[i] \in Nat
        BY <1>a, <3>3, <3>5 DEF Typed, TypeOK
      <4> QED BY <1>c, <3>5, <4>1, <4>2, <4>3 DEF Unrivalled, Current
    <3> QED BY <3>4, <3>5
  <2> QED BY <2>1, <2>2
<1>2. \A m \in mined' : m.tx.by = s /\ m.tx.run = run[s] => m.ok
  BY <1>c DEF Unrivalled
<1> QED BY <1>a, <1>c, <1>1, <1>2 DEF Unrivalled, Over

-----------------------------------------------------------------------------
(* What is left to do is a number.                                         *)
LEMMA LeftTyped ==
  ASSUME Typed, NEW s \in Session
  PROVE  /\ Left(s) \in Nat /\ StepsLeft(s) \in {0, 10, 20} /\ WithinStep(s) \in 3..9
         /\ run[s] \in 1..MaxRuns /\ MaxRuns \in Nat
<1>1. run[s] \in 1..MaxRuns /\ MaxRuns \in Nat
  BY BoundsAssumption DEF Typed, TypeOK
<1>2. StepsLeft(s) \in {0, 10, 20}
  BY DEF StepsLeft
<1>3. WithinStep(s) \in 3..9
  BY DEF WithinStep
<1>4. 40 * (MaxRuns - run[s]) \in Nat
  BY <1>1
<1> QED BY <1>1, <1>2, <1>3, <1>4 DEF Left

(* A step within a run, or into the next one.                              *)
LEMMA ProgramLeavesLess ==
  ASSUME Waits, Typed', NEW s \in Session, Last(s), Program(s)
  PROVE  Left(s)' < Left(s)
<1> USE DEF Goto
<1>a. Typed
  BY DEF Waits, Claims, Effects
<1>b. /\ DOMAIN pc = Session /\ DOMAIN step = Session /\ DOMAIN run = Session
      /\ DOMAIN memory = Session /\ DOMAIN index = Session
      /\ step[s] \in {"wallet", "echo", "message"}
  BY <1>a DEF Typed, TypeOK, Step
<1>c. /\ StepsLeft(s) \in {0, 10, 20} /\ WithinStep(s) \in 3..9
      /\ StepsLeft(s)' \in {0, 10, 20} /\ WithinStep(s)' \in 3..9
      /\ run[s] \in 1..MaxRuns /\ run'[s] \in 1..MaxRuns /\ MaxRuns \in Nat
  <2>1. StepsLeft(s)' \in {0, 10, 20} /\ WithinStep(s)' \in 3..9 /\ run'[s] \in 1..MaxRuns
    BY BoundsAssumption DEF Typed, TypeOK, StepsLeft, WithinStep
  <2> QED BY <1>a, <2>1, LeftTyped
<1>d. ASSUME run' = run, pc[s] \notin {"done", "failed"},
             pc'[s] \notin {"done", "failed"} =>
               StepsLeft(s)' + WithinStep(s)' < StepsLeft(s) + WithinStep(s)
      PROVE  Left(s)' < Left(s)
  <2> DEFINE before == 40 * (MaxRuns - run[s])
  <2>1. before \in Int /\ before' = before
    BY <1>c, <1>d
  <2>2. Left(s) = before + (StepsLeft(s) + WithinStep(s))
    BY <1>d DEF Left
  <2>3. Left(s)' = before' + IF pc'[s] \in {"done", "failed"} THEN 0
                             ELSE StepsLeft(s)' + WithinStep(s)'
    BY <1>d DEF Left
  <2> HIDE DEF before
  <2> QED BY <1>c, <1>d, <2>1, <2>2, <2>3
<1>1. CASE IsWalletDeployed(s)
  <2>1. /\ pc[s] = "begin" /\ run' = run /\ step[s] = "wallet"
        /\ \/ pc'[s] = "sign" /\ step'[s] = "echo"
           \/ pc'[s] = "deploy" /\ step'[s] = "wallet"
    BY <1>1, <1>a, <1>b DEF IsWalletDeployed, Typed
  <2>2. /\ StepsLeft(s) = 20 /\ WithinStep(s) = 9
        /\ \/ StepsLeft(s)' = 10
           \/ StepsLeft(s)' = 20 /\ WithinStep(s)' = 8
    BY <2>1 DEF StepsLeft, WithinStep
  <2> QED BY <1>c, <1>d, <2>1, <2>2
<1>2. ASSUME NEW u, Send(s, u), run' = run, step' = step,
             pc[s] = "deploy" \/ (pc[s] = "sign" /\ index[s] \in DOMAIN memory[s])
      PROVE  Left(s)' < Left(s)
  <2>1. pc'[s] = "wait"
    BY <1>b, <1>2 DEF Send
  <2>2. /\ StepsLeft(s)' = StepsLeft(s) /\ WithinStep(s)' \in {4, 5}
        /\ WithinStep(s) \in {6, 8}
    BY <1>2, <2>1 DEF StepsLeft, WithinStep
  <2> QED BY <1>2, <1>c, <1>d, <2>1, <2>2
<1>3. CASE SendWalletDeploy(s)
  BY <1>2, <1>3 DEF SendWalletDeploy
<1>4. CASE NodeReads(s)
  <2>1. /\ pc[s] = "sign" /\ pc' = pc /\ run' = run /\ step' = step
        /\ index[s] \notin DOMAIN memory[s] /\ index'[s] \in DOMAIN memory'[s]
    <3>1. \E i, x : memory' = [memory EXCEPT ![s] = Hold(memory[s], i, x)] /\ index'[s] = i
      BY <1>b, <1>4 DEF NodeReads
    <3>2. index'[s] \in DOMAIN memory'[s]
      BY <1>b, <3>1 DEF Hold
    <3>3. index[s] \notin DOMAIN memory[s]
      BY <1>4 DEF NodeReads
    <3>4. pc[s] = "sign" /\ pc' = pc /\ run' = run /\ step' = step
      BY <1>4 DEF NodeReads
    <3> QED BY <3>2, <3>3, <3>4
  <2>2. StepsLeft(s)' = StepsLeft(s) /\ WithinStep(s)' = 6 /\ WithinStep(s) = 7
    BY <2>1 DEF StepsLeft, WithinStep
  <2> QED BY <1>c, <1>d, <2>1, <2>2
<1>5. CASE SignAndSend(s)
  BY <1>2, <1>5 DEF SignAndSend
<1>6. CASE Wait(s)
  <2>1. /\ pc[s] = "wait" /\ run' = run
        /\ pending' = pending /\ \E ok : Result(s, ok)
    BY <1>6 DEF Wait
  <2>2. WithinStep(s) = 4
    BY <2>1, OneOnItsWay DEF WithinStep
  <2>3. \/ pc'[s] = "failed"
        \/ pc'[s] = "read" /\ step' = step
        \/ /\ pc'[s] = "sign"
           /\ \/ step[s] = "wallet" /\ step'[s] = "echo"
              \/ step[s] = "echo" /\ step'[s] = "message"
    BY <1>6, <1>b DEF Wait
  <2>4. CASE pc'[s] = "failed"
    BY <1>d, <2>1, <2>4
  <2>5. CASE pc'[s] = "read" /\ step' = step
    <3>1. StepsLeft(s)' = StepsLeft(s) /\ WithinStep(s)' = 3
      BY <2>5 DEF StepsLeft, WithinStep
    <3> QED BY <1>c, <1>d, <2>1, <2>2, <3>1
  <2>6. CASE pc'[s] = "sign" /\ step[s] = "wallet" /\ step'[s] = "echo"
    <3>1. StepsLeft(s) = 20 /\ StepsLeft(s)' = 10 /\ WithinStep(s)' \in {6, 7}
      BY <2>6 DEF StepsLeft, WithinStep
    <3> QED BY <1>c, <1>d, <2>1, <2>2, <3>1
  <2>7. CASE pc'[s] = "sign" /\ step[s] = "echo" /\ step'[s] = "message"
    <3>1. StepsLeft(s) = 10 /\ StepsLeft(s)' = 0 /\ WithinStep(s)' \in {6, 7}
      BY <2>7 DEF StepsLeft, WithinStep
    <3> QED BY <1>c, <1>d, <2>1, <2>2, <3>1
  <2> QED BY <2>3, <2>4, <2>5, <2>6, <2>7
<1>7. CASE LastMessage(s)
  <2>1. pc[s] = "read" /\ run' = run /\ pc'[s] \in {"done", "failed"}
    BY <1>7, <1>b DEF LastMessage
  <2> QED BY <1>d, <2>1
<1>8. CASE RunAgain(s)
  <2>1. pc[s] = "failed" /\ run'[s] = run[s] + 1
    BY <1>8, <1>b DEF RunAgain
  <2>2. Left(s) = 40 * (MaxRuns - run[s]) + 0
    BY <2>1 DEF Left
  <2>3. Left(s)' = 40 * (MaxRuns - run'[s]) +
                     IF pc'[s] \in {"done", "failed"} THEN 0 ELSE StepsLeft(s)' + WithinStep(s)'
    BY DEF Left
  <2> QED BY <1>c, <2>1, <2>2, <2>3
<1> QED BY <1>1, <1>3, <1>4, <1>5, <1>6, <1>7, <1>8 DEF Program

(* Mining what he waits for is a step of his, too.                         *)
LEMMA MiningLeavesLess ==
  ASSUME Waits, NEW s \in Session, Last(s), NEW t \in pending, Mine(t)
  PROVE  Left(s)' < Left(s)
<1>1. PICK ok : Mined(t, ok)
  BY DEF Mine, MineWallet, MineMetaTx
<1>2. pc[s] = "wait" /\ pending # {} /\ pending \ {t} = {}
  BY OneOnItsWay
<1>3. pending' = {} /\ pc' = pc /\ step' = step /\ run' = run
  BY <1>1, <1>2 DEF Mined, program
<1>4. StepsLeft(s)' = StepsLeft(s) /\ WithinStep(s) = 5 /\ WithinStep(s)' = 4
  BY <1>2, <1>3 DEF StepsLeft, WithinStep
<1>5. /\ Left(s) = 40 * (MaxRuns - run[s]) + (StepsLeft(s) + WithinStep(s))
      /\ Left(s)' = 40 * (MaxRuns - run[s]) + (StepsLeft(s)' + WithinStep(s)')
  BY <1>2, <1>3 DEF Left
<1>6. run[s] \in Int /\ MaxRuns \in Int /\ StepsLeft(s) \in Int
  BY LeftTyped DEF Waits, Claims, Effects
<1> QED BY <1>4, <1>5, <1>6

(* The last one stays the last one, a run without rivals stays one and so  *)
(* does not fail, and every step, his or the chain's, leaves less to do:   *)
(* fewer than Left(s) steps are between him and where he goes no further.  *)
NearsTheEnd ==
  \A s \in Session : Last(s) =>
    /\ Last(s)' /\ (Unrivalled(s) => Unrivalled(s)')
    /\ Left(s)' \in Nat /\ Left(s)' < Left(s)

(* Every step of the system is such a step: what LastGetsThrough promises  *)
(* is not lost on the way, and not put off for ever.                       *)
THEOREM LastComesCloser == Spec => [][NearsTheEnd]_vars
<1>1. ASSUME Waits, Typed', Next PROVE NearsTheEnd
  <2> SUFFICES ASSUME NEW s \in Session, Last(s)
               PROVE  /\ Last(s)' /\ (Unrivalled(s) => Unrivalled(s)')
                      /\ Left(s)' \in Nat /\ Left(s)' < Left(s)
    BY DEF NearsTheEnd
  <2>1. Left(s)' \in Nat
    <3>1. 40 * (MaxRuns - run'[s]) \in Nat
      BY <1>1, BoundsAssumption DEF Typed, TypeOK
    <3>2. StepsLeft(s)' \in {0, 10, 20} /\ WithinStep(s)' \in 3..9
      BY DEF StepsLeft, WithinStep
    <3> QED BY <3>1, <3>2 DEF Left
  <2>2. ASSUME NEW r \in Session, Program(r) \/ Stop(r)
        PROVE  Last(s)' /\ (Unrivalled(s) => Unrivalled(s)') /\ Left(s)' < Left(s)
    <3>1. Program(s)
      BY <2>2, OnlyTheLast
    <3> QED BY <1>1, <3>1, LeftAloneGoesOn, UnrivalledGoesOn, ProgramLeavesLess DEF Last
  <2>3. ASSUME NEW t \in pending, Mine(t)
        PROVE  Last(s)' /\ (Unrivalled(s) => Unrivalled(s)') /\ Left(s)' < Left(s)
    BY <1>1, <2>3, LeftAloneMines, UnrivalledMines, MiningLeavesLess DEF Last
  <2> QED BY <1>1, <2>1, <2>2, <2>3 DEF Next
<1> QED BY <1>1, WaitsInv, TypedInv, PTL DEF Spec

(* The last one does not get stuck either: he is heard, or one of the      *)
(* steps that bring him closer can be taken, or his bitmap is full.        *)
LastGoesOn ==
  \A s \in Session : Last(s) =>
    \/ pc[s] = "done" /\ \E t \in heard : t.by = s
    \/ GoesOn(s)
    \/ Full(s)

(* It is always so: where no step is left, the message was heard.          *)
THEOREM LastNotStuck == ASSUME Index # {} PROVE Spec => []LastGoesOn
<1>1. Waits => LastGoesOn
  <2> SUFFICES ASSUME Waits, NEW s \in Session, Last(s), ~GoesOn(s), ~Full(s)
               PROVE  pc[s] = "done" /\ \E t \in heard : t.by = s
    BY DEF LastGoesOn
  <2>1. pc[s] \in Place /\ WaitsFor(s)
    BY DEF Waits, Claims, Effects, Typed, TypeOK
  <2>2. pc[s] # "wait"
    <3>1. ASSUME pc[s] = "wait" PROVE pending # {} \/ \E ok \in BOOLEAN : Result(s, ok)
      <4>1. PICK t \in Sent : t.by = s /\ t.run = run[s] /\ t.step = step[s]
        BY <2>1, <3>1 DEF WaitsFor
      <4>2. CASE t \notin pending
        <5>1. PICK m \in mined : m.tx = t
          BY <4>1, <4>2 DEF Sent
        <5>2. m.ok \in BOOLEAN
          BY DEF Waits, Claims, Effects, Typed, TypeOK
        <5> QED BY <4>1, <5>1, <5>2 DEF Result
      <4> QED BY <4>2
    <3> QED BY <3>1 DEF GoesOn
  <2>3. pc[s] # "sign"
    BY <2>1 DEF GoesOn, Full, WaitsFor
  <2>4. pc[s] # "failed"
    BY DEF GoesOn, Last, LeftAlone, Unrivalled
  <2>5. pc[s] = "done"
    BY <2>1, <2>2, <2>3, <2>4 DEF GoesOn, Place
  <2> QED BY <2>1, <2>5 DEF WaitsFor
<1> QED BY <1>1, WaitsInv, PTL
=============================================================================

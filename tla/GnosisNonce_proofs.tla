------------------------- MODULE GnosisNonce_proofs -------------------------
(***************************************************************************)
(* Proofs about GnosisNonce, for any number of requests and restarts:      *)
(* types; that it implements MultiNonce with one queue, where the node     *)
(* answers "0x" for no code; and what holds whatever the node answers.     *)
(***************************************************************************)
EXTENDS GnosisNonce, TLAPS

(* The invariant holds before the first request.                           *)
LEMMA InitType == Init => TypeOK
BY MaxLifeAssumption DEF Init, TypeOK, Place

LEMMA NextType == TypeOK /\ [Next]_vars => TypeOK'
<1> SUFFICES ASSUME TypeOK, [Next]_vars PROVE TypeOK'
  OBVIOUS
<1> USE DEF TypeOK, Place, Goto
<1>1. ASSUME NEW r \in Request, NEW n \in Nat, give(r, n),
             lock' \in Request \cup {NoRequest}, UNCHANGED <<answer, life, chain>>
      PROVE  TypeOK'
  <2>1. got' \in [Request -> [nonce : Nat, life : 0..MaxLife]]
    BY <1>1, MaxLifeAssumption DEF give
  <2> QED BY <1>1, <2>1 DEF give, chain
<1>2. ASSUME NEW r \in Request, Step(r) PROVE TypeOK'
  <2>1. CASE Acquire(r)
    <3>1. CASE nonce = Unknown
      BY <2>1, <3>1 DEF Acquire, chain
    <3>2. CASE nonce # Unknown
      BY <2>1, <3>2, <1>1 DEF Acquire
    <3> QED BY <3>1, <3>2
  <2>2. CASE GetCode(r)
    <3>1. CASE deployed \/ EmptyCode # "0x"
      BY <2>2, <3>1 DEF GetCode, chain
    <3>2. CASE ~(deployed \/ EmptyCode # "0x")
      BY <2>2, <3>2, <1>1 DEF GetCode
    <3> QED BY <3>1, <3>2
  <2>3. CASE Nonce(r)
    BY <2>3, <1>1 DEF Nonce
  <2>4. CASE NodeReads(r) \/ RpcFails(r) \/ Release(r) \/ HashAndSign(r)
    BY <2>4 DEF NodeReads, RpcFails, Release, HashAndSign, client, chain
  <2> QED BY <1>2, <2>1, <2>2, <2>3, <2>4 DEF Step
<1>3. ASSUME NEW r \in Request, SignMetaTransaction(r) \/ Mine(r) PROVE TypeOK'
  BY <1>3 DEF SignMetaTransaction, Mine, client, chain
<1>4. CASE Deploy
  BY <1>4 DEF Deploy, client
<1>5. CASE Restart
  BY <1>5, MaxLifeAssumption DEF Restart, chain
<1>6. CASE UNCHANGED vars
  BY <1>6 DEF vars
<1> QED BY <1>2, <1>3, <1>4, <1>5, <1>6 DEF Next

(* The client's memory and the Safe's nonce are of their types.            *)
THEOREM TypeCorrect == Spec => []TypeOK
BY InitType, NextType, PTL DEF Spec

-----------------------------------------------------------------------------
USE DEF trackerBar, pcBar, rpcBar, gotBar, onchainBar

(* The one queue of the mapping.                                           *)
LEMMA OneQueue == 0..(1 - 1) = {0} /\ (0 + 1) % 1 = 0
OBVIOUS

LEMMA InitRefines == Init => Queue!Init
BY OneQueue DEF Init, Queue!Init, Queue!Queue

(* To give a nonce is to take it from the one queue.                       *)
LEMMA GiveRefines ==
  ASSUME TypeOK, NEW r \in Request, NEW n \in Nat, give(r, n), UNCHANGED life
  PROVE  Queue!take(r, n)
<1>1. pc' = [pc EXCEPT ![r] = "encode"] /\ nonce' = n /\ n # Unknown
  BY UnknownAssumption DEF give, Goto
<1>2. got' = [got EXCEPT ![r] = [nonce |-> n, life |-> life]]
  BY DEF give
<1> QED BY <1>1, <1>2, OneQueue DEF Queue!take, Queue!Goto, TypeOK, Place

(* The one step that is no step of MultiNonce: with another answer for no  *)
(* code the nonce of a Safe is asked for that is not there.                *)
AskedInVain(r) ==
  /\ EmptyCode # "0x"
  /\ pc[r] = "getCode"
  /\ Goto(r, "nonce")
  /\ UNCHANGED <<client, got, life, chain>>

LEMMA StepRefines ==
  ASSUME TypeOK, NEW r \in Request, Step(r)
  PROVE  Queue!Step(r) \/ AskedInVain(r)
<1> USE UnknownAssumption DEF Goto, Queue!Goto, chain, Queue!chain, client, Queue!client
<1>1. CASE Acquire(r)
  <2>1. CASE nonce # Unknown
    <3>1. PICK n \in Nat : n = nonce + 1
      BY <2>1 DEF TypeOK
    <3>2. give(r, n) /\ life' = life
      BY <1>1, <2>1, <3>1 DEF Acquire, give
    <3>3. Queue!take(r, n)
      BY <3>2, GiveRefines
    <3> QED
      BY <1>1, <2>1, <3>1, <3>3 DEF Acquire, Queue!Acquire, Queue!take, Queue!Step, TypeOK, Place
  <2>2. CASE nonce = Unknown
    BY <1>1, <2>2 DEF Acquire, Queue!Acquire, Queue!Step, TypeOK, Place
  <2> QED BY <2>1, <2>2
<1>2. CASE GetCode(r)
  <2>1. CASE deployed
    BY <1>2, <2>1 DEF GetCode, Queue!GetCode, Queue!Step, TypeOK, Place
  <2>2. CASE ~deployed /\ EmptyCode = "0x"
    BY <1>2, <2>2, GiveRefines DEF GetCode, Queue!GetCode, Queue!Step, TypeOK, Place
  <2>3. CASE EmptyCode # "0x"
    BY <1>2, <2>3 DEF GetCode, AskedInVain
  <2> QED BY <2>1, <2>2, <2>3
<1>3. CASE NodeReads(r)
  BY <1>3 DEF NodeReads, Queue!NodeReads, Queue!Step, TypeOK, Place
<1>4. CASE Nonce(r)
  <2>1. PICK n \in Nat : n = answer[r]
    BY DEF TypeOK
  <2>2. give(r, n) /\ life' = life
    BY <1>4, <2>1 DEF Nonce, give
  <2>3. Queue!take(r, n)
    BY <2>2, GiveRefines
  <2> QED
    BY <1>4, <2>1, <2>3 DEF Nonce, Queue!NonceStore, Queue!take, Queue!Step, TypeOK, Place
<1>5. CASE RpcFails(r)
  BY <1>5 DEF RpcFails, Queue!RpcFails, Queue!Step, TypeOK, Place
<1>6. CASE Release(r)
  BY <1>6 DEF Release, Queue!Release, Queue!Step, TypeOK, Place
<1>7. CASE HashAndSign(r)
  BY <1>7 DEF HashAndSign, Queue!SignMessage, Queue!SignFails, Queue!Step, TypeOK, Place
<1> QED BY <1>1, <1>2, <1>3, <1>4, <1>5, <1>6, <1>7 DEF Step

LEMMA NextRefines ==
  ASSUME TypeOK, [Next]_vars
  PROVE  [Queue!Next]_(Queue!vars) \/ \E r \in Request : AskedInVain(r)
<1> USE DEF Goto, Queue!Goto, chain, Queue!chain, client, Queue!client, TypeOK, Place
<1>1. ASSUME NEW r \in Request, SignMetaTransaction(r) PROVE Queue!SignMetaTransaction(r)
  BY <1>1 DEF SignMetaTransaction, Queue!SignMetaTransaction
<1>2. ASSUME NEW r \in Request, Mine(r) PROVE Queue!Mine(r)
  BY <1>2 DEF Mine, Queue!Mine, Queue!nonceAccepts, Queue!nonceStored
<1>3. CASE Deploy
  BY <1>3 DEF Deploy, Queue!Deploy, Queue!Next
<1>4. CASE Restart
  BY <1>4, OneQueue DEF Restart, Queue!Restart, Queue!Next, Queue!Queue
<1>5. CASE UNCHANGED vars
  BY <1>5 DEF vars, Queue!vars
<1> QED BY <1>1, <1>2, <1>3, <1>4, <1>5, StepRefines DEF Next, Queue!Next

(* Where "0x" is the answer for no code, every step of the Safe's client   *)
(* is one of a MultiNonce client with a single queue.                      *)
THEOREM Refinement ==
  ASSUME EmptyCode = "0x"
  PROVE  Spec => RefinesOneQueue
<1>1. TypeOK /\ [Next]_vars => [Queue!Next]_(Queue!vars)
  BY NextRefines DEF AskedInVain
<1> QED BY <1>1, InitRefines, TypeCorrect, PTL DEF Spec, RefinesOneQueue

-----------------------------------------------------------------------------
(* The theorems about MultiNonce, for the queue of the mapping.            *)
Proved == INSTANCE MultiNonce_proofs WITH
  Concurrency <- 1, index <- 0, nonceTracker <- trackerBar, pc <- pcBar,
  rpc <- rpcBar, got <- gotBar, onchain <- onchainBar

(* Asking in vain is invisible to the invariant of MultiNonce: it tells    *)
(* nothing of who asks for code from who asks for the nonce.               *)
LEMMA InVainInv ==
  ASSUME TypeOK, Proved!IInv, NEW r \in Request, AskedInVain(r)
  PROVE  Proved!IInv'
<1>1. /\ pcBar' = [pcBar EXCEPT ![r] = "nonceStore"] /\ pcBar[r] = "getCode"
      /\ trackerBar' = trackerBar /\ rpcBar' = rpcBar /\ gotBar' = gotBar
      /\ onchainBar' = onchainBar
      /\ UNCHANGED <<lock, life, deployed>>
  BY DEF AskedInVain, Goto, client, chain, TypeOK, Place
<1> HIDE DEF trackerBar, pcBar, rpcBar, gotBar, onchainBar
<1>2. Proved!TypeOK' /\ pcBar \in [Request -> Proved!Place]
  BY <1>1 DEF Proved!IInv, Proved!TypeOK, Proved!Place, Proved!Queue
<1>3. \A s \in Request : pcBar'[s] = IF s = r THEN "nonceStore" ELSE pcBar[s]
  BY <1>1, <1>2
<1>4. Proved!Order'
  BY <1>1, <1>2, <1>3 DEF Proved!IInv, Proved!Order, Proved!Mutex, Proved!Inside, Proved!Reading,
     Proved!Counted, Proved!Waiting, Proved!Spent, Proved!Ahead, Proved!Undeployed, Proved!Lives,
     Proved!Queue
<1>5. Proved!NoncesUnique' /\ Proved!Fresh' /\ Proved!Filled'
  BY <1>1, <1>2, <1>3 DEF Proved!IInv, Proved!NoncesUnique, Proved!Fresh, Proved!Filled, Proved!Has,
     Proved!Same, Proved!Queue
<1> QED BY <1>2, <1>4, <1>5 DEF Proved!IInv

(* So the invariant of MultiNonce holds of a Safe's client, whatever the   *)
(* node answers for no code.                                               *)
THEOREM Invariance == Spec => []Proved!IInv
<1>1. (1 \in Nat \ {0}) /\ (MaxLife \in Nat \ {0}) /\ (NoRequest \notin Request) /\ (Unknown \notin Nat)
  BY MaxLifeAssumption, NoRequestAssumption, UnknownAssumption
<1>2. Proved!Init => Proved!IInv
  BY <1>1, Proved!InitIInv
<1>3. Proved!IInv /\ [Proved!Next]_(Proved!vars) => Proved!IInv'
  BY <1>1, Proved!NextIInv
<1>4. Queue!Init => Proved!Init
  BY DEF Queue!Init, Proved!Init, Queue!Queue, Proved!Queue
<1>5. [Queue!Next]_(Queue!vars) => [Proved!Next]_(Proved!vars)
  BY DEF Proved!Next, Queue!Next, Proved!Step, Queue!Step,
     Proved!SignMetaTransaction, Queue!SignMetaTransaction, Proved!Acquire,
     Queue!Acquire, Proved!GetCode, Queue!GetCode, Proved!NodeReads, Queue!NodeReads,
     Proved!NonceStore, Queue!NonceStore, Proved!RpcFails, Queue!RpcFails,
     Proved!Release, Queue!Release, Proved!SignMessage, Queue!SignMessage,
     Proved!SignFails, Queue!SignFails, Proved!Mine, Queue!Mine, Proved!Deploy,
     Queue!Deploy, Proved!Restart, Queue!Restart, Proved!take, Queue!take,
     Proved!Goto, Queue!Goto, Proved!nonceAccepts, Queue!nonceAccepts,
     Proved!nonceStored, Queue!nonceStored, Proved!client, Queue!client,
     Proved!chain, Queue!chain, Proved!vars, Queue!vars, Proved!Queue, Queue!Queue
<1>6. Init => Proved!IInv
  BY <1>2, <1>4, InitRefines
<1>7. TypeOK /\ Proved!IInv /\ [Next]_vars => Proved!IInv'
  BY <1>3, <1>5, NextRefines, InVainInv
<1> QED BY <1>6, <1>7, TypeCorrect, PTL DEF Spec

(* A Safe's client gives no nonce to two requests,                         *)
THEOREM NoNonceTwice == Spec => []Queue!NoncesUnique
<1>1. Proved!IInv => Queue!NoncesUnique
  BY DEF Proved!IInv, Proved!NoncesUnique, Queue!NoncesUnique, Proved!Has, Queue!Has, Proved!Same, Queue!Same
<1> QED BY <1>1, Invariance, PTL

(* it skips none, and each that waits is still ahead of the Safe's.        *)
THEOREM NoNonceSkipped == Spec => []Queue!NoGap
<1>1. (1 \in Nat \ {0}) /\ (MaxLife \in Nat \ {0}) /\ (NoRequest \notin Request) /\ (Unknown \notin Nat)
  BY MaxLifeAssumption, NoRequestAssumption, UnknownAssumption
<1>2. Proved!IInv => Proved!NoGap
  BY <1>1, Proved!IInvNoGap
<1>3. Proved!NoGap => Queue!NoGap
  BY DEF Proved!NoGap, Queue!NoGap
<1> QED BY <1>2, <1>3, Invariance, PTL

(* A signed transaction waits for nothing but those before it,             *)
THEOREM NothingElseBlocks == Spec => []Proved!HeadComes
<1>1. (1 \in Nat \ {0}) /\ (MaxLife \in Nat \ {0}) /\ (NoRequest \notin Request) /\ (Unknown \notin Nat)
  BY MaxLifeAssumption, NoRequestAssumption, UnknownAssumption
<1>2. Proved!IInv => Proved!HeadComes
  BY <1>1, Proved!IInvHeadComes
<1> QED BY <1>2, Invariance, PTL

Inside == {"getCode", "nonce", "reply", "encode"}
Holder == lock # NoRequest => pc[lock] \in Inside

(* and the lock is never lost: whoever has it is between its acquire and   *)
(* its release.                                                            *)
THEOREM LockPassedOn == Spec => []Holder
<1> DEFINE Mutex == \A r \in Request : pc[r] \in Inside => lock = r
<1>1. Init => Holder /\ Mutex
  BY DEF Init, Holder, Inside
<1>2. TypeOK /\ Holder /\ Mutex /\ [Next]_vars => Holder' /\ Mutex'
  <2> SUFFICES ASSUME TypeOK, Holder, Mutex, [Next]_vars PROVE Holder' /\ Mutex'
    OBVIOUS
  <2> USE DEF TypeOK, Holder, Inside, Goto, give
  <2>1. ASSUME NEW r \in Request, Acquire(r) PROVE Holder' /\ Mutex'
    <3>1. /\ pc'[r] \in Inside /\ lock' = r /\ lock = NoRequest
          /\ \A s \in Request : s # r => pc'[s] = pc[s]
      BY <2>1 DEF Acquire
    <3> QED BY <3>1, NoRequestAssumption
  <2>2. ASSUME NEW r \in Request, GetCode(r) \/ NodeReads(r) \/ Nonce(r)
        PROVE  Holder' /\ Mutex'
    <3>1. /\ pc'[r] \in Inside /\ lock' = r /\ lock = r
          /\ \A s \in Request : s # r => pc'[s] = pc[s]
      BY <2>2 DEF GetCode, NodeReads, Nonce
    <3> QED BY <3>1
  <2>3. ASSUME NEW r \in Request, RpcFails(r) \/ Release(r) PROVE Holder' /\ Mutex'
    <3>1. /\ pc'[r] \notin Inside /\ lock' = NoRequest /\ lock = r
          /\ \A s \in Request : s # r => pc'[s] = pc[s]
      BY <2>3 DEF RpcFails, Release
    <3> QED BY <3>1
  <2>4. ASSUME NEW r \in Request, SignMetaTransaction(r) \/ HashAndSign(r) \/ Mine(r)
        PROVE  Holder' /\ Mutex'
    <3>1. /\ pc[r] \notin Inside /\ pc'[r] \notin Inside /\ lock' = lock
          /\ \A s \in Request : s # r => pc'[s] = pc[s]
      BY <2>4 DEF SignMetaTransaction, HashAndSign, Mine, client
    <3> QED BY <3>1
  <2>5. CASE Deploy \/ Restart \/ UNCHANGED vars
    BY <2>5 DEF Deploy, Restart, vars, client
  <2> QED BY <2>1, <2>2, <2>3, <2>4, <2>5 DEF Next, Step
<1> QED BY <1>1, <1>2, TypeCorrect, PTL DEF Spec
=============================================================================

------------------------- MODULE MultiNonce_proofs -------------------------
(***************************************************************************)
(* Proofs about MultiNonce, for any number of requests, queues and         *)
(* restarts.                                                               *)
(***************************************************************************)
EXTENDS MultiNonce, FiniteSetTheorems, TLAPS

(* Who is inside getEncodedReplayProtection holds the lock.                *)
Inside == {"getCode", "nonceStore", "reply", "encode"}
Mutex == \A r \in Request : pc[r] \in Inside => lock = r

(* While the node is asked for a queue, that is the queue at `index' and   *)
(* it stays unknown; what the node answered stays true.                    *)
Reading ==
  \A r \in Request : pc[r] \in {"getCode", "nonceStore", "reply"} =>
    /\ nonceTracker[index] = Unknown
    /\ rpc[r].queue = index
    /\ pc[r] = "reply" => rpc[r].value = onchain[index]

(* A nonce that this process gave is below the next one of its queue.      *)
Counted ==
  \A r \in Request :
    /\ got[r].life <= life
    /\ Lives(r) => /\ nonceTracker[got[r].queue] # Unknown
                   /\ got[r].nonce < nonceTracker[got[r].queue]

(* A transaction on its way is of this process and not in the past of its  *)
(* queue; one that was mined is.                                           *)
Waiting ==
  \A r \in Request : pc[r] \in {"encode", "sign", "sent"} =>
    Lives(r) /\ onchain[got[r].queue] <= got[r].nonce
Spent == \A r \in Request : pc[r] = "mined" => got[r].nonce < onchain[got[r].queue]

(* The client is never behind the chain, and the chain accepts nothing     *)
(* before the forwarder is deployed.                                       *)
Ahead == \A q \in Queue : nonceTracker[q] # Unknown => onchain[q] <= nonceTracker[q]
Undeployed == ~deployed => \A q \in Queue : onchain[q] = 0

(* Before it is given a nonce, a request has none; and each nonce that the *)
(* chain still expects below the next one was given.                       *)
Fresh ==
  \A r \in Request :
    pc[r] \in {"idle", "acquire", "getCode", "nonceStore", "reply"} => ~Has(r)
Filled ==
  \A q \in Queue : nonceTracker[q] # Unknown =>
    \A n \in Nat : onchain[q] <= n /\ n < nonceTracker[q] =>
      \E s \in Request : got[s] = [queue |-> q, nonce |-> n, life |-> life]

Order == Mutex /\ Reading /\ Counted /\ Waiting /\ Spent /\ Ahead /\ Undeployed
IInv  == TypeOK /\ Order /\ NoncesUnique /\ Fresh /\ Filled

-----------------------------------------------------------------------------
(* `index' stays the number of a queue when it is counted on.              *)
LEMMA NextQueue == \A q \in Queue : (q + 1) % Concurrency \in Queue
BY ConcurrencyAssumption DEF Queue

(* The invariant holds before the first request.                           *)
LEMMA InitIInv == Init => IInv
<1> SUFFICES ASSUME Init PROVE IInv
  OBVIOUS
<1>1. TypeOK
  BY ConcurrencyAssumption, MaxLifeAssumption DEF Init, TypeOK, Queue, Place
<1>2. Order
  BY <1>1 DEF Init, Order, Mutex, Inside, Reading, Counted, Waiting, Spent, Ahead,
     Undeployed, Lives
<1>3. NoncesUnique /\ Fresh /\ Filled
  BY DEF Init, NoncesUnique, Fresh, Filled, Has
<1> QED BY <1>1, <1>2, <1>3 DEF IInv

(* The one who is inside may be given the next nonce of the queue at       *)
(* `index', or, if that is unknown, the one the chain expects.             *)
LEMMA TakeInv ==
  ASSUME IInv, NEW r \in Request, NEW n \in Nat, take(r, n),
         \/ n = nonceTracker[index]
         \/ nonceTracker[index] = Unknown /\ n = onchain[index],
         pc[r] \in {"acquire", "getCode", "reply"},
         \A s \in Request : s # r => pc[s] \notin Inside,
         lock' = r,
         UNCHANGED <<rpc, life, chain>>
  PROVE  IInv'
<1> USE DEF IInv
<1>1. /\ \A s \in Request : got'[s] = IF s = r THEN [queue |-> index, nonce |-> n, life |-> life]
                                               ELSE got[s]
      /\ \A s \in Request : pc'[s] = IF s = r THEN "encode" ELSE pc[s]
      /\ \A q \in Queue : nonceTracker'[q] = IF q = index THEN n + 1 ELSE nonceTracker[q]
  BY DEF take, Goto, TypeOK
<1>2. /\ index \in Queue /\ life \in 1..MaxLife /\ n + 1 # Unknown
      /\ \A s \in Request : got[s].queue \in Queue /\ got[s].nonce \in Nat /\ got[s].life \in Nat
      /\ \A q \in Queue : onchain[q] \in Nat /\ nonceTracker[q] \in Nat \cup {Unknown}
      /\ onchain' = onchain /\ rpc' = rpc /\ life' = life /\ deployed' = deployed
  BY UnknownAssumption DEF TypeOK, chain
<1>3. /\ onchain[index] <= n
      /\ nonceTracker[index] # Unknown => nonceTracker[index] = n
      /\ ~Has(r)
  BY <1>2, UnknownAssumption DEF Order, Ahead, Fresh
<1>4. \A s \in Request : Lives(s) => s # r /\ (got[s].queue = index => got[s].nonce < n)
  BY <1>2, <1>3 DEF Order, Counted, Lives, Has
<1>5. TypeOK'
  <2>1. index' \in Queue
    BY <1>2, NextQueue DEF take
  <2>2. got' \in [Request -> [queue : Queue, nonce : Nat, life : 0..MaxLife]]
    BY <1>2, MaxLifeAssumption DEF TypeOK, take
  <2> QED BY <1>2, <2>1, <2>2 DEF TypeOK, take, Goto, Place, chain
<1>6. Order'
  <2>1. Mutex' /\ Reading'
    BY <1>1 DEF Mutex, Reading, Inside
  <2>2. Counted'
    BY <1>1, <1>2, <1>3, <1>4 DEF Order, Counted, Lives, Has
  <2>3. Waiting' /\ Spent'
    BY <1>1, <1>2, <1>3 DEF Order, Waiting, Spent, Lives
  <2>4. Ahead' /\ Undeployed'
    BY <1>1, <1>2, <1>3 DEF Order, Ahead, Undeployed
  <2> QED BY <2>1, <2>2, <2>3, <2>4 DEF Order
<1>7. NoncesUnique'
  <2> SUFFICES ASSUME NEW s \in Request, s # r, Lives(s) PROVE ~Same(r, s)'
    BY <1>1, <1>2 DEF NoncesUnique, Same, Has, Lives
  <2> QED BY <1>1, <1>2, <1>4 DEF Same
<1>8. Fresh'
  BY <1>1 DEF Fresh, Has
<1>9. Filled'
  <2> SUFFICES ASSUME NEW q \in Queue, nonceTracker'[q] # Unknown, NEW m \in Nat,
                      onchain[q] <= m, m < nonceTracker'[q]
               PROVE  \E s \in Request : got'[s] = [queue |-> q, nonce |-> m, life |-> life]
    BY <1>2 DEF Filled
  <2>1. CASE q = index /\ m = n
    BY <1>1, <2>1
  <2>2. CASE ~(q = index /\ m = n)
    <3>1. nonceTracker[q] # Unknown /\ m < nonceTracker[q]
      <4>1. CASE q = index
        <5>1. m < n
          BY <1>1, <1>2, <2>2, <4>1
        <5> QED BY <1>2, <5>1, <4>1, UnknownAssumption
      <4>2. CASE q # index
        BY <1>1, <4>2
      <4> QED BY <4>1, <4>2
    <3>2. PICK s \in Request : got[s] = [queue |-> q, nonce |-> m, life |-> life]
      BY <3>1 DEF Filled
    <3> QED BY <1>1, <1>2, <1>3, <3>2 DEF Has
  <2> QED BY <2>1, <2>2
<1> QED BY <1>5, <1>6, <1>7, <1>8, <1>9

(* The other steps of a request, of the chain and of the process.          *)
LEMMA StepInv ==
  ASSUME IInv, NEW r \in Request, Step(r)
  PROVE  IInv'
<1> USE DEF IInv
<1>1. CASE Acquire(r)
  <2>1. \A s \in Request : pc[s] \notin Inside
    BY <1>1, NoRequestAssumption DEF Acquire, Order, Mutex
  <2>2. CASE nonceTracker[index] # Unknown
    <3>1. nonceTracker[index] \in Nat /\ take(r, nonceTracker[index])
      BY <1>1, <2>2 DEF Acquire, TypeOK
    <3> QED BY <1>1, <2>1, <2>2, <3>1, TakeInv DEF Acquire
  <2>3. CASE nonceTracker[index] = Unknown
    <3>1. /\ pc' = [pc EXCEPT ![r] = "getCode"] /\ pc[r] = "acquire" /\ lock' = r
          /\ rpc' = [rpc EXCEPT ![r].queue = index]
          /\ UNCHANGED <<index, nonceTracker, got, life, deployed, onchain>>
      BY <1>1, <2>3 DEF Acquire, Goto, chain
    <3>2. TypeOK'
      BY <3>1 DEF TypeOK, Place
    <3>3. Order'
      BY <2>1, <2>3, <3>1 DEF Order, TypeOK, Mutex, Inside, Reading, Counted, Waiting,
         Spent, Ahead, Undeployed, Lives
    <3>4. NoncesUnique' /\ Fresh' /\ Filled'
      BY <3>1 DEF TypeOK, NoncesUnique, Fresh, Filled, Has, Same
    <3> QED BY <3>2, <3>3, <3>4
  <2> QED BY <2>2, <2>3
<1>2. CASE GetCode(r)
  <2>1. /\ pc[r] = "getCode" /\ lock = r /\ nonceTracker[index] = Unknown
        /\ \A s \in Request : s # r => pc[s] \notin Inside
    BY <1>2 DEF GetCode, Order, Mutex, Reading, Inside
  <2>2. CASE deployed
    <3>1. /\ pc' = [pc EXCEPT ![r] = "nonceStore"]
          /\ UNCHANGED <<index, nonceTracker, got, lock, rpc, life, deployed, onchain>>
      BY <1>2, <2>2 DEF GetCode, Goto, chain
    <3>2. TypeOK'
      BY <3>1 DEF TypeOK, Place
    <3>3. Order'
      BY <2>1, <3>1 DEF Order, TypeOK, Mutex, Inside, Reading, Counted, Waiting, Spent,
         Ahead, Undeployed, Lives
    <3>4. NoncesUnique' /\ Fresh' /\ Filled'
      BY <2>1, <3>1 DEF TypeOK, NoncesUnique, Fresh, Filled, Has, Same
    <3> QED BY <3>2, <3>3, <3>4
  <2>3. CASE ~deployed
    <3>1. onchain[index] = 0
      BY <2>3 DEF Order, Undeployed, TypeOK
    <3> QED BY <1>2, <2>1, <2>3, <3>1, TakeInv DEF GetCode
  <2> QED BY <2>2, <2>3
<1>3. CASE NodeReads(r)
  <2>1. /\ pc[r] = "nonceStore" /\ rpc[r].queue = index /\ lock = r
        /\ pc' = [pc EXCEPT ![r] = "reply"]
        /\ rpc' = [rpc EXCEPT ![r].value = onchain[index]]
        /\ UNCHANGED <<index, nonceTracker, lock, got, life, deployed, onchain>>
    BY <1>3 DEF NodeReads, Goto, Order, Mutex, Inside, Reading, chain
  <2>2. TypeOK'
    BY <2>1 DEF TypeOK, Place
  <2>3. Order'
    BY <2>1 DEF Order, TypeOK, Mutex, Inside, Reading, Counted, Waiting, Spent,
       Ahead, Undeployed, Lives
  <2>4. NoncesUnique' /\ Fresh' /\ Filled'
    BY <2>1 DEF TypeOK, NoncesUnique, Fresh, Filled, Has, Same
  <2> QED BY <2>2, <2>3, <2>4
<1>4. CASE NonceStore(r)
  <2>1. /\ pc[r] = "reply" /\ lock = r /\ nonceTracker[index] = Unknown
        /\ rpc[r].value = onchain[index] /\ rpc[r].value \in Nat
        /\ \A s \in Request : s # r => pc[s] \notin Inside
    BY <1>4 DEF NonceStore, Order, Mutex, Reading, Inside, TypeOK
  <2> QED BY <1>4, <2>1, TakeInv DEF NonceStore
<1>5. CASE RpcFails(r) \/ Release(r) \/ SignMessage(r) \/ SignFails(r)
  <2>1. PICK place \in {"failed", "sign", "sent"} :
          /\ pc' = [pc EXCEPT ![r] = place]
          /\ pc[r] \in {"getCode", "nonceStore", "reply", "encode", "sign"}
          /\ place # "failed" => pc[r] \in {"encode", "sign"}
          /\ pc[r] \in Inside => lock' = NoRequest
          /\ pc[r] \notin Inside => lock' = lock
          /\ UNCHANGED <<index, nonceTracker, rpc, got, life, deployed, onchain>>
    BY <1>5 DEF RpcFails, Release, SignMessage, SignFails, Goto, Inside, client, chain
  <2>2. /\ TypeOK'
        /\ \A s \in Request : pc'[s] = IF s = r THEN place ELSE pc[s]
    BY <2>1 DEF TypeOK, Place
  <2>3. Mutex'
    BY <2>1, <2>2 DEF Order, Mutex, Inside
  <2>4. Reading' /\ Counted' /\ Waiting' /\ Spent' /\ Ahead' /\ Undeployed'
    BY <2>1, <2>2 DEF Order, Reading, Counted, Waiting, Spent, Ahead, Undeployed, Lives
  <2>5. NoncesUnique'
    <3> SUFFICES ASSUME NEW s \in Request, NEW t \in Request, s # t, Has(s), Has(t),
                        {pc'[s], pc'[t]} \subseteq {"sent", "mined"}, Same(s, t)
                 PROVE  got[s].life = got[t].life
      BY <2>1 DEF NoncesUnique, Has, Same
    <3>1. ASSUME NEW u \in Request, pc'[u] \in {"sent", "mined"}
          PROVE  \/ Lives(u) /\ onchain[got[u].queue] <= got[u].nonce
                 \/ pc[u] = "mined" /\ got[u].nonce < onchain[got[u].queue]
      BY <2>1, <2>2, <3>1 DEF Order, Waiting, Spent
    <3>2. /\ got[s].queue = got[t].queue /\ got[s].nonce = got[t].nonce
          /\ got[s].nonce \in Nat /\ onchain[got[s].queue] \in Nat
      BY DEF Same, TypeOK
    <3> QED BY <2>1, <3>1, <3>2 DEF NoncesUnique, Same, Lives
  <2>6. Fresh' /\ Filled'
    BY <2>1, <2>2 DEF Fresh, Filled, Has
  <2> QED BY <2>2, <2>3, <2>4, <2>5, <2>6 DEF Order
<1> QED BY <1>1, <1>2, <1>3, <1>4, <1>5 DEF Step

LEMMA MineInv ==
  ASSUME IInv, NEW r \in Request, Mine(r)
  PROVE  IInv'
<1> USE DEF IInv
<1> DEFINE q == got[r].queue
<1>1. /\ pc[r] = "sent" /\ deployed /\ q \in Queue /\ onchain[q] = got[r].nonce
      /\ onchain[q] \in Nat /\ got[r].life = life /\ life \in 1..MaxLife
      /\ onchain' = [onchain EXCEPT ![q] = onchain[q] + 1]
      /\ pc' = [pc EXCEPT ![r] = "mined"]
      /\ UNCHANGED <<index, nonceTracker, lock, rpc, got, life, deployed>>
  BY DEF Mine, TypeOK, Goto, nonceAccepts, nonceStored, client, Order, Waiting, Lives
<1>2. /\ \A p \in Queue : onchain'[p] = IF p = q THEN onchain[q] + 1 ELSE onchain[p]
      /\ \A s \in Request : pc'[s] = IF s = r THEN "mined" ELSE pc[s]
      /\ \A s \in Request : got[s].queue \in Queue /\ got[s].nonce \in Nat
      /\ \A p \in Queue : onchain[p] \in Nat /\ nonceTracker[p] \in Nat \cup {Unknown}
  BY <1>1 DEF TypeOK
<1>3. nonceTracker[q] # Unknown /\ onchain[q] < nonceTracker[q]
  BY <1>1 DEF Order, Counted, Lives
<1>4. TypeOK'
  BY <1>1 DEF TypeOK, Place
<1>5. Order'
  <2>1. Mutex' /\ Counted' /\ Undeployed'
    BY <1>1, <1>2 DEF Order, Mutex, Inside, Counted, Undeployed, Lives
  <2>2. Reading'
    BY <1>1, <1>2, <1>3 DEF Order, Reading, TypeOK
  <2>3. Waiting'
    <3> SUFFICES ASSUME NEW s \in Request, s # r, pc[s] \in {"encode", "sign", "sent"}
                 PROVE  Lives(s) /\ onchain'[got[s].queue] <= got[s].nonce
      BY <1>1, <1>2 DEF Waiting, Lives
    <3>1. Lives(s) /\ onchain[got[s].queue] <= got[s].nonce
      BY DEF Order, Waiting
    <3>2. got[s].queue = q => got[s].nonce # got[r].nonce
      BY <1>1, <3>1 DEF NoncesUnique, Has, Same, Lives
    <3> QED BY <1>1, <1>2, <3>1, <3>2
  <2>4. Spent'
    BY <1>1, <1>2 DEF Order, Spent
  <2>5. Ahead'
    BY <1>1, <1>2, <1>3 DEF Order, Ahead
  <2> QED BY <2>1, <2>2, <2>3, <2>4, <2>5 DEF Order
<1>6. NoncesUnique' /\ Fresh'
  BY <1>1, <1>2 DEF NoncesUnique, Fresh, Has, Same
<1>7. Filled'
  <2> SUFFICES ASSUME NEW p \in Queue, nonceTracker[p] # Unknown, NEW n \in Nat,
                      onchain'[p] <= n, n < nonceTracker[p]
               PROVE  \E s \in Request : got[s] = [queue |-> p, nonce |-> n, life |-> life]
    BY <1>1 DEF Filled
  <2>1. onchain[p] <= n
    BY <1>2
  <2> QED BY <2>1 DEF Filled
<1> QED BY <1>4, <1>5, <1>6, <1>7

LEMMA NextIInv == IInv /\ [Next]_vars => IInv'
<1> SUFFICES ASSUME IInv, [Next]_vars PROVE IInv'
  OBVIOUS
<1> USE DEF IInv
<1>1. ASSUME NEW r \in Request, SignMetaTransaction(r) PROVE IInv'
  <2>1. /\ TypeOK'
        /\ \A s \in Request : pc'[s] = IF s = r THEN "acquire" ELSE pc[s]
        /\ pc[r] = "idle"
        /\ UNCHANGED <<index, nonceTracker, lock, rpc, got, life, deployed, onchain>>
    BY <1>1 DEF SignMetaTransaction, Goto, TypeOK, Place, client, chain
  <2>2. Order'
    BY <2>1 DEF Order, Mutex, Inside, Reading, Counted, Waiting, Spent, Ahead,
       Undeployed, Lives
  <2>3. NoncesUnique' /\ Fresh' /\ Filled'
    BY <2>1 DEF NoncesUnique, Fresh, Filled, Has, Same
  <2> QED BY <2>1, <2>2, <2>3
<1>2. CASE Deploy
  BY <1>2 DEF Deploy, TypeOK, Order, Mutex, Inside, Reading, Counted, Waiting, Spent,
     Ahead, Undeployed, Lives, NoncesUnique, Fresh, Filled, Has, Same, client
<1>3. CASE Restart
  <2>1. /\ life \in 1..MaxLife /\ life' = life + 1 /\ life' \in 1..MaxLife
        /\ index' = 0 /\ nonceTracker' = [q \in Queue |-> Unknown] /\ lock' = NoRequest
        /\ UNCHANGED <<rpc, got, deployed, onchain>>
    BY <1>3, MaxLifeAssumption DEF Restart, TypeOK, chain
  <2>2. \A s \in Request : /\ pc'[s] \in {"idle", "mined", "failed"}
                           /\ pc'[s] \in {"idle", "mined"} => pc'[s] = pc[s]
                           /\ pc'[s] # "sent"
    BY <1>3 DEF Restart, TypeOK
  <2>3. TypeOK'
    BY <1>3, <2>1, ConcurrencyAssumption DEF Restart, TypeOK, Place, Queue
  <2>4. Mutex' /\ Reading' /\ Waiting' /\ Spent' /\ Ahead' /\ Undeployed'
    BY <2>1, <2>2 DEF Order, Mutex, Inside, Reading, Waiting, Spent, Ahead, Undeployed
  <2>5. Counted'
    BY <2>1 DEF Order, Counted, Lives, TypeOK
  <2>6. NoncesUnique' /\ Fresh' /\ Filled'
    BY <2>1, <2>2 DEF NoncesUnique, Fresh, Filled, Has, Same
  <2> QED BY <2>3, <2>4, <2>5, <2>6 DEF Order
<1>4. CASE UNCHANGED vars
  BY <1>4 DEF vars, TypeOK, Order, Mutex, Inside, Reading, Counted, Waiting, Spent,
     Ahead, Undeployed, Lives, NoncesUnique, Fresh, Filled, Has, Same
<1> QED BY <1>1, <1>2, <1>3, <1>4, StepInv, MineInv DEF Next

(* The invariant is one of the steps alone, with no fairness assumed.      *)
THEOREM Invariance == Init /\ [][Next]_vars => []IInv
BY InitIInv, NextIInv, PTL

(* The memory of queues and the requests are of their types.               *)
THEOREM TypeCorrect == Spec => []TypeOK
<1>1. IInv => TypeOK
  BY DEF IInv
<1> QED BY <1>1, Invariance, PTL DEF Spec

(* No nonce of a queue is given to two requests of a process, and no two   *)
(* signed transactions ever have the same one.                             *)
THEOREM NoNonceTwice == Spec => []NoncesUnique
<1>1. IInv => NoncesUnique
  BY DEF IInv
<1> QED BY <1>1, Invariance, PTL DEF Spec

(* A nonce that waits was given by this process, so its queue is known.    *)
LEMMA IInvNoGap == IInv => NoGap
<1> SUFFICES ASSUME IInv, NEW r \in Request, pc[r] \in {"encode", "sign", "sent"}
             PROVE  LET q == got[r].queue
                    IN /\ onchain[q] <= got[r].nonce
                       /\ \A n \in onchain[q]..(got[r].nonce - 1) :
                            \E s \in Request : got[s] = [queue |-> q, nonce |-> n, life |-> life]
  BY DEF NoGap
<1> DEFINE q == got[r].queue
<1>1. /\ q \in Queue /\ got[r].nonce \in Nat /\ onchain[q] \in Nat
      /\ onchain[q] <= got[r].nonce
      /\ nonceTracker[q] \in Nat /\ nonceTracker[q] # Unknown /\ got[r].nonce < nonceTracker[q]
  BY DEF IInv, TypeOK, Order, Waiting, Counted
<1>2. ASSUME NEW n \in onchain[q]..(got[r].nonce - 1)
      PROVE  n \in Nat /\ onchain[q] <= n /\ n < nonceTracker[q]
  BY <1>1
<1> QED BY <1>1, <1>2 DEF IInv, Filled

(* A nonce that waits is still ahead of its queue, and all before it were  *)
(* given to somebody.                                                      *)
THEOREM NoNonceSkipped == Spec => []NoGap
BY IInvNoGap, Invariance, PTL DEF Spec

-----------------------------------------------------------------------------
(* As many rounds of the queues as are done, each queue was given a        *)
(* request; those before `index' have had one of the next round as well.   *)
Round(b) ==
  \A q \in Queue :
    /\ IsFiniteSet(InQueue(q))
    /\ Cardinality(InQueue(q)) = IF q < index THEN b + 1 ELSE b
Spread == \E b \in Nat : Round(b)

LEMMA NextOne ==
  \A q \in Queue : (q + 1) % Concurrency = IF q + 1 = Concurrency THEN 0 ELSE q + 1
BY ConcurrencyAssumption DEF Queue

(* A nonce goes to a request that had none, from the queue at `index'.     *)
LEMMA TakeSpread ==
  ASSUME IInv, Spread, NEW r \in Request, NEW n \in Nat, take(r, n),
         pc[r] \in {"acquire", "getCode", "reply"}, life' = life
  PROVE  Spread'
<1>1. /\ \A s \in Request : got'[s] = IF s = r THEN [queue |-> index, nonce |-> n, life |-> life]
                                               ELSE got[s]
      /\ index \in Queue /\ life \in 1..MaxLife /\ ~Has(r)
      /\ index' = IF index + 1 = Concurrency THEN 0 ELSE index + 1
  BY NextOne DEF take, IInv, TypeOK, Fresh
<1> PICK i \in Queue : i = index
  BY <1>1
<1>2. /\ InQueue(i)' = InQueue(i) \cup {r} /\ r \notin InQueue(i)
      /\ \A q \in Queue : q # i => InQueue(q)' = InQueue(q)
  <2>1. \A s \in Request : ~Lives(s) \/ s # r
    BY <1>1 DEF Lives, Has
  <2>2. ASSUME NEW q \in Queue
        PROVE  InQueue(q)' = {s \in Request : (Lives(s) /\ got[s].queue = q) \/ (s = r /\ q = i)}
    <3>1. \A s \in Request :
            (got'[s].life = life' /\ got'[s].queue = q)
               <=> (Lives(s) /\ got[s].queue = q) \/ (s = r /\ q = i)
      BY <1>1, <2>1 DEF Lives
    <3> QED BY <3>1 DEF InQueue, Lives
  <2> QED BY <2>1, <2>2 DEF InQueue
<1>3. PICK b \in Nat : Round(b)
  BY DEF Spread
<1>4. /\ IsFiniteSet(InQueue(i)') /\ Cardinality(InQueue(i)') = b + 1
  BY <1>2, <1>3, FS_AddElement DEF Round, Queue
<1>5. CASE index + 1 = Concurrency
  <2>1. \A q \in Queue : q # i => q < i
    BY <1>1, <1>5, ConcurrencyAssumption DEF Queue
  <2>2. ASSUME NEW q \in Queue
        PROVE  IsFiniteSet(InQueue(q)') /\ Cardinality(InQueue(q)') = b + 1
    BY <1>2, <1>3, <1>4, <2>1 DEF Round
  <2>3. index' = 0 /\ \A q \in Queue : ~(q < 0)
    BY <1>1, <1>5 DEF Queue
  <2>4. Round(b + 1)'
    BY <2>2, <2>3 DEF Round
  <2> QED BY <2>4 DEF Spread
<1>6. CASE index + 1 # Concurrency
  <2>1. index' = i + 1 /\ \A q \in Queue : q < i + 1 <=> q < i \/ q = i
    BY <1>1, <1>6 DEF Queue
  <2>2. ASSUME NEW q \in Queue
        PROVE  /\ IsFiniteSet(InQueue(q)')
               /\ Cardinality(InQueue(q)') = IF q < index' THEN b + 1 ELSE b
    BY <1>2, <1>3, <1>4, <2>1 DEF Round
  <2>3. Round(b)'
    BY <2>2 DEF Round
  <2> QED BY <2>3 DEF Spread
<1> QED BY <1>5, <1>6

LEMMA NextSpread == IInv /\ Spread /\ [Next]_vars => Spread'
<1> SUFFICES ASSUME IInv, Spread, [Next]_vars PROVE Spread'
  OBVIOUS
<1>1. ASSUME UNCHANGED <<got, life, index>> PROVE Spread'
  BY <1>1 DEF Spread, Round, InQueue, Lives
<1>2. CASE Restart
  <2>1. index' = 0 /\ \A q \in Queue : InQueue(q)' = {} /\ ~(q < 0)
    BY <1>2 DEF Restart, InQueue, Lives, IInv, TypeOK, Order, Counted, Queue
  <2>2. Round(0)'
    BY <2>1, FS_EmptySet DEF Round
  <2> QED BY <2>2 DEF Spread
<1>3. ASSUME NEW r \in Request, Acquire(r) PROVE Spread'
  <2>1. CASE nonceTracker[index] # Unknown
    <3>1. /\ nonceTracker[index] \in Nat /\ take(r, nonceTracker[index])
          /\ pc[r] = "acquire" /\ life' = life
      BY <1>3, <2>1 DEF Acquire, IInv, TypeOK
    <3> QED BY <3>1, TakeSpread
  <2>2. CASE nonceTracker[index] = Unknown
    BY <1>1, <1>3, <2>2 DEF Acquire
  <2> QED BY <2>1, <2>2
<1>4. ASSUME NEW r \in Request, GetCode(r) PROVE Spread'
  BY <1>1, <1>4, TakeSpread DEF GetCode
<1>5. ASSUME NEW r \in Request, NonceStore(r) PROVE Spread'
  BY <1>5, TakeSpread DEF NonceStore, IInv, TypeOK
<1>6. ASSUME NEW r \in Request,
             \/ SignMetaTransaction(r) \/ NodeReads(r) \/ RpcFails(r) \/ Release(r)
             \/ SignMessage(r) \/ SignFails(r) \/ Mine(r) \/ Deploy \/ UNCHANGED vars
      PROVE  Spread'
  BY <1>1, <1>6 DEF SignMetaTransaction, NodeReads, RpcFails, Release, SignMessage,
     SignFails, Mine, Deploy, client, vars
<1>7. CASE Deploy \/ UNCHANGED vars
  BY <1>1, <1>7 DEF Deploy, client, vars
<1> QED BY <1>2, <1>3, <1>4, <1>5, <1>6, <1>7 DEF Next, Step

(* The requests of a process are spread evenly over the queues, whatever   *)
(* was rejected on the way.                                                *)
THEOREM EvenlySpread == Spec => []Balanced
<1>1. Init => Spread
  <2> SUFFICES ASSUME Init PROVE Spread
    OBVIOUS
  <2>1. \A q \in Queue : InQueue(q) = {} /\ ~(q < index)
    BY DEF Init, InQueue, Lives, Queue
  <2> QED BY <2>1, FS_EmptySet DEF Spread, Round
<1>2. TypeOK /\ Spread => Balanced
  BY DEF TypeOK, Spread, Round, Balanced, Queue
<1> QED BY <1>1, <1>2, NextSpread, Invariance, TypeCorrect, PTL DEF Spec

-----------------------------------------------------------------------------
(* What `Settles' asks of the lock, without its fairness: whoever has it   *)
(* is inside, where every await ends in a step or in a rejection, never    *)
(* gone with it.                                                           *)
Holder == lock # NoRequest => pc[lock] \in Inside

(* The lock is never lost, whatever is rejected.                           *)
THEOREM LockPassedOn == Spec => []Holder
<1>1. Init => Holder
  BY DEF Init, Holder
<1>2. IInv /\ Holder /\ [Next]_vars => Holder'
  <2> SUFFICES ASSUME IInv, Holder, [Next]_vars PROVE Holder'
    OBVIOUS
  <2>1. pc \in [Request -> Place] /\ Mutex
    BY DEF IInv, TypeOK, Order
  <2> USE DEF Holder, Inside, Goto, take
  <2>2. ASSUME NEW r \in Request, Acquire(r) \/ GetCode(r) \/ NodeReads(r) \/ NonceStore(r)
        PROVE  Holder'
    <3>1. pc'[r] \in Inside /\ lock' = r
      BY <2>1, <2>2 DEF Acquire, GetCode, NodeReads, NonceStore, Mutex
    <3> QED BY <3>1
  <2>3. ASSUME NEW r \in Request, RpcFails(r) \/ Release(r) PROVE Holder'
    BY <2>3 DEF RpcFails, Release
  <2>4. ASSUME NEW r \in Request,
               SignMetaTransaction(r) \/ SignMessage(r) \/ SignFails(r) \/ Mine(r)
        PROVE  Holder'
    <3>1. /\ pc[r] \notin Inside /\ lock' = lock
          /\ \A s \in Request : s # r => pc'[s] = pc[s]
      BY <2>1, <2>4 DEF SignMetaTransaction, SignMessage, SignFails, Mine, client
    <3>2. lock # NoRequest => lock \in Request /\ lock # r
      BY <3>1 DEF IInv, TypeOK
    <3> QED BY <3>1, <3>2
  <2>5. CASE Deploy \/ Restart \/ UNCHANGED vars
    BY <2>5 DEF Deploy, Restart, vars, client
  <2> QED BY <2>2, <2>3, <2>4, <2>5 DEF Next, Step
<1> QED BY <1>1, <1>2, Invariance, PTL DEF Spec

(* What `MinedUnlessBlocked' asks of the queue: unless an earlier nonce    *)
(* was lost, the one that the chain expects next is on its way.            *)
HeadComes ==
  \A r \in Request : pc[r] = "sent" /\ ~Blocked(r) =>
    \E s \in Request :
      /\ pc[s] \in {"encode", "sign", "sent"} /\ got[s].queue = got[r].queue
      /\ nonceAccepts(onchain[got[s].queue], got[s].nonce)

(* For that one was given by this process, and it is neither mined, nor    *)
(* did it fail.                                                            *)
LEMMA IInvHeadComes == IInv => HeadComes
<1> SUFFICES ASSUME IInv, NEW r \in Request, pc[r] = "sent", ~Blocked(r)
             PROVE  \E s \in Request :
                      /\ pc[s] \in {"encode", "sign", "sent"} /\ got[s].queue = got[r].queue
                      /\ nonceAccepts(onchain[got[s].queue], got[s].nonce)
  BY DEF HeadComes
<1> DEFINE q == got[r].queue
<1>1. /\ q \in Queue /\ got[r].nonce \in Nat /\ onchain[q] \in Nat /\ life \in 1..MaxLife
      /\ got[r].life = life /\ onchain[q] <= got[r].nonce
      /\ nonceTracker[q] \in Nat /\ nonceTracker[q] # Unknown /\ got[r].nonce < nonceTracker[q]
  BY DEF IInv, TypeOK, Order, Waiting, Counted, Lives
<1>2. PICK s \in Request : got[s] = [queue |-> q, nonce |-> onchain[q], life |-> life]
  BY <1>1 DEF IInv, Filled
<1>3. got[s].queue = q /\ got[s].nonce = onchain[q] /\ got[s].life = life
  BY <1>2
<1>4. pc[s] \in {"encode", "sign", "sent", "mined", "failed"}
  BY <1>1, <1>3 DEF IInv, TypeOK, Place, Fresh, Has
<1>5. pc[s] # "mined"
  BY <1>1, <1>3 DEF IInv, Order, Spent
<1>6. pc[s] # "failed"
  <2>1. ASSUME pc[s] = "failed" PROVE s # r /\ got[s].nonce < got[r].nonce
    <3>1. s # r /\ ~Same(s, r)
      BY <1>1, <1>3, <2>1 DEF IInv, NoncesUnique, Has
    <3> QED BY <1>1, <1>3, <3>1 DEF Same
  <2> QED BY <1>1, <1>3, <2>1 DEF Blocked
<1> QED BY <1>3, <1>4, <1>5, <1>6 DEF nonceAccepts

(* A signed transaction waits for nothing but transactions before it.      *)
THEOREM NothingElseBlocks == Spec => []HeadComes
BY IInvHeadComes, Invariance, PTL DEF Spec
=============================================================================

---------------------------- MODULE MultiNonce ----------------------------
(***************************************************************************)
(* The client side of one queue family: MultiNonceReplayProtection, which  *)
(* hands out nonces to concurrent requests, the signing of a request by    *)
(* the forwarder that asked, and as environment the node it reads from,    *)
(* the relayer, and the chain's queues.                                    *)
(*                                                                         *)
(* The client is JavaScript: what runs between two awaits is one step, and *)
(* any other request may run while one awaits.  A client may restart and   *)
(* lose its memory.                                                        *)
(***************************************************************************)
EXTENDS ReplayRules, FiniteSets

CONSTANTS
  Request,      \* calls of signMetaTransaction
  Concurrency,  \* number of queues: 30 for MULTINONCE, 1 for NONCE
  NoRequest,    \* the lock is free
  Unknown,      \* a queue that is not in nonceTracker
  MaxLife       \* bound: number of processes, one after the other

ASSUME ConcurrencyAssumption == Concurrency \in Nat \ {0}
ASSUME MaxLifeAssumption     == MaxLife \in Nat \ {0}
ASSUME NoRequestAssumption   == NoRequest \notin Request
ASSUME UnknownAssumption     == Unknown \notin Nat

Queue == 0..(Concurrency - 1)

VARIABLES
  index,         \* the queue the next request gets
  nonceTracker,  \* next nonce of each queue, where known
  lock,          \* who is inside getEncodedReplayProtection
  pc,            \* where each request is
  rpc,           \* the queue a request reads, and the node's answer
  got,           \* the queue, nonce and process of a request that has them
  life,          \* the process that runs
  deployed,      \* the forwarder has code on the chain
  onchain        \* nonceStore of the signer's queues

client == <<index, nonceTracker, lock, rpc>>
chain  == <<deployed, onchain>>
vars   == <<index, nonceTracker, lock, pc, rpc, got, life, deployed, onchain>>

Place == {"idle", "acquire", "getCode", "nonceStore", "reply", "encode",
          "sign", "sent", "mined", "failed"}

Goto(r, place) == pc' = [pc EXCEPT ![r] = place]

Init ==
  /\ index = 0
  /\ nonceTracker = [q \in Queue |-> Unknown]
  /\ lock = NoRequest
  /\ pc = [r \in Request |-> "idle"]
  /\ rpc = [r \in Request |-> [queue |-> 0, value |-> 0]]
  /\ got = [r \in Request |-> [queue |-> 0, nonce |-> 0, life |-> 0]]
  /\ life = 1
  /\ deployed \in BOOLEAN
  /\ onchain = [q \in Queue |-> 0]

-----------------------------------------------------------------------------
(* A request is made; it waits for the lock.                               *)
SignMetaTransaction(r) ==
  /\ pc[r] = "idle"
  /\ Goto(r, "acquire")
  /\ UNCHANGED <<client, got, life, chain>>

(* The end of getLatestMultiNonce: `index' as it is now, whatever queue    *)
(* the stored nonce was read for.                                          *)
take_Late(r, stored) ==  \* broken: the tracker is set after index moved on
  /\ got' = [got EXCEPT ![r] = [queue |-> index, nonce |-> stored, life |-> life]]
  /\ index' = (index + 1) % Concurrency
  /\ nonceTracker' = [nonceTracker EXCEPT ![index'] = stored + 1]
  /\ Goto(r, "encode")
take_Stuck(r, stored) ==  \* broken: index does not move on
  /\ got' = [got EXCEPT ![r] = [queue |-> index, nonce |-> stored, life |-> life]]
  /\ nonceTracker' = [nonceTracker EXCEPT ![index] = stored + 1]
  /\ index' = index
  /\ Goto(r, "encode")
take_NoWrap(r, stored) ==  \* broken: index is not taken modulo concurrency
  /\ got' = [got EXCEPT ![r] = [queue |-> index, nonce |-> stored, life |-> life]]
  /\ nonceTracker' = [nonceTracker EXCEPT ![index] = stored + 1]
  /\ index' = index + 1
  /\ Goto(r, "encode")
take(r, stored) ==
  /\ got' = [got EXCEPT ![r] = [queue |-> index, nonce |-> stored, life |-> life]]
  /\ nonceTracker' = [nonceTracker EXCEPT ![index] = stored + 1]
  /\ index' = (index + 1) % Concurrency
  /\ Goto(r, "encode")

(* lock.acquire() resolves; the tracker is looked up in the same step.     *)
Acquire_NoLock(r) ==  \* broken: the lock is not waited for
  /\ pc[r] = "acquire"
  /\ lock' = r
  /\ IF nonceTracker[index] # Unknown
     THEN take(r, nonceTracker[index]) /\ UNCHANGED rpc
     ELSE /\ Goto(r, "getCode")
          /\ rpc' = [rpc EXCEPT ![r].queue = index]
          /\ UNCHANGED <<index, nonceTracker, got>>
  /\ UNCHANGED <<life, chain>>
Acquire(r) ==
  /\ pc[r] = "acquire"
  /\ lock = NoRequest
  /\ lock' = r
  /\ IF nonceTracker[index] # Unknown
     THEN take(r, nonceTracker[index]) /\ UNCHANGED rpc
     ELSE /\ Goto(r, "getCode")
          /\ rpc' = [rpc EXCEPT ![r].queue = index]
          /\ UNCHANGED <<index, nonceTracker, got>>
  /\ UNCHANGED <<life, chain>>

(* accessNonceStore: 0 while the forwarder has no code ...                 *)
GetCode_Never(r) ==  \* broken: code never seen, the nonce is always 0
  /\ pc[r] = "getCode"
  /\ take(r, 0)
  /\ UNCHANGED <<lock, rpc, life, chain>>
GetCode(r) ==
  /\ pc[r] = "getCode"
  /\ IF deployed
     THEN Goto(r, "nonceStore") /\ UNCHANGED <<index, nonceTracker, got>>
     ELSE take(r, 0)
  /\ UNCHANGED <<lock, rpc, life, chain>>

(* ... else the node's value, which arrives later than it was read.        *)
NodeReads(r) ==
  /\ pc[r] = "nonceStore"
  /\ rpc' = [rpc EXCEPT ![r].value = onchain[rpc[r].queue]]
  /\ Goto(r, "reply")
  /\ UNCHANGED <<index, nonceTracker, lock, got, life, chain>>

NonceStore(r) ==
  /\ pc[r] = "reply"
  /\ take(r, rpc[r].value)
  /\ UNCHANGED <<lock, rpc, life, chain>>

(* The provider rejects; `finally' releases the lock.                      *)
RpcFails_KeepsLock(r) ==  \* broken: no `finally'
  /\ pc[r] \in {"getCode", "nonceStore", "reply"}
  /\ Goto(r, "failed")
  /\ UNCHANGED <<client, got, life, chain>>
RpcFails(r) ==
  /\ pc[r] \in {"getCode", "nonceStore", "reply"}
  /\ Goto(r, "failed")
  /\ lock' = NoRequest
  /\ UNCHANGED <<index, nonceTracker, rpc, got, life, chain>>

(* The replay protection is encoded and the lock released.                 *)
Release(r) ==
  /\ pc[r] = "encode"
  /\ Goto(r, "sign")
  /\ lock' = NoRequest
  /\ UNCHANGED <<index, nonceTracker, rpc, got, life, chain>>

(* signMessage, then the transaction goes to the relayer; or the signer    *)
(* refuses, and the nonce it would have used is gone.                      *)
SignMessage(r) ==
  /\ pc[r] = "sign"
  /\ Goto(r, "sent")
  /\ UNCHANGED <<client, got, life, chain>>

SignFails(r) ==
  /\ pc[r] = "sign"
  /\ Goto(r, "failed")
  /\ UNCHANGED <<client, got, life, chain>>

-----------------------------------------------------------------------------
(* The relayer submits what it was given until the forwarder accepts it.   *)
Mine(r) ==
  LET q == got[r].queue
  IN /\ pc[r] = "sent"
     /\ deployed
     /\ nonceAccepts(onchain[q], got[r].nonce)
     /\ onchain' = [onchain EXCEPT ![q] = nonceStored(@)]
     /\ Goto(r, "mined")
     /\ UNCHANGED <<client, got, life, deployed>>

Deploy ==
  /\ ~deployed
  /\ deployed' = TRUE
  /\ UNCHANGED <<client, pc, got, life, onchain>>

(* The process ends and a new one starts with nothing in memory.  As the   *)
(* comment on getLatestMultiNonce assumes, no signed transaction is still  *)
(* on its way then.                                                        *)
Restart ==
  /\ life < MaxLife
  /\ \A r \in Request : pc[r] # "sent"
  /\ life' = life + 1
  /\ index' = 0
  /\ nonceTracker' = [q \in Queue |-> Unknown]
  /\ lock' = NoRequest
  /\ pc' = [r \in Request |->
              IF pc[r] \in {"idle", "mined"} THEN pc[r] ELSE "failed"]
  /\ UNCHANGED <<rpc, got, chain>>

Step(r) ==
  \/ Acquire(r) \/ GetCode(r) \/ NodeReads(r) \/ NonceStore(r)
  \/ RpcFails(r) \/ Release(r) \/ SignMessage(r) \/ SignFails(r)

Next ==
  \/ \E r \in Request : SignMetaTransaction(r) \/ Step(r) \/ Mine(r)
  \/ Deploy
  \/ Restart

(* The event loop runs what is ready, the node answers or the request is   *)
(* rejected, the signer decides; the relayer keeps submitting; a wallet is *)
(* deployed at some time.  Nothing forces a request to be made, nor a      *)
(* restart.                                                                *)
Fairness ==
  /\ \A r \in Request : WF_vars(Step(r)) /\ WF_vars(Mine(r))
  /\ WF_vars(Deploy)

Spec == Init /\ [][Next]_vars /\ Fairness

-----------------------------------------------------------------------------
(* Types of the client's memory and of the chain's queues.                 *)
TypeOK ==
  /\ index \in Queue
  /\ nonceTracker \in [Queue -> Nat \cup {Unknown}]
  /\ lock \in Request \cup {NoRequest}
  /\ pc \in [Request -> Place]
  /\ rpc \in [Request -> [queue : Queue, value : Nat]]
  /\ got \in [Request -> [queue : Queue, nonce : Nat, life : 0..MaxLife]]
  /\ life \in 1..MaxLife
  /\ deployed \in BOOLEAN
  /\ onchain \in [Queue -> Nat]

(* A request that was given a nonce; and one that was by this process.     *)
Has(r)   == got[r].life > 0
Lives(r) == got[r].life = life
Same(r, s) == got[r].queue = got[s].queue /\ got[r].nonce = got[s].nonce

(* getLatestMultiNonce never hands the same nonce of a queue to two        *)
(* requests of a process, however they interleave; and of two signed       *)
(* transactions not even when a restart lies between them.                 *)
NoncesUnique ==
  \A r, s \in Request :
    /\ r # s /\ Has(r) /\ Has(s)
    /\ got[r].life = got[s].life \/ {pc[r], pc[s]} \subseteq {"sent", "mined"}
    => ~Same(r, s)

(* A nonce that waits for its turn is not used yet on the chain, and every *)
(* nonce the queue still expects before it was given to a request as well. *)
NoGap ==
  \A r \in Request : pc[r] \in {"encode", "sign", "sent"} =>
    LET q == got[r].queue
    IN /\ onchain[q] <= got[r].nonce
       /\ \A n \in onchain[q]..(got[r].nonce - 1) :
            \E s \in Request : got[s] = [queue |-> q, nonce |-> n, life |-> life]

(* The requests of a process are spread over the queues evenly: "we        *)
(* support up to N out-of-order transactions" (multiNonce.ts:16).          *)
InQueue(q) == {r \in Request : Lives(r) /\ got[r].queue = q}
Balanced ==
  \A p, q \in Queue : Cardinality(InQueue(p)) <= Cardinality(InQueue(q)) + 1

(* Every request gets a nonce and a signature, or an error: whatever       *)
(* fails, the lock is passed on.                                           *)
Settles ==
  \A r \in Request :
    pc[r] = "acquire" ~> pc[r] \in {"sent", "mined", "failed"}

(* A transaction handed to the relayer is accepted at last, unless an      *)
(* earlier nonce of its own queue was lost: a gap stops one queue only.    *)
Blocked(r) ==
  \E s \in Request :
    /\ pc[s] = "failed" /\ got[s].life = got[r].life
    /\ got[s].queue = got[r].queue /\ got[s].nonce < got[r].nonce
MinedUnlessBlocked ==
  \A r \in Request : pc[r] = "sent" ~> pc[r] = "mined" \/ Blocked(r)
=============================================================================

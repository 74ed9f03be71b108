---------------------------- MODULE GnosisNonce ----------------------------
(***************************************************************************)
(* GnosisReplayProtection, which numbers the transactions of one Gnosis    *)
(* Safe, with GnosisSafeForwarder's signing around it, the node it reads   *)
(* from, the relayer, and the nonce of the Safe, a contract that is not in *)
(* the repository.  It is one queue of MultiNonce, kept another way: the   *)
(* client remembers the last nonce it gave, not the next.                  *)
(***************************************************************************)
EXTENDS Naturals

CONSTANTS
  Request,    \* calls of signMetaTransaction
  NoRequest,  \* the lock is free
  Unknown,    \* undefined
  EmptyCode,  \* what the node answers for an address without code
  MaxLife     \* bound: number of processes, one after the other

ASSUME MaxLifeAssumption   == MaxLife \in Nat \ {0}
ASSUME NoRequestAssumption == NoRequest \notin Request
ASSUME UnknownAssumption   == Unknown \notin Nat
ASSUME EmptyCodeAssumption == EmptyCode \in {"0x", "0x0"}

VARIABLES
  nonce,     \* the nonce given last
  lock,      \* who is inside getEncodedReplayProtection
  pc,        \* where each request is
  answer,    \* what the Safe's nonce() returned to a request
  got,       \* the nonce and the process of a request that has them
  life,      \* the process that runs
  deployed,  \* the Safe has code on the chain
  onchain    \* the Safe's nonce

client == <<nonce, lock, answer>>
chain  == <<deployed, onchain>>
vars   == <<nonce, lock, pc, answer, got, life, deployed, onchain>>

Place == {"idle", "acquire", "getCode", "nonce", "reply", "encode",
          "sign", "sent", "mined", "failed"}

Goto(r, place) == pc' = [pc EXCEPT ![r] = place]

Init ==
  /\ nonce = Unknown
  /\ lock = NoRequest
  /\ pc = [r \in Request |-> "idle"]
  /\ answer = [r \in Request |-> 0]
  /\ got = [r \in Request |-> [nonce |-> 0, life |-> 0]]
  /\ life = 1
  /\ deployed \in BOOLEAN
  /\ onchain = 0

-----------------------------------------------------------------------------
(* A request is made; it waits for the lock.                               *)
SignMetaTransaction(r) ==
  /\ pc[r] = "idle"
  /\ Goto(r, "acquire")
  /\ UNCHANGED <<client, got, life, chain>>

(* The end of getNonce: n is remembered and returned.                      *)
give(r, n) ==
  /\ nonce' = n
  /\ got' = [got EXCEPT ![r] = [nonce |-> n, life |-> life]]
  /\ Goto(r, "encode")

(* lock.acquire() resolves, and a known nonce is counted up.               *)
Acquire_Again(r) ==  \* broken: not counted up
  /\ pc[r] = "acquire"
  /\ lock = NoRequest
  /\ lock' = r
  /\ IF nonce # Unknown THEN give(r, nonce) ELSE Goto(r, "getCode") /\ UNCHANGED <<nonce, got>>
  /\ UNCHANGED <<answer, life, chain>>
Acquire(r) ==
  /\ pc[r] = "acquire"
  /\ lock = NoRequest
  /\ lock' = r
  /\ IF nonce # Unknown THEN give(r, nonce + 1)
                        ELSE Goto(r, "getCode") /\ UNCHANGED <<nonce, got>>
  /\ UNCHANGED <<answer, life, chain>>

(* Only "0x" is taken for an address without code.                         *)
GetCode(r) ==
  /\ pc[r] = "getCode"
  /\ IF deployed \/ EmptyCode # "0x"
     THEN Goto(r, "nonce") /\ UNCHANGED <<nonce, got>>
     ELSE give(r, 0)
  /\ UNCHANGED <<lock, answer, life, chain>>

(* The Safe's nonce, which arrives later than it was read.                 *)
NodeReads(r) ==
  /\ pc[r] = "nonce"
  /\ deployed
  /\ answer' = [answer EXCEPT ![r] = onchain]
  /\ Goto(r, "reply")
  /\ UNCHANGED <<nonce, lock, got, life, chain>>

Nonce(r) ==
  /\ pc[r] = "reply"
  /\ give(r, answer[r])
  /\ UNCHANGED <<lock, answer, life, chain>>

(* The provider rejects, as it does for nonce() of an address without      *)
(* code; `finally' releases the lock.                                      *)
RpcFails_KeepsLock(r) ==  \* broken: no `finally'
  /\ pc[r] \in {"getCode", "nonce", "reply"}
  /\ Goto(r, "failed")
  /\ UNCHANGED <<client, got, life, chain>>
RpcFails(r) ==
  /\ pc[r] \in {"getCode", "nonce", "reply"}
  /\ Goto(r, "failed")
  /\ lock' = NoRequest
  /\ UNCHANGED <<nonce, answer, got, life, chain>>

(* The replay protection is encoded and the lock released.                 *)
Release(r) ==
  /\ pc[r] = "encode"
  /\ Goto(r, "sign")
  /\ lock' = NoRequest
  /\ UNCHANGED <<nonce, answer, got, life, chain>>

(* hashAndSign, then the transaction goes to the relayer; or the signer    *)
(* refuses, and the nonce is gone.                                         *)
HashAndSign(r) ==
  /\ pc[r] = "sign"
  /\ \E place \in {"sent", "failed"} : Goto(r, place)
  /\ UNCHANGED <<client, got, life, chain>>

-----------------------------------------------------------------------------
(* The relayer submits what it was given until the Safe, which puts its    *)
(* own nonce into the hash, recovers its owner.                            *)
Mine(r) ==
  /\ pc[r] = "sent"
  /\ deployed
  /\ onchain = got[r].nonce
  /\ onchain' = onchain + 1
  /\ Goto(r, "mined")
  /\ UNCHANGED <<client, got, life, deployed>>

Deploy ==
  /\ ~deployed
  /\ deployed' = TRUE
  /\ UNCHANGED <<client, pc, got, life, onchain>>

(* The process ends and a new one starts.  As the comment on getNonce      *)
(* assumes, no signed transaction is still on its way then.                *)
Restart ==
  /\ life < MaxLife
  /\ \A r \in Request : pc[r] # "sent"
  /\ life' = life + 1
  /\ nonce' = Unknown
  /\ lock' = NoRequest
  /\ pc' = [r \in Request |->
              IF pc[r] \in {"idle", "mined"} THEN pc[r] ELSE "failed"]
  /\ UNCHANGED <<answer, got, chain>>

Step(r) ==
  \/ Acquire(r) \/ GetCode(r) \/ NodeReads(r) \/ Nonce(r)
  \/ RpcFails(r) \/ Release(r) \/ HashAndSign(r)

Next ==
  \/ \E r \in Request : SignMetaTransaction(r) \/ Step(r) \/ Mine(r)
  \/ Deploy
  \/ Restart

(* As in MultiNonce: the event loop runs, the node answers or rejects, the *)
(* signer decides, the relayer keeps submitting, the Safe is deployed.     *)
Fairness ==
  /\ \A r \in Request : WF_vars(Step(r)) /\ WF_vars(Mine(r))
  /\ WF_vars(Deploy)

Spec == Init /\ [][Next]_vars /\ Fairness

-----------------------------------------------------------------------------
(* Types of the client's memory and of the Safe's nonce.                   *)
TypeOK ==
  /\ nonce \in Nat \cup {Unknown}
  /\ lock \in Request \cup {NoRequest}
  /\ pc \in [Request -> Place]
  /\ answer \in [Request -> Nat]
  /\ got \in [Request -> [nonce : Nat, life : 0..MaxLife]]
  /\ life \in 1..MaxLife
  /\ deployed \in BOOLEAN
  /\ onchain \in Nat

(* The one queue that it is: queue 0 is known when the nonce is, and the   *)
(* next nonce is the one after it.                                         *)
trackerBar == [q \in {0} |-> IF nonce = Unknown THEN Unknown ELSE nonce + 1]
pcBar      == [r \in Request |-> IF pc[r] = "nonce" THEN "nonceStore" ELSE pc[r]]
rpcBar     == [r \in Request |-> [queue |-> 0, value |-> answer[r]]]
gotBar     == [r \in Request |-> [queue |-> 0, nonce |-> got[r].nonce, life |-> got[r].life]]
onchainBar == [q \in {0} |-> onchain]

Queue == INSTANCE MultiNonce WITH
  Concurrency <- 1, index <- 0, nonceTracker <- trackerBar, pc <- pcBar,
  rpc <- rpcBar, got <- gotBar, onchain <- onchainBar

(* Every step of the Safe's client is one of a MultiNonce client with one  *)
(* queue, so that it also gives no nonce twice and skips none.             *)
RefinesOneQueue == Queue!Init /\ [][Queue!Next]_(Queue!vars)

(* No request of a Safe waits forever for its nonce.                       *)
QueueSettles == Queue!Settles

(* A signed transaction is accepted at last, unless the signer refused one *)
(* before it, or the provider did.                                         *)
QueueMined == Queue!MinedUnlessBlocked

(* gnosisNonce.ts:38: "Lets verify that gnosis safe is already deployed":  *)
(* the Safe is asked for its nonce only when it has code.                  *)
VerifiedDeployed == \A r \in Request : pc[r] = "nonce" => deployed
=============================================================================

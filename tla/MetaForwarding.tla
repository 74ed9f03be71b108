-------------------------- MODULE MetaForwarding --------------------------
(***************************************************************************)
(* The forwarder contracts on one chain (or several: a forwarder stands    *)
(* for an address on a chain): RelayHub, the ProxyAccount wallets, their   *)
(* deployer, and the batch loop both share.                                *)
(*                                                                         *)
(* An Ethereum transaction is a stack of call frames.  Whoever runs, an    *)
(* account that is not a contract at the bottom or any contract a          *)
(* forwarder called, may submit any signed meta-transaction to any         *)
(* forwarder, again and in any order: the relayer is not trusted, and a    *)
(* called contract may re-enter.  A frame that reverts restores the world  *)
(* as it was when the frame was entered.                                   *)
(***************************************************************************)
EXTENDS ReplayProtection, FiniteSets

CONSTANTS
  Wallet,     \* the ProxyAccount addresses among Forwarder
  SignerOf,   \* the signer whose CREATE2 salt gives a wallet its address
  NoAccount,  \* in `owner': no account is deployed at the address yet
  NoOwner,    \* address(0): `owner' of a clone before init
  NoRun,      \* marks the frame of a contract that is no forwarder
  Target,     \* bound: for whom updateFor is called, other than by verify,
  BitsToFlip, \* bound: and with which bits
  MaxDepth    \* bound: frames on the call stack (1024 in the EVM)

(* Nobody has the key of a contract's address.                             *)
ASSUME WalletAssumption ==
  /\ Wallet \subseteq Forwarder
  /\ Wallet \cap Who = {}
  /\ SignerOf \in [Wallet -> Key]

ASSUME MaxDepthAssumption == MaxDepth \in Nat \ {0}

Hub == Forwarder \ Wallet

ASSUME NoOwnerAssumption ==
  /\ NoAccount \notin Who
  /\ NoOwner \notin Who \cup {NoAccount}

ASSUME TargetAssumption == Target \subseteq Who /\ BitsToFlip \subseteq SUBSET Bit

VARIABLES
  world,  \* the storage of the contracts and the log
  stack   \* the call frames of the Ethereum transaction that runs

vars == <<world, stack>>

-----------------------------------------------------------------------------
Accepted == [at : Forwarder, tx : Tx]

(* What became of one call of a meta-transaction, and as whom it was made. *)
Outcome == [at : Forwarder, tx : Tx, call : Nat \ {0},
            sender : Who \cup Wallet, ok : BOOLEAN]

(* A call of updateFor that a meta-transaction made a forwarder make: the  *)
(* store takes that forwarder for its msg.sender.                          *)
TargetNonce == [target : Target, queue : Queue, bits : BitsToFlip]
Update      == [at : Forwarder, tx : Tx, nonce : TargetNonce]

World == [nonces   : [StoreIndex -> Nat],          \* nonceStore, and
          flips    : [StoreIndex -> SUBSET Bit],   \* nonceStore, see above
          bitmaps  : [TargetIndex -> SUBSET Bit],  \* BitFlipNonceStore
          owner    : [Wallet -> Key \cup {NoAccount, NoOwner}],
          accepted : Seq(Accepted),   \* the ReplayProtectionInfo events
          outcomes : Seq(Outcome),    \* history: the calls that were made
          updates  : SUBSET Update]   \* history: those calls of updateFor

(* A frame is a forwarder executing a meta-transaction, or any other       *)
(* contract (no run).  `next' is the loop index of the batch.              *)
Run   == [at : Forwarder, tx : Tx, next : Nat \ {0}]
Frame == [saved : World, run : Run \cup {NoRun}]

ASSUME NoRunAssumption == NoRun \notin Run

Depth   == Len(stack)
Top     == stack[Depth]
Calls(run) == Signed[run.tx].calls
Running == stack # <<>> /\ Top.run # NoRun   \* a forwarder executes
Calling == stack # <<>> => Top.run = NoRun    \* any other account does

(* An entry into a contract; it remembers what a revert restores.          *)
Enter(run) ==
  /\ Depth < MaxDepth
  /\ stack' = Append(stack, [saved |-> world, run |-> run])

(* Frame n reverts, and with it all the frames it called.                  *)
Revert(n) ==
  /\ world' = stack[n].saved
  /\ stack' = SubSeq(stack, 1, n - 1)

-----------------------------------------------------------------------------
InitialWorld ==
  [nonces   |-> [i \in StoreIndex |-> 0],
   flips    |-> [i \in StoreIndex |-> {}],
   bitmaps  |-> [i \in TargetIndex |-> {}],
   owner    |-> [x \in Wallet |-> NoAccount],
   accepted |-> <<>>,
   outcomes |-> <<>>,
   updates  |-> {}]

Init == world = InitialWorld /\ stack = <<>>

(* An Ethereum transaction to a contract that is no forwarder (MultiSend,  *)
(* or anything else that goes on to call one).                             *)
StartContract ==
  /\ stack = <<>>
  /\ Enter(NoRun)
  /\ UNCHANGED world

(* require(owner == address(0), "Owner is already set")                   *)
initAccepts_Again(w, x) == w.owner[x] # NoAccount  \* broken: no require
initAccepts(w, x) == w.owner[x] = NoOwner
initialised(w, x, who) ==
  IF initAccepts(w, x) THEN [w EXCEPT !.owner[x] = who] ELSE w

(* CREATE2, which fails if the account exists, and init in one call.       *)
createProxyAccount(x) ==
  /\ Calling
  /\ world.owner[x] = NoAccount
  /\ world' = initialised([world EXCEPT !.owner[x] = NoOwner], x, SignerOf[x])
  /\ UNCHANGED stack

(* Anybody may call init, with any owner; where it reverts nothing changes.*)
init(x, who) ==
  /\ Calling
  /\ world' = initialised(world, x, who)
  /\ UNCHANGED stack

(* BitFlipNonceStore.updateFor(n.target, n) with `sender' as msg.sender.   *)
storeAccepts(w, sender, n) ==
  updateAccepts(w.bitmaps[targetIndex(sender, n.target, n.queue)], n.bits)
stored(w, sender, n) ==
  [w EXCEPT !.bitmaps[targetIndex(sender, n.target, n.queue)] = updateStored(@, n.bits)]

(* Anybody may call it, and spends bits of his own.                        *)
updateFor(n) ==
  /\ Calling
  /\ storeAccepts(world, Outsider, n)
  /\ world' = stored(world, Outsider, n)
  /\ UNCHANGED stack

(* verify, which reverts or spends the nonce before anything else is done. *)
verify_FromZero(f, t) ==  \* broken: the loop index starts one too low
  /\ verifyAccepts(world, f, t)
  /\ world' = verified(world, f, t)
  /\ Enter([at |-> f, tx |-> t, next |-> 0])
verify(f, t) ==
  /\ verifyAccepts(world, f, t)
  /\ world' = verified(world, f, t)
  /\ Enter([at |-> f, tx |-> t, next |-> 1])

(* A RelayHub serves every signer.                                         *)
RelayHubForward(f, t) ==
  /\ Calling
  /\ ~Signed[t].batch
  /\ verify(f, t)

RelayHubBatch(f, t) ==
  /\ Calling
  /\ Signed[t].batch
  /\ verify(f, t)

(* require(owner == verify(...)) in a wallet.  An address with no account  *)
(* has no code: calling it does nothing.                                   *)
ownerSigned(x, t) == world.owner[x] = recover(x, t)

validCallType(f, c) == f \in Wallet => c.callType \in {"CALL", "DELEGATE"}

ProxyAccountForward(x, t) ==
  /\ Calling
  /\ ~Signed[t].batch
  /\ ownerSigned(x, t)
  /\ validCallType(x, Signed[t].calls[1])
  /\ verify(x, t)

ProxyAccountBatch(x, t) ==
  /\ Calling
  /\ Signed[t].batch
  /\ ownerSigned(x, t)
  /\ verify(x, t)

(* The forwarder makes its next call.  DELEGATE runs library code in the   *)
(* wallet's context, see DelegateUpdates; like every callee it may call    *)
(* forwarders.                                                             *)
ExecuteCall ==
  /\ Running
  /\ Top.run.next <= Len(Calls(Top.run))
  /\ validCallType(Top.run.at, Calls(Top.run)[Top.run.next])
  /\ Enter(NoRun)
  /\ UNCHANGED world

(* require "CallType not set.", met in the middle of the list.             *)
InvalidCallType_Returns ==  \* broken: the rest of the list is dropped
  /\ Running
  /\ Top.run.next <= Len(Calls(Top.run))
  /\ ~validCallType(Top.run.at, Calls(Top.run)[Top.run.next])
  /\ stack' = SubSeq(stack, 1, Depth - 1)
  /\ UNCHANGED world
InvalidCallType ==
  /\ Running
  /\ Top.run.next <= Len(Calls(Top.run))
  /\ ~validCallType(Top.run.at, Calls(Top.run)[Top.run.next])
  /\ Revert(Depth)

(* A callee derived from MsgSender takes the last 20 bytes of its calldata *)
(* for its sender if it was called by the relay hub it trusts: the signer, *)
(* which a RelayHub appends.  A wallet is the msg.sender of what it calls. *)
msgSender(caller, appended) == IF caller \in Hub THEN appended ELSE caller
senderOf(run) == msgSender(run.at, recover(run.at, run.tx))

CallOutcome(run, ok) ==
  [at |-> run.at, tx |-> run.tx, call |-> run.next,
   sender |-> senderOf(run), ok |-> ok]

(* The callee's frame is gone, the loop goes on from world w.              *)
NextCall(w, ok) ==
  LET caller == stack[Depth - 1]
  IN /\ world' = [w EXCEPT !.outcomes = Append(@, CallOutcome(caller.run, ok))]
     /\ stack' = Append(SubSeq(stack, 1, Depth - 2),
                        [caller EXCEPT !.run.next = @ + 1])

(* A contract called by a forwarder is the frame above that forwarder's.   *)
Called == Depth > 1 /\ Top.run = NoRun

CallReturns ==
  /\ Called
  /\ NextCall(world, TRUE)

(* Nothing keeps a forwarder from calling the BitFlipNonceStore, or code   *)
(* it delegates to from doing so in its name: the word of n.target that is *)
(* spent is the one `verify' of this forwarder uses for n.target.          *)
Delegated ==
  LET run == stack[Depth - 1].run
  IN run.at \in Wallet /\ Calls(run)[run.next].callType = "DELEGATE"

asForwarder(w, run, n) ==
  [stored(w, run.at, n) EXCEPT
     !.updates = @ \cup {[at |-> run.at, tx |-> run.tx, nonce |-> n]}]

DelegateUpdates(n) ==
  /\ Called
  /\ Delegated
  /\ storeAccepts(world, stack[Depth - 1].run.at, n)
  /\ world' = asForwarder(world, stack[Depth - 1].run, n)
  /\ UNCHANGED stack

(* The callee is the store itself, which has called nobody.                *)
StoreReturns(n) ==
  /\ Called
  /\ ~Delegated
  /\ world = Top.saved
  /\ storeAccepts(world, stack[Depth - 1].run.at, n)
  /\ NextCall(asForwarder(world, stack[Depth - 1].run, n), TRUE)

(* getRevertMsg: less than 68 bytes are not looked at; else the data after *)
(* the selector is decoded as a string, and abi.decode itself reverts on   *)
(* data that does not encode one.                                          *)
RevertData == {"short", "message", "malformed"}
getRevertMsgReturns(data) == data # "malformed"

revertOnFail_Never(run) == FALSE  \* broken: no require(success)
revertOnFail(run) == Calls(run)[run.next].revertOnFail

(* The callee reverts.  Its effects are undone; then emitRevert, and the   *)
(* require on revertOnFail, decide whether the forwarder reverts as well.  *)
CallFails(data) ==
  /\ Called
  /\ LET caller == stack[Depth - 1]
     IN IF getRevertMsgReturns(data) /\ ~revertOnFail(caller.run)
        THEN NextCall(Top.saved, FALSE)
        ELSE Revert(Depth - 1)

(* End of forward, or of the batch loop.                                   *)
ForwarderReturns ==
  /\ Running
  /\ Top.run.next > Len(Calls(Top.run))
  /\ stack' = SubSeq(stack, 1, Depth - 1)
  /\ UNCHANGED world

(* The submitter chose the gas limit: a forwarder may stop anywhere.       *)
OutOfGas ==
  /\ Running
  /\ Revert(Depth)

(* End of a transaction that was sent to a contract.                       *)
ContractReturns ==
  /\ Depth = 1
  /\ Top.run = NoRun
  /\ stack' = <<>>
  /\ UNCHANGED world

ContractReverts ==
  /\ Depth = 1
  /\ Top.run = NoRun
  /\ Revert(1)

Next ==
  \/ StartContract
  \/ \E x \in Wallet : createProxyAccount(x)
  \/ \E x \in Wallet, who \in Key : init(x, who)
  \/ \E n \in TargetNonce : updateFor(n) \/ DelegateUpdates(n) \/ StoreReturns(n)
  \/ \E f \in Hub, t \in Tx : RelayHubForward(f, t) \/ RelayHubBatch(f, t)
  \/ \E x \in Wallet, t \in Tx : ProxyAccountForward(x, t) \/ ProxyAccountBatch(x, t)
  \/ ExecuteCall
  \/ InvalidCallType
  \/ CallReturns
  \/ \E data \in RevertData : CallFails(data)
  \/ ForwarderReturns
  \/ OutOfGas
  \/ ContractReturns
  \/ ContractReverts

Spec == Init /\ [][Next]_vars

-----------------------------------------------------------------------------
(* Type correctness of the storage, the log and the call stack.            *)
TypeOK ==
  /\ world \in World
  /\ stack \in Seq(Frame)

(* ReplayProtection.verify: however often a relayer or a called contract   *)
(* submits what was signed, a use of replay protection is accepted once.   *)
NoReplay ==
  \A i, j \in DOMAIN world.accepted :
    i # j => ~SameUse(world.accepted[i], world.accepted[j])

(* ReplayProtection.nonce: transactions of a queue are accepted in the     *)
(* order of their nonces, from 0 and without a gap, rollbacks included.    *)
Before(i) ==
  {j \in 1..(i - 1) : SameQueue(world.accepted[j], world.accepted[i])}
QueueOrder ==
  \A i \in DOMAIN world.accepted :
    LET m == Signed[world.accepted[i].tx]
    IN m.authority = multiNonceAddress => m.nonce = Cardinality(Before(i))

(* The use that authorises a run, or authorised a call, is in the log.     *)
InLog(run, w) ==
  \E i \in DOMAIN w.accepted :
    w.accepted[i].at = run.at /\ w.accepted[i].tx = run.tx

(* Whether `verify' accepts depends on nothing but what the log says of    *)
(* the signer's own queue or bitmap, and for the BitFlipNonceStore of the  *)
(* calls of updateFor that accepted meta-transactions made this forwarder  *)
(* make: any signer's in a hub, in a wallet only its own signer's.         *)
(* Reverted executions, other queues and other users of the store neither  *)
(* block a transaction nor let it through.                                 *)
UsedBefore(f, t) ==
  {world.accepted[i].tx : i \in
     {j \in DOMAIN world.accepted :
        SameQueue(world.accepted[j], [at |-> f, tx |-> t])}}
UpdatedBefore(f, t) ==
  {u \in world.updates :
     /\ u.at = f
     /\ u.nonce.target = recover(f, t)
     /\ u.nonce.queue = Signed[t].queue}
OpenInLog(f, t) ==
  LET m       == Signed[t]
      used    == UsedBefore(f, t)
      bits    == UNION {Signed[u].bits : u \in used}
      updates == UNION {u.nonce.bits : u \in UpdatedBefore(f, t)}
  IN CASE m.authority = multiNonceAddress ->
            {Signed[u].nonce : u \in used} = 0..(m.nonce - 1)
       [] m.authority = bitFlipAddress ->
            (\E b \in Bit : m.bits = {b}) /\ m.bits \cap bits = {}
       [] OTHER -> ~(m.bits \subseteq bits \cup updates)
OnlySignedUsesBlock ==
  /\ \A f \in Forwarder, t \in Tx : verifyAccepts(world, f, t) <=> OpenInLog(f, t)
  /\ \A u \in world.updates :
       /\ InLog(u, world)
       /\ u.at \in Wallet =>
            Signed[u.tx].signer = SignerOf[u.at] /\ Signed[u.tx].forwarder = u.at

(* A forwarder never acts as a key holder, or from a wallet, unless that   *)
(* key holder, or the signer the wallet's address is made for, signed the  *)
(* meta-transaction for this very forwarder.                               *)
OnlyAuthorised ==
  \A i \in DOMAIN world.outcomes :
    LET o == world.outcomes[i]
        m == Signed[o.tx]
    IN /\ o.sender \in Key => m.signer = o.sender /\ m.forwarder = o.at
       /\ o.sender \in Wallet =>
            m.signer = SignerOf[o.sender] /\ m.forwarder = o.sender

(* An accepted meta-transaction has made its calls in order, each once, up *)
(* to where it stands (all of them once it has returned), and a call       *)
(* marked revertOnFail succeeded; nothing was called without acceptance.   *)
RunsOf(e) ==
  {n \in DOMAIN stack : stack[n].run # NoRun /\ stack[n].run.at = e.at
                                             /\ stack[n].run.tx = e.tx}
CallsMade(e) ==
  IF RunsOf(e) = {} THEN Len(Signed[e.tx].calls)
  ELSE stack[CHOOSE n \in RunsOf(e) : TRUE].run.next - 1
OutcomesOf(w, e) ==
  {i \in DOMAIN w.outcomes : w.outcomes[i].at = e.at /\ w.outcomes[i].tx = e.tx}
BatchAtomic ==
  /\ \A j \in DOMAIN world.accepted :
       LET e == world.accepted[j]
       IN /\ Cardinality(OutcomesOf(world, e)) = CallsMade(e)
          /\ \A i \in OutcomesOf(world, e) :
               LET o == world.outcomes[i]
               IN /\ o.call = Cardinality({k \in OutcomesOf(world, e) : k <= i})
                  /\ Signed[e.tx].calls[o.call].revertOnFail => o.ok
  /\ \A i \in DOMAIN world.outcomes : InLog(world.outcomes[i], world)

(* Checks before effects: while a forwarder's call is out, the use that    *)
(* authorised it is in the log, and would stay there if any of the frames  *)
(* above reverted; so no re-entrant frame runs on the same use.            *)
SpentWhileRunning ==
  \A n \in DOMAIN stack : stack[n].run # NoRun =>
    /\ InLog(stack[n].run, world)
    /\ \A k \in (n + 1)..Depth :
         /\ InLog(stack[n].run, stack[k].saved)
         /\ stack[k].run # NoRun => ~SameUse(stack[n].run, stack[k].run)

(* RelayHub.sol:47 on the call in forward: "Does not revert. Lets us save  *)
(* the replay protection if it fails."  Read as a property: when the call  *)
(* of a forward fails, the use that authorised it stays in the log.        *)
FailureKeepsReplayProtection ==
  [][\A data \in RevertData : CallFails(data) =>
       LET run == stack[Depth - 1].run
       IN Signed[run.tx].batch \/ InLog(run, world')]_vars

-----------------------------------------------------------------------------
(* What the chain has committed: the world before the Ethereum transaction *)
(* that runs, if one does.                                                 *)
Committed == IF stack = <<>> THEN world ELSE stack[1].saved

(* Seen from outside, the contracts are a ledger of uses (ReplayLedger):   *)
(* each Ethereum transaction appends uses that were open, in queue order.  *)
Ledger == INSTANCE ReplayLedger WITH ledger <- Committed.accepted
RefinesLedger == Ledger!Spec
=============================================================================

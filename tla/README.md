# Metatransactions: a TLA+ model of the forwarders and their client

The repository lets a user sign a *meta-transaction* that anybody (a relayer) may
submit to a *forwarder* contract. The contract recovers the signer, checks a
*replay protection* and makes the calls the user signed. The TypeScript library
chooses the replay protection and signs; the Solidity contracts check and execute.
This directory models both sides. Paths are relative to the repository's root.

## 1. Inventory

| Component | State | Operations | Talks to |
|---|---|---|---|
| `ReplayProtection.sol` | `nonceStore` | `verify`, `nonce`, `bitflip` | inherited by RelayHub and ProxyAccount; calls an external authority |
| `BitFlipNonceStore.sol` | `bitmaps` | `update`, `updateFor` | called by a forwarder, in `verify` or as a signed call asks, or by anybody |
| `RelayHub.sol` | (replay protection) | `forward`, `batch` | calls targets, which may call back |
| `ProxyAccountDeployer.sol` (`ProxyAccount`) | `owner`, (replay protection) | `createProxyAccount`/`init`, `forward`, `batch` | CALL and DELEGATE to targets |
| `BatchInternal.sol`, `MultiSend.sol`, `RevertMessage.sol` | none | batch loop, `emitRevert` | part of the forwarders |
| `multiNonce.ts` | `index`, `nonceTracker`, `lock` | `getEncodedReplayProtection` | the node (`accessNonceStore`) |
| `bitFlip.ts` | `mIndex`, `mBitmap`, `lock` | the same | the node |
| `forwarderFactory.ts` and its factories | static `cache` | `create`, `createNew` | builds forwarders and their replay protection |
| `forwarder.ts`, `proxyAccountFowarder.ts`, `relayHubForwarder.ts` | none | `signMetaTransaction` | replay protection, signer |
| `gnosisSafeForwarder.ts`, `gnosisNonce.ts` | `nonce`, `lock` | the same, for a Gnosis Safe | the Safe (outside the repository) |
| `MsgSender.sol` | none | `_msgSender` | inherited by contracts that a RelayHub calls |
| `deployment/` | the chain | `deployMetaTxContracts`, `deployDeployer` | CREATE2 factory |
| `example/proxyaccount/echo.ts`, `example/gnosis/echo.ts` | where they are | `isWalletDeployed`, create the wallet, deploy `Echo` through it, send `Echo` a message | everything above |

The hard behaviours, each with its line in `PROJECT.json` under `hazards`:

- **On chain.** The submitter is not trusted: it repeats, reorders, withholds, chooses the
  gas limit, and puts submissions inside other contracts. A called contract may
  re-enter any forwarder with any signed meta-transaction. A revert anywhere undoes a
  part of all that, the replay protection included, and not the rest.
- **In the client.** JavaScript is single-threaded, but every `await` lets other requests
  run. The factory has no lock; the two replay protections have one and must free it on
  every error. What the node answered may be old when it arrives. The signer may refuse
  after the nonce was taken. The process may restart with nothing in memory.
- **Between the two.** The client counts on its own, ahead of the chain; it must neither
  give the same use twice nor leave a hole that a nonce queue waits behind for ever.
- **Around both.** A user has several processes, with a memory each, for one wallet; they act on
  what the chain was when they looked. A meta-transaction sent to a wallet that is not there
  yet, or a message to a contract that is not, is mined without reverting and does nothing.
  A process that is killed leaves its transactions on their way.

## 2. Modules

| Module | Models | Composed of |
|---|---|---|
| `ReplayRules` | when a stored word accepts a nonce, and what it stores: `nonce`, `bitflip`, `update`, on sets of bits | |
| `BitWords` | `bitflip` and the client's search and flip, as the code has them: arithmetic on words | `ReplayRules` |
| `ReplayProtection` | `verify`: recovery of the signer, the three authorities, the keys of the mappings | `ReplayRules` |
| `ReplayLedger` | abstract: a ledger of uses that only grows, by uses that are admissible | `ReplayProtection` |
| `MetaForwarding` | the contracts on the EVM's call stack | `ReplayProtection`, `ReplayLedger` (refined) |
| `MultiNonce` | `MultiNonceReplayProtection`, signing, the node, the relayer, the chain's queues | `ReplayRules` |
| `BitFlip` | `BitFlipReplayProtection` with the same environment | `ReplayRules` |
| `BitFlipWords` | that the bitmaps which `BitFlip` meets are the words of `BitWords` | `BitFlip`, `BitWords` |
| `GnosisNonce` | `GnosisReplayProtection` with the same environment | `MultiNonce` (refined) |
| `ForwarderFactory` | `create` with its unlocked cache | |
| `Forwarder` | what the classes of forwarder share: optional fields, the deployment's calldata, CREATE2, DelegateDeployer | |
| `ProxyAccountForwarder`, `RelayHubForwarder`, `GnosisSafeForwarder` | each class's encodings and decodings and the contract's, the wallet's address, the call that creates it and where that puts it | `Forwarder` |
| `MetaTransaction` | from the user's objects to what is signed, sent, relayed, decoded and executed | the three classes |
| `WalletSession` | the two echo programs from the first look at the wallet to the message | the two wallet classes, `ReplayRules` |
| `Deployment` | `deployMetaTxContracts`, run by several admins and stopped half way | |
| `..._proofs` | theorems about the module before `_proofs` | |
| `MC...` | instances for TLC | |

`ReplayRules` is the seam: the client modules accept a transaction on chain by the very
operators the contracts' model uses, and `BitWords` says that those of `bitflip` and of the
client's search are what the code computes (`update` has no arithmetic: its `&` and `|` are those of the sets). There a word is a number below 2^`Width`, its bits are read off by
division, `&` and `|` are the words with the common and with all the bits, and `doubled[n]` is 2^n as findEmptyBit
makes it, 1 doubled n times; `-1` wraps, `flipBit` adds.

### MetaForwarding

`world` is the contracts' storage: `nonces` and `flips` are the two halves of `nonceStore`
(the keys of one hash the authority `multiNonceAddress`, of the other `bitFlipAddress`),
`bitmaps` that of the BitFlipNonceStore, `owner` that of the wallets. `accepted` is the
sequence of `ReplayProtectionInfo` events. `outcomes` is history: which calls were made, as
whom, and whether they succeeded; so is `updates`: the calls of `updateFor` that accepted
meta-transactions made a forwarder make. `stack` is the EVM's stack of message calls; a frame
remembers the world to restore and, if a forwarder executes in it, the meta-transaction
and the loop index. Hash values are the tuples that are hashed, so different inputs have
different hashes; a signature over other data than was signed recovers a `Stranger`,
an address that is no key's, as `ECDSA.recover` does.

| Action | Code |
|---|---|
| `RelayHubForward`, `RelayHubBatch`, `ProxyAccountForward`, `ProxyAccountBatch` | entry up to the first call: `verify` and the `require`s |
| `ExecuteCall`, `InvalidCallType` | the next call of the list, or the `require` on its call type |
| `CallReturns`, `CallFails` | success; failure with `emitRevert` and `revertOnFail` |
| `ForwarderReturns`, `OutOfGas` | end of the function; a revert at any other place |
| `createProxyAccount`, `init` | CREATE2 with the call of `init` in it; `init` called by anybody, for any owner |
| `updateFor` | the BitFlipNonceStore called by an account that is no forwarder |
| `StoreReturns`, `DelegateUpdates` | the store called by a forwarder because a meta-transaction says so: by a CALL, or by code that a wallet delegates to |
| `StartContract`, `ContractReturns`, `ContractReverts` | an Ethereum transaction to some contract, which may call forwarders |

The store files a word under `msg.sender`, the target and the index. A forwarder calls whatever was
signed, the store too, and is `msg.sender` then; so any signer can have a *hub* spend the words that `verify`
uses for another signer there, and what is signed for a wallet can spend that wallet's. `OnlySignedUsesBlock`
says that this is all: whether `verify` accepts is decided by the accepted uses of the signer's own queue or
bitmap and by such calls of the store, each made by a meta-transaction in the log, in a wallet one that
its own signer signed for it. Reverted executions, other queues, and what others do in the store in their
own name change nothing.

A forwarder stands for an address on a chain:
`recover` uses the forwarder's own address and chain id, as `verify` hashes `address(this)` and
`chainid()`. `msgSender` is `_msgSender` of `MsgSender.sol`: whom a callee takes for its sender.

Left out: targets, values, calldata and gas amounts (the forwarders do not branch on them);
ether balances; code run by DELEGATE that writes the wallet's own storage (it can call in the
wallet's name, which is modelled for the store; the source warns of writing, and the library delegates only to DelegateDeployer and MultiSend, which have no storage);
authorities other than BitFlipNonceStore; calls to an address without code, which do nothing.

### MultiNonce, BitFlip, GnosisNonce

One action per stretch between two awaits. `Acquire` is `lock.acquire()` resolving with all
that runs until the next await; `GetCode`, `NodeReads` and the use of the answer are
separate, so the chain moves in between. `RpcFails` is any rejected read, `Release` the
`finally`. `take` of MultiNonce, `takeBit`/`nextBitmap` of BitFlip and `give` of GnosisNonce
are the synchronous parts. `Restart` in MultiNonce and GnosisNonce forgets the memory; it
happens only when no signed transaction is on its way, which is what multiNonce.ts:38
assumes. The `Lock` of `@pisa-research/utils` is outside the repository and modelled as
mutual exclusion.

A Safe's client remembers the nonce it gave *last*, MultiNonce the one to give *next*; the
mapping in `GnosisNonce` (`trackerBar`, `pcBar`, `rpcBar`, `gotBar`, `onchainBar`) makes the
one of the other, with `Concurrency` 1. `EmptyCode` is what the node answers for an address
without code: the sources name two answers, and gnosisNonce.ts knows one of them.

### ForwarderFactory, MetaTransaction, Deployment

`ForwarderFactory` splits `create` at its awaits: the address, the construction, the second
check. Each forwarder counts its own replay protections from zero, which is why it matters
that equal calls share one.

`MetaTransaction` keeps the option fields a user may leave out (`Absent`). Its actions are the
two synchronous parts of `signMetaTransaction` (`SignMetaTransaction`, `EncodeForForward`),
the user's writes to his objects while the signature is awaited (`Write`), the relayer, who
publishes what he was given or something that differs from it (`Relay`), and the contract's
check and calls (`Execute`). `DecodedAsMade` says that `decodeTx` and `decodeBatchTx` give a relayer the
calls and the replay protection that were signed; the arguments are laid out in the order of the
contracts' structs, which is not the same in `MetaTx` and `RevertableMetaTx`. The two MiniForwarders read the user's objects twice; the Safe's
forwarder copies them first, and runs a batch as one delegated call of MultiSend. The
types of the three classes decide what a user can pass (`UserCall`).

`Deployment` splits the script at its awaits; a transaction is `<<who waits, what it does>>`,
so that sending one's own transaction again while it is pending changes nothing that is
observed. `funded` says that the raw transaction's sender has its ether; the raw transaction
is one for all admins. A call of the CREATE2 factory never fails: it creates the
contract, finds it there, or, without a factory, does nothing.

### WalletSession

It composes the parts. A place (`Session`) is a process that runs the program, with a replay
protection and a memory of its own; all places are of one user and for one wallet, a Proxy Account
or a Safe.

| Action | Code |
|---|---|
| `IsWalletDeployed` | `isWalletDeployed` and the branch on it |
| `SendWalletDeploy` | `getWalletDeployTransaction`, `sendTransaction` |
| `NodeReads`, `SignAndSend` | `signMetaTransaction` with its first read of a queue or bitmap; `sendTransaction` |
| `Wait`, `LastMessage` | `wait(1)`, which rejects if the transaction reverted; `lastMessage()` |
| `Stop`, `RunAgain` | the `catch` at the end, or the process is killed; the user runs it again |
| `MineWallet`, `MineMetaTx` | the chain: `createProxyAccount` or the Safe's factory; `forward` or `execTransaction` |

The wallet's address, the creation call, `Echo`'s address and calldata are those of the classes; the
chain puts the contracts where the factory (`created`) and DelegateDeployer (`deploy`) put them.
One process signs one transaction at a time; what requests that overlap can do is the subject of
`MultiNonce`, `BitFlip` and `GnosisNonce`. Reading the code and the store is one action: while there is
no code the store is all zero, which is what the client assumes. A Safe's client counts as a
`MultiNonce` client with one queue, which is the refinement in `GnosisNonce`. The bitmap is never
full here (`BitFlip` has that). The user's own transactions are mined in any order, which covers the
account's nonces; none is dropped or replaced.

## 3. Runs

| Run | Instance | Shows | States |
|---|---|---|---|
| `hub` | one RelayHub, two signers, five meta-transactions (one nonce signed twice, batches, one bit in the BitFlipNonceStore that the others' calls can reach), five frames | `QueueOrder`, `BatchAtomic`, `SpentWhileRunning`, `OnlySignedUsesBlock`, and `RefinesLedger`: the contracts implement the ledger | 92 k |
| `wallet` | two signers' wallets, their bitmaps and the BitFlipNonceStore, overlapping bits, one signer's transaction for the other's wallet, a refused call type after a call, strangers calling `init` and the store, four frames | `TypeOK`, `NoReplay`, `OnlySignedUsesBlock`, `OnlyAuthorised`, `BatchAtomic` | 33 k |
| `multinonce` | four requests, two queues, one restart | `TypeOK`, `NoncesUnique`, `NoGap`, `Balanced`; `Settles`, `MinedUnlessBlocked` | 88 k |
| `bitflip` | three requests, words of three bits, two bitmaps in any state at the start | `TypeOK`, `BitsUnique`, `AcceptedInAnyOrder`, `MemoryIsSafe`, `BitflipIsOnSets`, `SearchIsOnSets`; `Settles` | 138 k |
| `gnosis` | three requests, one restart, a node that answers `0x` | `RefinesOneQueue`, and through it `QueueSettles`, `QueueMined` | 4 k |
| `factory` | three calls, two factories, three signers of two addresses | `SameInstance`, `SignedOnce`, `BuiltAsAsked` | 66 k |
| `meta_transaction` | three classes, every batch of up to two objects the types admit | `ExecutedAsAsked`, `DeployedWhereComputed`, `RejectedOnlyIfWritten`, `DecodedAsMade` | 877 k |
| `deployment` | two admins, two stops | `TypeOK`, `ReturnedMeansDeployed`; `Completes` | 42 k |
| `session` | two places, a Proxy Account under every pair of replay protections or a Safe from either known factory, one stop, each place tried twice | `TypeOK`, `SuccessMeansEffect`, `OneOfEachWins`; `LastGetsThrough` | 410 k |
| `hub_failure`, `deploy_revert_on_fail`, `gnosis_empty_code` | as above | violations, see section 6 | |

**Bounds.** `MaxDepth` bounds the call stack. Five frames let a forwarder be re-entered and the
re-entrant execution be re-entered again;
four are enough where the property is about who
may spend what. `Target` and `BitsToFlip` bound for whom and with which bits `updateFor` is called
outside `verify`: for a signer who has uses in the store, with bits that are some or all of theirs. Three bits per word distinguish none, one, some and all bits set, and
exercise the borrow of `bitsToFlip-1`; the arithmetic is checked on every bitmap the run
meets against every word. Two queues distinguish a queue from the others and wrap the index,
and four requests go round twice. A `Limit` of two bitmaps lets a search move on, stop in time and
give up. `MaxIndex` is six because three requests move on at most twice each: its guard in
`nextBitmap` is never met in the run. Bitmaps above `MaxUsed` are empty at the start; the
search starts at any of `RandomIndex`, and full bitmaps 0 and 1 make it give up. `MaxLife` and `MaxStops` bound restarts. Counters need no bound: each accepted
nonce uses one of finitely many signed transactions. In `session` two places make every race for the
wallet, for `Echo` and for a use of replay protection; two queues make a MULTINONCE client go
round and share queue 0 with a NONCE client; two bitmaps let BITFLIP clients meet or not;
with two runs in each place and one stop, a run can meet what a killed one left behind. Of eight bits
a client uses two. `Pairs` leaves out pairs of types that differ only in which place has
which. No run uses symmetry sets.

**Deadlock** is checked in the contracts' runs: a chain can always take one more
transaction. The client modules end when all requests are settled, `MetaTransaction` when the
transaction is executed, `Deployment` when all admins are done, `WalletSession` when all runs are over, so it is off there.

**Fairness** (only in the client modules and `Deployment`): weak fairness of each request's own
steps, since the event loop runs what is ready and the node and the signer answer or reject;
of mining each transaction, since a relayer resubmits until it is accepted; and of deployment,
for a wallet that is never deployed accepts nothing. There is none on making requests, on
restarts or on failures as such: a read that can proceed may as well be rejected. In
`Deployment` an admin whose run stopped starts it again, and so does the user in `WalletSession`, up to
`MaxRuns`; there a program's steps are fair because nothing but an await stands between
them, and mining because a transaction that was broadcast is not dropped. `LastGetsThrough` asks for
no more than the code gives: two NONCE programs that go on racing for one queue may each lose
every second transaction for ever, so it is about who is left alone.

## 4. Proofs

`tlapm` checks, for every value of the constants that satisfies the named assumptions:

- `TypeCorrect`, `ReplaySafe` (`MetaForwarding_proofs`): `Spec => []TypeOK` and `Spec => []NoReplay`.
  `NoReplay` is not inductive: it says nothing of storage, and a revert brings back an older
  world. The invariant `IInv` says of the world *and of every world saved on the stack* that it
  is well typed, that each log entry has left its mark in storage (`LogRecorded`: a nonce below
  the stored one, bits within the stored bitmap) and that the log has no use twice (`LogUnique`).
  A marked use is not accepted again (`RecordedIsSpent`), storage only grows within a frame
  (`SpentGrows`, `RecordedGrows`), so a new entry is new and old marks stay (`VerifiedInv`); and a
  revert puts back a world that had the invariant when it was saved (`RevertInv`). The last
  conjunct, `CalledByForwarder`, says which frame is below a callee's, and is needed for types.
- `Authorised`, `SpentFirst` (`MetaForwarding_proofs`): `OnlyAuthorised` and `SpentWhileRunning`.
  The invariant `RInv` adds to `IInv` that a wallet has no account yet or is owned by the signer of its
  address (so that `init` by a stranger never finds it without an owner),
  that each outcome is authorised and each of `updates` made by an accepted meta-transaction, again of the world and of all saved ones (`Right`), and that
  a wallet that runs, runs what its signer signed (`StackRight`). What a wallet accepts is signed by
  its signer since a stranger's address is no key's (`OwnerSigned`). A frame is entered after its
  use was logged and is no use of a frame below, which the log has already (`VerifyRight`, from
  `RecordedIsSpent`); frames that go leave those below as they were (`RemainRight`).
- `Ordered`, `SignedUses`, `Refinement` (`MetaForwarding_proofs`): `QueueOrder`, `OnlySignedUsesBlock`,
  `RefinesLedger`. `RecordedIsSpent` has one direction only, that what is logged is spent. `QInv` adds
  the other: of the world and of every saved one, each word of storage is exactly what the log
  entries that draw on it make of it (`Sums`: a nonce counts them, and theirs are the numbers below
  it; a bitmap is the union of their bits, and in the store of those that `updates` put there too) and each nonce was next in its queue (`InOrder`).
  So what `verify` accepts can be read off the log and `updates` (`DecidedByLog`), and of that only the entries
  of the same key; `RInv` says whose `updates` can be. For the refinement, a saved world also extends the log that was there when the Ethereum
  transaction began (`Good`); so when the last frame goes, the log grows by
  admissible entries, or the transaction reverted and it is what it was (`StepCommits`).
- `BatchesAtomic` (`MetaForwarding_proofs`): `BatchAtomic`. An entry's outcomes number as many as the calls
  that the frame running it has behind it, or as its list has if no frame runs it; and so in
  the world each frame would restore, for the frames below it (`Made`, `BInv`). A use has at most one frame
  (`RunsOnce`, from `SpentWhileRunning`), so the count of one entry is not touched by another's call.
- `TypeCorrect`, `NoNonceTwice`, `NoNonceSkipped`, `EvenlySpread` (`MultiNonce_proofs`): who is inside holds the lock
  (`Mutex`), so while the node is asked for a queue nobody gives a nonce of it, and what it
  answered stays true, for nothing of this process is on its way there (`Reading`). A given
  nonce is below the tracker's (`Counted`) and the chain is never ahead of the tracker (`Ahead`).
  `Filled` is `NoGap` for every nonce between chain and tracker. `Balanced` follows from `Spread`: after some
  number of rounds each queue has that many requests, and those before `index` one more.
  `NothingElseBlocks` is the safety half of `MinedUnlessBlocked`: where a signed transaction waits and no
  earlier nonce was lost, the one the chain expects next was given (`Filled`), is not mined (`Spent`), and
  so is on its way. `LockPassedOn` is what `Settles` needs of the lock: who has it is `Inside`.
- `TypeCorrect`, `Refinement` (`GnosisNonce_proofs`): with `EmptyCode = "0x"` every step is a
  step of MultiNonce with one queue or a stutter. With any other answer one step is neither: a Safe that is
  not there is asked for its nonce (`AskedInVain`), where MultiNonce takes it to be zero. That step
  is seen by no conjunct of MultiNonce's invariant (`InVainInv`), which holds all the same
  (`Invariance`); so `NoNonceTwice`, `NoNonceSkipped`, `NothingElseBlocks` and `LockPassedOn` hold
  of a Safe's client whatever the node answers.
- `TypeCorrect`, `NoBitTwice`, `AnyOrder`, `SafeMemory` (`BitFlip_proofs`): indices only grow (`Grows`), so
  a bitmap that is read is one from which no bit was given (`Read`), and the remembered bitmap contains
  what is on the chain and what was given, or is full (`Memory`), also when a read is
  rejected after `mIndex` moved on. `LockPassedOn` and `SearchEnds` are the safety half of `Settles`: the
  lock is never lost, and each step inside lowers `ToDo`, a number of steps bounded by `Limit`.
- `BitflipMasks`, `SearchAdds` (`BitFlip_proofs`): the two invariants on words, for any
  `Width`. The power below a bit divides the one above it (`Multiple`), so a number below 2^(k+1) is
  one below 2^k with or without the bit k (`SplitBits`). From there, by induction over k: numbers and
  sets of bits are the same thing (`OneNumber`); adding the power of a bit that is not set sets that bit and
  carries nothing (`AddBit`); n and n-1 share no bit exactly if n has one only (`OnePower`), which is the
  test in `bitflip`; zero is excluded by `> 0` alone. `StepsOnWords` puts this on the steps: the chain stores the
  `|` of its word and one that `bitflip` accepts, a request is given what findEmptyBit finds, and
  the next bitmap is looked at only if it finds none. So what is proved on sets is proved of the words.
- `OneForwarder`, `NoSharedReplayProtection`, `RightForwarder` (`ForwarderFactory_proofs`). The
  invariant there: what a call returned is in the cache and a filled entry is never replaced;
  the numbers a forwarder gave away are distinct and no greater than its count.
- `TypeCorrect`, `DeployedOnReturn` (`Deployment_proofs`): what a run has passed has code, what it waits
  for is pending or has code, and once the raw transaction is mined the factory is there.
  `NoRunStuck` and `OnlyAStopTurnsBack` are the safety half of `Completes`: the raw transaction is
  sent only when it is paid for (`Payable`), what a run waits for is over or on its way (`Waits`), and among
  the contracts nothing but a stop turns a run back (`NeverBack`).
- `AsAsked`, `DeployedAsComputed`, `AcceptedUnlessWritten`, `Decoded` (`MetaTransaction_proofs`):
  the four invariants of `MetaTransaction`, for each class, any values in the fields and batches of any length.
  `IInv` says what the user's objects may be (`Given`) and what each step has made of them so far
  (`Progress`): `signed` is the tuple of what he asked for, `sent` is made from what his
  objects say when they are read the second time (or from the copy, for a Safe), `relayed` is
  anything of the right form. What is executed has the signed tuple, and two arguments of a function
  with the same tuple are the same (`SentIsSigned`). So the calls are those of the asked objects, whoever sent them (`CallFor`);
  what was sent and not written to is accepted (`SendsWhatItSigns`); and what is decoded by
  position is what was put there (`ArgumentsInPlace`).
- `TypeCorrect`, `SessionEffects`, `SessionClaims` (`WalletSession_proofs`): who has come past a step, and every
  transaction on its way for a later one, has the wallet, or the wallet and Echo, behind him
  (`Behind`), because the addresses the library computes are those the chain uses
  (`WalletWhereComputed`, `EchoWhereComputed`); so what succeeds is not lost on an empty address. For
  `OneOfEachWins`: a run sends one transaction per step and no use twice (`Runs`), whatever waits has a nonce
  that is not ahead of the store's (`NoGap`), so that what reverts was spent; and what is spent was
  spent by one transaction that stands (`Books`), which is of another run.
- `LastComesCloser`, `LastNotStuck` (`WalletSession_proofs`) are the safety half of `LastGetsThrough`. A place that
  is `LeftAlone` takes every step that is left to take (`OnlyTheLast`) and has at most the transaction on its
  way that it waits for (`OneOnItsWay`, from `Waits`). That run may still fail over what others left behind.
  The next one is `Unrivalled`: nothing is on its way when it starts, what it reads stays true but for its own uses,
  which it remembers (`Current`), and with `NoGap` from above the use it gives is the very
  next one, so that nothing it sends reverts, and it reaches `Echo`. Every step lowers `Left`, a number
  made of the runs to come and the steps of this one; and where no step can be taken the message
  was heard, or the bitmap is full.

Assumptions: recovered strangers are nobody's key (`StrangerAssumption`), keys are no contract
addresses (`WalletAssumption`), an account's owner, no owner and no account differ (`NoOwnerAssumption`), `updateFor`
is called for addresses with a replay protection and with bits of a word (`TargetAssumption`), model values are none of the data and `Absent` is no tuple of them
either (`AbsentAssumption`); `BitWords` and `BitFlip` are given words of the same width
(`SameWidthAssumption`), and `LastNotStuck` asks for a bitmap to start at; the rest are types. TLC
evaluates each on the instances.

Every invariant, action property and refinement that a run checks is proved. Only model-checked, because
beyond the prover: the liveness properties (`Settles`, `MinedUnlessBlocked`, `QueueSettles`, `QueueMined`,
`Completes`, `LastGetsThrough`), which need fairness and ENABLED: the theorems called their
safety half say what state and steps they need (guards are written out where ENABLED would stand), the runs that
the end is reached. The library's induction theorems cannot be used, since they take an operator for a parameter;
the induction over the width of a word goes through a set instead (`Induction`, from the well-foundedness of `<`),
and that the recursion of `doubled` defines a function is proved with it (`Doubled`).

## 5. Not modelled

- The bits of an address: CREATE2 is an injective function of creator, salt and code; the library's
  built-in addresses are constants. Of the proxy factories, the library's own and mainnet's are known
  with the code they give a proxy, and another factory is not.
- Generated bindings and contracts that only the tests call: no behaviour of the system.
- `BitFlipNonceStore.update(bytes)`: it files under `msg.sender` and index, without a target, words that no forwarder reads.
- A Signer object and its provider: ForwarderFactory's cache tells signers apart by their address, and so
  does the model (forwarderFactory.ts:73).
- A signature for another chain submitted to a hub: no run has it, the theorems hold of any set of
  forwarders and signed transactions. To a wallet: the `wallet` run.
- The Safe's owners and thresholds, the node's own consistency, gas prices, chain
  reorganisations.

## 6. Where the code and its words differ

- `hub_failure`: RelayHub.sol:47 says the call in `forward` "Does not revert. Lets us save the
  replay protection if it fails." A callee that reverts with 68 bytes or more that do not encode
  a string makes `getRevertMsg` (RevertMessage.sol:24) revert, and `forward` with it.
- `deploy_revert_on_fail`: forwarder.ts:107 does not pass `revertOnFail` on for a deployment in a batch.
  proxyAccounts.md:253 offers the choice, and the type of such an element has the field.
- `gnosis_empty_code`: replayProtectionAuthority.ts:39 and forwarder.ts:165 know that a node may answer
  `0x0` for no code; gnosisNonce.ts:39 takes only `0x`, and then asks a Safe that is not
  there for its nonce. The request is rejected; nothing wrong is signed, which is proved
  (`NoNonceTwice`, `NoNonceSkipped` of `GnosisNonce_proofs` are for every `EmptyCode`).

Without a run: gnosisSafeForwarder.ts:304 and proxyAccountFowarder.ts:271 say of
`getWalletDeployTransaction` "@throws If the proxy account already exists"; it asks nothing, and it is the
transaction that reverts on chain, as in `MineWallet`. `getAddress` of the Safe's forwarder
recognises mainnet's factory by comparing strings (gnosisSafeForwarder.ts:368-386), so that
the same address in another spelling is taken for a factory with the library's own code; and its
option `creationCode` is read for that one factory only, not for any other.
BatchInternal.sol:22 says "reverts all if one fails", where only a call marked
`revertOnFail` does that, which `BatchAtomic` states as the code has it.

## 7. Plan

Done, in this order: replay rules, contracts, ledger and their refinement; the client's
replay protections; the factory; signing and encoding of the three classes; arithmetic on
words; deployment; the composition of clients, wallet and chain in `WalletSession`, which is also
what happens without the assumption at multiNonce.ts:38; and the theorems above, with every
safety property of the contracts, of the three replay protections, of the factory, of the deployment and of
the session proved, as well as those of `MetaTransaction`, the arithmetic on words for every width, and the
safety half of each liveness property.

To come: code run by DELEGATE that writes a wallet's own storage, if the library
ever delegates to such a contract.

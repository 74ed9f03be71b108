--------------------------- MODULE WalletSession ---------------------------
(***************************************************************************)
(* A user from his first look at his wallet to his first message: the      *)
(* programs example/proxyaccount/echo.ts and example/gnosis/echo.ts, which *)
(* put the components together.  A program finds out whether the wallet is *)
(* there and has it created, has the wallet deploy an Echo contract, and   *)
(* has the wallet send Echo a message, waiting for each transaction before *)
(* the next.                                                               *)
(*                                                                         *)
(* The user runs it in several places for the same wallet, each run with a *)
(* replay protection of its own and an empty memory.  A run ends where a   *)
(* call is rejected, a transaction reverts or the process is killed, and   *)
(* what it sent stays on its way.  The user tries again.                   *)
(*                                                                         *)
(* A process signs one transaction at a time here (requests that overlap   *)
(* are the subject of MultiNonce, BitFlip and GnosisNonce).  The Safe's    *)
(* client counts like a MultiNonce client with one queue (see GnosisNonce).*)
(***************************************************************************)
EXTENDS ReplayRules

CONSTANTS
  Session,         \* places where the user runs the program
  Types,           \* the replay protections a user may choose, by place
  SafeOptions,     \* the options that a user may give a Safe's forwarder
  Absent,          \* an option that is left out
  Concurrency,     \* queues of a MULTINONCE client (30 in the code)
  Index,           \* bitmaps a BITFLIP client may start at
  Bit,             \* bits of a bitmap (0..255 in the code)
  MaxRuns,         \* bound: runs of the program in a place
  MaxStops         \* bound: rejected calls and killed processes

ASSUME BoundsAssumption ==
  /\ Concurrency \in Nat \ {0} /\ MaxRuns \in Nat \ {0} /\ MaxStops \in Nat
  /\ Bit \subseteq Nat
  /\ Types \subseteq [Session -> {"BITFLIP", "MULTINONCE", "NONCE"}]

PA == INSTANCE ProxyAccountForwarder
GS == INSTANCE GnosisSafeForwarder

User    == "user"
ROPSTEN == 3

NoOptions == [proxyFactoryAddress |-> Absent, gnosisSafeMaster |-> Absent]
Wallet == ({"ProxyAccount"} \X {NoOptions}) \cup ({"GnosisSafe"} \X SafeOptions)
isSafe(w) == w[1] = "GnosisSafe"

TypesOf(w) == IF isSafe(w) THEN {[s \in Session |-> "NONCE"]} ELSE Types

VARIABLES
  wallet,   \* which wallet it is, and the options of its forwarder
  type,     \* the replay protection in each place
  pc,       \* where the program is
  step,     \* the transaction it is about
  memory,   \* its replay protection's: what it holds of a queue or bitmap
  index,    \* its replay protection's current queue or bitmap
  run,      \* how often the program was started
  stops,    \* how many runs were ended from outside
  code,     \* the addresses where a wallet is, and where an Echo is
  store,    \* the wallet's replay protection, see Store
  pending,  \* transactions on their way
  mined,    \* history: those that were mined, and whether they reverted
  heard     \* history: those that Echo got a message by

program == <<pc, step, memory, index, run>>
chain   == <<code, store, mined, heard>>
vars    == <<wallet, type, stops, pending, program, chain>>

-----------------------------------------------------------------------------
Place == {"begin", "deploy", "sign", "wait", "read", "done", "failed"}
Step  == {"wallet", "echo", "message"}
Queue == 0..(Concurrency - 1)
Store == [nonces : [Queue -> Nat], flips : [Index -> SUBSET Bit]]

(* The use of replay protection in a transaction; one that creates the     *)
(* wallet needs none.                                                      *)
NoUse == <<"none", 0, 0>>
Use   == {NoUse} \cup ({"multiNonce"} \X Queue \X Nat) \cup ({"bitFlip"} \X Index \X Bit)

Empty == [i \in {} |-> 0]  \* the memory of a new process

Tx == [by : Session, run : 1..MaxRuns, step : Step, use : Use]

(* The address that a forwarder is built with.                             *)
address ==
  IF isSafe(wallet) THEN GS!getAddress(User, ROPSTEN, GS!defaultOptions(wallet[2]))
  ELSE PA!getAddress(User)

deployWallet ==
  IF isSafe(wallet)
  THEN GS!getWalletDeployTransaction(User, ROPSTEN, GS!defaultOptions(wallet[2]))
  ELSE PA!getWalletDeployTransaction(User)

(* Where the factory contract puts a wallet.                               *)
created(c) == IF isSafe(wallet) THEN GS!createProxyWithNonce(c) ELSE PA!createClone(c)

echoAddress ==
  IF isSafe(wallet) THEN GS!computeAddressForDeployedContract(address, "Echo", "0x123")
  ELSE PA!computeAddressForDeployedContract(address, "Echo", "0x123")

deployEcho ==
  IF isSafe(wallet) THEN GS!deployDataToCallData("Echo", "0x123", 0)
  ELSE PA!deployDataToCallData("Echo", "0x123", 0)

sendMessage ==
  LET c == [to |-> echoAddress, data |-> "any.sender is nice",
            value |-> Absent, callType |-> Absent]
  IN IF isSafe(wallet) THEN GS!defaultCallData(c) ELSE PA!defaultCallData(c)

Init ==
  /\ wallet \in Wallet
  /\ type \in TypesOf(wallet)
  /\ pc = [s \in Session |-> "begin"]
  /\ step = [s \in Session |-> "wallet"]
  /\ memory = [s \in Session |-> Empty]
  /\ index = [s \in Session |-> 0]
  /\ run = [s \in Session |-> 1]
  /\ stops = 0
  /\ code = [wallet |-> {}, echo |-> {}]
  /\ store = [nonces |-> [q \in Queue |-> 0], flips |-> [i \in Index |-> {}]]
  /\ pending = {} /\ mined = {} /\ heard = {}

-----------------------------------------------------------------------------
Goto(s, where) == pc' = [pc EXCEPT ![s] = where]

(* Broadcasts a transaction of this run and awaits that it is mined.  What *)
(* it calls is deployWallet, or deployEcho or sendMessage at `address'.    *)
Send(s, u) ==
  /\ pending' = pending \cup {[by |-> s, run |-> run[s], step |-> step[s], use |-> u]}
  /\ Goto(s, "wait")

IsWalletDeployed_Never(s) ==  \* broken: the answer is not looked at
  /\ pc[s] = "begin"
  /\ Goto(s, "deploy")
  /\ UNCHANGED <<wallet, type, stops, pending, step, memory, index, run, chain>>
IsWalletDeployed(s) ==
  /\ pc[s] = "begin"
  /\ IF address \in code.wallet
     THEN Goto(s, "sign") /\ step' = [step EXCEPT ![s] = "echo"]
     ELSE Goto(s, "deploy") /\ UNCHANGED step
  /\ UNCHANGED <<wallet, type, stops, pending, memory, index, run, chain>>

SendWalletDeploy(s) ==
  /\ pc[s] = "deploy"
  /\ Send(s, NoUse)
  /\ UNCHANGED <<wallet, type, stops, step, memory, index, run, chain>>

Hold(m, i, x) == [j \in DOMAIN m \cup {i} |-> IF j = i THEN x ELSE m[j]]

(* The first request of a queue, or of a BITFLIP client, which draws its   *)
(* bitmap, reads the wallet's store.                                       *)
NodeReads(s) ==
  /\ pc[s] = "sign"
  /\ \/ /\ type[s] = "BITFLIP" /\ DOMAIN memory[s] = {}
        /\ \E i \in Index :
             /\ index' = [index EXCEPT ![s] = i]
             /\ memory' = [memory EXCEPT ![s] = Hold(@, i, store.flips[i])]
     \/ /\ type[s] # "BITFLIP" /\ index[s] \notin DOMAIN memory[s]
        /\ memory' = [memory EXCEPT ![s] = Hold(@, index[s], store.nonces[index[s]])]
        /\ UNCHANGED index
  /\ UNCHANGED <<wallet, type, stops, pending, pc, step, run, chain>>

(* What getEncodedReplayProtection gives, and what it leaves in memory.    *)
findEmptyBit(bitmap) ==
  CHOOSE b \in Bit : b \notin bitmap /\ \A c \in Bit \ bitmap : b <= c
use(s) ==
  IF type[s] = "BITFLIP" THEN <<"bitFlip", index[s], findEmptyBit(memory[s][index[s]])>>
  ELSE <<"multiNonce", index[s], memory[s][index[s]]>>

Remember_Nothing(s) == UNCHANGED <<memory, index>>  \* broken: the use is given again
Remember_NoWrap(s) ==  \* broken: the queues do not start over
  /\ memory' = [memory EXCEPT ![s][index[s]] = IF type[s] = "BITFLIP" THEN @ ELSE @ + 1]
  /\ index' = [index EXCEPT ![s] = @ + 1]
Remember(s) ==
  IF type[s] = "BITFLIP"
  THEN /\ memory' = [memory EXCEPT ![s][index[s]] = @ \cup {use(s)[3]}]
       /\ UNCHANGED index
  ELSE /\ memory' = [memory EXCEPT ![s][index[s]] = @ + 1]
       /\ index' = [index EXCEPT ![s] = (@ + 1) % (IF type[s] = "NONCE" THEN 1 ELSE Concurrency)]

(* signMetaTransaction for Echo, or for the message, and sendTransaction.  *)
(* (A bitmap that is full is the subject of BitFlip.)                      *)
SignAndSend(s) ==
  /\ pc[s] = "sign"
  /\ index[s] \in DOMAIN memory[s]
  /\ type[s] = "BITFLIP" => ~(Bit \subseteq memory[s][index[s]])
  /\ Send(s, use(s))
  /\ Remember(s)
  /\ UNCHANGED <<wallet, type, stops, step, run, chain>>

(* wait(1) of the transaction's response rejects if it reverted.           *)
Result(s, ok) ==
  \E m \in mined : m.tx.by = s /\ m.tx.run = run[s] /\ m.tx.step = step[s] /\ m.ok = ok

Wait_Not(s) ==  \* broken: goes on at once
  /\ pc[s] = "wait"
  /\ \/ /\ step[s] = "message" /\ Goto(s, "read") /\ UNCHANGED step
     \/ /\ step[s] # "message" /\ Goto(s, "sign")
        /\ step' = [step EXCEPT ![s] = IF @ = "wallet" THEN "echo" ELSE "message"]
  /\ UNCHANGED <<wallet, type, stops, pending, memory, index, run, chain>>
Wait(s) ==
  /\ pc[s] = "wait"
  /\ \/ /\ Result(s, FALSE) /\ Goto(s, "failed") /\ UNCHANGED step
     \/ /\ Result(s, TRUE) /\ step[s] = "message" /\ Goto(s, "read") /\ UNCHANGED step
     \/ /\ Result(s, TRUE) /\ step[s] # "message" /\ Goto(s, "sign")
        /\ step' = [step EXCEPT ![s] = IF @ = "wallet" THEN "echo" ELSE "message"]
  /\ UNCHANGED <<wallet, type, stops, pending, memory, index, run, chain>>

(* lastMessage rejects if there is no contract.                            *)
LastMessage(s) ==
  /\ pc[s] = "read"
  /\ Goto(s, IF echoAddress \in code.echo THEN "done" ELSE "failed")
  /\ UNCHANGED <<wallet, type, stops, pending, step, memory, index, run, chain>>

(* A call is rejected (a node that does not answer, a transaction that is  *)
(* refused, a signer that declines), or the process is killed.             *)
Stop(s) ==
  /\ stops < MaxStops
  /\ pc[s] \notin {"done", "failed"}
  /\ stops' = stops + 1
  /\ Goto(s, "failed")
  /\ UNCHANGED <<wallet, type, pending, step, memory, index, run, chain>>

RunAgain(s) ==
  /\ pc[s] = "failed"
  /\ run[s] < MaxRuns
  /\ run' = [run EXCEPT ![s] = @ + 1]
  /\ memory' = [memory EXCEPT ![s] = Empty]
  /\ index' = [index EXCEPT ![s] = 0]
  /\ step' = [step EXCEPT ![s] = "wallet"]
  /\ Goto(s, "begin")
  /\ UNCHANGED <<wallet, type, stops, pending, chain>>

-----------------------------------------------------------------------------
Mined(t, ok) ==
  /\ pending' = pending \ {t}
  /\ mined' = mined \cup {[tx |-> t, ok |-> ok]}
  /\ UNCHANGED <<wallet, type, stops, program>>

(* The factory: CREATE2 fails where a contract is.                         *)
MineWallet(t) ==
  /\ t.step = "wallet"
  /\ Mined(t, created(deployWallet) \notin code.wallet)
  /\ code' = [code EXCEPT !.wallet = @ \cup {created(deployWallet)}]
  /\ UNCHANGED <<store, heard>>

accepts(u) ==
  IF u[1] = "bitFlip" THEN bitflipAccepts(store.flips[u[2]], {u[3]})
  ELSE nonceAccepts(store.nonces[u[2]], u[3])

spend(u) ==
  IF u[1] = "bitFlip" THEN store' = [store EXCEPT !.flips[u[2]] = bitflipStored(@, {u[3]})]
  ELSE store' = [store EXCEPT !.nonces[u[2]] = nonceStored(@)]

(* forward, or execTransaction.  A call of an address without a contract   *)
(* succeeds and does nothing.  Else the wallet reverts or spends the nonce *)
(* and makes the call: it creates Echo, or, if Echo is there already, that *)
(* call fails and changes nothing, and the transaction stands; or it calls *)
(* Echo.                                                                   *)
MineMetaTx(t) ==
  LET there == address \in code.wallet
  IN /\ t.step # "wallet"
     /\ Mined(t, there => accepts(t.use))
     /\ IF there /\ accepts(t.use)
        THEN /\ spend(t.use)
             /\ code' = IF t.step = "message" THEN code
                        ELSE [code EXCEPT !.echo = @ \cup {PA!deploy(address, deployEcho)}]
             /\ heard' = IF t.step = "message" /\ sendMessage.to \in code.echo
                         THEN heard \cup {t} ELSE heard
        ELSE UNCHANGED <<code, store, heard>>

Mine(t) == MineWallet(t) \/ MineMetaTx(t)

-----------------------------------------------------------------------------
Program(s) ==
  \/ IsWalletDeployed(s)
  \/ SendWalletDeploy(s)
  \/ NodeReads(s)
  \/ SignAndSend(s)
  \/ Wait(s)
  \/ LastMessage(s)
  \/ RunAgain(s)

Next ==
  \/ \E s \in Session : Program(s) \/ Stop(s)
  \/ \E t \in pending : Mine(t)

(* The program's steps are taken unless it is stopped, the user tries      *)
(* again, and what was broadcast is mined.                                 *)
Fairness ==
  /\ \A s \in Session : WF_vars(Program(s))
  /\ WF_vars(\E t \in pending : Mine(t))

Spec == Init /\ [][Next]_vars /\ Fairness

-----------------------------------------------------------------------------
(* Type correctness.                                                       *)
TypeOK ==
  /\ wallet \in Wallet
  /\ type \in TypesOf(wallet)
  /\ pc \in [Session -> Place]
  /\ step \in [Session -> Step]
  /\ \A s \in Session :
       /\ index[s] \in Queue \cup Index
       /\ \A i \in DOMAIN memory[s] :
            IF type[s] = "BITFLIP" THEN i \in Index /\ memory[s][i] \in SUBSET Bit
            ELSE i \in Queue /\ memory[s][i] \in Nat
  /\ store \in Store
  /\ run \in [Session -> 1..MaxRuns] /\ stops \in 0..MaxStops
  /\ pending \in SUBSET Tx /\ heard \in SUBSET Tx
  /\ mined \in SUBSET [tx : Tx, ok : BOOLEAN]

(* A transaction that does not revert has done what it was sent for: the   *)
(* wallet is at the address the library computed before it existed, Echo   *)
(* where the wallet's forwarder computed it, and the message was heard.    *)
(* So it is never sent to an address where nothing is yet, although that   *)
(* would succeed, whichever of the user's runs got there first.            *)
SuccessMeansEffect ==
  \A m \in mined : m.ok =>
    CASE m.tx.step = "wallet"  -> address \in code.wallet
      [] m.tx.step = "echo"    -> echoAddress \in code.echo
      [] m.tx.step = "message" -> m.tx \in heard

(* A transaction reverts only because one of another run got there first:  *)
(* it created the wallet, or made the same use of replay protection.  Of   *)
(* two such transactions one succeeds at most, so that a run in another    *)
(* place, or one that was killed with its transactions on their way, can   *)
(* cost a run but never a message.                                         *)
SameClaim(t, u) == IF t.step = "wallet" THEN u.step = "wallet" ELSE u.use = t.use
OneOfEachWins ==
  /\ \A m, n \in mined : m.ok /\ n.ok /\ SameClaim(m.tx, n.tx) => m = n
  /\ \A m \in mined : ~m.ok =>
       \E n \in mined : /\ n.ok /\ SameClaim(m.tx, n.tx)
                        /\ <<n.tx.by, n.tx.run>> # <<m.tx.by, m.tx.run>>

(* Whoever is left alone gets through by running the program again: with   *)
(* every other place finished, no more stops, and nothing on its way but   *)
(* the program's own, a run that is still to come ends with the message in *)
(* Echo, whatever the runs before left behind: a wallet, an Echo, or       *)
(* nonces spent for nothing.                                               *)
LeftAlone(s) ==
  /\ stops = MaxStops /\ run[s] < MaxRuns
  /\ \A r \in Session \ {s} : pc[r] = "done" \/ (pc[r] = "failed" /\ run[r] = MaxRuns)
  /\ \A t \in pending : t.by = s /\ t.run = run[s] /\ pc[s] = "wait"
LastGetsThrough == \A s \in Session : LeftAlone(s) ~> (pc[s] = "done" /\ \E t \in heard : t.by = s)
=============================================================================

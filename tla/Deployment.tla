----------------------------- MODULE Deployment -----------------------------
(***************************************************************************)
(* deployMetaTxContracts: an admin has the EIP-2470 factory deployed, if   *)
(* it is missing, and creates through it, one by one, the contracts of the *)
(* system at the addresses that the library has built in.  A run may stop  *)
(* at any await and be started again; several admins may run it.           *)
(*                                                                         *)
(* A transaction is <<who waits for it, what it does>>.  Sent once, it is  *)
(* mined at some time, whether its sender still runs or not.               *)
(***************************************************************************)
EXTENDS Sequences, Naturals, FiniteSets

CONSTANTS
  Admin,      \* who runs the script
  MaxStops    \* bound: how often runs stop half way

ASSUME MaxStopsAssumption == MaxStops \in Nat

Contracts == <<"RelayHub", "ProxyAccountDeployer", "DelegateDeployer",
               "MultiSend", "GnosisSafe", "ProxyFactory">>

VARIABLES
  pc,        \* where each admin's run is
  next,      \* the contract it is at, an index of Contracts
  pending,   \* transactions that are sent and not mined
  rawMined,  \* the deployer's deployment, a transaction that exists once
  funded,    \* its sender has the ether for it
  code,      \* what has code: "deployer", and Contracts
  stops

vars == <<pc, next, pending, rawMined, funded, code, stops>>

Goto(a, place) == pc' = [pc EXCEPT ![a] = place]

Init ==
  /\ pc = [a \in Admin |-> "stopped"]
  /\ next = [a \in Admin |-> 1]
  /\ pending = {}
  /\ rawMined = FALSE /\ funded = FALSE
  /\ code = {}
  /\ stops = 0

Run(a) ==
  /\ pc[a] = "stopped"
  /\ Goto(a, "getCode")
  /\ next' = [next EXCEPT ![a] = 1]
  /\ UNCHANGED <<pending, rawMined, funded, code, stops>>

-----------------------------------------------------------------------------
(* deployDeployer: is the deployer there?                                  *)
GetCode_Always(a) ==  \* broken: deploys it without looking
  /\ pc[a] = "getCode"
  /\ Goto(a, "fund")
  /\ UNCHANGED <<next, pending, rawMined, funded, code, stops>>
GetCode(a) ==
  /\ pc[a] = "getCode"
  /\ Goto(a, IF "deployer" \in code THEN "deploy" ELSE "fund")
  /\ UNCHANGED <<next, pending, rawMined, funded, code, stops>>

SendFunds(a) ==
  /\ pc[a] = "fund"
  /\ pending' = pending \cup {<<a, "fund">>}
  /\ Goto(a, "waitFund")
  /\ UNCHANGED <<next, rawMined, funded, code, stops>>

WaitFunds(a) ==
  /\ pc[a] = "waitFund"
  /\ <<a, "fund">> \notin pending
  /\ Goto(a, "raw")
  /\ UNCHANGED <<next, pending, rawMined, funded, code, stops>>

(* The raw transaction is the same for all: the node takes it, or knows it *)
(* already and answers with it or with an error.                           *)
SendRaw(a) ==
  /\ pc[a] = "raw"
  /\ \/ /\ ~rawMined
        /\ pending' = pending \cup {<<"anyone", "raw">>}
        /\ Goto(a, "waitRaw")
     \/ /\ rawMined \/ <<"anyone", "raw">> \in pending
        /\ Goto(a, "stopped")
        /\ UNCHANGED pending
  /\ UNCHANGED <<next, rawMined, funded, code, stops>>

WaitRaw_Not(a) ==  \* broken: goes on when the transaction is sent
  /\ pc[a] = "waitRaw"
  /\ Goto(a, "deploy")
  /\ UNCHANGED <<next, pending, rawMined, funded, code, stops>>
WaitRaw(a) ==
  /\ pc[a] = "waitRaw"
  /\ rawMined
  /\ Goto(a, "deploy")
  /\ UNCHANGED <<next, pending, rawMined, funded, code, stops>>

(* deployContract, for the next contract of the list.                      *)
DeployContract(a) ==
  /\ pc[a] = "deploy"
  /\ pending' = pending \cup {<<a, Contracts[next[a]]>>}
  /\ Goto(a, "waitDeploy")
  /\ UNCHANGED <<next, rawMined, funded, code, stops>>

(* Its wait(); then the next one.  The base account is asked for at the    *)
(* ProxyAccountDeployer, which throws if that has no code.                 *)
WaitDeploy_PastEnd(a) ==  \* broken: counts on after the last one
  /\ pc[a] = "waitDeploy"
  /\ <<a, Contracts[next[a]]>> \notin pending
  /\ IF Contracts[next[a]] = "ProxyAccountDeployer" /\ "ProxyAccountDeployer" \notin code
     THEN Goto(a, "stopped") /\ UNCHANGED next
     ELSE IF next[a] = Len(Contracts)
     THEN Goto(a, "done") /\ next' = [next EXCEPT ![a] = @ + 1]
     ELSE Goto(a, "deploy") /\ next' = [next EXCEPT ![a] = @ + 1]
  /\ UNCHANGED <<pending, rawMined, funded, code, stops>>
WaitDeploy(a) ==
  /\ pc[a] = "waitDeploy"
  /\ <<a, Contracts[next[a]]>> \notin pending
  /\ IF Contracts[next[a]] = "ProxyAccountDeployer" /\ "ProxyAccountDeployer" \notin code
     THEN Goto(a, "stopped") /\ UNCHANGED next
     ELSE IF next[a] = Len(Contracts)
     THEN Goto(a, "done") /\ UNCHANGED next
     ELSE Goto(a, "deploy") /\ next' = [next EXCEPT ![a] = @ + 1]
  /\ UNCHANGED <<pending, rawMined, funded, code, stops>>

(* The process is killed, or the provider rejects.                         *)
Stop(a) ==
  /\ pc[a] \notin {"stopped", "done"}
  /\ stops < MaxStops
  /\ stops' = stops + 1
  /\ Goto(a, "stopped")
  /\ UNCHANGED <<next, pending, rawMined, funded, code>>

-----------------------------------------------------------------------------
(* The chain.  A call of the deployer creates the contract unless it is    *)
(* there, and does nothing, without an error, if the deployer is not.      *)
Mine(t) ==
  /\ t \in pending
  /\ pending' = pending \ {t}
  /\ CASE t[2] = "fund" -> funded' = TRUE /\ UNCHANGED <<rawMined, code>>
       [] t[2] = "raw"  -> /\ funded
                           /\ rawMined' = TRUE
                           /\ code' = code \cup {"deployer"}
                           /\ UNCHANGED funded
       [] OTHER         -> /\ code' = IF "deployer" \in code
                                      THEN code \cup {t[2]} ELSE code
                           /\ UNCHANGED <<rawMined, funded>>
  /\ UNCHANGED <<pc, next, stops>>

Step(a) ==
  \/ GetCode(a) \/ SendFunds(a) \/ WaitFunds(a) \/ SendRaw(a) \/ WaitRaw(a)
  \/ DeployContract(a) \/ WaitDeploy(a)

Next ==
  \/ \E a \in Admin : Run(a) \/ Step(a) \/ Stop(a)
  \/ \E t \in pending : Mine(t)

Transaction == (Admin \X ({"fund"} \cup {Contracts[i] : i \in DOMAIN Contracts}))
                 \cup {<<"anyone", "raw">>}

(* A run that was stopped is started again, and goes on while nothing      *)
(* stops it; what is sent is mined.                                        *)
Fairness ==
  /\ \A a \in Admin : WF_vars(Run(a)) /\ WF_vars(Step(a))
  /\ \A t \in Transaction : WF_vars(Mine(t))

Spec == Init /\ [][Next]_vars /\ Fairness

-----------------------------------------------------------------------------
(* Types of the runs and of the chain.                                     *)
TypeOK ==
  /\ pc \in [Admin -> {"stopped", "getCode", "fund", "waitFund", "raw", "waitRaw",
                       "deploy", "waitDeploy", "done"}]
  /\ next \in [Admin -> DOMAIN Contracts]
  /\ pending \subseteq Transaction
  /\ rawMined \in BOOLEAN /\ funded \in BOOLEAN
  /\ code \subseteq {"deployer"} \cup {Contracts[i] : i \in DOMAIN Contracts}
  /\ stops \in 0..MaxStops

(* The addresses that deployMetaTxContracts returns all have code when it  *)
(* returns, although the factory's transactions never fail, whatever other *)
(* runs do and wherever earlier ones stopped.                              *)
ReturnedMeansDeployed ==
  \A a \in Admin : pc[a] = "done" => \A i \in DOMAIN Contracts : Contracts[i] \in code

(* A run that stopped anywhere can be repeated until it gets to its end:   *)
(* what was done before does not stand in its way.                         *)
Completes == \A a \in Admin : <>(pc[a] = "done")
=============================================================================

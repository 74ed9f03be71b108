------------------------- MODULE Deployment_proofs -------------------------
(***************************************************************************)
(* Proofs about Deployment, for any number of admins and of stopped runs.  *)
(***************************************************************************)
EXTENDS Deployment, TLAPS

Numbers == 1..6

LEMMA SixContracts ==
  /\ DOMAIN Contracts = Numbers /\ Len(Contracts) = 6
  /\ \A i \in Numbers : Contracts[i] \notin {"fund", "raw"}
BY DEF Contracts, Numbers

Places == {"stopped", "getCode", "fund", "waitFund", "raw", "waitRaw",
           "deploy", "waitDeploy", "done"}

(* Before a run sends a contract, it is at the first.                      *)
Begins ==
  \A a \in Admin : pc[a] \in {"getCode", "fund", "waitFund", "raw", "waitRaw"} => next[a] = 1

(* The deployer is there once its transaction is mined.                    *)
Deployed == rawMined => "deployer" \in code

(* What a run has passed has code; what it waits for has, or will have,    *)
(* since the deployer is there when its transaction is mined.              *)
PassedHasCode ==
  \A a \in Admin :
    /\ pc[a] \in {"deploy", "waitDeploy", "done"} =>
         /\ "deployer" \in code
         /\ \A i \in Numbers : i < next[a] => Contracts[i] \in code
    /\ pc[a] = "waitDeploy" =>
         <<a, Contracts[next[a]]>> \in pending \/ Contracts[next[a]] \in code
    /\ pc[a] = "done" => \A i \in Numbers : Contracts[i] \in code

IInv == TypeOK /\ Begins /\ Deployed /\ PassedHasCode

-----------------------------------------------------------------------------
(* Types, action by action.                                                *)
LEMMA InitType == Init => TypeOK
<1> SUFFICES ASSUME Init PROVE TypeOK
  OBVIOUS
<1>1. next \in [Admin -> DOMAIN Contracts] /\ stops \in 0..MaxStops
  BY SixContracts, MaxStopsAssumption DEF Init, Numbers
<1> QED BY <1>1 DEF Init, TypeOK

LEMMA NextType == TypeOK /\ [Next]_vars => TypeOK'
<1> SUFFICES ASSUME TypeOK, [Next]_vars PROVE TypeOK'
  OBVIOUS
<1> USE SixContracts DEF TypeOK, Goto
<1>1. ASSUME NEW a \in Admin, Run(a) PROVE TypeOK'
  BY <1>1 DEF Run, Numbers
<1>2. ASSUME NEW a \in Admin,
             GetCode(a) \/ WaitFunds(a) \/ WaitRaw(a)
      PROVE  TypeOK'
  BY <1>2 DEF GetCode, WaitFunds, WaitRaw
<1>3. ASSUME NEW a \in Admin, SendFunds(a) PROVE TypeOK'
  BY <1>3 DEF SendFunds, Transaction
<1>4. ASSUME NEW a \in Admin, SendRaw(a) PROVE TypeOK'
  BY <1>4 DEF SendRaw, Transaction
<1>5. ASSUME NEW a \in Admin, DeployContract(a) PROVE TypeOK'
  BY <1>5 DEF DeployContract, Transaction
<1>6. ASSUME NEW a \in Admin, WaitDeploy(a) PROVE TypeOK'
  BY <1>6 DEF WaitDeploy, Numbers
<1>7. ASSUME NEW a \in Admin, Stop(a) PROVE TypeOK'
  BY <1>7, MaxStopsAssumption DEF Stop
<1>8. ASSUME NEW t \in pending, Mine(t) PROVE TypeOK'
  <2>1. t[2] \in {"fund", "raw"} \/ t[2] \in {Contracts[i] : i \in DOMAIN Contracts}
    BY DEF Transaction
  <2> QED BY <1>8, <2>1 DEF Mine
<1>9. CASE UNCHANGED vars
  BY <1>9 DEF vars
<1> QED
  BY <1>1, <1>2, <1>3, <1>4, <1>5, <1>6, <1>7, <1>8, <1>9 DEF Next, Step

(* The runs, what is on its way and what has code are of their types.      *)
THEOREM TypeCorrect == Spec => []TypeOK
BY InitType, NextType, PTL DEF Spec

-----------------------------------------------------------------------------
LEMMA InitIInv == Init => IInv
BY InitType DEF Init, IInv, Begins, Deployed, PassedHasCode

(* A run goes to a place where what it has passed has code.                *)
LEMMA GotoInv ==
  ASSUME IInv, TypeOK', NEW a \in Admin, NEW place \in Places, NEW n \in Numbers,
         pc' = [pc EXCEPT ![a] = place], next' = [next EXCEPT ![a] = n],
         pending \subseteq pending', UNCHANGED <<code, rawMined>>,
         place \in {"getCode", "fund", "waitFund", "raw", "waitRaw"} => n = 1,
         place \in {"deploy", "waitDeploy", "done"} =>
           "deployer" \in code /\ \A i \in Numbers : i < n => Contracts[i] \in code,
         place = "waitDeploy" => <<a, Contracts[n]>> \in pending',
         place = "done" => \A i \in Numbers : Contracts[i] \in code
  PROVE  IInv'
<1>1. \A b \in Admin : /\ pc'[b] = IF b = a THEN place ELSE pc[b]
                       /\ next'[b] = IF b = a THEN n ELSE next[b]
  BY DEF IInv, TypeOK
<1>2. Begins' /\ Deployed'
  BY <1>1 DEF IInv, Begins, Deployed
<1>3. PassedHasCode'
  <2> SUFFICES ASSUME NEW b \in Admin
               PROVE  /\ pc'[b] \in {"deploy", "waitDeploy", "done"} =>
                           /\ "deployer" \in code
                           /\ \A i \in Numbers : i < next'[b] => Contracts[i] \in code
                      /\ pc'[b] = "waitDeploy" =>
                           <<b, Contracts[next'[b]]>> \in pending' \/ Contracts[next'[b]] \in code
                      /\ pc'[b] = "done" => \A i \in Numbers : Contracts[i] \in code
    BY DEF PassedHasCode
  <2>1. CASE b = a
    BY <1>1, <2>1
  <2>2. CASE b # a
    BY <1>1, <2>2 DEF IInv, PassedHasCode
  <2> QED BY <2>1, <2>2
<1> QED BY <1>2, <1>3 DEF IInv

(* The transaction a run waits for is mined when the deployer is there, so *)
(* its contract has code; then the run goes on to the next, or ends.       *)
LEMMA WaitDeployInv ==
  ASSUME IInv, TypeOK', NEW a \in Admin, WaitDeploy(a)
  PROVE  IInv'
<1>1. /\ next[a] \in Numbers /\ Contracts[next[a]] \in code /\ "deployer" \in code
      /\ \A i \in Numbers : i < next[a] => Contracts[i] \in code
  BY SixContracts DEF WaitDeploy, IInv, TypeOK, PassedHasCode
<1>2. \A i \in Numbers : i <= next[a] => Contracts[i] \in code
  BY <1>1 DEF Numbers
<1>3. UNCHANGED <<pending, rawMined, code>> /\ next = [next EXCEPT ![a] = next[a]]
  BY DEF WaitDeploy, IInv, TypeOK
<1>4. CASE Goto(a, "stopped") /\ next' = next
  BY <1>1, <1>3, <1>4, GotoInv DEF Goto, Places
<1>5. CASE Goto(a, "done") /\ next' = next /\ next[a] = 6
  <2>1. \A i \in Numbers : Contracts[i] \in code
    BY <1>2, <1>5 DEF Numbers
  <2> QED BY <1>1, <1>3, <1>5, <2>1, GotoInv DEF Goto, Places
<1>6. CASE Goto(a, "deploy") /\ next' = [next EXCEPT ![a] = next[a] + 1] /\ next[a] # 6
  <2>1. next[a] + 1 \in Numbers /\ \A i \in Numbers : i < next[a] + 1 => Contracts[i] \in code
    BY <1>1, <1>2, <1>6 DEF Numbers
  <2> QED BY <1>1, <1>3, <1>6, <2>1, GotoInv DEF Goto, Places
<1> QED BY <1>4, <1>5, <1>6, SixContracts DEF WaitDeploy

(* A transaction that is mined creates what its sender waits for, and      *)
(* nothing that has code loses it.                                         *)
LEMMA MineInv ==
  ASSUME IInv, TypeOK', NEW t \in pending, Mine(t)
  PROVE  IInv'
<1>1. /\ pending' = pending \ {t} /\ code \subseteq code' /\ UNCHANGED <<pc, next>>
      /\ t[2] \notin {"fund", "raw"} /\ "deployer" \in code => t[2] \in code'
      /\ rawMined' => rawMined \/ "deployer" \in code'
  <2>1. CASE t[2] = "fund"
    BY <2>1 DEF Mine
  <2>2. CASE t[2] = "raw"
    BY <2>2 DEF Mine
  <2>3. CASE t[2] \notin {"fund", "raw"}
    BY <2>3 DEF Mine
  <2> QED BY <2>1, <2>2, <2>3
<1>2. Begins' /\ Deployed'
  BY <1>1 DEF IInv, Begins, Deployed
<1>3. ASSUME NEW a \in Admin, pc[a] = "waitDeploy"
      PROVE  <<a, Contracts[next[a]]>> \in pending' \/ Contracts[next[a]] \in code'
  <2>1. /\ next[a] \in Numbers /\ "deployer" \in code
        /\ <<a, Contracts[next[a]]>> \in pending \/ Contracts[next[a]] \in code
    BY <1>3, SixContracts DEF IInv, TypeOK, PassedHasCode
  <2>2. CASE t = <<a, Contracts[next[a]]>>
    BY <1>1, <2>1, <2>2, SixContracts
  <2>3. CASE t # <<a, Contracts[next[a]]>>
    BY <1>1, <2>1, <2>3
  <2> QED BY <2>2, <2>3
<1>4. PassedHasCode'
  BY <1>1, <1>3 DEF IInv, PassedHasCode
<1> QED BY <1>2, <1>4 DEF IInv

LEMMA NextIInv == IInv /\ [Next]_vars => IInv'
<1> SUFFICES ASSUME IInv, [Next]_vars PROVE IInv'
  OBVIOUS
<1>0. TypeOK'
  BY NextType DEF IInv
<1>1. ASSUME NEW a \in Admin,
             Run(a) \/ GetCode(a) \/ SendFunds(a) \/ WaitFunds(a) \/ SendRaw(a)
               \/ WaitRaw(a) \/ DeployContract(a) \/ Stop(a)
      PROVE  IInv'
  <2> DEFINE place == pc'[a]
  <2> DEFINE n == next'[a]
  <2>1. /\ UNCHANGED <<code, rawMined>> /\ pending \subseteq pending'
        /\ pc' = [pc EXCEPT ![a] = place] /\ next' = [next EXCEPT ![a] = n]
    BY <1>1 DEF Run, GetCode, SendFunds, WaitFunds, SendRaw, WaitRaw, DeployContract, Stop,
       Goto, IInv, TypeOK
  <2>2. place \in Places /\ n \in Numbers
    BY <1>0, SixContracts DEF TypeOK, Places
  <2>3. \/ place = "stopped"
        \/ place \in {"getCode", "fund", "waitFund", "raw", "waitRaw"} /\ n = 1
        \/ place = "deploy" /\ n = 1 /\ "deployer" \in code
        \/ /\ place = "waitDeploy" /\ n = next[a] /\ pc[a] = "deploy"
           /\ <<a, Contracts[n]>> \in pending'
    <3>1. pc'[a] = place /\ next'[a] = n
      OBVIOUS
    <3>2. CASE Run(a) \/ Stop(a)
      BY <3>2 DEF Run, Stop, Goto, IInv, TypeOK
    <3>3. CASE GetCode(a) \/ WaitFunds(a) \/ WaitRaw(a)
      BY <3>3 DEF GetCode, WaitFunds, WaitRaw, Goto, IInv, TypeOK, Begins, Deployed
    <3>4. CASE SendFunds(a) \/ SendRaw(a)
      BY <3>4 DEF SendFunds, SendRaw, Goto, IInv, TypeOK, Begins
    <3>5. CASE DeployContract(a)
      BY <3>5 DEF DeployContract, Goto, IInv, TypeOK
    <3> QED BY <1>1, <3>2, <3>3, <3>4, <3>5
  <2>4. /\ place \in {"deploy", "waitDeploy", "done"} =>
             "deployer" \in code /\ \A i \in Numbers : i < n => Contracts[i] \in code
        /\ place = "waitDeploy" => <<a, Contracts[n]>> \in pending'
        /\ place # "done"
    <3> HIDE DEF place, n
    <3> QED BY <2>3 DEF IInv, PassedHasCode, Numbers
  <2>5. place \in {"getCode", "fund", "waitFund", "raw", "waitRaw"} => n = 1
    <3> HIDE DEF place, n
    <3> QED BY <2>3
  <2> HIDE DEF place, n
  <2> QED BY <1>0, <2>1, <2>2, <2>4, <2>5, GotoInv
<1>2. CASE UNCHANGED vars
  BY <1>2 DEF vars, IInv, TypeOK, Begins, Deployed, PassedHasCode
<1> QED BY <1>0, <1>1, <1>2, WaitDeployInv, MineInv DEF Next, Step

(* Whoever gets to the end has every contract deployed: the addresses that *)
(* deployMetaTxContracts returns have code.                                *)
THEOREM DeployedOnReturn == Spec => []ReturnedMeansDeployed
<1>1. IInv => ReturnedMeansDeployed
  BY SixContracts DEF IInv, PassedHasCode, ReturnedMeansDeployed
<1> QED BY <1>1, InitIInv, NextIInv, PTL DEF Spec

-----------------------------------------------------------------------------
(* What a run waits for is over or on its way, and what is on its way can  *)
(* be mined: the deployer's deployment is sent only when it is paid for.   *)
Waits(a) ==
  /\ pc[a] = "waitFund" => funded \/ <<a, "fund">> \in pending
  /\ pc[a] = "raw" => funded
  /\ pc[a] = "waitRaw" => rawMined \/ <<"anyone", "raw">> \in pending
  /\ pc[a] = "waitDeploy" =>
       Contracts[next[a]] \in code \/ <<a, Contracts[next[a]]>> \in pending

Payable == \A t \in pending : t[2] = "raw" => funded

NothingStuck == Payable /\ \A a \in Admin : Waits(a)

(* The part of it that IInv does not say already.                          *)
Funds == Payable /\ \A a \in Admin : /\ pc[a] = "waitFund" => funded \/ <<a, "fund">> \in pending
                                     /\ pc[a] = "raw" => funded
                                     /\ pc[a] = "waitRaw" => rawMined \/ <<"anyone", "raw">> \in pending

LEMMA FundsStuck == IInv /\ Funds => NothingStuck
BY DEF IInv, PassedHasCode, Funds, NothingStuck, Waits

(* What a step of one run leaves to the others.                            *)
LEMMA OtherFunds ==
  ASSUME TypeOK, Funds, NEW a \in Admin, NEW place,
         pc' = [pc EXCEPT ![a] = place],
         pending \subseteq pending', UNCHANGED <<funded, rawMined>>,
         \A t \in pending' \ pending : t[2] = "raw" => funded,
         place = "waitFund" => <<a, "fund">> \in pending',
         place = "raw" => funded,
         place = "waitRaw" => rawMined \/ <<"anyone", "raw">> \in pending'
  PROVE  Funds'
<1>1. \A b \in Admin : pc'[b] = IF b = a THEN place ELSE pc[b]
  BY DEF TypeOK
<1>2. Payable'
  BY DEF Funds, Payable
<1> QED BY <1>1, <1>2 DEF Funds

(* A transaction that is mined gives what its sender waits for: the ether, *)
(* or the deployer.                                                        *)
LEMMA MineFunds ==
  ASSUME TypeOK, Funds, NEW t \in pending, Mine(t)
  PROVE  Funds'
<1>1. /\ pending' = pending \ {t} /\ UNCHANGED pc
      /\ t[2] = "fund" => funded'
      /\ t[2] = "raw" => rawMined'
      /\ funded => funded'
      /\ rawMined => rawMined'
  <2>1. CASE t[2] = "fund"
    BY <2>1 DEF Mine
  <2>2. CASE t[2] = "raw"
    BY <2>2 DEF Mine
  <2>3. CASE t[2] \notin {"fund", "raw"}
    BY <2>3 DEF Mine
  <2> QED BY <2>1, <2>2, <2>3
<1>2. Payable'
  BY <1>1 DEF Funds, Payable
<1>3. ASSUME NEW a \in Admin
      PROVE  /\ pc[a] = "waitFund" => funded' \/ <<a, "fund">> \in pending'
             /\ pc[a] = "raw" => funded'
             /\ pc[a] = "waitRaw" => rawMined' \/ <<"anyone", "raw">> \in pending'
  <2>1. CASE t = <<a, "fund">>
    BY <1>1, <2>1 DEF Funds
  <2>2. CASE t = <<"anyone", "raw">>
    BY <1>1, <2>2 DEF Funds
  <2>3. CASE t # <<a, "fund">> /\ t # <<"anyone", "raw">>
    BY <1>1, <2>3 DEF Funds
  <2> QED BY <2>1, <2>2, <2>3
<1> QED BY <1>1, <1>2, <1>3 DEF Funds

LEMMA NextFunds == TypeOK /\ Funds /\ [Next]_vars => Funds'
<1> SUFFICES ASSUME TypeOK, Funds, [Next]_vars PROVE Funds'
  OBVIOUS
<1>1. ASSUME NEW a \in Admin, Run(a) \/ Stop(a) PROVE Funds'
  BY <1>1, OtherFunds DEF Run, Stop, Goto
<1>2. ASSUME NEW a \in Admin, GetCode(a) PROVE Funds'
  <2>1. pc' = [pc EXCEPT ![a] = "deploy"] \/ pc' = [pc EXCEPT ![a] = "fund"]
    BY <1>2 DEF GetCode, Goto
  <2> QED BY <1>2, <2>1, OtherFunds DEF GetCode
<1>3. ASSUME NEW a \in Admin, SendFunds(a) PROVE Funds'
  <2>1. /\ pending' = pending \cup {<<a, "fund">>} /\ pc' = [pc EXCEPT ![a] = "waitFund"]
        /\ UNCHANGED <<rawMined, funded>>
    BY <1>3 DEF SendFunds, Goto
  <2>2. \A t \in pending' \ pending : t = <<a, "fund">>
    BY <2>1
  <2>3. <<a, "fund">>[2] # "raw"
    OBVIOUS
  <2> QED BY <2>1, <2>2, <2>3, OtherFunds
<1>4. ASSUME NEW a \in Admin, WaitFunds(a) PROVE Funds'
  <2>1. funded
    BY <1>4 DEF WaitFunds, Funds
  <2> QED BY <1>4, <2>1, OtherFunds DEF WaitFunds, Goto
<1>5. ASSUME NEW a \in Admin, SendRaw(a) PROVE Funds'
  <2>1. funded
    BY <1>5 DEF SendRaw, Funds
  <2>2. CASE /\ pending' = pending \cup {<<"anyone", "raw">>}
             /\ pc' = [pc EXCEPT ![a] = "waitRaw"]
    BY <1>5, <2>1, <2>2, OtherFunds DEF SendRaw
  <2>3. CASE pc' = [pc EXCEPT ![a] = "stopped"] /\ UNCHANGED pending
    BY <1>5, <2>3, OtherFunds DEF SendRaw
  <2> QED BY <1>5, <2>2, <2>3 DEF SendRaw, Goto
<1>6. ASSUME NEW a \in Admin, WaitRaw(a) PROVE Funds'
  BY <1>6, OtherFunds DEF WaitRaw, Goto
<1>7. ASSUME NEW a \in Admin, DeployContract(a) PROVE Funds'
  <2>1. Contracts[next[a]] # "raw"
    BY SixContracts DEF TypeOK
  <2> DEFINE t == <<a, Contracts[next[a]]>>
  <2>2. /\ pending' = pending \cup {t} /\ pc' = [pc EXCEPT ![a] = "waitDeploy"]
        /\ UNCHANGED <<rawMined, funded>>
    BY <1>7 DEF DeployContract, Goto
  <2>3. t[2] # "raw"
    BY <2>1
  <2> HIDE DEF t
  <2> QED BY <2>2, <2>3, OtherFunds
<1>8. ASSUME NEW a \in Admin, WaitDeploy(a) PROVE Funds'
  <2>1. \E place \in {"stopped", "done", "deploy"} : pc' = [pc EXCEPT ![a] = place]
    BY <1>8 DEF WaitDeploy, Goto
  <2>2. UNCHANGED <<pending, rawMined, funded>>
    BY <1>8 DEF WaitDeploy
  <2> QED BY <2>1, <2>2, OtherFunds
<1>9. CASE UNCHANGED vars
  BY <1>9 DEF vars, Funds, Payable
<1> QED
  BY <1>1, <1>2, <1>3, <1>4, <1>5, <1>6, <1>7, <1>8, <1>9, MineFunds DEF Next, Step

(* No run waits for what will not come, whatever other runs do and         *)
(* wherever they stop: the part of Completes that is no liveness.          *)
THEOREM NoRunStuck == Spec => []NothingStuck
<1>1. Init => Funds
  BY DEF Init, Funds, Payable
<1>2. IInv => TypeOK
  BY DEF IInv
<1> QED BY <1>1, <1>2, InitIInv, NextIInv, NextFunds, FundsStuck, PTL DEF Spec

(* Among the contracts, a run goes on unless it is stopped: it does not    *)
(* turn back at a contract that it has passed.                             *)
NeverBack ==
  \A a \in Admin :
    pc[a] \in {"deploy", "waitDeploy"} =>
      \/ pc'[a] = "stopped" /\ stops' = stops + 1
      \/ pc'[a] \in {"deploy", "waitDeploy", "done"} /\ next'[a] \in {next[a], next[a] + 1}

LEMMA StepNeverBack == IInv /\ [Next]_vars => NeverBack
<1> SUFFICES ASSUME IInv, [Next]_vars, NEW a \in Admin, pc[a] \in {"deploy", "waitDeploy"}
             PROVE  \/ pc'[a] = "stopped" /\ stops' = stops + 1
                    \/ /\ pc'[a] \in {"deploy", "waitDeploy", "done"}
                       /\ next'[a] \in {next[a], next[a] + 1}
  BY DEF NeverBack
<1> USE DEF Goto, IInv, TypeOK
<1>1. CASE Stop(a)
  BY <1>1 DEF Stop
<1>2. CASE DeployContract(a)
  BY <1>2 DEF DeployContract
<1>3. CASE WaitDeploy(a)
  <2>1. next[a] \in Numbers /\ Contracts[next[a]] \in code
    BY <1>3, SixContracts DEF WaitDeploy, PassedHasCode
  <2>2. ~(Contracts[next[a]] = "ProxyAccountDeployer" /\ "ProxyAccountDeployer" \notin code)
    BY <2>1
  <2>3. \/ pc' = [pc EXCEPT ![a] = "done"] /\ UNCHANGED next
        \/ pc' = [pc EXCEPT ![a] = "deploy"] /\ next' = [next EXCEPT ![a] = @ + 1]
    BY <1>3, <2>2 DEF WaitDeploy
  <2> QED BY <2>3
<1>4. CASE \E b \in Admin \ {a} : Run(b) \/ Step(b) \/ Stop(b)
  <2>1. PICK b \in Admin \ {a} : Run(b) \/ Step(b) \/ Stop(b)
    BY <1>4
  <2>2. pc'[a] = pc[a] /\ next'[a] = next[a]
    BY <2>1 DEF Run, Stop, Step, GetCode, SendFunds, WaitFunds, SendRaw, WaitRaw,
       DeployContract, WaitDeploy
  <2> QED BY <2>2
<1>5. CASE \E t \in pending : Mine(t)
  BY <1>5 DEF Mine
<1>6. CASE UNCHANGED vars
  BY <1>6 DEF vars
<1>7. ~(Run(a) \/ GetCode(a) \/ SendFunds(a) \/ WaitFunds(a) \/ SendRaw(a) \/ WaitRaw(a))
  BY DEF Run, GetCode, SendFunds, WaitFunds, SendRaw, WaitRaw
<1> QED BY <1>1, <1>2, <1>3, <1>4, <1>5, <1>6, <1>7 DEF Next, Step

(* Once a run deploys contracts, only a stop sends it back to the start:   *)
(* its place in the list never falls, and the base account that it asks    *)
(* the ProxyAccountDeployer for is always answered.                        *)
THEOREM OnlyAStopTurnsBack == Spec => [][NeverBack]_vars
<1>1. IInv /\ [Next]_vars => [NeverBack]_vars
  BY StepNeverBack
<1> QED BY <1>1, InitIInv, NextIInv, PTL DEF Spec
=============================================================================

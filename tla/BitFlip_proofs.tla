--------------------------- MODULE BitFlip_proofs ---------------------------
(***************************************************************************)
(* Proofs about BitFlip, for any number of requests, bits and bitmaps, any *)
(* limit of the search and any bits used before.                           *)
(***************************************************************************)
EXTENDS BitFlipWords, WellFoundedInduction, TLAPS

Reading == {"getCode", "nonceStore", "answered"}

Has(r) == got[r] # Unknown

(* Who is inside getEncodedReplayProtection holds the lock; a request that *)
(* is not has its loop before it.                                          *)
Mutex == \A r \in Request : pc[r] \in Reading \cup {"encode"} => lock = r
Untried == \A r \in Request : pc[r] \in {"idle", "acquire"} => tries[r] = 0

(* Indices only grow once a bit was given, so that a bitmap that is read   *)
(* is one from which none was; what the node answered stays true.          *)
Grows ==
  \A s \in Request : Has(s) => mIndex # Unknown /\ mBitmap # Unknown /\ got[s].index <= mIndex
Read ==
  \A r \in Request : pc[r] \in Reading =>
    /\ mIndex # Unknown
    /\ \A s \in Request : Has(s) => got[s].index # mIndex
    /\ mBitmap = Unknown \/ IsFull(mBitmap)
    /\ pc[r] = "answered" => answer[r] = onchain[mIndex]
Undeployed == ~deployed => \A i \in Index : onchain[i] = {}

(* At any time, not only between requests, the memory tells what is taken. *)
Memory ==
  mBitmap # Unknown =>
    /\ mIndex # Unknown
    /\ \/ IsFull(mBitmap)
       \/ /\ onchain[mIndex] \subseteq mBitmap
          /\ \A s \in Request : Has(s) /\ got[s].index = mIndex => got[s].bit \in mBitmap

(* A bit on its way to the chain is not there yet.                         *)
Waiting ==
  \A r \in Request : pc[r] \in {"encode", "sign", "sent"} =>
    Has(r) /\ got[r].bit \notin onchain[got[r].index]

Order == Mutex /\ Untried /\ Grows /\ Read /\ Undeployed /\ Memory /\ Waiting
IInv  == TypeOK /\ Order /\ BitsUnique

-----------------------------------------------------------------------------
(* A set of numbers that is not empty has a least element.                 *)
LEMMA Least == \A S \in SUBSET Nat : S # {} => \E x \in S : \A y \in S : x <= y
<1> SUFFICES ASSUME NEW S \in SUBSET Nat, S # {}
             PROVE  \E x \in S : \A y \in S : x <= y
  OBVIOUS
<1>1. PICK x \in S : \A y \in S : ~(<<y, x>> \in OpToRel(<, Nat))
  BY NatLessThanWellFounded, WFMin, Zenon
<1>2. \A m, n \in Nat : m < n => <<m, n>> \in OpToRel(<, Nat)
  BY DEF OpToRel
<1>3. \A y \in S : ~(y < x)
  BY <1>1, <1>2, Zenon
<1> QED BY <1>3

(* findEmptyBit finds a bit that is 0, unless the bitmap is full.          *)
LEMMA EmptyBit ==
  ASSUME NEW bitmap, ~IsFull(bitmap)
  PROVE  findEmptyBit(bitmap) \in Bit \ bitmap
<1>1. Bit \ bitmap # {} /\ Bit \ bitmap \in SUBSET Nat
  BY BoundsAssumption DEF IsFull, Bit
<1>2. \E b \in Bit : b \notin bitmap /\ \A c \in Bit \ bitmap : b <= c
  BY <1>1, Least
<1> QED BY <1>2 DEF findEmptyBit

(* Flips and bitmaps are not Unknown.                                      *)
LEMMA Known == Unknown \notin Index /\ Unknown \notin SUBSET Bit /\ Unknown \notin Flip
BY UnknownAssumption

LEMMA InitIInv == Init => IInv
<1> SUFFICES ASSUME Init PROVE IInv
  OBVIOUS
<1>1. PICK used \in [0..MaxUsed -> SUBSET Bit] :
        /\ onchain = [i \in Index |-> IF i <= MaxUsed THEN used[i] ELSE {}]
        /\ ~deployed => \A i \in 0..MaxUsed : used[i] = {}
  BY DEF Init
<1>2. onchain \in [Index -> SUBSET Bit] /\ Undeployed
  BY <1>1, BoundsAssumption DEF Index, Undeployed
<1>3. TypeOK
  BY <1>2, BoundsAssumption DEF Init, TypeOK, Place
<1>4. Order /\ BitsUnique
  BY <1>2 DEF Init, Order, Mutex, Untried, Grows, Read, Memory, Waiting, BitsUnique,
     Has, Reading
<1> QED BY <1>3, <1>4 DEF IInv

(* takeBit, by who is inside, with a bitmap that tells what is taken.      *)
LEMMA TakeInv ==
  ASSUME IInv, NEW r \in Request, NEW bitmap \in SUBSET Bit, takeBit(r, bitmap),
         ~IsFull(bitmap), mIndex # Unknown, onchain[mIndex] \subseteq bitmap,
         \A s \in Request : Has(s) /\ got[s].index = mIndex => got[s].bit \in bitmap,
         \A s \in Request : Has(s) => got[s].index <= mIndex,
         \A s \in Request : s # r => pc[s] \notin Reading \cup {"encode"},
         lock' = r, UNCHANGED <<answer, chain>>
  PROVE  IInv'
<1> DEFINE b == findEmptyBit(bitmap)
<1>1. b \in Bit /\ b \notin bitmap
  BY EmptyBit
<1>2. /\ got' = [got EXCEPT ![r] = [index |-> mIndex, bit |-> b]]
      /\ mBitmap' = bitmap \cup {b}
      /\ pc' = [pc EXCEPT ![r] = "encode"]
      /\ UNCHANGED <<mIndex, tries, answer, deployed, onchain>>
  BY DEF takeBit, Goto, chain
<1> HIDE DEF b
<1>3. mIndex \in Index /\ mIndex \in Nat /\ [index |-> mIndex, bit |-> b] \in Flip
  BY <1>1, BoundsAssumption DEF IInv, TypeOK, Flip, Index
<1>4. /\ \A s \in Request : got'[s] = IF s = r THEN [index |-> mIndex, bit |-> b] ELSE got[s]
      /\ \A s \in Request : pc'[s] = IF s = r THEN "encode" ELSE pc[s]
      /\ mBitmap' # Unknown
      /\ Has(r)' /\ \A s \in Request : s # r => (Has(s)' <=> Has(s))
  BY <1>1, <1>2, <1>3, Known DEF IInv, TypeOK, Has
<1>5. TypeOK'
  BY <1>1, <1>2, <1>3 DEF IInv, TypeOK, Place
<1>6. Mutex' /\ Untried' /\ Undeployed'
  BY <1>2, <1>4 DEF IInv, Order, Mutex, Untried, Undeployed
<1>7. Grows' /\ Read'
  BY <1>2, <1>3, <1>4 DEF Grows, Read, Reading
<1>8. Memory'
  BY <1>2, <1>4 DEF Memory
<1>9. Waiting'
  BY <1>1, <1>2, <1>4 DEF IInv, Order, Waiting
<1>10. BitsUnique'
  <2>1. ASSUME NEW s \in Request, s # r, Has(s) PROVE got[s] # [index |-> mIndex, bit |-> b]
    BY <1>1, <2>1
  <2> QED BY <1>4, <2>1 DEF IInv, BitsUnique, Has
<1> QED BY <1>5, <1>6, <1>7, <1>8, <1>9, <1>10 DEF IInv, Order

(* nextBitmap: none was given a bit of the next one.                       *)
LEMMA NextBitmapInv ==
  ASSUME IInv, NEW r \in Request, NEW bitmap \in SUBSET Bit, nextBitmap(r, bitmap),
         IsFull(bitmap), mIndex # Unknown, tries[r] < Limit,
         \A s \in Request : Has(s) => got[s].index <= mIndex,
         \A s \in Request : s # r => pc[s] \notin Reading \cup {"encode"},
         lock' = r, UNCHANGED <<answer, chain>>
  PROVE  IInv'
<1>1. /\ mIndex < MaxIndex /\ mIndex' = mIndex + 1 /\ mBitmap' = bitmap
      /\ tries' = [tries EXCEPT ![r] = tries[r] + 1]
      /\ pc' = [pc EXCEPT ![r] = "getCode"]
      /\ UNCHANGED <<got, answer, deployed, onchain>>
  BY DEF nextBitmap, Goto, chain
<1>2. /\ mIndex \in Nat /\ mIndex' \in Index /\ mIndex' # Unknown /\ mBitmap' # Unknown
      /\ tries[r] + 1 \in 0..Limit
      /\ \A s \in Request : Has(s) => got[s].index \in Nat
  BY <1>1, BoundsAssumption, Known DEF IInv, TypeOK, Index, Has, Flip
<1>3. TypeOK'
  BY <1>1, <1>2 DEF IInv, TypeOK, Place
<1>4. \A s \in Request : pc'[s] = IF s = r THEN "getCode" ELSE pc[s]
  BY <1>1 DEF IInv, TypeOK
<1>5. Mutex' /\ Untried' /\ Undeployed' /\ Waiting' /\ BitsUnique'
  BY <1>1, <1>4 DEF IInv, TypeOK, Order, Mutex, Untried, Undeployed, Waiting, BitsUnique, Has
<1>6. Grows' /\ Read'
  BY <1>1, <1>2, <1>4 DEF Grows, Read, Has, Reading
<1>7. Memory'
  BY <1>1, <1>2 DEF Memory
<1> QED BY <1>3, <1>5, <1>6, <1>7 DEF IInv, Order

-----------------------------------------------------------------------------
LEMMA AcquireInv ==
  ASSUME IInv, NEW r \in Request, Acquire(r)
  PROVE  IInv'
<1>1. /\ pc[r] = "acquire" /\ lock' = r /\ tries[r] = 0 /\ tries[r] < Limit
      /\ UNCHANGED <<answer, chain>>
      /\ \A s \in Request : pc[s] \notin Reading \cup {"encode"}
  BY NoRequestAssumption, BoundsAssumption DEF Acquire, IInv, Order, Mutex, Untried
<1>2. CASE mIndex = Unknown \/ mBitmap = Unknown
  <2>1. /\ mIndex' \in RandomIndex /\ pc' = [pc EXCEPT ![r] = "getCode"]
        /\ UNCHANGED <<mBitmap, tries, got, answer, deployed, onchain>>
    BY <1>2 DEF Acquire, Goto, chain
  <2>2. mIndex' \in Index /\ mIndex' # Unknown
    BY <2>1, BoundsAssumption, Known DEF Index
  <2>3. mBitmap = Unknown /\ \A s \in Request : ~Has(s)
    BY <1>2 DEF IInv, Order, Memory, Grows
  <2>4. TypeOK'
    BY <1>1, <2>1, <2>2 DEF IInv, TypeOK, Place
  <2>5. \A s \in Request : pc'[s] = IF s = r THEN "getCode" ELSE pc[s]
    BY <2>1 DEF IInv, TypeOK
  <2>6. Order' /\ BitsUnique'
    BY <1>1, <2>1, <2>2, <2>3, <2>5 DEF IInv, Order, Mutex, Untried, Grows, Read, Reading,
       Undeployed, Memory, Waiting, BitsUnique, Has
  <2> QED BY <2>4, <2>6 DEF IInv
<1>3. CASE mIndex # Unknown /\ mBitmap # Unknown
  <2>1. searchBitmaps(r, mBitmap) /\ mBitmap \in SUBSET Bit
    BY <1>3 DEF Acquire, IInv, TypeOK
  <2>2. \A s \in Request : Has(s) => got[s].index <= mIndex
    BY DEF IInv, Order, Grows
  <2>3. CASE IsFull(mBitmap)
    BY <1>1, <1>3, <2>1, <2>2, <2>3, NextBitmapInv DEF searchBitmaps
  <2>4. CASE ~IsFull(mBitmap)
    <3>1. /\ onchain[mIndex] \subseteq mBitmap
          /\ \A s \in Request : Has(s) /\ got[s].index = mIndex => got[s].bit \in mBitmap
      BY <1>3, <2>4 DEF IInv, Order, Memory
    <3> QED BY <1>1, <1>3, <2>1, <2>2, <2>4, <3>1, TakeInv DEF searchBitmaps
  <2> QED BY <2>3, <2>4
<1> QED BY <1>2, <1>3

(* What the node answered tells what is taken, since no bit of that bitmap *)
(* was given.                                                              *)
LEMMA UseAnswerInv ==
  ASSUME IInv, NEW r \in Request, UseAnswer(r)
  PROVE  IInv'
<1>1. /\ pc[r] = "answered" /\ lock = r /\ mIndex # Unknown
      /\ answer[r] = onchain[mIndex] /\ answer[r] \in SUBSET Bit
      /\ \A s \in Request : Has(s) => got[s].index # mIndex /\ got[s].index <= mIndex
      /\ UNCHANGED <<answer, chain>>
      /\ \A s \in Request : s # r => pc[s] \notin Reading \cup {"encode"}
  BY DEF UseAnswer, IInv, TypeOK, Order, Mutex, Grows, Read, Reading
<1>2. CASE tries[r] < Limit
  <2>1. searchBitmaps(r, answer[r]) /\ lock' = r
    BY <1>1, <1>2 DEF UseAnswer
  <2>2. CASE IsFull(answer[r])
    BY <1>1, <1>2, <2>1, <2>2, NextBitmapInv DEF searchBitmaps
  <2>3. CASE ~IsFull(answer[r])
    BY <1>1, <2>1, <2>3, TakeInv DEF searchBitmaps
  <2> QED BY <2>2, <2>3
<1>3. CASE ~(tries[r] < Limit)
  <2>1. /\ mBitmap' = answer[r] /\ mBitmap' # Unknown /\ lock' = NoRequest
        /\ pc' = [pc EXCEPT ![r] = "failed"]
        /\ UNCHANGED <<mIndex, tries, got, answer, deployed, onchain>>
    BY <1>1, <1>3, Known DEF UseAnswer, Goto, chain
  <2>2. TypeOK'
    BY <1>1, <2>1 DEF IInv, TypeOK, Place
  <2>3. \A s \in Request : pc'[s] = IF s = r THEN "failed" ELSE pc[s]
    BY <2>1 DEF IInv, TypeOK
  <2>4. Order' /\ BitsUnique'
    BY <1>1, <2>1, <2>3 DEF IInv, Order, Mutex, Untried, Grows, Read, Reading,
       Undeployed, Memory, Waiting, BitsUnique, Has
  <2> QED BY <2>2, <2>4 DEF IInv
<1> QED BY <1>2, <1>3

(* The node is asked, or rejects; a request leaves or is signed.           *)
LEMMA NodeInv ==
  ASSUME IInv, NEW r \in Request, GetCode(r) \/ NodeReads(r)
  PROVE  IInv'
<1>1. PICK place \in {"nonceStore", "answered"}, bits \in SUBSET Bit :
        /\ pc[r] \in Reading /\ mIndex # Unknown
        /\ pc' = [pc EXCEPT ![r] = place]
        /\ answer' = [answer EXCEPT ![r] = bits]
        /\ place = "answered" => bits = onchain[mIndex]
        /\ UNCHANGED <<memory, lock, tries, got, deployed, onchain>>
  <2>1. pc[r] \in Reading => mIndex # Unknown /\ mIndex \in Index /\ onchain[mIndex] \in SUBSET Bit
    BY DEF IInv, TypeOK, Order, Read
  <2>2. CASE GetCode(r)
    <3>1. /\ pc[r] \in Reading /\ mIndex # Unknown
          /\ answer' = [answer EXCEPT ![r] = {}] /\ {} \in SUBSET Bit
          /\ UNCHANGED <<memory, lock, tries, got, deployed, onchain>>
      BY <2>1, <2>2 DEF GetCode, Reading, chain
    <3>2. CASE deployed
      <4>1. pc' = [pc EXCEPT ![r] = "nonceStore"]
        BY <2>2, <3>2 DEF GetCode, Goto
      <4> QED BY <3>1, <4>1
    <3>3. CASE ~deployed
      <4>1. pc' = [pc EXCEPT ![r] = "answered"] /\ onchain[mIndex] = {}
        BY <2>1, <2>2, <3>1, <3>3 DEF GetCode, Goto, IInv, Order, Undeployed
      <4> QED BY <3>1, <4>1
    <3> QED BY <3>2, <3>3
  <2>3. CASE NodeReads(r)
    BY <2>1, <2>3 DEF NodeReads, Goto, Reading, chain
  <2> QED BY <2>2, <2>3
<1>2. TypeOK'
  BY <1>1 DEF IInv, TypeOK, Place, memory
<1>3. /\ \A s \in Request : pc'[s] = IF s = r THEN place ELSE pc[s]
      /\ \A s \in Request : answer'[s] = IF s = r THEN bits ELSE answer[s]
      /\ UNCHANGED <<mIndex, mBitmap>>
  BY <1>1 DEF IInv, TypeOK, memory
<1>4. Order' /\ BitsUnique'
  BY <1>1, <1>3 DEF IInv, Order, Mutex, Untried, Grows, Read, Reading, Undeployed, Memory,
     Waiting, BitsUnique, Has
<1> QED BY <1>2, <1>4 DEF IInv

LEMMA LeaveInv ==
  ASSUME IInv, NEW r \in Request,
         SignMetaTransaction(r) \/ RpcFails(r) \/ Release(r) \/ SignMessage(r)
  PROVE  IInv'
<1>1. PICK place \in {"acquire", "sign", "sent", "failed"} :
        /\ pc' = [pc EXCEPT ![r] = place]
        /\ pc[r] \in {"idle", "encode", "sign"} \cup Reading
        /\ place = "acquire" <=> pc[r] = "idle"
        /\ place \in {"sign", "sent"} => pc[r] \in {"encode", "sign"}
        /\ lock' = IF pc[r] \in Reading \cup {"encode"} THEN NoRequest ELSE lock
        /\ UNCHANGED <<mIndex, mBitmap, tries, answer, got, deployed, onchain>>
  BY DEF SignMetaTransaction, RpcFails, Release, SignMessage, Goto, Reading, memory, chain
<1>2. TypeOK'
  BY <1>1 DEF IInv, TypeOK, Place
<1>3. \A s \in Request : pc'[s] = IF s = r THEN place ELSE pc[s]
  BY <1>1 DEF IInv, TypeOK
<1>4. Mutex'
  BY <1>1, <1>3 DEF IInv, Order, Mutex, Reading
<1>5. Untried' /\ Grows' /\ Read' /\ Undeployed' /\ Memory' /\ Waiting' /\ BitsUnique'
  BY <1>1, <1>3 DEF IInv, Order, Untried, Grows, Read, Reading, Undeployed, Memory,
     Waiting, BitsUnique, Has
<1> QED BY <1>2, <1>4, <1>5 DEF IInv, Order

(* A mined bit is one that was given, so that no other request's bit and   *)
(* no bitmap that is being read changes.                                   *)
LEMMA MineInv ==
  ASSUME IInv, NEW r \in Request, Mine(r)
  PROVE  IInv'
<1> DEFINE i == got[r].index
<1> DEFINE b == got[r].bit
<1>1. Has(r) /\ got[r] \in Flip /\ i \in Index /\ b \in Bit /\ deployed /\ pc[r] = "sent"
  BY DEF Mine, IInv, TypeOK, Order, Waiting, Has, Flip
<1>2. /\ onchain' = [onchain EXCEPT ![i] = onchain[i] \cup {b}]
      /\ pc' = [pc EXCEPT ![r] = "mined"]
      /\ UNCHANGED <<mIndex, mBitmap, lock, tries, answer, got, deployed>>
  BY DEF Mine, bitflipStored, Goto, memory
<1>3. /\ \A j \in Index : onchain'[j] = IF j = i THEN onchain[i] \cup {b} ELSE onchain[j]
      /\ \A s \in Request : pc'[s] = IF s = r THEN "mined" ELSE pc[s]
      /\ mIndex # Unknown => mIndex \in Index
      /\ \A s \in Request : Has(s) => got[s] \in Flip /\ got[s].index \in Index
  BY <1>1, <1>2 DEF IInv, TypeOK, Has, Flip
<1>4. TypeOK'
  BY <1>1, <1>2 DEF IInv, TypeOK, Place
<1>5. Mutex' /\ Untried' /\ Grows' /\ Undeployed' /\ BitsUnique'
  BY <1>1, <1>2, <1>3 DEF IInv, Order, Mutex, Untried, Grows, Undeployed, BitsUnique, Has,
     Reading
<1>6. Read'
  BY <1>1, <1>2, <1>3 DEF IInv, Order, Read, Has, Reading
<1>7. Memory'
  BY <1>1, <1>2, <1>3 DEF IInv, Order, Memory, Has
<1>8. Waiting'
  <2> SUFFICES ASSUME NEW s \in Request, s # r, pc[s] \in {"encode", "sign", "sent"}
               PROVE  Has(s) /\ got[s].bit \notin onchain'[got[s].index]
    BY <1>2, <1>3 DEF Waiting, Has
  <2>1. Has(s) /\ got[s].bit \notin onchain[got[s].index]
    BY DEF IInv, Order, Waiting
  <2>2. got[s].index = i => got[s].bit # b
    <3>1. got[s] # got[r] /\ got[s] \in Flip
      BY <1>3, <2>1 DEF IInv, BitsUnique, Has
    <3> QED BY <1>1, <3>1 DEF Flip
  <2> QED BY <1>3, <2>1, <2>2
<1> QED BY <1>4, <1>5, <1>6, <1>7, <1>8 DEF IInv, Order

LEMMA NextIInv == IInv /\ [Next]_vars => IInv'
<1> SUFFICES ASSUME IInv, [Next]_vars PROVE IInv'
  OBVIOUS
<1>1. CASE Deploy
  BY <1>1 DEF Deploy, IInv, TypeOK, Order, Mutex, Untried, Grows, Read, Undeployed, Memory,
     Waiting, BitsUnique, Has, memory
<1>2. CASE UNCHANGED vars
  BY <1>2 DEF vars, IInv, TypeOK, Order, Mutex, Untried, Grows, Read, Undeployed, Memory,
     Waiting, BitsUnique, Has
<1> QED
  BY <1>1, <1>2, AcquireInv, UseAnswerInv, NodeInv, LeaveInv, MineInv DEF Next, Step

(* The memory of bitmaps agrees with the chain, the lock and the order of  *)
(* the requests in every reachable state.                                  *)
THEOREM Invariance == Spec => []IInv
BY InitIInv, NextIInv, PTL DEF Spec

(* The process's memory and the bitmaps on the chain are of their types;   *)
(* the search ends within its limit.                                       *)
THEOREM TypeCorrect == Spec => []TypeOK
<1>1. IInv => TypeOK
  BY DEF IInv
<1> QED BY <1>1, Invariance, PTL

(* No two requests are given the same bit of a bitmap.                     *)
THEOREM NoBitTwice == Spec => []BitsUnique
<1>1. IInv => BitsUnique
  BY DEF IInv
<1> QED BY <1>1, Invariance, PTL

(* What was signed and not mined is acceptable, now and in any order.      *)
THEOREM AnyOrder == Spec => []AcceptedInAnyOrder
<1>1. IInv => AcceptedInAnyOrder
  BY DEF IInv, Order, Waiting, AcceptedInAnyOrder, bitflipAccepts
<1> QED BY <1>1, Invariance, PTL

(* What the process remembers is never behind what is taken, unless it     *)
(* makes the next request move on.                                         *)
THEOREM SafeMemory == Spec => []MemoryIsSafe
<1>1. IInv => MemoryIsSafe
  BY DEF IInv, Order, Memory, MemoryIsSafe, Taken, Has
<1> QED BY <1>1, Invariance, PTL

-----------------------------------------------------------------------------
(* What `Settles' asks of the lock and of the loop, without its fairness.  *)
(* Whoever has the lock is inside, where every await ends in a step or in  *)
(* a rejection;                                                            *)
Inside == Reading \cup {"encode"}
Holder == lock # NoRequest => pc[lock] \in Inside

(* and whatever moves him on inside, a full bitmap included, leaves him    *)
(* less to do: at most Limit bitmaps, with three steps for each.           *)
ToDo(r) ==
  4 * (Limit - tries[r]) + CASE pc[r] = "getCode"    -> 3
                             [] pc[r] = "nonceStore" -> 2
                             [] pc[r] = "answered"   -> 1
                             [] OTHER                -> 0
Advances ==
  \A r \in Request :
    pc[r] \in Inside /\ pc'[r] \in Inside /\ pc'[r] # pc[r] =>
      ToDo(r)' \in Nat /\ ToDo(r)' < ToDo(r)

(* The lock is never lost, whatever is rejected and however the search     *)
(* ends.                                                                   *)
THEOREM LockPassedOn == Spec => []Holder
<1>1. Init => Holder
  BY DEF Init, Holder
<1>2. IInv /\ Holder /\ [Next]_vars => Holder'
  <2> SUFFICES ASSUME IInv, Holder, [Next]_vars PROVE Holder'
    OBVIOUS
  <2>1. pc \in [Request -> Place] /\ \A r \in Request : pc[r] \in Inside => lock = r
    BY DEF IInv, TypeOK, Order, Mutex, Inside
  <2> USE DEF Holder, Inside, Reading, Goto
  <2>2. ASSUME NEW r \in Request, NEW bitmap, searchBitmaps(r, bitmap)
        PROVE  pc'[r] \in Inside
    BY <2>1, <2>2 DEF searchBitmaps, takeBit, nextBitmap
  <2>3. ASSUME NEW r \in Request, Acquire(r) \/ GetCode(r) \/ NodeReads(r) PROVE Holder'
    <3>1. pc'[r] \in Inside /\ lock' = r
      BY <2>1, <2>2, <2>3 DEF Acquire, GetCode, NodeReads
    <3> QED BY <3>1
  <2>4. ASSUME NEW r \in Request, UseAnswer(r) PROVE Holder'
    <3>1. lock' = NoRequest \/ (pc'[r] \in Inside /\ lock' = r)
      BY <2>1, <2>2, <2>4 DEF UseAnswer
    <3> QED BY <3>1
  <2>5. ASSUME NEW r \in Request, RpcFails(r) \/ Release(r) PROVE Holder'
    BY <2>5 DEF RpcFails, Release
  <2>6. ASSUME NEW r \in Request, SignMetaTransaction(r) \/ SignMessage(r) \/ Mine(r)
        PROVE  Holder'
    <3>1. /\ pc[r] \notin Inside /\ lock' = lock
          /\ \A s \in Request : s # r => pc'[s] = pc[s]
      BY <2>1, <2>6 DEF SignMetaTransaction, SignMessage, Mine
    <3>2. lock # NoRequest => lock \in Request /\ lock # r
      BY <3>1 DEF IInv, TypeOK
    <3> QED BY <3>1, <3>2
  <2>7. CASE Deploy \/ UNCHANGED vars
    BY <2>7 DEF Deploy, vars
  <2> QED BY <2>3, <2>4, <2>5, <2>6, <2>7 DEF Next, Step
<1> QED BY <1>1, <1>2, Invariance, PTL DEF Spec

(* The search ends, also where it meets nothing but full bitmaps.          *)
THEOREM SearchEnds == Spec => [][Advances]_vars
<1>1. TypeOK /\ TypeOK' /\ [Next]_vars => [Advances]_vars
  <2> SUFFICES ASSUME TypeOK, TypeOK', [Next]_vars, NEW r \in Request,
                      pc[r] \in Inside, pc'[r] \in Inside, pc'[r] # pc[r]
               PROVE  ToDo(r)' \in Nat /\ ToDo(r)' < ToDo(r)
    BY DEF Advances
  <2>1. /\ tries[r] \in 0..Limit /\ tries'[r] \in 0..Limit /\ Limit \in Nat
        /\ pc[r] \in Place /\ pc' \in [Request -> Place]
    BY BoundsAssumption DEF TypeOK
  <2>2. \/ /\ tries'[r] = tries[r]
           /\ \/ pc[r] = "getCode" /\ pc'[r] \in {"nonceStore", "answered"}
              \/ pc[r] = "nonceStore" /\ pc'[r] = "answered"
              \/ pc[r] = "answered" /\ pc'[r] = "encode"
        \/ pc[r] = "answered" /\ pc'[r] = "getCode" /\ tries'[r] = tries[r] + 1
    <3> USE DEF Inside, Reading, Goto, TypeOK
    <3>1. ASSUME NEW s \in Request, Step(s) PROVE s = r
      BY <3>1 DEF Step, Acquire, searchBitmaps, takeBit, nextBitmap, GetCode, NodeReads,
         UseAnswer, RpcFails, Release, SignMessage
    <3>2. Step(r)
      BY <3>1 DEF Next, SignMetaTransaction, Mine, Deploy, vars
    <3> QED
      BY <3>2 DEF Step, Acquire, searchBitmaps, takeBit, nextBitmap, GetCode, NodeReads,
         UseAnswer, RpcFails, Release, SignMessage
  <2> DEFINE rank(place) == CASE place = "getCode"    -> 3
                              [] place = "nonceStore" -> 2
                              [] place = "answered"   -> 1
                              [] OTHER                -> 0
  <2>3. /\ ToDo(r) = 4 * (Limit - tries[r]) + rank(pc[r])
        /\ ToDo(r)' = 4 * (Limit - tries'[r]) + rank(pc'[r])
    BY DEF ToDo
  <2>4. /\ rank("getCode") = 3 /\ rank("nonceStore") = 2 /\ rank("answered") = 1
        /\ rank("encode") = 0
    OBVIOUS
  <2> HIDE DEF rank
  <2> QED BY <2>1, <2>2, <2>3, <2>4
<1> QED BY <1>1, TypeCorrect, PTL DEF Spec

-----------------------------------------------------------------------------
(* Induction over the numbers, with a set in the place of a predicate.     *)
LEMMA Induction ==
  ASSUME NEW S, 0 \in S, \A n \in Nat : n \in S => n + 1 \in S
  PROVE  \A n \in Nat : n \in S
<1> SUFFICES ASSUME Nat \ S # {}
             PROVE  FALSE
  OBVIOUS
<1>1. PICK x \in Nat \ S : \A y \in Nat \ S : x <= y
  BY Least
<1>2. x # 0 /\ x - 1 \in Nat /\ x - 1 \notin Nat \ S
  BY <1>1
<1> QED BY <1>1, <1>2

-----------------------------------------------------------------------------
(* The recursion of `doubled' defines a function: for each n there is one  *)
(* that keeps to it up to n, and two of them agree.                        *)
Keeps(g, n) ==
  /\ g \in [Nat -> Nat] /\ g[0] = 1
  /\ \A i \in Nat : i < n => g[i + 1] = 2 * g[i]

(* There is one for each n, one longer than the one before.                *)
LEMMA SomeKeeps == \A n \in Nat : \E g : Keeps(g, n)
<1> DEFINE S == {n \in Nat : \E g : Keeps(g, n)}
<1>1. 0 \in S
  <2>1. Keeps([i \in Nat |-> 1], 0)
    BY DEF Keeps
  <2> QED BY <2>1
<1>2. ASSUME NEW n \in Nat, n \in S PROVE n + 1 \in S
  <2>1. PICK g : Keeps(g, n)
    BY <1>2
  <2> DEFINE h == [i \in Nat |-> IF i = n + 1 THEN 2 * g[n] ELSE g[i]]
  <2>2. Keeps(h, n + 1)
    BY <2>1 DEF Keeps
  <2> QED BY <2>2
<1> HIDE DEF S
<1>3. \A n \in Nat : n \in S
  BY <1>1, <1>2, Induction
<1> QED BY <1>3 DEF S

(* Two of them agree as far as both keep to it.                            *)
LEMMA KeepersAgree ==
  ASSUME NEW g, NEW h, NEW m \in Nat, NEW n \in Nat, Keeps(g, m), Keeps(h, n)
  PROVE  \A i \in Nat : i <= m /\ i <= n => g[i] = h[i]
<1> DEFINE S == {i \in Nat : i <= m /\ i <= n => g[i] = h[i]}
<1>1. 0 \in S
  BY DEF Keeps
<1>2. ASSUME NEW i \in Nat, i \in S PROVE i + 1 \in S
  BY <1>2 DEF Keeps
<1> HIDE DEF S
<1>3. \A i \in Nat : i \in S
  BY <1>1, <1>2, Induction
<1> QED BY <1>3 DEF S

(* So `doubled' is 1, doubled n times.                                     *)
LEMMA Doubled ==
  /\ doubled[0] = 1
  /\ \A n \in Nat : doubled[n] \in Nat /\ doubled[n] > 0 /\ doubled[n + 1] = 2 * doubled[n]
<1> DEFINE Recursion(f) == f = [n \in Nat |-> IF n = 0 THEN 1 ELSE 2 * f[n - 1]]
<1> DEFINE keeper(n) == CHOOSE g : Keeps(g, n)
<1> DEFINE f == [n \in Nat |-> keeper(n)[n]]
<1>1. \A n \in Nat : Keeps(keeper(n), n)
  BY SomeKeeps
<1>2. f[0] = 1 /\ \A n \in Nat : f[n + 1] = 2 * f[n]
  <2> HIDE DEF keeper
  <2>1. f[0] = 1
    BY <1>1 DEF Keeps
  <2>2. ASSUME NEW n \in Nat PROVE f[n + 1] = 2 * f[n]
    <3>1. keeper(n + 1)[n + 1] = 2 * keeper(n + 1)[n]
      BY <1>1 DEF Keeps
    <3>2. keeper(n + 1)[n] = keeper(n)[n]
      BY <1>1, KeepersAgree
    <3> QED BY <3>1, <3>2
  <2> QED BY <2>1, <2>2
<1>3. Recursion(f)
  <2> HIDE DEF f
  <2>1. \A n \in Nat : n # 0 => n - 1 \in Nat /\ f[n] = 2 * f[n - 1]
    BY <1>2
  <2>2. f = [n \in Nat |-> f[n]]
    BY DEF f
  <2> QED BY <1>2, <2>1, <2>2
<1>4. Recursion(doubled)
  <2> HIDE DEF f
  <2>1. doubled = CHOOSE g : Recursion(g)
    BY DEF doubled
  <2> QED BY <1>3, <2>1
<1>5. doubled[0] = 1 /\ \A n \in Nat : doubled[n + 1] = 2 * doubled[n]
  BY <1>4
<1> DEFINE S == {n \in Nat : doubled[n] \in Nat /\ doubled[n] > 0}
<1>6. 0 \in S /\ \A n \in Nat : n \in S => n + 1 \in S
  BY <1>5
<1>7. \A n \in Nat : n \in S
  <2> HIDE DEF S
  <2> QED BY <1>6, Induction
<1> QED BY <1>5, <1>7

(* A higher power is an even multiple of a lower one.                      *)
LEMMA Multiple ==
  \A k, i \in Nat : i < k => \E m \in Nat : doubled[k] = doubled[i] * (2 * m)
<1> SUFFICES ASSUME NEW i \in Nat
             PROVE  \A k \in Nat : i < k => \E m \in Nat : doubled[k] = doubled[i] * (2 * m)
  OBVIOUS
<1> DEFINE S == {k \in Nat : i < k => \E m \in Nat : doubled[k] = doubled[i] * (2 * m)}
<1>1. 0 \in S
  OBVIOUS
<1>2. ASSUME NEW k \in Nat, k \in S PROVE k + 1 \in S
  <2>1. doubled[k + 1] = 2 * doubled[k] /\ doubled[i] \in Nat /\ doubled[k] \in Nat
    BY Doubled
  <2>2. CASE i = k
    <3>1. doubled[k + 1] = doubled[i] * (2 * 1)
      BY <2>1, <2>2
    <3> QED BY <3>1
  <2>3. CASE i < k
    <3>1. PICK m \in Nat : doubled[k] = doubled[i] * (2 * m)
      BY <1>2, <2>3
    <3>2. doubled[k + 1] = doubled[i] * (2 * (2 * m)) /\ 2 * m \in Nat
      BY <2>1, <3>1
    <3>3. \E j \in Nat : doubled[k + 1] = doubled[i] * (2 * j)
      BY <3>2, Zenon
    <3> QED BY <3>3
  <2>4. CASE ~(i <= k)
    <3>1. ~(i < k + 1) /\ k + 1 \in Nat
      BY <2>4
    <3> QED BY <3>1
  <2> QED BY <2>2, <2>3, <2>4
<1> HIDE DEF S
<1>3. \A k \in Nat : k \in S
  BY <1>1, <1>2, Induction
<1> QED BY <1>3 DEF S

(* The bits of a number that are below k.                                  *)
bit(w, b)  == (w \div doubled[b]) % 2 = 1
bits(k, w) == {b \in 0..(k - 1) : bit(w, b)}

(* A number below 2^(k+1) is one below 2^k, with or without the bit k.     *)
Half(k) == 0..(doubled[k] - 1)

(* A multiple passes through a division.                                   *)
LEMMA Quotient ==
  ASSUME NEW p \in Nat, p > 0, NEW x \in Nat, NEW l \in Nat
  PROVE  (p * x + l) \div p = x + (l \div p)
OBVIOUS

(* The bit k does not touch the bits below it.                             *)
LEMMA LowBits ==
  ASSUME NEW k \in Nat, NEW l \in Half(k)
  PROVE  /\ bits(k, doubled[k] + l) = bits(k, l)
         /\ bit(doubled[k] + l, k)
         /\ ~bit(l, k)
<1>1. doubled[k] \in Nat /\ doubled[k] > 0 /\ l \in Nat /\ l < doubled[k]
  BY Doubled DEF Half
<1>2. l \div doubled[k] = 0
  BY <1>1
<1>3. (doubled[k] * 1 + l) \div doubled[k] = 1 + (l \div doubled[k])
  BY <1>1, Quotient
<1>4. ASSUME NEW b \in 0..(k - 1) PROVE bit(doubled[k] + l, b) <=> bit(l, b)
  <2>0. b \in Nat /\ b < k
    OBVIOUS
  <2>1. doubled[b] \in Nat /\ doubled[b] > 0
    BY <2>0, Doubled
  <2>2. PICK m \in Nat : doubled[k] = doubled[b] * (2 * m)
    BY <2>0, Multiple
  <2>3. (doubled[b] * (2 * m) + l) \div doubled[b] = 2 * m + (l \div doubled[b])
    BY <1>1, <2>1, Quotient
  <2>4. l \div doubled[b] \in Nat
    BY <1>1, <2>1
  <2>5. \A y, z \in Nat : (2 * y + z) % 2 = z % 2
    OBVIOUS
  <2>6. (2 * m + (l \div doubled[b])) % 2 = (l \div doubled[b]) % 2
    BY <2>4, <2>5
  <2>7. ((doubled[k] + l) \div doubled[b]) % 2 = (l \div doubled[b]) % 2
    <3> HIDE DEF Half
    <3> QED BY <2>2, <2>3, <2>6, Zenon
  <2> QED BY <2>7 DEF bit
<1>5. bit(doubled[k] + l, k) /\ ~bit(l, k)
  <2>1. doubled[k] * 1 = doubled[k] /\ 1 + 0 = 1 /\ 1 % 2 = 1 /\ 0 % 2 # 1
    BY <1>1
  <2>2. (doubled[k] + l) \div doubled[k] = 1
    BY <1>2, <1>3, <2>1, Zenon
  <2> QED BY <1>2, <2>1, <2>2, Zenon DEF bit
<1>6. bits(k, doubled[k] + l) = bits(k, l)
  BY <1>4 DEF bits
<1> QED BY <1>5, <1>6

(* So the bits of one are known from the bits of the other.                *)
LEMMA SplitBits ==
  ASSUME NEW k \in Nat
  PROVE  /\ \A l \in Half(k) : /\ l \in Half(k + 1) /\ doubled[k] + l \in Half(k + 1)
                               /\ bits(k + 1, l) = bits(k, l)
                               /\ bits(k + 1, doubled[k] + l) = bits(k, l) \cup {k}
         /\ \A w \in Half(k + 1) : w \in Half(k) \/ \E l \in Half(k) : w = doubled[k] + l
<1>1. doubled[k] \in Nat /\ doubled[k] > 0 /\ doubled[k + 1] = 2 * doubled[k]
  BY Doubled
<1>2. ASSUME NEW l \in Half(k)
      PROVE  /\ l \in Half(k + 1) /\ doubled[k] + l \in Half(k + 1)
             /\ bits(k + 1, l) = bits(k, l)
             /\ bits(k + 1, doubled[k] + l) = bits(k, l) \cup {k}
  <2>1. l \in Half(k + 1) /\ doubled[k] + l \in Half(k + 1)
    BY <1>1 DEF Half
  <2>2. 0..((k + 1) - 1) = 0..(k - 1) \cup {k} /\ k \notin 0..(k - 1)
    OBVIOUS
  <2>3. \A w : bits(k + 1, w) = bits(k, w) \cup IF bit(w, k) THEN {k} ELSE {}
    BY <2>2 DEF bits
  <2> QED BY <2>1, <2>3, LowBits
<1>3. ASSUME NEW w \in Half(k + 1), w \notin Half(k)
      PROVE  \E l \in Half(k) : w = doubled[k] + l
  <2>1. w - doubled[k] \in Half(k) /\ w = doubled[k] + (w - doubled[k])
    BY <1>1, <1>3 DEF Half
  <2> QED BY <2>1
<1> QED BY <1>2, <1>3

(* The bits below k are below k.                                           *)
LEMMA BitsBelow == \A k \in Nat : \A w : bits(k, w) \subseteq 0..(k - 1) /\ k \notin bits(k, w)
BY DEF bits

-----------------------------------------------------------------------------
(* Numbers below 2^k and sets of bits below k are the same thing.          *)
SameBits(k) == \A v, w \in Half(k) : bits(k, v) = bits(k, w) => v = w
AllBits(k)  == \A S \in SUBSET (0..(k - 1)) : \E w \in Half(k) : bits(k, w) = S

(* Zero has no bits.                                                       *)
LEMMA Zero == \A k \in Nat : 0 \in Half(k) /\ bits(k, 0) = {}
<1> SUFFICES ASSUME NEW k \in Nat PROVE 0 \in Half(k) /\ bits(k, 0) = {}
  OBVIOUS
<1>1. 0 \in Half(k)
  BY Doubled DEF Half
<1>2. \A b \in 0..(k - 1) : doubled[b] \in Nat /\ doubled[b] > 0
  BY Doubled
<1>3. \A p \in Nat : p > 0 => (0 \div p) % 2 = 0
  OBVIOUS
<1> QED BY <1>1, <1>2, <1>3 DEF bits, bit

(* Every set of bits below k is that of exactly one number below 2^k.      *)
LEMMA OneNumber == \A k \in Nat : SameBits(k) /\ AllBits(k)
<1> DEFINE S == {k \in Nat : SameBits(k) /\ AllBits(k)}
<1>1. 0 \in S
  <2>1. Half(0) = {0} /\ 0..(0 - 1) = {}
    BY Doubled DEF Half
  <2> QED BY <2>1, BitsBelow DEF SameBits, AllBits
<1>2. ASSUME NEW k \in Nat, k \in S PROVE k + 1 \in S
  <2>1. SameBits(k + 1)
    <3> SUFFICES ASSUME NEW v \in Half(k + 1), NEW w \in Half(k + 1), bits(k + 1, v) = bits(k + 1, w)
                 PROVE  v = w
      BY DEF SameBits
    <3>1. CASE v \in Half(k) /\ w \in Half(k)
      BY <1>2, <3>1, SplitBits DEF SameBits
    <3>2. CASE v \notin Half(k) /\ w \notin Half(k)
      <4>1. PICK l \in Half(k), m \in Half(k) : v = doubled[k] + l /\ w = doubled[k] + m
        BY <3>2, SplitBits
      <4>2. bits(k, l) \cup {k} = bits(k, m) \cup {k}
        BY <4>1, SplitBits
      <4>3. bits(k, l) = bits(k, m)
        BY <4>2, BitsBelow
      <4> QED BY <1>2, <4>1, <4>3 DEF SameBits
    <3>3. ASSUME NEW x \in Half(k), NEW y \in Half(k + 1), y \notin Half(k)
          PROVE  bits(k + 1, x) # bits(k + 1, y)
      <4>1. k \in bits(k + 1, y)
        <5>1. PICK l \in Half(k) : y = doubled[k] + l
          BY <3>3, SplitBits
        <5>2. bits(k + 1, doubled[k] + l) = bits(k, l) \cup {k}
          BY SplitBits
        <5> QED BY <5>1, <5>2, Zenon
      <4>2. k \notin bits(k + 1, x)
        BY SplitBits, BitsBelow
      <4> QED BY <4>1, <4>2
    <3> QED BY <3>1, <3>2, <3>3
  <2>2. AllBits(k + 1)
    <3> SUFFICES ASSUME NEW T \in SUBSET (0..((k + 1) - 1))
                 PROVE  \E w \in Half(k + 1) : bits(k + 1, w) = T
      BY DEF AllBits
    <3>1. T \ {k} \in SUBSET (0..(k - 1))
      OBVIOUS
    <3>2. PICK l \in Half(k) : bits(k, l) = T \ {k}
      BY <1>2, <3>1 DEF AllBits
    <3>3. CASE k \in T
      <4>1. doubled[k] + l \in Half(k + 1) /\ bits(k + 1, doubled[k] + l) = (T \ {k}) \cup {k}
        BY <3>2, SplitBits
      <4> QED BY <3>3, <4>1
    <3>4. CASE k \notin T
      <4>1. l \in Half(k + 1) /\ bits(k + 1, l) = T \ {k}
        BY <3>2, SplitBits
      <4> QED BY <3>4, <4>1
    <3> QED BY <3>3, <3>4
  <2> QED BY <2>1, <2>2
<1> HIDE DEF S
<1>3. \A k \in Nat : k \in S
  BY <1>1, <1>2, Induction
<1> QED BY <1>3 DEF S

-----------------------------------------------------------------------------
(* Adding the number of a bit that is not set sets that bit, and no other. *)
LEMMA AddBit ==
  \A k \in Nat : \A w \in Half(k), b \in 0..(k - 1) :
    b \notin bits(k, w) => /\ w + doubled[b] \in Half(k)
                           /\ bits(k, w + doubled[b]) = bits(k, w) \cup {b}
<1> DEFINE Adds(k, w, b) == b \notin bits(k, w) => /\ w + doubled[b] \in Half(k)
                                                   /\ bits(k, w + doubled[b]) = bits(k, w) \cup {b}
<1> DEFINE S == {k \in Nat : \A w \in Half(k), b \in 0..(k - 1) : Adds(k, w, b)}
<1>1. 0 \in S
  OBVIOUS
<1>2. ASSUME NEW k \in Nat, k \in S PROVE k + 1 \in S
  <2> SUFFICES ASSUME NEW w \in Half(k + 1), NEW b \in 0..((k + 1) - 1), b \notin bits(k + 1, w)
               PROVE  /\ w + doubled[b] \in Half(k + 1)
                      /\ bits(k + 1, w + doubled[b]) = bits(k + 1, w) \cup {b}
    OBVIOUS
  <2>1. \A l \in Half(k), c \in 0..(k - 1) : Adds(k, l, c)
    BY <1>2
  <2>2. doubled[k] \in Nat /\ doubled[b] \in Nat /\ Half(k) \subseteq Nat
    BY Doubled DEF Half
  <2> HIDE DEF S
  <2>3. CASE w \in Half(k) /\ b = k
    <3>1. w + doubled[b] = doubled[k] + w
      BY <2>2, <2>3
    <3>2. bits(k + 1, doubled[k] + w) = bits(k + 1, w) \cup {k} /\ doubled[k] + w \in Half(k + 1)
      BY <2>3, SplitBits
    <3> QED BY <2>3, <3>1, <3>2, Zenon
  <2>4. CASE w \in Half(k) /\ b # k
    <3>1. bits(k + 1, w) = bits(k, w) /\ b \in 0..(k - 1)
      BY <2>4, SplitBits
    <3>2. w + doubled[b] \in Half(k) /\ bits(k, w + doubled[b]) = bits(k, w) \cup {b}
      BY <2>1, <2>4, <3>1
    <3>3. w + doubled[b] \in Half(k + 1) /\ bits(k + 1, w + doubled[b]) = bits(k, w + doubled[b])
      BY <3>2, SplitBits
    <3> QED BY <3>1, <3>2, <3>3
  <2>5. CASE w \notin Half(k)
    <3>1. PICK l \in Half(k) : w = doubled[k] + l
      BY <2>5, SplitBits
    <3>2. bits(k + 1, doubled[k] + l) = bits(k, l) \cup {k}
      BY SplitBits
    <3>3. bits(k + 1, w) = bits(k, l) \cup {k}
      BY <3>1, <3>2, Zenon
    <3>4. b \in 0..(k - 1) /\ b \notin bits(k, l)
      BY <3>3
    <3>5. l + doubled[b] \in Half(k) /\ bits(k, l + doubled[b]) = bits(k, l) \cup {b}
      BY <2>1, <3>4
    <3>6. /\ doubled[k] + (l + doubled[b]) \in Half(k + 1)
          /\ bits(k + 1, doubled[k] + (l + doubled[b])) = bits(k, l + doubled[b]) \cup {k}
      BY <3>5, SplitBits
    <3>7. w + doubled[b] = doubled[k] + (l + doubled[b])
      BY <2>2, <3>1
    <3>8. bits(k + 1, w) \cup {b} = bits(k, l + doubled[b]) \cup {k}
      BY <3>3, <3>5
    <3> QED BY <3>6, <3>7, <3>8, Zenon
  <2> QED BY <2>3, <2>4, <2>5
<1> HIDE DEF S
<1>3. \A k \in Nat : k \in S
  BY <1>1, <1>2, Induction
<1> QED BY <1>3 DEF S

(* Zero is the only number without a bit.                                  *)
LEMMA NotZero == \A k \in Nat : \A n \in Half(k) : n = 0 <=> bits(k, n) = {}
BY Zero, OneNumber DEF SameBits

OnlyOne(k) ==
  \A n \in Half(k) :
    n > 0 => (bits(k, n) \cap bits(k, n - 1) = {} <=> \E b : bits(k, n) = {b})

(* A number that is not zero shares no bit with the one before it exactly  *)
(* if it has only one: the test for a power of two.                        *)
LEMMA OnePower == \A k \in Nat : OnlyOne(k)
<1> DEFINE Apart(k, n) == bits(k, n) \cap bits(k, n - 1) = {}
<1> DEFINE Single(k, n) == \E b : bits(k, n) = {b}
<1> DEFINE S == {k \in Nat : OnlyOne(k)}
<1>1. 0 \in S
  <2>1. \A n \in Half(0) : ~(n > 0)
    BY Doubled DEF Half
  <2> HIDE DEF S
  <2>2. OnlyOne(0)
    BY <2>1 DEF OnlyOne
  <2> QED BY <2>2 DEF S
<1>2. ASSUME NEW k \in Nat, k \in S PROVE k + 1 \in S
  <2> SUFFICES OnlyOne(k + 1)
    OBVIOUS
  <2> SUFFICES ASSUME NEW n \in Half(k + 1), n > 0
               PROVE  Apart(k + 1, n) <=> Single(k + 1, n)
    BY Zenon DEF OnlyOne
  <2>1. doubled[k] \in Nat /\ doubled[k] > 0 /\ Half(k) \subseteq Nat
    BY Doubled DEF Half
  <2>2. \A l \in Half(k) : l > 0 => l - 1 \in Half(k)
    BY <2>1 DEF Half
  <2>3. CASE n \in Half(k)
    <3>1. bits(k + 1, n) = bits(k, n) /\ bits(k + 1, n - 1) = bits(k, n - 1)
      BY <2>2, <2>3, SplitBits
    <3>2. Apart(k, n) <=> Single(k, n)
      BY <1>2, <2>3 DEF OnlyOne
    <3> QED BY <3>1, <3>2
  <2>4. CASE n \notin Half(k)
    <3>1. PICK l \in Half(k) : n = doubled[k] + l
      BY <2>4, SplitBits
    <3>2. bits(k + 1, doubled[k] + l) = bits(k, l) \cup {k}
      BY SplitBits
    <3>3. bits(k + 1, n) = bits(k, l) \cup {k} /\ k \notin bits(k, l)
      BY <3>1, <3>2, BitsBelow, Zenon
    <3>4. CASE l = 0
      <4>1. n - 1 = doubled[k] - 1 /\ doubled[k] - 1 \in Half(k)
        BY <2>1, <3>1, <3>4 DEF Half
      <4>2. bits(k + 1, n - 1) = bits(k, n - 1) /\ k \notin bits(k, n - 1)
        BY <4>1, SplitBits, BitsBelow
      <4>3. bits(k + 1, n) = {k}
        BY <3>3, <3>4, Zero
      <4> QED BY <4>2, <4>3
    <3>5. CASE l # 0
      <4>1. n - 1 = doubled[k] + (l - 1) /\ l - 1 \in Half(k)
        BY <2>1, <2>2, <3>1, <3>5
      <4>2. bits(k + 1, doubled[k] + (l - 1)) = bits(k, l - 1) \cup {k}
        BY <4>1, SplitBits
      <4>3. k \in bits(k + 1, n - 1)
        BY <4>1, <4>2, Zenon
      <4>4. bits(k, l) # {}
        BY <3>5, NotZero
      <4> QED BY <3>3, <4>3, <4>4
    <3> QED BY <3>4, <3>5
  <2> QED BY <2>3, <2>4
<1> HIDE DEF S
<1>3. \A k \in Nat : k \in S
  BY <1>1, <1>2, Induction
<1> QED BY <1>3 DEF S

-----------------------------------------------------------------------------
(* Words and the sets of their bits.                                       *)
LEMMA WordBits ==
  /\ Word = Half(Width) /\ WordBit = 0..(Width - 1)
  /\ Word \subseteq Nat
  /\ \A w \in Word : BitsOf[w] = bits(Width, w) /\ BitsOf[w] \in SUBSET WordBit
<1>1. Word = Half(Width) /\ WordBit = 0..(Width - 1)
  BY DEF Word, WordBit, Half
<1>2. \A w \in Word : BitsOf[w] = {b \in WordBit : (w \div doubled[b]) % 2 = 1}
  BY DEF BitsOf
<1>3. \A w \in Word : BitsOf[w] = bits(Width, w)
  BY <1>1, <1>2 DEF bits, bit
<1>4. Word \subseteq Nat
  BY WidthAssumption, Doubled DEF Word
<1> QED BY <1>1, <1>3, <1>4, BitsBelow, WidthAssumption

(* A set of bits is one word.                                              *)
LEMMA WordOfBits ==
  /\ \A v, w \in Word : BitsOf[v] = BitsOf[w] => v = w
  /\ \A B \in SUBSET WordBit : WordOf[B] \in Word /\ BitsOf[WordOf[B]] = B
<1>1. \A v, w \in Word : BitsOf[v] = BitsOf[w] => v = w
  BY WordBits, OneNumber, WidthAssumption DEF SameBits
<1>2. ASSUME NEW B \in SUBSET WordBit PROVE WordOf[B] \in Word /\ BitsOf[WordOf[B]] = B
  <2>1. PICK w \in Half(Width) : bits(Width, w) = B
    BY WordBits, OneNumber, WidthAssumption DEF AllBits
  <2>2. \E v \in Word : BitsOf[v] = B
    BY <2>1, WordBits
  <2>3. WordOf[B] = CHOOSE v \in Word : BitsOf[v] = B
    BY DEF WordOf
  <2> QED BY <2>2, <2>3
<1> QED BY <1>1, <1>2

(* & and | on the bits; zero has none.                                     *)
LEMMA Masks ==
  /\ 0 \in Word /\ BitsOf[0] = {}
  /\ \A x, y \in Word :
       /\ And(x, y) \in Word /\ BitsOf[And(x, y)] = BitsOf[x] \cap BitsOf[y]
       /\ Or(x, y) \in Word /\ BitsOf[Or(x, y)] = BitsOf[x] \cup BitsOf[y]
       /\ And(x, y) = 0 <=> BitsOf[x] \cap BitsOf[y] = {}
       /\ And(x, y) = y <=> BitsOf[x] \cap BitsOf[y] = BitsOf[y]
<1>1. 0 \in Word /\ BitsOf[0] = {}
  BY WordBits, Zero, WidthAssumption
<1>2. ASSUME NEW x \in Word, NEW y \in Word
      PROVE  /\ And(x, y) \in Word /\ BitsOf[And(x, y)] = BitsOf[x] \cap BitsOf[y]
             /\ Or(x, y) \in Word /\ BitsOf[Or(x, y)] = BitsOf[x] \cup BitsOf[y]
             /\ And(x, y) = 0 <=> BitsOf[x] \cap BitsOf[y] = {}
             /\ And(x, y) = y <=> BitsOf[x] \cap BitsOf[y] = BitsOf[y]
  <2>1. BitsOf[x] \cap BitsOf[y] \in SUBSET WordBit /\ BitsOf[x] \cup BitsOf[y] \in SUBSET WordBit
    BY WordBits
  <2>2. /\ And(x, y) \in Word /\ BitsOf[And(x, y)] = BitsOf[x] \cap BitsOf[y]
        /\ Or(x, y) \in Word /\ BitsOf[Or(x, y)] = BitsOf[x] \cup BitsOf[y]
    BY <2>1, WordOfBits DEF And, Or
  <2>3. And(x, y) = 0 <=> BitsOf[And(x, y)] = BitsOf[0]
    BY <1>1, <2>2, WordOfBits
  <2>4. And(x, y) = y <=> BitsOf[And(x, y)] = BitsOf[y]
    BY <2>2, WordOfBits
  <2> QED BY <1>1, <2>2, <2>3, <2>4
<1> QED BY <1>1, <1>2

(* The word of one bit, and what adding it does.                           *)
LEMMA AddedBit ==
  /\ \A w \in Word, b \in WordBit : b \notin BitsOf[w] =>
       w + doubled[b] \in Word /\ BitsOf[w + doubled[b]] = BitsOf[w] \cup {b}
  /\ \A b \in WordBit : doubled[b] \in Word /\ BitsOf[doubled[b]] = {b}
<1>1. \A w \in Word, b \in WordBit : b \notin BitsOf[w] =>
        w + doubled[b] \in Word /\ BitsOf[w + doubled[b]] = BitsOf[w] \cup {b}
  BY WordBits, AddBit, WidthAssumption
<1>2. ASSUME NEW b \in WordBit PROVE doubled[b] \in Word /\ BitsOf[doubled[b]] = {b}
  <2>1. 0 + doubled[b] \in Word /\ BitsOf[0 + doubled[b]] = {b}
    BY <1>1, Masks
  <2>2. 0 + doubled[b] = doubled[b]
    BY Doubled, WidthAssumption DEF WordBit
  <2> QED BY <2>1, <2>2, Zenon
<1> QED BY <1>1, <1>2

(* The subtraction wraps for zero alone.                                   *)
LEMMA MinusOne == \A n \in Word : n > 0 => minusOne(n) = n - 1 /\ n - 1 \in Word
<1>1. doubled[Width] \in Nat
  BY Doubled, WidthAssumption
<1> QED BY <1>1 DEF minusOne, Word

-----------------------------------------------------------------------------
(* `bitflip' on every word: the mask, the subtraction and the comparison   *)
(* with zero accept the single bits that are not set.                      *)
LEMMA BitflipWords == \A word \in Word : bitflipIsOnSets(word)
<1> SUFFICES ASSUME NEW word \in Word, NEW n \in Word
             PROVE  /\ bitflip(word, n) <=> bitflipAccepts(BitsOf[word], BitsOf[n])
                    /\ bitflip(word, n) => BitsOf[Or(word, n)] = bitflipStored(BitsOf[word], BitsOf[n])
  BY DEF bitflipIsOnSets
<1>1. n \in Nat /\ (n = 0 <=> BitsOf[n] = {})
  BY WordBits, NotZero, WidthAssumption
<1>2. ASSUME n > 0
      PROVE  And(n, minusOne(n)) = 0 <=> \A b, c \in BitsOf[n] : b = c
  <2>1. And(n, minusOne(n)) = 0 <=> BitsOf[n] \cap BitsOf[n - 1] = {}
    BY <1>2, MinusOne, Masks
  <2>2. BitsOf[n] \cap BitsOf[n - 1] = {} <=> \E b : BitsOf[n] = {b}
    <3>1. BitsOf[n] = bits(Width, n) /\ BitsOf[n - 1] = bits(Width, n - 1)
      BY <1>2, MinusOne, WordBits
    <3>2. bits(Width, n) \cap bits(Width, n - 1) = {} <=> \E b : bits(Width, n) = {b}
      <4>1. n \in Half(Width) /\ Width \in Nat
        BY WordBits, WidthAssumption
      <4> QED BY <1>2, <4>1, OnePower, Zenon DEF OnlyOne
    <3> QED BY <3>1, <3>2
  <2>3. BitsOf[n] # {}
    BY <1>1, <1>2
  <2> QED BY <2>1, <2>2, <2>3
<1>3. And(word, n) = 0 <=> BitsOf[word] \cap BitsOf[n] = {}
  BY Masks
<1>4. BitsOf[Or(word, n)] = BitsOf[word] \cup BitsOf[n]
  BY Masks
<1> QED BY <1>1, <1>2, <1>3, <1>4 DEF bitflip, bitflipAccepts, bitflipStored

(* findEmptyBit and flipBit on every word.                                 *)
LEMMA SearchWords == \A word \in Word : searchIsOnSets(word)
<1> SUFFICES ASSUME NEW word \in Word PROVE searchIsOnSets(word)
  OBVIOUS
<1> DEFINE empty == {i \in WordBit : And(word, doubled[i]) = 0}
<1>1. empty = WordBit \ BitsOf[word]
  <2>1. \A i \in WordBit : And(word, doubled[i]) = 0 <=> BitsOf[word] \cap {i} = {}
    <3>1. \A i \in WordBit : doubled[i] \in Word /\ BitsOf[doubled[i]] = {i}
      BY AddedBit
    <3>2. \A n \in Word : And(word, n) = 0 <=> BitsOf[word] \cap BitsOf[n] = {}
      BY Masks
    <3> QED BY <3>1, <3>2, Zenon
  <2> QED BY <2>1
<1>2. empty \in SUBSET Nat /\ BitsOf[word] \subseteq WordBit
  BY WidthAssumption, WordBits DEF WordBit
<1>3. CASE empty = {}
  <2>1. emptyBit(word) = -1
    BY <1>3 DEF emptyBit
  <2>2. BitsOf[word] = WordBit
    BY <1>1, <1>2, <1>3
  <2> QED BY <2>1, <2>2 DEF searchIsOnSets
<1>4. CASE empty # {}
  <2> DEFINE b == emptyBit(word)
  <2>1. b = CHOOSE i \in empty : \A j \in empty : i <= j
    BY <1>4 DEF emptyBit
  <2>2. \E i \in empty : \A j \in empty : i <= j
    BY <1>2, <1>4, Least
  <2>3. b \in empty /\ \A j \in empty : b <= j
    BY <2>1, <2>2
  <2> HIDE DEF b
  <2>4. b \in Nat /\ b # -1 /\ b \in WordBit /\ b \notin BitsOf[word]
    BY <1>1, <1>2, <2>3
  <2>5. 0..(b - 1) \subseteq BitsOf[word]
    BY <1>1, <2>3, <2>4, WidthAssumption DEF WordBit
  <2>6. flipBit(word, b) \in Word /\ BitsOf[flipBit(word, b)] = BitsOf[word] \cup {b}
    BY <2>4, AddedBit DEF flipBit
  <2>7. flipBit(0, b) \in Word /\ BitsOf[flipBit(0, b)] = {b}
    BY <2>4, AddedBit, Masks DEF flipBit
  <2>8. bitflipAccepts(BitsOf[word], BitsOf[flipBit(0, b)])
    BY <2>4, <2>7 DEF bitflipAccepts
  <2>9. bitflip(word, flipBit(0, b))
    BY <2>7, <2>8, BitflipWords DEF bitflipIsOnSets
  <2> QED BY <2>4, <2>5, <2>6, <2>9 DEF searchIsOnSets, b
<1> QED BY <1>3, <1>4

-----------------------------------------------------------------------------
(* On every bitmap the chain can hold, for words of any width, `bitflip'   *)
(* accepts and stores what ReplayRules says of sets of bits: zero, several *)
(* bits and set bits are refused, the highest bit is a bit like any other. *)
THEOREM BitflipMasks == Spec => []BitflipIsOnSets
<1>1. TypeOK => BitflipIsOnSets
  BY SameWidthAssumption, BoundsAssumption, WordOfBits, BitflipWords
     DEF BitflipIsOnSets, TypeOK, Bit, WordBit
<1> QED BY <1>1, TypeCorrect, PTL

(* In every bitmap the client can remember, findEmptyBit finds the lowest  *)
(* empty bit or tells that there is none, and flipBit, which adds, sets    *)
(* that bit and no other and never leaves the word.                        *)
THEOREM SearchAdds == Spec => []SearchIsOnSets
<1>1. TypeOK => SearchIsOnSets
  BY SameWidthAssumption, WordOfBits, SearchWords DEF SearchIsOnSets, TypeOK, Bit, WordBit
<1> QED BY <1>1, TypeCorrect, PTL

(* The bit the client finds in a set is the one it finds in the word.      *)
LEMMA SameEmptyBit ==
  ASSUME NEW bitmap \in SUBSET Bit
  PROVE  /\ WordOf[bitmap] \in Word /\ BitsOf[WordOf[bitmap]] = bitmap
         /\ IsFull(bitmap) => emptyBit(WordOf[bitmap]) = -1
         /\ ~IsFull(bitmap) => /\ emptyBit(WordOf[bitmap]) = findEmptyBit(bitmap)
                               /\ findEmptyBit(bitmap) \in Bit \ bitmap
<1> DEFINE word == WordOf[bitmap]
<1> DEFINE b == emptyBit(word)
<1>1. word \in Word /\ BitsOf[word] = bitmap /\ Bit = WordBit /\ Bit \subseteq Nat
  BY SameWidthAssumption, BoundsAssumption, WordOfBits DEF Bit, WordBit
<1> HIDE DEF word
<1>2. IF b = -1 THEN bitmap = Bit ELSE b \notin bitmap /\ 0..(b - 1) \subseteq bitmap
  BY <1>1, SearchWords DEF searchIsOnSets
<1>3. b = -1 \/ b \in Bit
  <2> DEFINE empty == {i \in WordBit : And(word, doubled[i]) = 0}
  <2>1. empty \in SUBSET Nat /\ empty \subseteq Bit
    BY <1>1
  <2>2. b = IF empty = {} THEN -1 ELSE CHOOSE i \in empty : \A j \in empty : i <= j
    BY DEF emptyBit
  <2> HIDE DEF b, empty
  <2>3. empty # {} => \E i \in empty : \A j \in empty : i <= j
    BY <2>1, Least
  <2> QED BY <2>1, <2>2, <2>3
<1> HIDE DEF b
<1>4. ASSUME ~IsFull(bitmap) PROVE b = findEmptyBit(bitmap)
  <2>1. b \in Bit \ bitmap
    BY <1>2, <1>3, <1>4 DEF IsFull
  <2>2. \A c \in Bit \ bitmap : b <= c
    BY <1>1, <1>2, <2>1
  <2>3. \A c \in Bit \ bitmap : (\A d \in Bit \ bitmap : c <= d) => c = b
    BY <1>1, <2>1, <2>2
  <2>4. \E c \in Bit : c \notin bitmap /\ \A d \in Bit \ bitmap : c <= d
    BY <2>1, <2>2
  <2> QED BY <2>3, <2>4 DEF findEmptyBit
<1>5. IsFull(bitmap) => b = -1
  BY <1>2, <1>3 DEF IsFull
<1> QED BY <1>1, <1>4, <1>5, EmptyBit DEF b, word

(* What a step on sets does is what the code does on words: the chain      *)
(* stores a | of a word that `bitflip' accepts, which is the bit that a    *)
(* request was given; a request is given the empty bit that is found in    *)
(* the bitmap it looks at, which is then remembered with that bit added;   *)
(* it looks at the next bitmap only if no empty bit is found.              *)
LooksAt(r) == WordOf[IF pc[r] = "acquire" THEN mBitmap ELSE answer[r]]

OnWords ==
  /\ \A i \in Index : onchain'[i] # onchain[i] =>
       \E r \in Request :
         LET flipped == flipBit(0, got[r].bit)
         IN /\ got[r].index = i
            /\ bitflip(WordOf[onchain[i]], flipped)
            /\ WordOf[onchain'[i]] = Or(WordOf[onchain[i]], flipped)
  /\ \A r \in Request : got'[r] # got[r] =>
       LET found == emptyBit(LooksAt(r))
       IN /\ found # -1
          /\ got'[r] = [index |-> mIndex, bit |-> found]
          /\ WordOf[mBitmap'] = flipBit(LooksAt(r), found)
  /\ \A r \in Request : tries'[r] # tries[r] => emptyBit(LooksAt(r)) = -1

(* A word is known by its bits.                                            *)
LEMMA WordOfItsBits == \A w \in Word : WordOf[BitsOf[w]] = w
BY WordBits, WordOfBits

(* One round of the search.                                                *)
LEMMA TakeOnWords ==
  ASSUME IInv, NEW r \in Request, NEW bitmap \in SUBSET Bit, searchBitmaps(r, bitmap),
         WordOf[bitmap] = LooksAt(r)
  PROVE  /\ \A s \in Request : s # r => got'[s] = got[s] /\ tries'[s] = tries[s]
         /\ got'[r] # got[r] =>
              LET found == emptyBit(LooksAt(r))
              IN /\ found # -1
                 /\ got'[r] = [index |-> mIndex, bit |-> found]
                 /\ WordOf[mBitmap'] = flipBit(LooksAt(r), found)
         /\ tries'[r] # tries[r] => emptyBit(LooksAt(r)) = -1
<1>1. got \in [Request -> {Unknown} \cup Flip] /\ tries \in [Request -> 0..Limit]
  BY DEF IInv, TypeOK
<1>2. CASE IsFull(bitmap)
  BY <1>1, <1>2, SameEmptyBit DEF searchBitmaps, nextBitmap
<1>3. CASE ~IsFull(bitmap)
  <2> DEFINE b == findEmptyBit(bitmap)
  <2> DEFINE word == WordOf[bitmap]
  <2>1. /\ b \in Bit \ bitmap /\ emptyBit(word) = b
        /\ word \in Word /\ BitsOf[word] = bitmap
    BY <1>3, SameEmptyBit
  <2>2. b \in WordBit /\ b # -1
    BY <2>1, SameWidthAssumption, BoundsAssumption DEF Bit, WordBit
  <2>3. /\ got' = [got EXCEPT ![r] = [index |-> mIndex, bit |-> b]]
        /\ mBitmap' = bitmap \cup {b} /\ tries' = tries
    BY <1>3 DEF searchBitmaps, takeBit
  <2> HIDE DEF b, word
  <2>4. flipBit(word, b) \in Word /\ BitsOf[flipBit(word, b)] = bitmap \cup {b}
    BY <2>1, <2>2, AddedBit DEF flipBit
  <2>5. WordOf[mBitmap'] = flipBit(word, b)
    BY <2>3, <2>4, WordOfItsBits
  <2>6. LooksAt(r) = word
    BY DEF word
  <2> QED BY <1>1, <2>1, <2>2, <2>3, <2>5, <2>6
<1> QED BY <1>2, <1>3

(* Every step keeps to it: the words of the code are those of the sets.    *)
THEOREM StepsOnWords == Spec => [][OnWords]_vars
<1>1. ASSUME IInv, Next PROVE OnWords
  <2>1. /\ onchain \in [Index -> SUBSET Bit] /\ got \in [Request -> {Unknown} \cup Flip]
        /\ tries \in [Request -> 0..Limit] /\ answer \in [Request -> SUBSET Bit]
        /\ pc \in [Request -> Place]
    BY <1>1 DEF IInv, TypeOK
  <2>2. ASSUME NEW r \in Request, Acquire(r) PROVE OnWords
    <3>1. CASE mIndex = Unknown \/ mBitmap = Unknown
      BY <2>2, <3>1 DEF Acquire, OnWords, chain
    <3>2. CASE ~(mIndex = Unknown \/ mBitmap = Unknown)
      <4>1. mBitmap \in SUBSET Bit /\ searchBitmaps(r, mBitmap) /\ WordOf[mBitmap] = LooksAt(r)
        BY <1>1, <2>2, <3>2 DEF IInv, TypeOK, Acquire, LooksAt
      <4>2. onchain' = onchain
        BY <2>2 DEF Acquire, chain
      <4> QED BY <1>1, <4>1, <4>2, TakeOnWords DEF OnWords
    <3> QED BY <3>1, <3>2
  <2>3. ASSUME NEW r \in Request, UseAnswer(r) PROVE OnWords
    <3>1. CASE tries[r] < Limit
      <4>1. answer[r] \in SUBSET Bit /\ searchBitmaps(r, answer[r]) /\ WordOf[answer[r]] = LooksAt(r)
        BY <2>1, <2>3, <3>1 DEF UseAnswer, LooksAt
      <4>2. onchain' = onchain
        BY <2>3 DEF UseAnswer, chain
      <4> QED BY <1>1, <4>1, <4>2, TakeOnWords DEF OnWords
    <3>2. CASE ~(tries[r] < Limit)
      BY <2>3, <3>2 DEF UseAnswer, OnWords, chain
    <3> QED BY <3>1, <3>2
  <2>4. ASSUME NEW r \in Request, Mine(r) PROVE OnWords
    <3> DEFINE i == got[r].index
    <3> DEFINE b == got[r].bit
    <3> DEFINE word == WordOf[onchain[i]]
    <3>1. i \in Index /\ b \in WordBit /\ onchain[i] \in SUBSET Bit
      BY <1>1, <2>1, <2>4, Known, SameWidthAssumption
         DEF IInv, Order, Waiting, Has, Mine, Flip, Bit, WordBit
    <3>2. onchain' = [onchain EXCEPT ![i] = @ \cup {b}] /\ bitflipAccepts(onchain[i], {b})
      BY <2>4 DEF Mine, bitflipStored
    <3>3. got' = got /\ tries' = tries
      BY <2>4 DEF Mine
    <3> HIDE DEF i, b
    <3>4. word \in Word /\ BitsOf[word] = onchain[i]
      BY <3>1, SameEmptyBit
    <3> HIDE DEF word
    <3>5. flipBit(0, b) \in Word /\ BitsOf[flipBit(0, b)] = {b}
      BY <3>1, AddedBit, Masks DEF flipBit
    <3>6. bitflip(word, flipBit(0, b))
      BY <3>2, <3>4, <3>5, BitflipWords DEF bitflipIsOnSets
    <3>7. BitsOf[Or(word, flipBit(0, b))] = onchain[i] \cup {b} /\ Or(word, flipBit(0, b)) \in Word
      BY <3>4, <3>5, Masks
    <3>8. WordOf[onchain'[i]] = Or(word, flipBit(0, b))
      BY <2>1, <3>1, <3>2, <3>7, WordOfItsBits
    <3>9. \A j \in Index : onchain'[j] # onchain[j] => j = i
      BY <2>1, <3>2
    <3> QED BY <3>3, <3>6, <3>8, <3>9 DEF OnWords, i, b, word
  <2>5. ASSUME UNCHANGED <<got, tries, onchain>> PROVE OnWords
    BY <2>5 DEF OnWords
  <2> QED
    BY <1>1, <2>2, <2>3, <2>4, <2>5 DEF Next, Step, SignMetaTransaction, GetCode, NodeReads,
       RpcFails, Release, SignMessage, Deploy, chain
<1> QED BY <1>1, Invariance, PTL DEF Spec
=============================================================================

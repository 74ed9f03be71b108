------------------------------ MODULE BitFlip ------------------------------
(***************************************************************************)
(* The client side of the bitmaps: BitFlipReplayProtection, which gives    *)
(* each of many concurrent requests a bit of its own, with the same        *)
(* environment as MultiNonce.  A bitmap is the set of its one bits.        *)
(*                                                                         *)
(* One process runs.  What earlier processes used is in the bitmaps from   *)
(* the start.                                                              *)
(***************************************************************************)
EXTENDS ReplayRules

CONSTANTS
  Request,      \* calls of signMetaTransaction
  BitsPerWord,  \* 256
  Limit,        \* bitmaps one request looks at: 30
  RandomIndex,  \* what Math.random may choose: 0..MAX_SAFE_INTEGER
  MaxIndex,     \* bound: the last bitmap that exists, 2^256 - 1 in the code
  MaxUsed,      \* bound: bitmaps above it are empty at the start
  NoRequest,    \* the lock is free
  Unknown       \* mIndex, mBitmap, a request's bit before they are set

ASSUME BoundsAssumption ==
  /\ BitsPerWord \in Nat \ {0}
  /\ Limit \in Nat \ {0}
  /\ MaxIndex \in Nat /\ MaxUsed \in Nat /\ MaxUsed <= MaxIndex
  /\ RandomIndex \subseteq 0..MaxIndex

ASSUME NoRequestAssumption == NoRequest \notin Request

Index == 0..MaxIndex
Bit   == 0..(BitsPerWord - 1)
Flip  == [index : Index, bit : Bit]

ASSUME UnknownAssumption ==
  /\ Unknown \notin Index
  /\ \A bitmap \in SUBSET Bit : Unknown # bitmap
  /\ \A flip \in Flip : Unknown # flip

VARIABLES
  mIndex,    \* the bitmap in use
  mBitmap,   \* its bits, as far as the process knows
  lock,      \* who is inside getEncodedReplayProtection
  pc,        \* where each request is
  tries,     \* its loop counter in searchBitmaps
  answer,    \* the bitmap the node has read for it
  got,       \* the index and bit a request was given
  deployed,  \* the forwarder has code on the chain
  onchain    \* nonceStore of the signer's bitmaps

memory == <<mIndex, mBitmap>>
chain  == <<deployed, onchain>>
vars   == <<mIndex, mBitmap, lock, pc, tries, answer, got, deployed, onchain>>

Place == {"idle", "acquire", "getCode", "nonceStore", "answered", "encode",
          "sign", "sent", "mined", "failed"}

Goto(r, place) == pc' = [pc EXCEPT ![r] = place]

Init ==
  /\ mIndex = Unknown /\ mBitmap = Unknown
  /\ lock = NoRequest
  /\ pc = [r \in Request |-> "idle"]
  /\ tries = [r \in Request |-> 0]
  /\ answer = [r \in Request |-> {}]
  /\ got = [r \in Request |-> Unknown]
  /\ deployed \in BOOLEAN
  /\ \E used \in [0..MaxUsed -> SUBSET Bit] :
       /\ onchain = [i \in Index |-> IF i <= MaxUsed THEN used[i] ELSE {}]
       /\ ~deployed => \A i \in 0..MaxUsed : used[i] = {}

-----------------------------------------------------------------------------
SignMetaTransaction(r) ==
  /\ pc[r] = "idle"
  /\ Goto(r, "acquire")
  /\ UNCHANGED <<memory, lock, tries, answer, got, chain>>

(* findEmptyBit: the lowest bit that is 0; there is none if it returns -1. *)
IsFull(bitmap) == Bit \subseteq bitmap
findEmptyBit_FromOne(bitmap) ==  \* broken: the lowest bit counts as bit 1
  1 + CHOOSE b \in Bit : b \notin bitmap /\ \A c \in Bit \ bitmap : b <= c
findEmptyBit(bitmap) ==
  CHOOSE b \in Bit : b \notin bitmap /\ \A c \in Bit \ bitmap : b <= c

(* One round of the loop in searchBitmaps, `bitmap' being mBitmap: a bit   *)
(* is found and remembered as flipped, or the next bitmap is asked for.    *)
takeBit_NotKept(r, bitmap) ==  \* broken: the flipped bit is not remembered
  /\ got' = [got EXCEPT ![r] = [index |-> mIndex, bit |-> findEmptyBit(bitmap)]]
  /\ mBitmap' = bitmap
  /\ Goto(r, "encode")
  /\ UNCHANGED <<mIndex, tries>>
takeBit(r, bitmap) ==
  /\ got' = [got EXCEPT ![r] = [index |-> mIndex, bit |-> findEmptyBit(bitmap)]]
  /\ mBitmap' = bitmap \cup {findEmptyBit(bitmap)}
  /\ Goto(r, "encode")
  /\ UNCHANGED <<mIndex, tries>>

nextBitmap(r, bitmap) ==
  /\ mIndex < MaxIndex
  /\ mIndex' = mIndex + 1
  /\ mBitmap' = bitmap
  /\ tries' = [tries EXCEPT ![r] = @ + 1]
  /\ Goto(r, "getCode")
  /\ UNCHANGED got

searchBitmaps(r, bitmap) ==
  IF IsFull(bitmap) THEN nextBitmap(r, bitmap) ELSE takeBit(r, bitmap)

(* lock.acquire() resolves.  While mIndex or mBitmap is not set, a place   *)
(* to begin is drawn at random.                                            *)
Acquire(r) ==
  /\ pc[r] = "acquire"
  /\ lock = NoRequest
  /\ lock' = r
  /\ IF mIndex = Unknown \/ mBitmap = Unknown
     THEN /\ mIndex' \in RandomIndex
          /\ Goto(r, "getCode")
          /\ UNCHANGED <<mBitmap, tries, got>>
     ELSE searchBitmaps(r, mBitmap)
  /\ UNCHANGED <<answer, chain>>

(* accessNonceStore(mIndex): 0 while the forwarder has no code, else what  *)
(* the node reads.                                                         *)
GetCode(r) ==
  /\ pc[r] = "getCode"
  /\ answer' = [answer EXCEPT ![r] = {}]
  /\ Goto(r, IF deployed THEN "nonceStore" ELSE "answered")
  /\ UNCHANGED <<memory, lock, tries, got, chain>>

NodeReads_First(r) ==  \* broken: always the first bitmap is read
  /\ pc[r] = "nonceStore"
  /\ answer' = [answer EXCEPT ![r] = onchain[0]]
  /\ Goto(r, "answered")
  /\ UNCHANGED <<memory, lock, tries, got, chain>>
NodeReads(r) ==
  /\ pc[r] = "nonceStore"
  /\ answer' = [answer EXCEPT ![r] = onchain[mIndex]]
  /\ Goto(r, "answered")
  /\ UNCHANGED <<memory, lock, tries, got, chain>>

(* The answer is assigned to mBitmap and the loop goes on, or has looked   *)
(* at Limit bitmaps: "Failed to find an index with an empty bitmap".       *)
UseAnswer_KeepsLock(r) ==  \* broken: the throw leaves the lock taken
  /\ pc[r] = "answered"
  /\ IF tries[r] < Limit
     THEN searchBitmaps(r, answer[r])
     ELSE /\ mBitmap' = answer[r]
          /\ Goto(r, "failed")
          /\ UNCHANGED <<mIndex, tries, got>>
  /\ UNCHANGED <<lock, answer, chain>>
UseAnswer(r) ==
  /\ pc[r] = "answered"
  /\ IF tries[r] < Limit
     THEN searchBitmaps(r, answer[r]) /\ UNCHANGED lock
     ELSE /\ mBitmap' = answer[r]
          /\ lock' = NoRequest
          /\ Goto(r, "failed")
          /\ UNCHANGED <<mIndex, tries, got>>
  /\ UNCHANGED <<answer, chain>>

(* The provider rejects: mIndex is the new one, mBitmap still the old one. *)
RpcFails(r) ==
  /\ pc[r] \in {"getCode", "nonceStore", "answered"}
  /\ Goto(r, "failed")
  /\ lock' = NoRequest
  /\ UNCHANGED <<memory, tries, answer, got, chain>>

Release(r) ==
  /\ pc[r] = "encode"
  /\ Goto(r, "sign")
  /\ lock' = NoRequest
  /\ UNCHANGED <<memory, tries, answer, got, chain>>

SignMessage(r) ==
  /\ pc[r] = "sign"
  /\ \E place \in {"sent", "failed"} : Goto(r, place)
  /\ UNCHANGED <<memory, lock, tries, answer, got, chain>>

-----------------------------------------------------------------------------
(* The relayer submits what it was given until the forwarder accepts it.   *)
Mine(r) ==
  /\ pc[r] = "sent"
  /\ deployed
  /\ bitflipAccepts(onchain[got[r].index], {got[r].bit})
  /\ onchain' = [onchain EXCEPT ![got[r].index] = bitflipStored(@, {got[r].bit})]
  /\ Goto(r, "mined")
  /\ UNCHANGED <<memory, lock, tries, answer, got, deployed>>

Deploy ==
  /\ ~deployed
  /\ deployed' = TRUE
  /\ UNCHANGED <<memory, lock, pc, tries, answer, got, onchain>>

Step(r) ==
  \/ Acquire(r) \/ GetCode(r) \/ NodeReads(r) \/ UseAnswer(r)
  \/ RpcFails(r) \/ Release(r) \/ SignMessage(r)

Next ==
  \/ \E r \in Request : SignMetaTransaction(r) \/ Step(r) \/ Mine(r)
  \/ Deploy

(* As in MultiNonce: the event loop runs what is ready, the node and the   *)
(* signer answer, the relayer keeps submitting, a wallet is deployed.      *)
Fairness ==
  /\ \A r \in Request : WF_vars(Step(r)) /\ WF_vars(Mine(r))
  /\ WF_vars(Deploy)

Spec == Init /\ [][Next]_vars /\ Fairness

-----------------------------------------------------------------------------
(* Types of the process's memory and of the bitmaps on the chain.          *)
TypeOK ==
  /\ mIndex \in {Unknown} \cup Index
  /\ mBitmap \in {Unknown} \cup SUBSET Bit
  /\ lock \in Request \cup {NoRequest}
  /\ pc \in [Request -> Place]
  /\ tries \in [Request -> 0..Limit]
  /\ answer \in [Request -> SUBSET Bit]
  /\ got \in [Request -> {Unknown} \cup Flip]
  /\ deployed \in BOOLEAN
  /\ onchain \in [Index -> SUBSET Bit]

(* searchBitmaps gives no two requests the same bit of a bitmap.           *)
BitsUnique ==
  \A r, s \in Request : r # s /\ got[r] # Unknown => got[r] # got[s]

(* What was signed can be accepted at once, in any order: the bit a        *)
(* request holds is not set on the chain until it is mined itself.         *)
AcceptedInAnyOrder ==
  \A r \in Request : pc[r] \in {"encode", "sign", "sent"} =>
    bitflipAccepts(onchain[got[r].index], {got[r].bit})

(* Between requests, mBitmap either tells every bit of mIndex that is      *)
(* taken, on the chain or by a request, or is full, the bitmap of an       *)
(* earlier index that a rejected read left behind: then no bit is taken   *)
(* from it.                                                                *)
Taken(i) ==
  onchain[i] \cup {got[r].bit : r \in {s \in Request : got[s] # Unknown /\ got[s].index = i}}
MemoryIsSafe ==
  lock = NoRequest /\ mIndex # Unknown /\ mBitmap # Unknown =>
    IsFull(mBitmap) \/ Taken(mIndex) \subseteq mBitmap

(* Every request gets a bit and a signature, or an error, the search being *)
(* bounded and the lock passed on; what is signed is mined at last.        *)
Settles ==
  \A r \in Request :
    pc[r] = "acquire" ~> pc[r] \in {"mined", "failed"}
=============================================================================

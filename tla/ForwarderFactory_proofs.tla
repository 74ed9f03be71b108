----------------------- MODULE ForwarderFactory_proofs -----------------------
(***************************************************************************)
(* Proofs about ForwarderFactory, for any number of callers, chains,       *)
(* signers and kinds of forwarder.                                         *)
(***************************************************************************)
EXTENDS ForwarderFactory, TLAPS

TypeOK ==
  /\ pc \in [Caller -> Place]
  /\ asked \in [Caller -> Request]
  /\ held \in [Caller -> Forwarder \cup {None}]
  /\ cache \in [CacheId -> Forwarder \cup {None}]
  /\ built \subseteq Forwarder
  /\ count \in [Forwarder -> Nat]
  /\ signed \in [Caller -> Nat]

(* What a call returned is in the cache and stays there.                   *)
ReturnedIsCached ==
  \A c \in Caller : Done(c) => Cached(c) /\ held[c] = cache[IdOf(c)]

BuiltWhenSet == \A c \in Caller : pc[c] = "set" => held[c] = c /\ c \in built

CacheIsBuilt ==
  \A id \in CacheId : cache[id] # None => cache[id] \in built /\ IdOf(cache[id]) = id

(* Of one forwarder, the numbers that were signed are distinct and no      *)
(* greater than its count.                                                 *)
SignedCounted ==
  /\ \A c \in Caller : pc[c] = "signed" => signed[c] <= count[held[c]]
  /\ \A c, d \in Caller :
       c # d /\ pc[c] = "signed" /\ pc[d] = "signed" /\ held[c] = held[d]
       => signed[c] # signed[d]

IInv == TypeOK /\ ReturnedIsCached /\ BuiltWhenSet /\ CacheIsBuilt /\ SignedCounted

-----------------------------------------------------------------------------
(* The id of a call is an id of the cache.                                 *)
LEMMA IdType == asked \in [Caller -> Request] => \A c \in Caller : IdOf(c) \in CacheId
BY DEF IdOf, CacheId

(* The invariant holds when no call has begun.                             *)
LEMMA InitIInv == Init => IInv
BY NoneAssumption DEF Init, IInv, TypeOK, ReturnedIsCached, BuiltWhenSet, CacheIsBuilt,
     SignedCounted, Place, Forwarder, Done

(* A forwarder in the cache is never replaced, whatever order calls set it *)
(* in: the second check in create.                                         *)
LEMMA SetCacheInv ==
  ASSUME IInv, NEW c \in Caller, SetCache(c)
  PROVE  IInv'
<1> DEFINE id == IdOf(c)
<1>1. id \in CacheId /\ \A d \in Caller : IdOf(d) \in CacheId /\ IdOf(d)' = IdOf(d)
  BY IdType DEF IInv, TypeOK, SetCache, IdOf
<1>2. c # None /\ held[c] = c /\ c \in built /\ pc[c] = "set"
  BY NoneAssumption DEF IInv, BuiltWhenSet, SetCache
<1>3. /\ cache' \in [CacheId -> Forwarder \cup {None}]
      /\ cache'[id] # None
      /\ \A i \in CacheId : cache'[i] = IF i = id /\ cache[i] = None THEN c ELSE cache[i]
  <2>1. CASE Cached(c)
    BY <1>1, <1>2, <2>1 DEF SetCache, Cached, IInv, TypeOK
  <2>2. CASE ~Cached(c)
    BY <1>1, <1>2, <2>2 DEF SetCache, Cached, IInv, TypeOK, Forwarder
  <2> QED BY <2>1, <2>2
<1>4. /\ \A d \in Caller : held'[d] = IF d = c THEN cache'[id] ELSE held[d]
      /\ \A d \in Caller : pc'[d] = IF d = c THEN "returned" ELSE pc[d]
      /\ held' \in [Caller -> Forwarder \cup {None}]
      /\ pc' \in [Caller -> Place]
  BY <1>1, <1>3 DEF SetCache, Goto, IInv, TypeOK, Place
<1>5. TypeOK'
  BY <1>3, <1>4 DEF IInv, TypeOK, SetCache
<1>6. ReturnedIsCached'
  BY <1>1, <1>3, <1>4 DEF IInv, ReturnedIsCached, Done, Cached
<1>7. BuiltWhenSet'
  BY <1>4 DEF IInv, BuiltWhenSet, SetCache
<1>8. CacheIsBuilt'
  <2> SUFFICES ASSUME NEW i \in CacheId, cache'[i] # None
               PROVE  cache'[i] \in built /\ IdOf(cache'[i]) = i
    BY <1>1, <1>3 DEF CacheIsBuilt, SetCache, IdOf, CacheId, IInv, TypeOK
  <2> QED BY <1>2, <1>3 DEF IInv, CacheIsBuilt
<1>9. SignedCounted'
  BY <1>4 DEF IInv, SignedCounted, SetCache
<1> QED BY <1>5, <1>6, <1>7, <1>8, <1>9 DEF IInv

(* The number a caller signs with is new to the forwarder it signs with.   *)
LEMMA SignInv ==
  ASSUME IInv, NEW c \in Caller, SignMetaTransaction(c)
  PROVE  IInv'
<1> DEFINE f == held[c]
<1>1. f \in Forwarder /\ pc[c] = "returned"
  BY IdType, NoneAssumption
  DEF IInv, TypeOK, ReturnedIsCached, Done, Cached, SignMetaTransaction
<1>2. /\ \A g \in Forwarder : count'[g] = IF g = f THEN count[g] + 1 ELSE count[g]
      /\ count' \in [Forwarder -> Nat]
      /\ \A d \in Caller : signed'[d] = IF d = c THEN count[f] + 1 ELSE signed[d]
      /\ signed' \in [Caller -> Nat]
      /\ \A d \in Caller : pc'[d] = IF d = c THEN "signed" ELSE pc[d]
      /\ pc' \in [Caller -> Place]
  BY <1>1 DEF SignMetaTransaction, Goto, IInv, TypeOK, Place
<1>3. TypeOK'
  BY <1>2 DEF IInv, TypeOK, SignMetaTransaction
<1>4. ReturnedIsCached' /\ BuiltWhenSet' /\ CacheIsBuilt'
  BY <1>1, <1>2 DEF IInv, ReturnedIsCached, BuiltWhenSet, CacheIsBuilt, Done, Cached, IdOf,
     SignMetaTransaction
<1>5. \A d \in Caller : pc[d] = "signed" => held[d] \in Forwarder /\ signed[d] <= count[held[d]]
  BY IdType, NoneAssumption
  DEF IInv, TypeOK, ReturnedIsCached, SignedCounted, Done, Cached
<1>6. SignedCounted'
  <2>1. ASSUME NEW d \in Caller, pc'[d] = "signed"
        PROVE  signed'[d] <= count'[held[d]]
    BY <1>1, <1>2, <1>5, <2>1 DEF IInv, TypeOK
  <2>2. ASSUME NEW d \in Caller, NEW e \in Caller, d # e,
               pc'[d] = "signed", pc'[e] = "signed", held[d] = held[e]
        PROVE  signed'[d] # signed'[e]
    BY <1>1, <1>2, <1>5, <2>2 DEF IInv, TypeOK, SignedCounted
  <2> QED BY <2>1, <2>2 DEF SignedCounted, SignMetaTransaction
<1> QED BY <1>3, <1>4, <1>6 DEF IInv

(* Every step of every call keeps the invariant.                           *)
LEMMA NextIInv == IInv /\ [Next]_vars => IInv'
<1> SUFFICES ASSUME IInv, [Next]_vars PROVE IInv'
  OBVIOUS
<1>1. ASSUME NEW c \in Caller, GetAddress(c) PROVE IInv'
  <2>1. IdOf(c) \in CacheId
    BY IdType DEF IInv, TypeOK
  <2>2. CASE Cached(c)
    <3>1. /\ pc' = [pc EXCEPT ![c] = "returned"]
          /\ held' = [held EXCEPT ![c] = cache[IdOf(c)]]
          /\ pc[c] = "getAddress"
          /\ UNCHANGED <<asked, cache, built, count, signed>>
      BY <1>1, <2>2 DEF GetAddress, Goto
    <3>2. TypeOK'
      BY <2>1, <3>1 DEF IInv, TypeOK, Place
    <3> QED
      BY <2>2, <3>1, <3>2 DEF IInv, TypeOK, ReturnedIsCached, BuiltWhenSet, CacheIsBuilt,
         SignedCounted, Done, Cached, IdOf
  <2>3. CASE ~Cached(c)
    BY <1>1, <2>3 DEF GetAddress, Goto, Place, IInv, TypeOK, ReturnedIsCached,
       BuiltWhenSet, CacheIsBuilt, SignedCounted, Done, Cached, IdOf
  <2> QED BY <2>2, <2>3
<1>2. ASSUME NEW c \in Caller, CreateNew(c) PROVE IInv'
  BY <1>2 DEF CreateNew, Goto, Place, Forwarder, IInv, TypeOK, ReturnedIsCached,
     BuiltWhenSet, CacheIsBuilt, SignedCounted, Done, Cached, IdOf
<1>3. ASSUME NEW c \in Caller, GetAddressFails(c) PROVE IInv'
  BY <1>3 DEF GetAddressFails, Goto, Place, IInv, TypeOK, ReturnedIsCached,
     BuiltWhenSet, CacheIsBuilt, SignedCounted, Done, Cached, IdOf
<1>4. CASE UNCHANGED vars
  BY <1>4 DEF vars, IInv, TypeOK, ReturnedIsCached, BuiltWhenSet, CacheIsBuilt,
     SignedCounted, Done, Cached, IdOf
<1> QED BY <1>1, <1>2, <1>3, <1>4, SetCacheInv, SignInv DEF Next

(* The invariant is one of the specification.                              *)
THEOREM Invariance == Spec => []IInv
BY InitIInv, NextIInv, PTL DEF Spec

(* Calls of create for the same type, chain, replay protection and address *)
(* return the same forwarder, however they overlap.                        *)
THEOREM OneForwarder == Spec => []SameInstance
<1>1. IInv => SameInstance
  BY DEF IInv, ReturnedIsCached, SameInstance, SameAsk
<1> QED BY <1>1, Invariance, PTL

(* No two of their transactions are signed with the same replay protection. *)
THEOREM NoSharedReplayProtection == Spec => []SignedOnce
<1>1. IInv => SignedOnce
  BY DEF IInv, ReturnedIsCached, SignedCounted, SignedOnce, SameAsk, Done
<1> QED BY <1>1, Invariance, PTL

(* A caller gets a forwarder that was built for what it asked for.         *)
THEOREM RightForwarder == Spec => []BuiltAsAsked
<1>1. IInv => BuiltAsAsked
  <2> SUFFICES ASSUME IInv, NEW c \in Caller, Done(c)
               PROVE  held[c] \in built /\ getCacheId(asked[held[c]]) = getCacheId(asked[c])
    BY DEF BuiltAsAsked, getCacheId
  <2> QED
    BY IdType DEF IInv, TypeOK, ReturnedIsCached, CacheIsBuilt, IdOf, Cached
<1> QED BY <1>1, Invariance, PTL
=============================================================================

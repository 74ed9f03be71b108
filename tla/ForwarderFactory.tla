-------------------------- MODULE ForwarderFactory --------------------------
(***************************************************************************)
(* ForwarderFactory.create: the cache of forwarders that all factories of  *)
(* a process share, and callers that create forwarders at the same time    *)
(* and sign with what they get.  There is no lock: an await stands between *)
(* the look into the cache, the new forwarder and the cache's update.      *)
(*                                                                         *)
(* A forwarder keeps the memory of its replay protection for itself.  All  *)
(* of that memory that matters here is that it counts; how is the subject  *)
(* of MultiNonce and BitFlip.                                              *)
(***************************************************************************)
EXTENDS Naturals

CONSTANTS
  Caller,      \* calls of create
  Type,        \* ForwarderType
  ChainId,
  Protection,  \* ReplayProtectionType
  Signer,      \* Signer objects; several may be of one address
  AddressOf,   \* the address of each
  None         \* nothing in the cache

ASSUME NoneAssumption == None \notin Caller

VARIABLES
  pc,      \* where each call is
  asked,   \* its arguments, and the factory's type
  held,    \* the forwarder it is building, or has returned
  cache,   \* ForwarderFactory.cache: the forwarder of each id
  built,   \* the forwarders constructed, with what they were built for
  count,   \* the replay protections each forwarder has given away
  signed   \* the replay protection a caller signed with

vars == <<pc, asked, held, cache, built, count, signed>>

Request == [type : Type, chainId : ChainId, protection : Protection, signer : Signer]

(* A forwarder is named after the call that constructs it.                 *)
Forwarder == Caller
Place     == {"getAddress", "createNew", "set", "returned", "signed", "failed"}

(* The string "type:chain:protection:address" is a tuple here.             *)
getCacheId_NoType(request) ==  \* broken: the factories mix
  <<request.chainId, request.protection, AddressOf[request.signer]>>
getCacheId(request) ==
  <<request.type, request.chainId, request.protection, AddressOf[request.signer]>>

CacheId == {getCacheId(request) : request \in Request}

Init ==
  /\ pc = [c \in Caller |-> "getAddress"]
  /\ asked \in [Caller -> Request]
  /\ held = [c \in Caller |-> None]
  /\ cache = [id \in CacheId |-> None]
  /\ built = {}
  /\ count = [f \in Forwarder |-> 0]
  /\ signed = [c \in Caller |-> 0]

Goto(c, place) == pc' = [pc EXCEPT ![c] = place]
IdOf(c)        == getCacheId(asked[c])
Cached(c)      == cache[IdOf(c)] # None

-----------------------------------------------------------------------------
(* getAddress resolves: the cached forwarder is returned in the same step, *)
(* or createNew is called.                                                 *)
GetAddress(c) ==
  /\ pc[c] = "getAddress"
  /\ IF Cached(c)
     THEN Goto(c, "returned") /\ held' = [held EXCEPT ![c] = cache[IdOf(c)]]
     ELSE Goto(c, "createNew") /\ UNCHANGED held
  /\ UNCHANGED <<asked, cache, built, count, signed>>

(* createNew constructs the forwarder and its own replay protection.       *)
CreateNew(c) ==
  /\ pc[c] = "createNew"
  /\ Goto(c, "set")
  /\ held' = [held EXCEPT ![c] = c]
  /\ built' = built \cup {c}
  /\ UNCHANGED <<asked, cache, count, signed>>

(* Its promise resolves; the cache is checked again, set if still empty,   *)
(* and what is in it returned.                                             *)
SetCache_Unchecked(c) ==  \* broken: the second check is left out
  /\ pc[c] = "set"
  /\ cache' = [cache EXCEPT ![IdOf(c)] = held[c]]
  /\ held' = [held EXCEPT ![c] = cache'[IdOf(c)]]
  /\ Goto(c, "returned")
  /\ UNCHANGED <<asked, built, count, signed>>
SetCache_ReturnsOwn(c) ==  \* broken: the new forwarder is returned
  /\ pc[c] = "set"
  /\ cache' = IF Cached(c) THEN cache ELSE [cache EXCEPT ![IdOf(c)] = held[c]]
  /\ Goto(c, "returned")
  /\ UNCHANGED <<asked, held, built, count, signed>>
SetCache(c) ==
  /\ pc[c] = "set"
  /\ cache' = IF Cached(c) THEN cache ELSE [cache EXCEPT ![IdOf(c)] = held[c]]
  /\ held' = [held EXCEPT ![c] = cache'[IdOf(c)]]
  /\ Goto(c, "returned")
  /\ UNCHANGED <<asked, built, count, signed>>

(* signer.getAddress rejects, in create or where the ProxyAccount factory  *)
(* asks for it again.                                                      *)
GetAddressFails(c) ==
  /\ \/ pc[c] = "getAddress"
     \/ pc[c] = "createNew" /\ asked[c].type = "ProxyAccount"
  /\ Goto(c, "failed")
  /\ UNCHANGED <<asked, held, cache, built, count, signed>>

(* The caller signs with the forwarder it got, whose replay protection     *)
(* gives it the next number.                                               *)
SignMetaTransaction(c) ==
  /\ pc[c] = "returned"
  /\ count' = [count EXCEPT ![held[c]] = @ + 1]
  /\ signed' = [signed EXCEPT ![c] = count'[held[c]]]
  /\ Goto(c, "signed")
  /\ UNCHANGED <<asked, held, cache, built>>

Next ==
  \E c \in Caller :
    \/ GetAddress(c) \/ CreateNew(c) \/ SetCache(c)
    \/ GetAddressFails(c) \/ SignMetaTransaction(c)

Spec == Init /\ [][Next]_vars

-----------------------------------------------------------------------------
Done(c) == pc[c] \in {"returned", "signed"}
SameAsk(c, d) == IdOf(c) = IdOf(d)

(* "Subsequent calls to create with the same parameters will return the    *)
(* same forwarder instance" (forwarderFactory.ts:41), calls that overlap   *)
(* too, whichever of them constructs first and whichever gets to set.      *)
SameInstance ==
  \A c, d \in Caller : Done(c) /\ Done(d) /\ SameAsk(c, d) => held[c] = held[d]

(* So no two transactions signed for the same forwarder contract, chain,   *)
(* address and kind of replay protection get the same replay protection,   *)
(* though every construction has a memory that starts at zero.             *)
SignedOnce ==
  \A c, d \in Caller :
    c # d /\ pc[c] = "signed" /\ pc[d] = "signed" /\ SameAsk(c, d)
    => signed[c] # signed[d]

(* A caller gets a forwarder that was built, and for what it asked for:    *)
(* its factory's type, its chain and protection, a signer of its address.  *)
BuiltAsAsked ==
  \A c \in Caller : Done(c) =>
    /\ held[c] \in built
    /\ LET want == asked[c]
           has  == asked[held[c]]
       IN /\ has.type = want.type /\ has.chainId = want.chainId
          /\ has.protection = want.protection
          /\ AddressOf[has.signer] = AddressOf[want.signer]
=============================================================================

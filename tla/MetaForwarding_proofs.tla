----------------------- MODULE MetaForwarding_proofs -----------------------
(***************************************************************************)
(* Proofs about MetaForwarding, for every set of signers, forwarders and   *)
(* signed meta-transactions, and every depth of the call stack: types, no  *)
(* replay, for whom forwarders act, that a use is spent while the calls it *)
(* authorises run; that storage sums up the log, so that the contracts     *)
(* implement ReplayLedger; and which calls the log says have been made.    *)
(***************************************************************************)
EXTENDS MetaForwarding, FiniteSetTheorems, TLAPS

(* What an entry of the log has left in storage.                           *)
Recorded(w, e) ==
  /\ Signed[e.tx].authority = multiNonceAddress =>
       Signed[e.tx].nonce < w.nonces[indexOf(e.at, e.tx)]
  /\ Signed[e.tx].authority = bitFlipAddress =>
       /\ Signed[e.tx].bits # {}
       /\ Signed[e.tx].bits \subseteq w.flips[indexOf(e.at, e.tx)]
  /\ Signed[e.tx].authority = nonceStoreAddress =>
       Signed[e.tx].bits \subseteq w.bitmaps[targetIndexOf(e.at, e.tx)]

LogRecorded(w) == \A i \in DOMAIN w.accepted : Recorded(w, w.accepted[i])

LogUnique(w) ==
  \A i, j \in DOMAIN w.accepted :
    i # j => ~SameUse(w.accepted[i], w.accepted[j])

WorldInv(w) ==
  /\ w \in World
  /\ LogRecorded(w)
  /\ LogUnique(w)

(* The inductive invariant: it holds of the world and of every world a     *)
(* revert may restore.                                                     *)
SavedInv == \A n \in DOMAIN stack : WorldInv(stack[n].saved)

(* A contract above another frame was called by a forwarder.               *)
CalledByForwarder ==
  \A n \in DOMAIN stack :
    n > 1 /\ stack[n].run = NoRun => stack[n - 1].run # NoRun

IInv ==
  /\ stack \in Seq(Frame)
  /\ WorldInv(world)
  /\ SavedInv
  /\ CalledByForwarder

-----------------------------------------------------------------------------
(* A prefix of a sequence: what a revert leaves of the call stack.         *)
LEMMA PrefixType ==
  ASSUME NEW S, NEW s \in Seq(S), NEW k \in 0..Len(s)
  PROVE  /\ SubSeq(s, 1, k) \in Seq(S)
         /\ Len(SubSeq(s, 1, k)) = k
         /\ \A m \in 1..k : SubSeq(s, 1, k)[m] = s[m]
OBVIOUS

(* The fields of a signed meta-transaction have their types.               *)
LEMMA SignedType ==
  ASSUME NEW t \in Tx
  PROVE  /\ Signed[t] \in MetaTx
         /\ Signed[t].signer \in Key
         /\ Signed[t].forwarder \in Forwarder
         /\ Signed[t].authority \in Authority
         /\ Signed[t].queue \in Queue
         /\ Signed[t].nonce \in Nat
         /\ Signed[t].bits \in SUBSET Bit
         /\ Signed[t].calls \in Seq(Call)
BY SignedAssumption DEF MetaTx

(* What verify hashes to find its word is an index of the mapping.         *)
LEMMA IndexType ==
  ASSUME NEW f \in Forwarder, NEW t \in Tx
  PROVE  /\ recover(f, t) \in Who
         /\ indexOf(f, t) \in StoreIndex
         /\ targetIndexOf(f, t) \in TargetIndex
<1>1. recover(f, t) \in Who
  BY SignedType DEF recover, Who, Stranger
<1> QED
  BY <1>1, SignedType DEF indexOf, targetIndexOf, queueIndex, targetIndex, StoreIndex, TargetIndex

(* Two entries draw on the same queue exactly if their indices are equal.  *)
LEMMA SameQueueIndex ==
  ASSUME NEW d \in Accepted, NEW e \in Accepted
  PROVE  SameQueue(d, e) <=>
           /\ Signed[d.tx].authority = Signed[e.tx].authority
           /\ indexOf(d.at, d.tx) = indexOf(e.at, e.tx)
BY DEF SameQueue, indexOf, queueIndex

(* The same for the external authority, where one word belongs to a queue. *)
LEMMA SameQueueTargetIndex ==
  ASSUME NEW d \in Accepted, NEW e \in Accepted
  PROVE  SameQueue(d, e) <=>
           /\ Signed[d.tx].authority = Signed[e.tx].authority
           /\ targetIndexOf(d.at, d.tx) = targetIndexOf(e.at, e.tx)
BY DEF SameQueue, targetIndexOf, targetIndex

(* What is recorded is not accepted again.                                 *)
LEMMA RecordedIsSpent ==
  ASSUME NEW w \in World, NEW d \in Accepted, NEW f \in Forwarder, NEW t \in Tx,
         Recorded(w, d), verifyAccepts(w, f, t)
  PROVE  ~SameUse(d, [at |-> f, tx |-> t])
<1> DEFINE e == [at |-> f, tx |-> t]
<1>0. e \in Accepted /\ e.at = f /\ e.tx = t
  BY DEF Accepted
<1> SUFFICES ASSUME SameUse(d, e) PROVE FALSE
  OBVIOUS
<1>1. d.at \in Forwarder /\ d.tx \in Tx
  BY DEF Accepted
<1>2. /\ Signed[d.tx].authority = Signed[t].authority
      /\ indexOf(d.at, d.tx) = indexOf(f, t)
      /\ targetIndexOf(d.at, d.tx) = targetIndexOf(f, t)
  BY <1>0, SameQueueIndex, SameQueueTargetIndex DEF SameUse
<1>3. indexOf(f, t) \in StoreIndex /\ targetIndexOf(f, t) \in TargetIndex
  BY IndexType
<1>4. CASE Signed[t].authority = multiNonceAddress
  <2>1. Signed[d.tx].nonce = Signed[t].nonce
    BY <1>0, <1>2, <1>4 DEF SameUse
  <2>2. Signed[t].nonce = w.nonces[indexOf(f, t)]
    BY <1>4 DEF verifyAccepts, nonceAccepts, multiNonceAddress, bitFlipAddress
  <2>3. Signed[d.tx].nonce < w.nonces[indexOf(f, t)]
    BY <1>2, <1>4 DEF Recorded
  <2> QED
    BY <2>1, <2>2, <2>3, <1>1, SignedType
<1>5. CASE Signed[t].authority = bitFlipAddress
  <2>1. Signed[d.tx].bits = Signed[t].bits
    BY <1>0, <1>2, <1>5 DEF SameUse, multiNonceAddress, bitFlipAddress
  <2>2. Signed[t].bits # {} /\ w.flips[indexOf(f, t)] \cap Signed[t].bits = {}
    BY <1>5 DEF verifyAccepts, bitflipAccepts, multiNonceAddress, bitFlipAddress
  <2>3. Signed[d.tx].bits \subseteq w.flips[indexOf(f, t)]
    BY <1>2, <1>5 DEF Recorded
  <2> QED
    BY <2>1, <2>2, <2>3
<1>6. CASE Signed[t].authority = nonceStoreAddress
  <2>1. Signed[d.tx].bits = Signed[t].bits
    BY <1>0, <1>2, <1>6 DEF SameUse, multiNonceAddress, nonceStoreAddress
  <2>2. w.bitmaps[targetIndexOf(f, t)] \cap Signed[t].bits # Signed[t].bits
    BY <1>6 DEF verifyAccepts, updateAccepts, multiNonceAddress, bitFlipAddress, nonceStoreAddress
  <2>3. Signed[d.tx].bits \subseteq w.bitmaps[targetIndexOf(f, t)]
    BY <1>2, <1>6 DEF Recorded
  <2> QED
    BY <2>1, <2>2, <2>3
<1> QED
  BY <1>4, <1>5, <1>6, SignedType DEF Authority

(* Storage in which everything that was spent still is.                    *)
Grows(w, v) ==
  /\ \A i \in StoreIndex : w.nonces[i] <= v.nonces[i] /\ w.flips[i] \subseteq v.flips[i]
  /\ \A i \in TargetIndex : w.bitmaps[i] \subseteq v.bitmaps[i]

(* `verify' only ever adds to storage, keeps the rest of the world, and    *)
(* leaves the accepted use recorded.                                       *)
LEMMA SpentGrows ==
  ASSUME NEW w \in World, NEW f \in Forwarder, NEW t \in Tx, verifyAccepts(w, f, t)
  PROVE  /\ spent(w, f, t) \in World
         /\ Grows(w, spent(w, f, t))
         /\ spent(w, f, t).accepted = w.accepted
         /\ spent(w, f, t).outcomes = w.outcomes
         /\ spent(w, f, t).owner = w.owner
         /\ spent(w, f, t).updates = w.updates
         /\ Recorded(spent(w, f, t), [at |-> f, tx |-> t])
<1> DEFINE i == indexOf(f, t)
           k == targetIndexOf(f, t)
           v == spent(w, f, t)
<1>1. i \in StoreIndex /\ k \in TargetIndex
  BY IndexType
<1>2. Signed[t].nonce \in Nat /\ Signed[t].bits \in SUBSET Bit
  BY SignedType
<1>3. /\ w.nonces \in [StoreIndex -> Nat]
      /\ w.flips \in [StoreIndex -> SUBSET Bit]
      /\ w.bitmaps \in [TargetIndex -> SUBSET Bit]
  BY DEF World
<1>4. CASE Signed[t].authority = multiNonceAddress
  <2> DEFINE new == [w.nonces EXCEPT ![i] = @ + 1]
  <2>0. new \in [StoreIndex -> Nat]
    BY <1>1, <1>2, <1>3
  <2>1. v = [w EXCEPT !.nonces = new]
    BY <1>4 DEF spent, nonceStored, multiNonceAddress, bitFlipAddress
  <2>2. v \in World
    BY <2>0, <2>1 DEF World
  <2>3. /\ v.nonces = [w.nonces EXCEPT ![i] = @ + 1]
        /\ v.flips = w.flips /\ v.bitmaps = w.bitmaps
        /\ v.accepted = w.accepted /\ v.outcomes = w.outcomes /\ v.owner = w.owner
        /\ v.updates = w.updates
    BY <2>1 DEF World
  <2>4. Grows(w, v)
    BY <2>3, <1>1, <1>3 DEF Grows
  <2>5. Signed[t].nonce = w.nonces[i]
    BY <1>4 DEF verifyAccepts, nonceAccepts, multiNonceAddress, bitFlipAddress
  <2>6. Recorded(v, [at |-> f, tx |-> t])
    BY <2>3, <2>5, <1>1, <1>3, <1>4
    DEF Recorded, multiNonceAddress, bitFlipAddress, nonceStoreAddress
  <2> QED
    BY <2>2, <2>3, <2>4, <2>6
<1>5. CASE Signed[t].authority = bitFlipAddress
  <2> DEFINE new == [w.flips EXCEPT ![i] = @ \cup Signed[t].bits]
  <2>0. new \in [StoreIndex -> SUBSET Bit]
    BY <1>1, <1>2, <1>3
  <2>1. v = [w EXCEPT !.flips = new]
    BY <1>5 DEF spent, bitflipStored, multiNonceAddress, bitFlipAddress
  <2>2. v \in World
    BY <2>0, <2>1 DEF World
  <2>3. /\ v.flips = [w.flips EXCEPT ![i] = @ \cup Signed[t].bits]
        /\ v.nonces = w.nonces /\ v.bitmaps = w.bitmaps
        /\ v.accepted = w.accepted /\ v.outcomes = w.outcomes /\ v.owner = w.owner
        /\ v.updates = w.updates
    BY <2>1 DEF World
  <2>4. Grows(w, v)
    BY <2>3, <1>1, <1>3 DEF Grows
  <2>5. Signed[t].bits # {}
    BY <1>5 DEF verifyAccepts, bitflipAccepts, multiNonceAddress, bitFlipAddress
  <2>6. Recorded(v, [at |-> f, tx |-> t])
    BY <2>3, <2>5, <1>1, <1>3, <1>5
    DEF Recorded, multiNonceAddress, bitFlipAddress, nonceStoreAddress
  <2> QED
    BY <2>2, <2>3, <2>4, <2>6
<1>6. CASE Signed[t].authority = nonceStoreAddress
  <2> DEFINE new == [w.bitmaps EXCEPT ![k] = @ \cup Signed[t].bits]
  <2>0. new \in [TargetIndex -> SUBSET Bit]
    BY <1>1, <1>2, <1>3
  <2>1. v = [w EXCEPT !.bitmaps = new]
    BY <1>6 DEF spent, updateStored, multiNonceAddress, bitFlipAddress, nonceStoreAddress
  <2>2. v \in World
    BY <2>0, <2>1 DEF World
  <2>3. /\ v.bitmaps = [w.bitmaps EXCEPT ![k] = @ \cup Signed[t].bits]
        /\ v.nonces = w.nonces /\ v.flips = w.flips
        /\ v.accepted = w.accepted /\ v.outcomes = w.outcomes /\ v.owner = w.owner
        /\ v.updates = w.updates
    BY <2>1 DEF World
  <2>4. Grows(w, v)
    BY <2>3, <1>1, <1>3 DEF Grows
  <2>5. Recorded(v, [at |-> f, tx |-> t])
    BY <2>3, <1>1, <1>3, <1>6
    DEF Recorded, multiNonceAddress, bitFlipAddress, nonceStoreAddress
  <2> QED
    BY <2>2, <2>3, <2>4, <2>5
<1> QED
  BY <1>4, <1>5, <1>6, SignedType DEF Authority

(* What was recorded stays recorded when storage grows.                    *)
LEMMA RecordedGrows ==
  ASSUME NEW w \in World, NEW v \in World, Grows(w, v),
         NEW e \in Accepted, Recorded(w, e)
  PROVE  Recorded(v, e)
<1>1. e.at \in Forwarder /\ e.tx \in Tx
  BY DEF Accepted
<1>2. indexOf(e.at, e.tx) \in StoreIndex /\ targetIndexOf(e.at, e.tx) \in TargetIndex
  BY <1>1, IndexType
<1>3. Signed[e.tx].nonce \in Nat
  BY <1>1, SignedType
<1>4. /\ w.nonces[indexOf(e.at, e.tx)] \in Nat
      /\ v.nonces[indexOf(e.at, e.tx)] \in Nat
  BY <1>2 DEF World
<1> QED
  BY <1>2, <1>3, <1>4 DEF Recorded, Grows

(* A world whose log is unchanged and whose storage grew.                  *)
LEMMA WorldInvGrows ==
  ASSUME NEW w, WorldInv(w), NEW v \in World, Grows(w, v), v.accepted = w.accepted
  PROVE  WorldInv(v)
<1>1. w \in World /\ w.accepted \in Seq(Accepted)
  BY DEF WorldInv, World
<1>2. LogRecorded(v)
  <2> SUFFICES ASSUME NEW i \in DOMAIN v.accepted PROVE Recorded(v, v.accepted[i])
    BY DEF LogRecorded
  <2>1. w.accepted[i] \in Accepted /\ Recorded(w, w.accepted[i])
    BY <1>1 DEF WorldInv, LogRecorded
  <2> QED
    BY <2>1, <1>1, RecordedGrows
<1>3. LogUnique(v)
  BY DEF WorldInv, LogUnique
<1> QED
  BY <1>2, <1>3 DEF WorldInv

(* A wallet is created or init is called: nothing but owners change.       *)
OnlyOwner(w, v) ==
  /\ v \in World
  /\ v.nonces = w.nonces /\ v.flips = w.flips /\ v.bitmaps = w.bitmaps
  /\ v.accepted = w.accepted /\ v.outcomes = w.outcomes /\ v.updates = w.updates

LEMMA CreatedWorld ==
  ASSUME world \in World, NEW x \in Wallet, createProxyAccount(x)
  PROVE  /\ OnlyOwner(world, world') /\ stack' = stack
         /\ world'.owner = [world.owner EXCEPT ![x] = SignerOf[x]]
<1> DEFINE none  == [world.owner EXCEPT ![x] = NoOwner]
           clone == [world EXCEPT !.owner = none]
<1>1. SignerOf[x] \in Key
  BY WalletAssumption
<1>2. /\ none \in [Wallet -> Key \cup {NoAccount, NoOwner}] /\ none[x] = NoOwner
      /\ [none EXCEPT ![x] = SignerOf[x]] = [world.owner EXCEPT ![x] = SignerOf[x]]
  BY DEF World
<1>3. world' = initialised(clone, x, SignerOf[x]) /\ stack' = stack
  BY DEF createProxyAccount
<1> HIDE DEF none
<1>4. OnlyOwner(world, clone) /\ clone.owner = none
  BY <1>2 DEF OnlyOwner, World
<1>5. world' = [clone EXCEPT !.owner = [none EXCEPT ![x] = SignerOf[x]]]
  BY <1>2, <1>3, <1>4 DEF initialised, initAccepts
<1>6. [none EXCEPT ![x] = SignerOf[x]] \in [Wallet -> Key \cup {NoAccount, NoOwner}]
  BY <1>1, <1>2
<1> HIDE DEF clone
<1>7. OnlyOwner(clone, world') /\ world'.owner = [none EXCEPT ![x] = SignerOf[x]]
  BY <1>4, <1>5, <1>6 DEF OnlyOwner, World
<1> QED BY <1>2, <1>3, <1>4, <1>7 DEF OnlyOwner

LEMMA InitialisedWorld ==
  ASSUME world \in World, NEW x \in Wallet, NEW who \in Key, init(x, who)
  PROVE  /\ OnlyOwner(world, world') /\ stack' = stack
         /\ world.owner[x] # NoOwner => world' = world
<1>1. world' = initialised(world, x, who) /\ stack' = stack
  BY DEF init
<1>2. CASE world.owner[x] # NoOwner
  BY <1>1, <1>2 DEF initialised, initAccepts, OnlyOwner
<1>3. CASE world.owner[x] = NoOwner
  <2> DEFINE new == [world.owner EXCEPT ![x] = who]
  <2>1. new \in [Wallet -> Key \cup {NoAccount, NoOwner}]
    BY DEF World
  <2>2. world' = [world EXCEPT !.owner = new]
    BY <1>1, <1>3 DEF initialised, initAccepts
  <2> HIDE DEF new
  <2> QED BY <1>1, <1>3, <2>1, <2>2 DEF OnlyOwner, World
<1> QED BY <1>2, <1>3

LEMMA OnlyOwnerInv ==
  ASSUME WorldInv(world), OnlyOwner(world, world')
  PROVE  WorldInv(world')
<1>1. world \in World
  BY DEF WorldInv
<1>2. Grows(world, world')
  BY <1>1 DEF OnlyOwner, Grows, World
<1> QED BY <1>1, <1>2, WorldInvGrows DEF OnlyOwner

(* updateFor adds bits to word i of the BitFlipNonceStore.                 *)
Flipped(w, v, i, bits) ==
  /\ i \in TargetIndex /\ v \in World /\ Grows(w, v)
  /\ v.bitmaps = [w.bitmaps EXCEPT ![i] = @ \cup bits]
  /\ v.nonces = w.nonces /\ v.flips = w.flips /\ v.owner = w.owner
  /\ v.accepted = w.accepted /\ v.outcomes = w.outcomes

LEMMA StoredWorld ==
  ASSUME NEW w \in World, NEW sender \in Forwarder \cup {Outsider}, NEW n \in TargetNonce
  PROVE  /\ Flipped(w, stored(w, sender, n), targetIndex(sender, n.target, n.queue), n.bits)
         /\ stored(w, sender, n).updates = w.updates
<1> DEFINE i   == targetIndex(sender, n.target, n.queue)
           new == [w.bitmaps EXCEPT ![i] = @ \cup n.bits]
           v   == stored(w, sender, n)
<1>1. i \in TargetIndex /\ n.bits \in SUBSET Bit
  BY TargetAssumption DEF targetIndex, TargetIndex, TargetNonce
<1>2. new \in [TargetIndex -> SUBSET Bit] /\ \A k \in TargetIndex : w.bitmaps[k] \subseteq new[k]
  BY <1>1 DEF World
<1>3. v = [w EXCEPT !.bitmaps = new]
  BY DEF stored, updateStored
<1> SUFFICES Flipped(w, v, i, n.bits) /\ v.updates = w.updates
  OBVIOUS
<1> HIDE DEF new, v, i
<1>4. /\ v \in World /\ v.bitmaps = new
      /\ v.nonces = w.nonces /\ v.flips = w.flips /\ v.owner = w.owner
      /\ v.accepted = w.accepted /\ v.outcomes = w.outcomes /\ v.updates = w.updates
  BY <1>2, <1>3 DEF World
<1>5. Grows(w, v)
  BY <1>2, <1>4 DEF Grows, World
<1> QED BY <1>1, <1>4, <1>5 DEF new, Flipped

(* What a call of updateFor by anybody leaves alone.                       *)
LEMMA UpdatedWorld ==
  ASSUME world \in World, NEW n \in TargetNonce, updateFor(n)
  PROVE  /\ stack' = stack /\ world' \in World /\ Grows(world, world')
         /\ world'.accepted = world.accepted /\ world'.outcomes = world.outcomes
         /\ world'.owner = world.owner /\ world'.updates = world.updates
<1> DEFINE i == targetIndex(Outsider, n.target, n.queue)
<1>1. stack' = stack /\ world' = stored(world, Outsider, n)
  BY DEF updateFor
<1>2. Outsider \in Forwarder \cup {Outsider}
  OBVIOUS
<1>3. Flipped(world, stored(world, Outsider, n), i, n.bits)
      /\ stored(world, Outsider, n).updates = world.updates
  BY <1>2, StoredWorld
<1>4. Flipped(world, world', i, n.bits) /\ world'.updates = world.updates
  BY <1>1, <1>3
<1> QED BY <1>1, <1>4 DEF Flipped

(* The same, called by a forwarder, which is remembered.                   *)
LEMMA AsForwarderWorld ==
  ASSUME NEW w \in World, NEW run \in Run, NEW n \in TargetNonce
  PROVE  /\ Flipped(w, asForwarder(w, run, n), targetIndex(run.at, n.target, n.queue), n.bits)
         /\ asForwarder(w, run, n).updates =
              w.updates \cup {[at |-> run.at, tx |-> run.tx, nonce |-> n]}
<1> DEFINE i   == targetIndex(run.at, n.target, n.queue)
           u   == stored(w, run.at, n)
           d   == [at |-> run.at, tx |-> run.tx, nonce |-> n]
           new == u.updates \cup {d}
           v   == asForwarder(w, run, n)
<1>1. run.at \in Forwarder \cup {Outsider} /\ d \in Update
  BY DEF Run, Update
<1>2. Flipped(w, u, i, n.bits) /\ u.updates = w.updates
  BY <1>1, StoredWorld
<1>3. v = [u EXCEPT !.updates = new]
  BY DEF asForwarder
<1>4. new \in SUBSET Update
  BY <1>1, <1>2 DEF World
<1> SUFFICES Flipped(w, v, i, n.bits) /\ v.updates = w.updates \cup {d}
  OBVIOUS
<1> HIDE DEF u, d, i, new, v
<1>5. u \in World
  BY <1>2 DEF Flipped
<1>6. /\ v \in World /\ v.updates = new
      /\ v.nonces = u.nonces /\ v.flips = u.flips /\ v.bitmaps = u.bitmaps
      /\ v.owner = u.owner /\ v.accepted = u.accepted /\ v.outcomes = u.outcomes
  BY <1>3, <1>4, <1>5 DEF World
<1> QED BY <1>2, <1>6 DEF Flipped, Grows, new

LEMMA AsForwarderInv ==
  ASSUME NEW w, WorldInv(w), NEW run \in Run, NEW n \in TargetNonce
  PROVE  WorldInv(asForwarder(w, run, n))
<1>1. w \in World
  BY DEF WorldInv
<1>2. /\ asForwarder(w, run, n) \in World /\ Grows(w, asForwarder(w, run, n))
      /\ asForwarder(w, run, n).accepted = w.accepted
  BY <1>1, AsForwarderWorld DEF Flipped
<1> QED BY <1>2, WorldInvGrows

(* An accepted meta-transaction leaves the world's invariant intact.       *)
LEMMA VerifiedInv ==
  ASSUME NEW w, WorldInv(w), NEW f \in Forwarder, NEW t \in Tx, verifyAccepts(w, f, t)
  PROVE  WorldInv(verified(w, f, t))
<1> DEFINE e == [at |-> f, tx |-> t]
           u == spent(w, f, t)
           v == verified(w, f, t)
<1>1. w \in World /\ w.accepted \in Seq(Accepted) /\ e \in Accepted
  BY DEF WorldInv, World, Accepted
<1>2. u \in World /\ Grows(w, u) /\ u.accepted = w.accepted /\ Recorded(u, e)
  BY <1>1, SpentGrows
<1>3. WorldInv(u)
  BY <1>2, WorldInvGrows
<1>4. v = [u EXCEPT !.accepted = Append(w.accepted, e)]
  BY <1>2 DEF verified
<1>5. v.accepted = Append(w.accepted, e) /\ v.nonces = u.nonces
      /\ v.flips = u.flips /\ v.bitmaps = u.bitmaps
  BY <1>2, <1>4 DEF World
<1>6. Append(w.accepted, e) \in Seq(Accepted)
  BY <1>1
<1>7. v \in World
  BY <1>2, <1>4, <1>6 DEF World
<1>8. DOMAIN v.accepted = 1..(Len(w.accepted) + 1)
  BY <1>1, <1>5
<1>9. \A i \in 1..Len(w.accepted) :
        v.accepted[i] = w.accepted[i] /\ w.accepted[i] \in Accepted
  BY <1>1, <1>5
<1>10. v.accepted[Len(w.accepted) + 1] = e
  BY <1>1, <1>5
<1>11. \A d : Recorded(u, d) => Recorded(v, d)
  BY <1>5 DEF Recorded
<1>12. LogRecorded(v)
  <2> SUFFICES ASSUME NEW i \in DOMAIN v.accepted PROVE Recorded(v, v.accepted[i])
    BY DEF LogRecorded
  <2>1. CASE i = Len(w.accepted) + 1
    BY <2>1, <1>2, <1>10, <1>11
  <2>2. CASE i \in 1..Len(w.accepted)
    BY <2>2, <1>1, <1>2, <1>3, <1>9, <1>11 DEF WorldInv, LogRecorded
  <2> QED
    BY <2>1, <2>2, <1>1, <1>8
<1>13. \A i \in 1..Len(w.accepted) : ~SameUse(w.accepted[i], e)
  <2> TAKE i \in 1..Len(w.accepted)
  <2>1. Recorded(w, w.accepted[i])
    BY <1>1 DEF WorldInv, LogRecorded
  <2> QED
    BY <2>1, <1>1, <1>9, RecordedIsSpent
<1>14. \A i \in 1..Len(w.accepted) : ~SameUse(e, w.accepted[i])
  BY <1>13 DEF SameUse, SameQueue
<1>15. LogUnique(v)
  <2> SUFFICES ASSUME NEW i \in DOMAIN v.accepted, NEW j \in DOMAIN v.accepted, i # j
               PROVE  ~SameUse(v.accepted[i], v.accepted[j])
    BY DEF LogUnique
  <2>1. CASE i = Len(w.accepted) + 1
    BY <2>1, <1>1, <1>8, <1>9, <1>10, <1>14
  <2>2. CASE j = Len(w.accepted) + 1
    BY <2>2, <1>1, <1>8, <1>9, <1>10, <1>13
  <2>3. CASE i \in 1..Len(w.accepted) /\ j \in 1..Len(w.accepted)
    BY <2>3, <1>1, <1>9 DEF WorldInv, LogUnique
  <2> QED
    BY <2>1, <2>2, <2>3, <1>1, <1>8
<1> QED
  BY <1>7, <1>12, <1>15 DEF WorldInv

-----------------------------------------------------------------------------
(* A frame is entered, and saves a world that has the invariant.           *)
LEMMA EnterInv ==
  ASSUME IInv, NEW run \in Run \cup {NoRun}, Enter(run), WorldInv(world'),
         run = NoRun /\ stack # <<>> => Top.run # NoRun
  PROVE  IInv'
<1> DEFINE frame == [saved |-> world, run |-> run]
<1>1. frame \in Frame /\ frame.saved = world /\ frame.run = run
  BY DEF IInv, WorldInv, Frame
<1>2. stack' = Append(stack, frame) /\ stack \in Seq(Frame)
  BY DEF Enter, IInv
<1>3. stack' \in Seq(Frame) /\ DOMAIN stack' = 1..(Len(stack) + 1)
  BY <1>1, <1>2
<1>4. \A n \in 1..Len(stack) : stack'[n] = stack[n]
  BY <1>2
<1>5. stack'[Len(stack) + 1] = frame
  BY <1>2
<1>6. SavedInv'
  <2> SUFFICES ASSUME NEW n \in DOMAIN stack' PROVE WorldInv(stack'[n].saved)
    BY DEF SavedInv, WorldInv, LogRecorded, LogUnique
  <2>1. CASE n = Len(stack) + 1
    BY <2>1, <1>1, <1>5 DEF IInv
  <2>2. CASE n \in 1..Len(stack)
    BY <2>2, <1>2, <1>4 DEF IInv, SavedInv
  <2> QED
    BY <2>1, <2>2, <1>2, <1>3
<1>7. CalledByForwarder'
  <2> SUFFICES ASSUME NEW n \in DOMAIN stack', n > 1, stack'[n].run = NoRun
               PROVE  stack'[n - 1].run # NoRun
    BY DEF CalledByForwarder
  <2>1. CASE n = Len(stack) + 1
    BY <2>1, <1>1, <1>2, <1>4, <1>5 DEF Top, Depth
  <2>2. CASE n \in 1..Len(stack)
    <3>1. n - 1 \in 1..Len(stack)
      BY <2>2, <1>2
    <3> QED
      BY <2>2, <3>1, <1>2, <1>4 DEF IInv, CalledByForwarder
  <2> QED
    BY <2>1, <2>2, <1>2, <1>3
<1> QED
  BY <1>3, <1>6, <1>7 DEF IInv

(* Frames return; the world in place has the invariant.                    *)
LEMMA PopInv ==
  ASSUME IInv, NEW n \in 1..Len(stack), stack' = SubSeq(stack, 1, n - 1), WorldInv(world')
  PROVE  IInv'
<1>1. stack \in Seq(Frame)
  BY DEF IInv
<1>2. /\ stack' \in Seq(Frame)
      /\ Len(stack') = n - 1
      /\ \A m \in 1..(n - 1) : m \in DOMAIN stack /\ stack'[m] = stack[m]
  BY <1>1
<1>3. DOMAIN stack' = 1..(n - 1)
  BY <1>2
<1>4. SavedInv'
  BY <1>2, <1>3 DEF IInv, SavedInv
<1>5. CalledByForwarder'
  <2> SUFFICES ASSUME NEW m \in DOMAIN stack', m > 1, stack'[m].run = NoRun
               PROVE  stack'[m - 1].run # NoRun
    BY DEF CalledByForwarder
  <2>1. m \in 1..(n - 1) /\ m - 1 \in 1..(n - 1)
    BY <1>3
  <2> QED
    BY <2>1, <1>2 DEF IInv, CalledByForwarder
<1> QED
  BY <1>2, <1>4, <1>5 DEF IInv

(* A frame reverts; the world it saved comes back.                         *)
LEMMA RevertInv ==
  ASSUME IInv, NEW n \in 1..Len(stack), Revert(n)
  PROVE  IInv'
<1>1. world' = stack[n].saved /\ stack' = SubSeq(stack, 1, n - 1)
  BY DEF Revert
<1>2. n \in DOMAIN stack
  BY DEF IInv
<1>3. WorldInv(world')
  BY <1>1, <1>2 DEF IInv, SavedInv
<1> QED
  BY <1>1, <1>3, PopInv

(* A callee is gone and the loop of its forwarder goes on.                 *)
LEMMA NextCallInv ==
  ASSUME IInv, Called, NEW w, WorldInv(w), NEW ok \in BOOLEAN, NextCall(w, ok)
  PROVE  IInv'
<1> DEFINE n == Len(stack)
           caller == stack[n - 1]
           run == caller.run
           o == CallOutcome(run, ok)
<1>1. stack \in Seq(Frame) /\ n \in Nat /\ n > 1 /\ n \in DOMAIN stack
  BY DEF IInv, Called, Depth
<1>2. caller \in Frame /\ run \in Run
  <2>1. caller \in Frame /\ stack[n].run = NoRun
    BY <1>1 DEF Called, Top, Depth
  <2>2. run # NoRun
    BY <1>1, <2>1 DEF IInv, CalledByForwarder
  <2> QED
    BY <2>1, <2>2 DEF Frame
<1>3. run.at \in Forwarder /\ run.tx \in Tx /\ run.next \in Nat \ {0}
  BY <1>2 DEF Run
<1>4. o \in Outcome
  <2>1. senderOf(run) \in Who \cup Wallet
    BY <1>3, IndexType DEF senderOf, msgSender, Hub
  <2> QED
    BY <2>1, <1>3 DEF CallOutcome, Outcome
<1>5. world' = [w EXCEPT !.outcomes = Append(w.outcomes, o)]
  BY DEF NextCall, Depth
<1>6. w \in World /\ w.outcomes \in Seq(Outcome)
  BY DEF WorldInv, World
<1>7. Append(w.outcomes, o) \in Seq(Outcome)
  BY <1>4, <1>6
<1>8. world' \in World
  BY <1>5, <1>6, <1>7 DEF World
<1>9. world'.accepted = w.accepted /\ Grows(w, world')
  BY <1>5, <1>6 DEF World, Grows
<1>10. WorldInv(world')
  BY <1>8, <1>9, WorldInvGrows
<1> DEFINE frame == [caller EXCEPT !.run.next = @ + 1]
<1>11. frame \in Frame /\ frame.saved = caller.saved /\ frame.run # NoRun
  <2> DEFINE newRun == [run EXCEPT !.next = @ + 1]
  <2>1. newRun \in Run
    BY <1>2, <1>3 DEF Run
  <2>2. frame = [caller EXCEPT !.run = newRun]
    BY <1>2 DEF Frame
  <2> QED
    BY <2>1, <2>2, <1>2, NoRunAssumption DEF Frame
<1>12. stack' = Append(SubSeq(stack, 1, n - 2), frame)
  BY DEF NextCall, Depth
<1>13. /\ SubSeq(stack, 1, n - 2) \in Seq(Frame)
       /\ Len(SubSeq(stack, 1, n - 2)) = n - 2
       /\ \A m \in 1..(n - 2) : SubSeq(stack, 1, n - 2)[m] = stack[m]
  <2>1. n - 2 \in 0..Len(stack)
    BY <1>1
  <2> QED
    BY <2>1, <1>1, PrefixType
<1>14. /\ stack' \in Seq(Frame)
       /\ DOMAIN stack' = 1..(n - 1)
       /\ \A m \in 1..(n - 2) : stack'[m] = stack[m]
       /\ stack'[n - 1] = frame
  BY <1>1, <1>11, <1>12, <1>13
<1>15. SavedInv'
  <2> SUFFICES ASSUME NEW m \in DOMAIN stack' PROVE WorldInv(stack'[m].saved)
    BY DEF SavedInv, WorldInv, LogRecorded, LogUnique
  <2>1. CASE m = n - 1
    BY <2>1, <1>1, <1>11, <1>14 DEF IInv, SavedInv
  <2>2. CASE m \in 1..(n - 2)
    BY <2>2, <1>1, <1>14 DEF IInv, SavedInv
  <2> QED
    BY <2>1, <2>2, <1>1, <1>14
<1>16. CalledByForwarder'
  <2> SUFFICES ASSUME NEW m \in DOMAIN stack', m > 1, stack'[m].run = NoRun
               PROVE  stack'[m - 1].run # NoRun
    BY DEF CalledByForwarder
  <2>1. m \in 1..(n - 1) /\ m # n - 1
    BY <1>11, <1>14
  <2>2. m \in 1..(n - 2) /\ m - 1 \in 1..(n - 2) /\ m \in DOMAIN stack
    BY <2>1, <1>1
  <2> QED
    BY <2>2, <1>14 DEF IInv, CalledByForwarder
<1> QED
  BY <1>10, <1>14, <1>15, <1>16 DEF IInv

-----------------------------------------------------------------------------
(* The invariant holds of empty storage and an empty stack.                *)
THEOREM InitIInv == Init => IInv
<1> SUFFICES ASSUME Init PROVE IInv
  OBVIOUS
<1>1. /\ world = InitialWorld /\ stack = <<>>
      /\ world.accepted = <<>> /\ world.outcomes = <<>>
  BY DEF Init, InitialWorld
<1>2. world \in World
  BY <1>1 DEF InitialWorld, World
<1>3. LogRecorded(world) /\ LogUnique(world)
  BY <1>1 DEF LogRecorded, LogUnique
<1> QED
  BY <1>1, <1>2, <1>3 DEF IInv, WorldInv, SavedInv, CalledByForwarder

(* When a forwarder executes, the top frame has its run.                   *)
LEMMA TopRun ==
  ASSUME IInv, Running
  PROVE  /\ Depth \in 1..Len(stack)
         /\ Top \in Frame
         /\ Top.run \in Run
<1>1. stack \in Seq(Frame) /\ stack # <<>>
  BY DEF IInv, Running
<1>2. Len(stack) \in 1..Len(stack) /\ stack[Len(stack)] \in Frame
  BY <1>1
<1> QED
  BY <1>2 DEF Running, Top, Depth, Frame

(* A contract that was called has a forwarder below it that runs.          *)
LEMMA CallerRun ==
  ASSUME IInv, Called
  PROVE  /\ Depth - 1 \in 1..Len(stack) /\ Depth - 1 \in DOMAIN stack
         /\ stack[Depth - 1].run \in Run /\ stack[Depth - 1].run # NoRun
<1>1. /\ stack \in Seq(Frame) /\ Depth \in DOMAIN stack /\ Depth > 1
      /\ Depth - 1 \in 1..Len(stack) /\ Depth - 1 \in DOMAIN stack
  BY DEF IInv, Called, Depth
<1>2. stack[Depth - 1] \in Frame /\ stack[Depth].run = NoRun
  BY <1>1 DEF Called, Top
<1>3. stack[Depth - 1].run # NoRun
  BY <1>1, <1>2 DEF IInv, CalledByForwarder
<1> QED BY <1>1, <1>2, <1>3 DEF Frame

(* Every action of the contracts and of their callers keeps the invariant. *)
THEOREM NextIInv == IInv /\ [Next]_vars => IInv'
<1> SUFFICES ASSUME IInv, [Next]_vars PROVE IInv'
  OBVIOUS
<1>0. stack \in Seq(Frame) /\ WorldInv(world) /\ world \in World
  BY DEF IInv, WorldInv
<1>1. CASE StartContract
  <2>1. WorldInv(world') /\ Enter(NoRun) /\ stack = <<>>
    BY <1>0, <1>1 DEF StartContract
  <2> QED
    BY <2>1, EnterInv
<1>a. ASSUME stack' = stack, WorldInv(world') PROVE IInv'
  BY <1>a DEF IInv, SavedInv, CalledByForwarder
<1>2. ASSUME NEW x \in Wallet, createProxyAccount(x) PROVE IInv'
  BY <1>0, <1>a, <1>2, CreatedWorld, OnlyOwnerInv
<1>b. ASSUME NEW x \in Wallet, NEW who \in Key, init(x, who) PROVE IInv'
  BY <1>0, <1>a, <1>b, InitialisedWorld, OnlyOwnerInv
<1>3. ASSUME NEW n \in TargetNonce, updateFor(n) PROVE IInv'
  <2>1. stack' = stack
    BY <1>3 DEF updateFor
  <2>2. world' \in World /\ Grows(world, world') /\ world'.accepted = world.accepted
    BY <1>0, <1>3, UpdatedWorld DEF WorldInv
  <2>3. WorldInv(world')
    BY <1>0, <2>2, WorldInvGrows
  <2> QED
    BY <1>a, <2>1, <2>3
<1>c. ASSUME NEW n \in TargetNonce, DelegateUpdates(n) PROVE IInv'
  <2>1. /\ Called /\ stack' = stack
        /\ world' = asForwarder(world, stack[Depth - 1].run, n)
    BY <1>c DEF DelegateUpdates
  <2> QED
    BY <1>0, <1>a, <2>1, CallerRun, AsForwarderInv
<1>d. ASSUME NEW n \in TargetNonce, StoreReturns(n) PROVE IInv'
  <2>1. Called /\ NextCall(asForwarder(world, stack[Depth - 1].run, n), TRUE)
    BY <1>d DEF StoreReturns
  <2>2. WorldInv(asForwarder(world, stack[Depth - 1].run, n))
    BY <1>0, <2>1, CallerRun, AsForwarderInv
  <2> QED
    BY <2>1, <2>2, NextCallInv
<1>4. ASSUME NEW f \in Forwarder, NEW t \in Tx, verify(f, t), Calling PROVE IInv'
  <2> DEFINE run == [at |-> f, tx |-> t, next |-> 1]
  <2>1. run \in Run /\ run # NoRun
    BY NoRunAssumption DEF Run
  <2>2. verifyAccepts(world, f, t) /\ world' = verified(world, f, t) /\ Enter(run)
    BY <1>4 DEF verify
  <2>3. WorldInv(world')
    BY <1>0, <2>2, VerifiedInv
  <2> QED
    BY <2>1, <2>2, <2>3, EnterInv
<1>5. CASE ExecuteCall
  <2>1. WorldInv(world') /\ Enter(NoRun) /\ Top.run # NoRun
    BY <1>0, <1>5 DEF ExecuteCall, Running
  <2> QED
    BY <2>1, EnterInv
<1>6. CASE InvalidCallType \/ OutOfGas
  <2>1. Running /\ Revert(Depth)
    BY <1>6 DEF InvalidCallType, OutOfGas
  <2> QED
    BY <2>1, TopRun, RevertInv
<1>7. CASE CallReturns
  BY <1>0, <1>7, NextCallInv DEF CallReturns
<1>8. ASSUME NEW data \in RevertData, CallFails(data) PROVE IInv'
  <2>1. /\ Called /\ Depth - 1 \in 1..Len(stack) /\ Depth \in DOMAIN stack
    BY <1>0, <1>8 DEF CallFails, Called, Depth
  <2>2. WorldInv(Top.saved)
    BY <2>1 DEF IInv, SavedInv, Top
  <2>3. NextCall(Top.saved, FALSE) \/ Revert(Depth - 1)
    BY <1>8 DEF CallFails
  <2> QED
    BY <2>1, <2>2, <2>3, NextCallInv, RevertInv
<1>9. CASE ForwarderReturns
  <2>1. Running /\ stack' = SubSeq(stack, 1, Depth - 1) /\ world' = world
    BY <1>9 DEF ForwarderReturns
  <2> QED
    BY <2>1, <1>0, TopRun, PopInv
<1>10. CASE ContractReturns
  <2>1. stack' = <<>> /\ WorldInv(world')
    BY <1>0, <1>10 DEF ContractReturns
  <2> QED
    BY <2>1 DEF IInv, SavedInv, CalledByForwarder
<1>11. CASE ContractReverts
  <2>1. Revert(1) /\ 1 \in 1..Len(stack)
    BY <1>0, <1>11 DEF ContractReverts, Depth
  <2> QED
    BY <2>1, RevertInv
<1>12. CASE UNCHANGED vars
  <2>1. world' = world /\ stack' = stack
    BY <1>12 DEF vars
  <2> QED
    BY <2>1 DEF IInv, SavedInv, CalledByForwarder
<1>13. CASE \/ \E f \in Hub, t \in Tx : RelayHubForward(f, t) \/ RelayHubBatch(f, t)
            \/ \E x \in Wallet, t \in Tx : ProxyAccountForward(x, t) \/ ProxyAccountBatch(x, t)
  BY <1>4, <1>13, WalletAssumption
  DEF Hub, RelayHubForward, RelayHubBatch, ProxyAccountForward, ProxyAccountBatch
<1> QED
  BY <1>1, <1>2, <1>b, <1>3, <1>c, <1>d, <1>5, <1>6, <1>7, <1>8, <1>9, <1>10, <1>11, <1>12, <1>13
  DEF Next

(* So it holds in every reachable state.                                   *)
THEOREM Invariance == Spec => []IInv
BY InitIInv, NextIInv, PTL DEF Spec

(* Storage, log and call stack keep their types.                           *)
THEOREM TypeCorrect == Spec => []TypeOK
<1>1. IInv => TypeOK
  BY DEF IInv, WorldInv, TypeOK
<1> QED
  BY <1>1, Invariance, PTL

(* No use of replay protection is ever accepted twice: not by a relayer    *)
(* that submits again, not by a contract that re-enters, not after any     *)
(* pattern of reverts.                                                     *)
THEOREM ReplaySafe == Spec => []NoReplay
<1>1. IInv => NoReplay
  BY DEF IInv, WorldInv, LogUnique, NoReplay
<1> QED
  BY <1>1, Invariance, PTL

-----------------------------------------------------------------------------
(* A wallet's owner is nobody or the signer of its address; a call made as *)
(* a signer, or from a wallet, was signed by that signer for that          *)
(* forwarder; a wallet runs what its signer signed for it, and calls the   *)
(* BitFlipNonceStore for nothing else.                                     *)
RightOutcome(o) ==
  /\ o.sender \in Key => Signed[o.tx].signer = o.sender /\ Signed[o.tx].forwarder = o.at
  /\ o.sender \in Wallet =>
       Signed[o.tx].signer = SignerOf[o.sender] /\ Signed[o.tx].forwarder = o.sender
RightRun(run) ==
  run.at \in Wallet =>
    Signed[run.tx].forwarder = run.at /\ Signed[run.tx].signer = SignerOf[run.at]
Right(w) ==
  /\ \A x \in Wallet : w.owner[x] \in {NoAccount, SignerOf[x]}
  /\ \A i \in DOMAIN w.outcomes : RightOutcome(w.outcomes[i])
  /\ \A u \in w.updates : InLog(u, w) /\ RightRun(u)

StackRight ==
  \A n \in DOMAIN stack :
    /\ Right(stack[n].saved)
    /\ stack[n].run # NoRun => RightRun(stack[n].run)

RInv == IInv /\ Right(world) /\ StackRight /\ SpentWhileRunning

-----------------------------------------------------------------------------
(* What a wallet accepts was signed by the signer of its address: nobody   *)
(* is no signer, and a stranger's address is no key's.                     *)
LEMMA OwnerSigned ==
  ASSUME NEW x \in Wallet, NEW t \in Tx, ownerSigned(x, t), Right(world)
  PROVE  Signed[t].forwarder = x /\ Signed[t].signer = SignerOf[x]
<1>1. x \in Forwarder /\ SignerOf[x] \in Key
  BY WalletAssumption
<1>2. recover(x, t) \in Who /\ recover(x, t) # NoAccount
  BY <1>1, IndexType, NoOwnerAssumption
<1>3. recover(x, t) = SignerOf[x]
  BY <1>2 DEF ownerSigned, Right
<1>4. CASE Signed[t].forwarder = x
  BY <1>3, <1>4 DEF recover
<1>5. CASE Signed[t].forwarder # x
  <2>1. recover(x, t) = <<x, t>> /\ <<x, t>> \in Stranger
    BY <1>1, <1>5 DEF recover, Stranger
  <2> QED BY <1>1, <1>3, <2>1, StrangerAssumption
<1> QED BY <1>4, <1>5

(* A call is made as the signer of what runs, or from the wallet it was    *)
(* signed for.                                                             *)
LEMMA OutcomeRight ==
  ASSUME NEW run \in Run, RightRun(run), NEW ok \in BOOLEAN
  PROVE  RightOutcome(CallOutcome(run, ok))
<1> DEFINE o == CallOutcome(run, ok)
<1>1. run.at \in Forwarder /\ run.tx \in Tx
  BY DEF Run
<1>2. o.at = run.at /\ o.tx = run.tx /\ o.sender = senderOf(run)
  BY DEF CallOutcome
<1> SUFFICES RightOutcome(o)
  OBVIOUS
<1> HIDE DEF o
<1>3. CASE run.at \in Wallet
  <2>1. o.sender = run.at /\ run.at \notin Key
    BY <1>2, <1>3, WalletAssumption DEF senderOf, msgSender, Hub, Who
  <2> QED BY <1>2, <1>3, <2>1 DEF RightOutcome, RightRun
<1>4. CASE run.at \notin Wallet
  <2>1. o.sender = recover(run.at, run.tx) /\ o.sender \in Who
    BY <1>1, <1>2, <1>4, IndexType DEF senderOf, msgSender, Hub
  <2>2. o.sender \notin Wallet
    BY <2>1, WalletAssumption
  <2>3. CASE Signed[run.tx].forwarder = run.at
    BY <1>2, <2>1, <2>2, <2>3 DEF recover, RightOutcome
  <2>4. CASE Signed[run.tx].forwarder # run.at
    <3>1. o.sender \in Stranger
      BY <1>1, <2>1, <2>4 DEF recover, Stranger
    <3> QED BY <2>2, <3>1, StrangerAssumption DEF RightOutcome
  <2> QED BY <2>3, <2>4
<1> QED BY <1>3, <1>4

(* What is accepted is no use that is in the log already.                  *)
LEMMA AcceptedIsNew ==
  ASSUME NEW w, WorldInv(w), NEW run, InLog(run, w), NEW f \in Forwarder, NEW t \in Tx,
         verifyAccepts(w, f, t), NEW new, new.at = f, new.tx = t
  PROVE  ~SameUse(run, new)
<1>1. PICK i \in DOMAIN w.accepted : w.accepted[i].at = run.at /\ w.accepted[i].tx = run.tx
  BY DEF InLog
<1>2. w \in World /\ w.accepted[i] \in Accepted /\ Recorded(w, w.accepted[i])
  BY DEF WorldInv, World, LogRecorded
<1>3. ~SameUse(w.accepted[i], [at |-> f, tx |-> t])
  BY <1>2, RecordedIsSpent
<1> QED BY <1>1, <1>3 DEF SameUse, SameQueue

-----------------------------------------------------------------------------
(* A frame is entered.                                                     *)
LEMMA EnterRight ==
  ASSUME RInv, NEW run \in Run \cup {NoRun}, Enter(run), Right(world'),
         \A d : InLog(d, world) => InLog(d, world'),
         run # NoRun =>
           /\ RightRun(run)
           /\ InLog(run, world')
           /\ \A n \in DOMAIN stack : stack[n].run # NoRun => ~SameUse(stack[n].run, run)
  PROVE  Right(world') /\ StackRight' /\ SpentWhileRunning'
<1> DEFINE frame == [saved |-> world, run |-> run]
<1>1. /\ stack \in Seq(Frame) /\ stack' = Append(stack, frame)
      /\ frame.saved = world /\ frame.run = run
  BY DEF Enter, RInv, IInv
<1> HIDE DEF frame
<1>2. /\ Len(stack) \in Nat /\ Len(stack') = Len(stack) + 1
      /\ DOMAIN stack = 1..Len(stack) /\ DOMAIN stack' = 1..(Len(stack) + 1)
      /\ \A n \in 1..Len(stack) : stack'[n] = stack[n]
      /\ stack'[Len(stack) + 1] = frame
  BY <1>1
<1>3. StackRight'
  <2> SUFFICES ASSUME NEW n \in DOMAIN stack'
               PROVE  Right(stack'[n].saved) /\ (stack'[n].run # NoRun => RightRun(stack'[n].run))
    BY DEF StackRight, Right, RightRun, RightOutcome, InLog
  <2>1. CASE n = Len(stack) + 1
    BY <1>1, <1>2, <2>1 DEF RInv
  <2>2. CASE n # Len(stack) + 1
    BY <1>2, <2>2 DEF RInv, StackRight
  <2> QED BY <2>1, <2>2
<1>4. SpentWhileRunning'
  <2> SUFFICES ASSUME NEW n \in DOMAIN stack', stack'[n].run # NoRun
               PROVE  /\ InLog(stack'[n].run, world')
                      /\ \A k \in (n + 1)..Len(stack') :
                           /\ InLog(stack'[n].run, stack'[k].saved)
                           /\ stack'[k].run # NoRun => ~SameUse(stack'[n].run, stack'[k].run)
    BY DEF SpentWhileRunning, InLog, Depth
  <2>1. CASE n = Len(stack) + 1
    BY <1>1, <1>2, <2>1
  <2>2. CASE n # Len(stack) + 1
    <3>1. n \in DOMAIN stack /\ stack'[n] = stack[n] /\ InLog(stack[n].run, world)
      BY <1>2, <2>2 DEF RInv, SpentWhileRunning
    <3>2. ASSUME NEW k \in (n + 1)..Len(stack')
          PROVE  /\ InLog(stack[n].run, stack'[k].saved)
                 /\ stack'[k].run # NoRun => ~SameUse(stack[n].run, stack'[k].run)
      <4>1. CASE k = Len(stack) + 1
        BY <1>1, <1>2, <3>1, <4>1
      <4>2. CASE k # Len(stack) + 1
        <5>1. k \in (n + 1)..Depth /\ stack'[k] = stack[k]
          BY <1>2, <3>1, <4>2 DEF Depth
        <5> QED BY <3>1, <5>1 DEF RInv, SpentWhileRunning
      <4> QED BY <4>1, <4>2
    <3> QED BY <3>1, <3>2
  <2> QED BY <2>1, <2>2
<1> QED BY <1>3, <1>4

(* Frames go, and those below stay but for their loop index.               *)
Remain(k) ==
  /\ Len(stack') = k /\ DOMAIN stack' = 1..k
  /\ \A m \in 1..k :
       /\ stack'[m].saved = stack[m].saved
       /\ stack'[m].run # NoRun =>
            /\ stack[m].run # NoRun
            /\ stack'[m].run.at = stack[m].run.at
            /\ stack'[m].run.tx = stack[m].run.tx

LEMMA RemainRight ==
  ASSUME RInv, NEW k \in 0..Len(stack), Remain(k),
         \A m \in 1..k : stack[m].run # NoRun => InLog(stack[m].run, world')
  PROVE  StackRight' /\ SpentWhileRunning'
<1>1. stack \in Seq(Frame) /\ \A m \in 1..k : m \in DOMAIN stack
  BY DEF RInv, IInv
<1>2. StackRight'
  <2> SUFFICES ASSUME NEW m \in 1..k
               PROVE  Right(stack'[m].saved) /\ (stack'[m].run # NoRun => RightRun(stack'[m].run))
    BY DEF StackRight, Right, RightRun, RightOutcome, InLog, Remain
  <2>1. Right(stack[m].saved) /\ (stack[m].run # NoRun => RightRun(stack[m].run))
    BY <1>1 DEF RInv, StackRight
  <2>2. Right(stack'[m].saved)
    BY <2>1 DEF Remain
  <2>3. ASSUME stack'[m].run # NoRun PROVE RightRun(stack'[m].run)
    BY <2>1, <2>3 DEF Remain, RightRun
  <2> QED BY <2>2, <2>3
<1>3. SpentWhileRunning'
  <2> SUFFICES ASSUME NEW m \in 1..k, stack'[m].run # NoRun
               PROVE  /\ InLog(stack'[m].run, world')
                      /\ \A j \in (m + 1)..k :
                           /\ InLog(stack'[m].run, stack'[j].saved)
                           /\ stack'[j].run # NoRun => ~SameUse(stack'[m].run, stack'[j].run)
    BY DEF SpentWhileRunning, InLog, Depth, Remain
  <2>1. /\ stack[m].run # NoRun /\ stack'[m].run.at = stack[m].run.at
        /\ stack'[m].run.tx = stack[m].run.tx
    BY DEF Remain
  <2>2. \A w : InLog(stack[m].run, w) => InLog(stack'[m].run, w)
    BY <2>1 DEF InLog
  <2>3. InLog(stack'[m].run, world')
    BY <2>1, <2>2
  <2>4. ASSUME NEW j \in (m + 1)..k
        PROVE  /\ InLog(stack'[m].run, stack'[j].saved)
               /\ stack'[j].run # NoRun => ~SameUse(stack'[m].run, stack'[j].run)
    <3>1. j \in 1..k /\ j \in (m + 1)..Depth /\ m \in DOMAIN stack
      BY <1>1 DEF Depth
    <3>2. /\ InLog(stack[m].run, stack[j].saved)
          /\ stack[j].run # NoRun => ~SameUse(stack[m].run, stack[j].run)
      BY <2>1, <3>1 DEF RInv, SpentWhileRunning
    <3>3. InLog(stack'[m].run, stack'[j].saved)
      BY <2>2, <3>1, <3>2 DEF Remain
    <3>4. ASSUME stack'[j].run # NoRun PROVE ~SameUse(stack'[m].run, stack'[j].run)
      BY <2>1, <3>1, <3>2, <3>4 DEF Remain, SameUse, SameQueue
    <3> QED BY <3>3, <3>4
  <2> QED BY <2>3, <2>4
<1> QED BY <1>2, <1>3

(* The stack without its frames from n on.                                 *)
LEMMA PopRight ==
  ASSUME RInv, NEW n \in 1..Len(stack), stack' = SubSeq(stack, 1, n - 1), Right(world'),
         \A m \in 1..(n - 1) : stack[m].run # NoRun => InLog(stack[m].run, world')
  PROVE  Right(world') /\ StackRight' /\ SpentWhileRunning'
<1>1. stack \in Seq(Frame) /\ n - 1 \in 0..Len(stack)
  BY DEF RInv, IInv
<1>2. Remain(n - 1)
  BY <1>1, PrefixType DEF Remain
<1> QED BY <1>1, <1>2, RemainRight

(* A revert brings back a world that was right, and in which whatever      *)
(* still runs was accepted.                                                *)
LEMMA RevertRight ==
  ASSUME RInv, NEW n \in 1..Len(stack), Revert(n)
  PROVE  Right(world') /\ StackRight' /\ SpentWhileRunning'
<1>1. world' = stack[n].saved /\ stack' = SubSeq(stack, 1, n - 1) /\ n \in DOMAIN stack
  BY DEF Revert, RInv, IInv
<1>2. Right(world')
  BY <1>1 DEF RInv, StackRight
<1>3. ASSUME NEW m \in 1..(n - 1), stack[m].run # NoRun PROVE InLog(stack[m].run, world')
  <2>1. m \in DOMAIN stack /\ n \in (m + 1)..Depth
    BY <1>1 DEF RInv, IInv, Depth
  <2> QED BY <1>1, <1>3, <2>1 DEF RInv, SpentWhileRunning
<1> QED BY <1>1, <1>2, <1>3, PopRight

(* A callee's frame is gone, and its forwarder goes on from w.             *)
LEMMA NextCallRight ==
  ASSUME RInv, Called, NEW w, WorldInv(w), Right(w), NEW ok \in BOOLEAN, NextCall(w, ok),
         \A m \in 1..(Depth - 1) : stack[m].run # NoRun => InLog(stack[m].run, w)
  PROVE  Right(world') /\ StackRight' /\ SpentWhileRunning'
<1> DEFINE n == Len(stack)
           caller == stack[n - 1]
           run == caller.run
           o == CallOutcome(run, ok)
<1>1. /\ stack \in Seq(Frame) /\ n \in Nat /\ n > 1 /\ n \in DOMAIN stack
      /\ n - 1 \in DOMAIN stack /\ n - 2 \in 0..Len(stack) /\ Depth = n
  BY DEF RInv, IInv, Called, Depth
<1>2. caller \in Frame /\ run \in Run /\ run # NoRun
  <2>1. caller \in Frame /\ stack[n].run = NoRun
    BY <1>1 DEF Called, Top
  <2>2. run # NoRun
    BY <1>1, <2>1 DEF RInv, IInv, CalledByForwarder
  <2> QED BY <2>1, <2>2 DEF Frame
<1>3. RightOutcome(o)
  <2>1. RightRun(run)
    BY <1>1, <1>2 DEF RInv, StackRight
  <2> QED BY <1>2, <2>1, OutcomeRight
<1>4. w \in World /\ w.outcomes \in Seq(Outcome)
  BY DEF WorldInv, World
<1>5. world' = [w EXCEPT !.outcomes = Append(w.outcomes, o)]
  BY DEF NextCall, Depth
<1>6. /\ world'.owner = w.owner /\ world'.accepted = w.accepted
      /\ world'.outcomes = Append(w.outcomes, o) /\ world'.updates = w.updates
  BY <1>4, <1>5 DEF World
<1> DEFINE frame == [caller EXCEPT !.run.next = @ + 1]
<1>7. /\ frame.saved = caller.saved
      /\ frame.run.at = run.at /\ frame.run.tx = run.tx
  BY <1>2 DEF Frame, Run
<1>8. stack' = Append(SubSeq(stack, 1, n - 2), frame)
  BY DEF NextCall, Depth
<1> HIDE DEF frame, o
<1>9. Right(world')
  <2>1. ASSUME NEW i \in DOMAIN world'.outcomes PROVE RightOutcome(world'.outcomes[i])
    <3>1. CASE i = Len(w.outcomes) + 1
      BY <1>3, <1>4, <1>6, <3>1
    <3>2. CASE i # Len(w.outcomes) + 1
      <4>1. i \in DOMAIN w.outcomes /\ world'.outcomes[i] = w.outcomes[i]
        BY <1>4, <1>6, <3>2
      <4> QED BY <4>1 DEF Right
    <3> QED BY <3>1, <3>2
  <2> QED BY <1>6, <2>1 DEF Right, InLog
<1>10. Remain(n - 1)
  <2>1. /\ SubSeq(stack, 1, n - 2) \in Seq(Frame)
        /\ Len(SubSeq(stack, 1, n - 2)) = n - 2
        /\ \A m \in 1..(n - 2) : SubSeq(stack, 1, n - 2)[m] = stack[m]
    BY <1>1, PrefixType
  <2> HIDE DEF n
  <2>2. /\ Len(stack') = n - 1 /\ DOMAIN stack' = 1..(n - 1)
        /\ \A m \in 1..(n - 2) : stack'[m] = stack[m]
        /\ stack'[n - 1] = frame
    BY <1>1, <1>8, <2>1
  <2> QED BY <1>1, <1>2, <1>7, <2>2 DEF Remain
<1>11. \A m \in 1..(n - 1) : stack[m].run # NoRun => InLog(stack[m].run, world')
  BY <1>1, <1>6 DEF InLog
<1> QED BY <1>1, <1>9, <1>10, <1>11, RemainRight

-----------------------------------------------------------------------------
(* What is accepted enters as a new frame: it is a new entry of the log,   *)
(* so no use that is in the log, and none that runs.                       *)
LEMMA VerifyRight ==
  ASSUME RInv, NEW f \in Forwarder, NEW t \in Tx, verify(f, t),
         f \in Wallet => ownerSigned(f, t)
  PROVE  Right(world') /\ StackRight' /\ SpentWhileRunning'
<1> DEFINE run == [at |-> f, tx |-> t, next |-> 1]
           v   == verified(world, f, t)
<1>1. /\ WorldInv(world) /\ world \in World /\ world.accepted \in Seq(Accepted)
      /\ stack \in Seq(Frame)
  BY DEF RInv, IInv, WorldInv, World
<1>2. verifyAccepts(world, f, t) /\ world' = v /\ Enter(run)
  BY DEF verify
<1>3. run \in Run /\ run.at = f /\ run.tx = t
  BY DEF Run
<1>4. /\ v.owner = world.owner /\ v.outcomes = world.outcomes /\ v.updates = world.updates
      /\ v.accepted = Append(world.accepted, [at |-> f, tx |-> t])
  <2>1. /\ spent(world, f, t) \in World
        /\ spent(world, f, t).accepted = world.accepted
        /\ spent(world, f, t).outcomes = world.outcomes
        /\ spent(world, f, t).owner = world.owner
        /\ spent(world, f, t).updates = world.updates
    BY <1>1, <1>2, SpentGrows
  <2> QED BY <2>1 DEF verified, World
<1> HIDE DEF run, v
<1>6. RightRun(run)
  BY <1>3, OwnerSigned DEF RInv, RightRun
<1>7. /\ \A i \in DOMAIN world.accepted :
           i \in DOMAIN v.accepted /\ v.accepted[i] = world.accepted[i]
      /\ Len(world.accepted) + 1 \in DOMAIN v.accepted
      /\ v.accepted[Len(world.accepted) + 1] = [at |-> f, tx |-> t]
  BY <1>1, <1>4
<1>8. \A d : InLog(d, world) => InLog(d, world')
  BY <1>2, <1>7 DEF InLog
<1>5. Right(world')
  BY <1>2, <1>4, <1>8 DEF RInv, Right
<1>9. InLog(run, world')
  BY <1>2, <1>3, <1>7 DEF InLog
<1>10. ASSUME NEW n \in DOMAIN stack, stack[n].run # NoRun
       PROVE  ~SameUse(stack[n].run, run)
  <2>1. InLog(stack[n].run, world)
    BY <1>10 DEF RInv, SpentWhileRunning
  <2> QED BY <1>1, <1>2, <1>3, <2>1, AcceptedIsNew
<1> QED BY <1>2, <1>3, <1>5, <1>6, <1>8, <1>9, <1>10, EnterRight

-----------------------------------------------------------------------------
(* At the start no wallet has an owner and nothing runs.                   *)
THEOREM InitRInv == Init => RInv
<1> SUFFICES ASSUME Init PROVE RInv
  OBVIOUS
<1>1. /\ stack = <<>> /\ world.outcomes = <<>>
      /\ world.updates = {} /\ \A x \in Wallet : world.owner[x] = NoAccount
  BY DEF Init, InitialWorld
<1> QED
  BY <1>1, InitIInv DEF RInv, Right, StackRight, SpentWhileRunning

(* Every action keeps it.                                                  *)
THEOREM NextRInv == RInv /\ [Next]_vars => RInv'
<1> SUFFICES ASSUME RInv, [Next]_vars
             PROVE  Right(world') /\ StackRight' /\ SpentWhileRunning'
  BY NextIInv DEF RInv, Right, RightOutcome, RightRun, InLog
<1>0. /\ IInv /\ stack \in Seq(Frame) /\ WorldInv(world) /\ world \in World
      /\ Right(world) /\ StackRight /\ SpentWhileRunning
  BY DEF RInv, IInv, WorldInv
<1>1. CASE StartContract
  BY <1>0, <1>1, EnterRight DEF StartContract
<1>2. ASSUME stack' = stack, Right(world'), world'.accepted = world.accepted
      PROVE  Right(world') /\ StackRight' /\ SpentWhileRunning'
  <2>1. Remain(Len(stack)) /\ Len(stack) \in 0..Len(stack)
    BY <1>0, <1>2 DEF Remain
  <2>2. \A m \in 1..Len(stack) : stack[m].run # NoRun => InLog(stack[m].run, world')
    BY <1>0, <1>2 DEF SpentWhileRunning, InLog
  <2> QED BY <1>2, <2>1, <2>2, RemainRight
<1>3. ASSUME NEW x \in Wallet, createProxyAccount(x)
      PROVE  Right(world') /\ StackRight' /\ SpentWhileRunning'
  <2>1. /\ OnlyOwner(world, world') /\ stack' = stack
        /\ world'.owner = [world.owner EXCEPT ![x] = SignerOf[x]]
    BY <1>0, <1>3, CreatedWorld
  <2>2. world.owner \in [Wallet -> Key \cup {NoAccount, NoOwner}]
    BY <1>0 DEF World
  <2>3. Right(world')
    BY <1>0, <2>1, <2>2 DEF Right, OnlyOwner, InLog
  <2> QED BY <1>2, <2>1, <2>3 DEF OnlyOwner
<1>a. ASSUME NEW x \in Wallet, NEW who \in Key, init(x, who)
      PROVE  Right(world') /\ StackRight' /\ SpentWhileRunning'
  <2>1. world.owner[x] # NoOwner
    BY <1>0, WalletAssumption, NoOwnerAssumption DEF Right, Who
  <2> QED BY <1>0, <1>2, <1>a, <2>1, InitialisedWorld
<1>4. ASSUME NEW n \in TargetNonce, updateFor(n)
      PROVE  Right(world') /\ StackRight' /\ SpentWhileRunning'
  <2>1. stack' = stack
    BY <1>4 DEF updateFor
  <2>2. /\ world'.accepted = world.accepted /\ world'.outcomes = world.outcomes
        /\ world'.owner = world.owner /\ world'.updates = world.updates
    BY <1>0, <1>4, UpdatedWorld
  <2>3. Right(world')
    BY <1>0, <2>2 DEF Right, InLog
  <2> QED BY <1>2, <2>1, <2>2, <2>3
<1>b. ASSUME NEW n \in TargetNonce, Called
      PROVE  LET v == asForwarder(world, stack[Depth - 1].run, n)
             IN WorldInv(v) /\ Right(v) /\ v.accepted = world.accepted
  <2> DEFINE run == stack[Depth - 1].run
             v == asForwarder(world, run, n)
             d == [at |-> run.at, tx |-> run.tx, nonce |-> n]
  <2>1. run \in Run /\ InLog(run, world) /\ RightRun(run)
    BY <1>0, <1>b, CallerRun DEF SpentWhileRunning, StackRight
  <2>a. /\ Flipped(world, v, targetIndex(run.at, n.target, n.queue), n.bits)
        /\ v.updates = world.updates \cup {d}
    BY <1>0, <2>1, AsForwarderWorld
  <2>2. /\ v.owner = world.owner /\ v.accepted = world.accepted
        /\ v.outcomes = world.outcomes /\ v.updates = world.updates \cup {d}
    BY <2>a DEF Flipped
  <2>3. WorldInv(v)
    BY <1>0, <2>1, AsForwarderInv
  <2>4. InLog(d, v) /\ RightRun(d)
    BY <2>1, <2>2 DEF InLog, RightRun
  <2> HIDE DEF v, d
  <2>5. Right(v)
    BY <1>0, <2>2, <2>4 DEF Right, InLog
  <2> QED BY <2>2, <2>3, <2>5 DEF v
<1>c. ASSUME NEW n \in TargetNonce, DelegateUpdates(n)
      PROVE  Right(world') /\ StackRight' /\ SpentWhileRunning'
  BY <1>2, <1>b, <1>c DEF DelegateUpdates
<1>5. ASSUME NEW f \in Hub, NEW t \in Tx, RelayHubForward(f, t) \/ RelayHubBatch(f, t)
      PROVE  Right(world') /\ StackRight' /\ SpentWhileRunning'
  BY <1>5, VerifyRight DEF RelayHubForward, RelayHubBatch, Hub
<1>6. ASSUME NEW x \in Wallet, NEW t \in Tx,
             ProxyAccountForward(x, t) \/ ProxyAccountBatch(x, t)
      PROVE  Right(world') /\ StackRight' /\ SpentWhileRunning'
  BY <1>6, VerifyRight, WalletAssumption DEF ProxyAccountForward, ProxyAccountBatch
<1>7. CASE ExecuteCall
  BY <1>0, <1>7, EnterRight DEF ExecuteCall
<1>8. CASE InvalidCallType \/ OutOfGas
  <2>1. Running /\ Revert(Depth)
    BY <1>8 DEF InvalidCallType, OutOfGas
  <2> QED BY <1>0, <2>1, TopRun, RevertRight
<1>9. ASSUME NEW m \in 1..(Depth - 1), stack[m].run # NoRun, Depth > 1
      PROVE  InLog(stack[m].run, world) /\ InLog(stack[m].run, Top.saved)
  <2>1. m \in DOMAIN stack /\ Depth \in (m + 1)..Depth
    BY <1>0 DEF Depth
  <2> QED BY <1>0, <1>9, <2>1 DEF SpentWhileRunning, Top
<1>d. ASSUME NEW n \in TargetNonce, StoreReturns(n)
      PROVE  Right(world') /\ StackRight' /\ SpentWhileRunning'
  <2> DEFINE v == asForwarder(world, stack[Depth - 1].run, n)
  <2>1. Called /\ Depth > 1 /\ NextCall(v, TRUE)
    BY <1>d DEF StoreReturns, Called
  <2>2. WorldInv(v) /\ Right(v) /\ v.accepted = world.accepted
    BY <1>b, <2>1
  <2> HIDE DEF v
  <2>3. \A m \in 1..(Depth - 1) : stack[m].run # NoRun => InLog(stack[m].run, v)
    BY <1>9, <2>1, <2>2 DEF InLog
  <2> QED BY <2>1, <2>2, <2>3, NextCallRight
<1>10. CASE CallReturns
  BY <1>0, <1>9, <1>10, NextCallRight DEF CallReturns, Called
<1>11. ASSUME NEW data \in RevertData, CallFails(data)
       PROVE  Right(world') /\ StackRight' /\ SpentWhileRunning'
  <2>1. /\ Called /\ Depth > 1 /\ Depth - 1 \in 1..Len(stack) /\ Depth \in DOMAIN stack
    BY <1>0, <1>11 DEF CallFails, Called, Depth
  <2>2. WorldInv(Top.saved) /\ Right(Top.saved)
    BY <1>0, <2>1 DEF IInv, SavedInv, StackRight, Top
  <2>3. CASE NextCall(Top.saved, FALSE)
    BY <1>9, <2>1, <2>2, <2>3, NextCallRight
  <2>4. CASE Revert(Depth - 1)
    BY <2>1, <2>4, RevertRight
  <2> QED BY <1>11, <2>3, <2>4 DEF CallFails
<1>12. CASE ForwarderReturns
  <2>1. Running /\ stack' = SubSeq(stack, 1, Depth - 1) /\ world' = world
    BY <1>12 DEF ForwarderReturns
  <2>2. Depth \in 1..Len(stack)
    BY <1>0, <2>1, TopRun
  <2>3. \A m \in 1..(Depth - 1) : stack[m].run # NoRun => InLog(stack[m].run, world')
    BY <1>0, <2>1, <2>2 DEF SpentWhileRunning
  <2> QED BY <1>0, <2>1, <2>2, <2>3, PopRight
<1>13. CASE ContractReturns
  BY <1>0, <1>13 DEF ContractReturns, StackRight, SpentWhileRunning
<1>14. CASE ContractReverts
  <2>1. Revert(1) /\ 1 \in 1..Len(stack)
    BY <1>0, <1>14 DEF ContractReverts, Depth
  <2> QED BY <2>1, RevertRight
<1>15. CASE UNCHANGED vars
  BY <1>0, <1>2, <1>15 DEF vars
<1> QED
  BY <1>1, <1>3, <1>a, <1>4, <1>c, <1>d, <1>5, <1>6, <1>7, <1>8, <1>10, <1>11, <1>12, <1>13, <1>14,
     <1>15
  DEF Next

(* Whoever acts in a frame was signed for: wallets have owners who asked.  *)
THEOREM RightInvariance == Spec => []RInv
BY InitRInv, NextRInv, PTL DEF Spec

(* For every depth of the stack: a forwarder acts as a key holder, or from *)
(* a wallet, only with what that key holder, or the wallet's own signer,   *)
(* signed for this very forwarder.                                         *)
THEOREM Authorised == Spec => []OnlyAuthorised
<1>1. RInv => OnlyAuthorised
  BY DEF RInv, Right, RightOutcome, OnlyAuthorised
<1> QED BY <1>1, RightInvariance, PTL

(* For every depth of the stack: the use of a forwarder that is still      *)
(* running is in the log, stays there if any frame above it reverts, and   *)
(* no re-entrant frame runs on the same use.                               *)
THEOREM SpentFirst == Spec => []SpentWhileRunning
<1>1. RInv => SpentWhileRunning
  BY DEF RInv
<1> QED BY <1>1, RightInvariance, PTL

-----------------------------------------------------------------------------
(* The entries of log l that draw on authority a at index i.               *)
Drawn(l, a, i) ==
  {j \in DOMAIN l : Signed[l[j].tx].authority = a /\ indexOf(l[j].at, l[j].tx) = i}

(* What forwarders were made to spend of word i of the BitFlipNonceStore.  *)
Updated(w, i) ==
  UNION {u.nonce.bits : u \in
           {d \in w.updates : targetIndex(d.at, d.nonce.target, d.nonce.queue) = i}}

(* Storage sums up the log: each word is what its entries make of it.      *)
Sums(w, i) ==
  /\ LET D == Drawn(w.accepted, multiNonceAddress, i)
     IN /\ w.nonces[i] = Cardinality(D)
        /\ {Signed[w.accepted[j].tx].nonce : j \in D} = 0..(w.nonces[i] - 1)
  /\ w.flips[i] =
       UNION {Signed[w.accepted[j].tx].bits : j \in Drawn(w.accepted, bitFlipAddress, i)}
  /\ w.bitmaps[i] =
       (UNION {Signed[w.accepted[j].tx].bits : j \in Drawn(w.accepted, nonceStoreAddress, i)})
         \cup Updated(w, i)

InOrder(l) ==
  \A k \in DOMAIN l :
    Signed[l[k].tx].authority = multiNonceAddress =>
      Signed[l[k].tx].nonce =
        Cardinality({j \in 1..(k - 1) : SameQueue(l[j], l[k])})

Summed(w) == (\A i \in StoreIndex : Sums(w, i)) /\ InOrder(w.accepted)

(* A forwarder's bitmap in the BitFlipNonceStore has the index of its own. *)
LEMMA SameIndex ==
  ASSUME NEW f \in Forwarder, NEW t \in Tx
  PROVE  targetIndexOf(f, t) = indexOf(f, t)
BY DEF targetIndexOf, indexOf, targetIndex, queueIndex

(* The entries of a log that grew by one.                                  *)
LEMMA DrawnAppend ==
  ASSUME NEW l \in Seq(Accepted), NEW e \in Accepted, NEW a, NEW i
  PROVE  /\ DOMAIN Append(l, e) = DOMAIN l \cup {Len(l) + 1}
         /\ Len(l) + 1 \notin DOMAIN l
         /\ Append(l, e)[Len(l) + 1] = e
         /\ \A j \in DOMAIN l : Append(l, e)[j] = l[j]
         /\ Drawn(Append(l, e), a, i) =
              IF Signed[e.tx].authority = a /\ indexOf(e.at, e.tx) = i
              THEN Drawn(l, a, i) \cup {Len(l) + 1} ELSE Drawn(l, a, i)
<1>1. /\ DOMAIN Append(l, e) = DOMAIN l \cup {Len(l) + 1}
      /\ Len(l) + 1 \notin DOMAIN l
      /\ Append(l, e)[Len(l) + 1] = e
      /\ \A j \in DOMAIN l : Append(l, e)[j] = l[j]
  OBVIOUS
<1> QED BY <1>1 DEF Drawn

LEMMA DrawnFinite ==
  ASSUME NEW l \in Seq(Accepted), NEW a, NEW i
  PROVE  /\ IsFiniteSet(Drawn(l, a, i))
         /\ Cardinality(Drawn(l, a, i)) \in Nat
<1>1. Drawn(l, a, i) \subseteq 1..Len(l) /\ IsFiniteSet(1..Len(l))
  BY FS_Interval DEF Drawn
<1>2. IsFiniteSet(Drawn(l, a, i))
  BY <1>1, FS_Subset
<1> QED BY <1>2, FS_CardinalityType

(* The union, and the set of nonces, of entries of which one is new.       *)
LEMMA ValuesAppend ==
  ASSUME NEW l \in Seq(Accepted), NEW e \in Accepted, NEW D \in SUBSET (DOMAIN l),
         NEW m, m = Append(l, e)
  PROVE  /\ {Signed[m[j].tx].nonce : j \in D} = {Signed[l[j].tx].nonce : j \in D}
         /\ {Signed[m[j].tx].nonce : j \in D \cup {Len(l) + 1}}
              = {Signed[l[j].tx].nonce : j \in D} \cup {Signed[e.tx].nonce}
         /\ UNION {Signed[m[j].tx].bits : j \in D} = UNION {Signed[l[j].tx].bits : j \in D}
         /\ UNION {Signed[m[j].tx].bits : j \in D \cup {Len(l) + 1}}
              = (UNION {Signed[l[j].tx].bits : j \in D}) \cup Signed[e.tx].bits
<1>1. m[Len(l) + 1] = e /\ \A j \in D : m[j] = l[j]
  BY DrawnAppend
<1> QED BY <1>1

(* What is accepted is added to the word it draws on, and to no other.     *)
LEMMA VerifiedSummed ==
  ASSUME NEW w, WorldInv(w), Summed(w), NEW f \in Forwarder, NEW t \in Tx,
         verifyAccepts(w, f, t)
  PROVE  Summed(verified(w, f, t))
<1> DEFINE e == [at |-> f, tx |-> t]
           l == w.accepted
           n == Len(l) + 1
           x == indexOf(f, t)
           u == spent(w, f, t)
           v == verified(w, f, t)
<1>1. w \in World /\ l \in Seq(Accepted) /\ e \in Accepted /\ e.at = f /\ e.tx = t
  BY DEF WorldInv, World, Accepted
<1>2. u \in World /\ u.accepted = l /\ u.updates = w.updates
  BY <1>1, SpentGrows
<1>3. /\ v.accepted = Append(l, e) /\ v.nonces = u.nonces
      /\ v.flips = u.flips /\ v.bitmaps = u.bitmaps /\ v.updates = w.updates
  BY <1>2 DEF verified, World
<1>4. /\ w.nonces \in [StoreIndex -> Nat]
      /\ w.flips \in [StoreIndex -> SUBSET Bit]
      /\ w.bitmaps \in [TargetIndex -> SUBSET Bit]
  BY <1>1 DEF World
<1>5. x \in StoreIndex /\ x \in TargetIndex /\ targetIndexOf(f, t) = x
  BY IndexType, SameIndex
<1>6. StoreIndex \subseteq TargetIndex
  BY DEF StoreIndex, TargetIndex
<1>7. /\ Signed[t].authority \in Authority /\ Signed[t].nonce \in Nat
  BY SignedType
<1>8. /\ Signed[t].authority = multiNonceAddress =>
           /\ Signed[t].nonce = w.nonces[x]
           /\ u.nonces = [w.nonces EXCEPT ![x] = @ + 1]
           /\ u.flips = w.flips /\ u.bitmaps = w.bitmaps
      /\ Signed[t].authority = bitFlipAddress =>
           /\ u.flips = [w.flips EXCEPT ![x] = @ \cup Signed[t].bits]
           /\ u.nonces = w.nonces /\ u.bitmaps = w.bitmaps
      /\ Signed[t].authority = nonceStoreAddress =>
           /\ u.bitmaps = [w.bitmaps EXCEPT ![x] = @ \cup Signed[t].bits]
           /\ u.nonces = w.nonces /\ u.flips = w.flips
  BY <1>1, <1>5 DEF verifyAccepts, nonceAccepts, spent, nonceStored, bitflipStored, updateStored,
     World, multiNonceAddress, bitFlipAddress, nonceStoreAddress
<1> HIDE DEF u, v, e, x
<1>9. ASSUME NEW i \in StoreIndex PROVE Sums(v, i)
  <2> DEFINE D(a) == Drawn(l, a, i)
             E(a) == Drawn(v.accepted, a, i)
  <2>1. \A a : E(a) = IF Signed[t].authority = a /\ x = i THEN D(a) \cup {n} ELSE D(a)
    <3> TAKE a
    <3> HIDE DEF l
    <3>1. Drawn(Append(l, e), a, i) =
            IF Signed[e.tx].authority = a /\ indexOf(e.at, e.tx) = i
            THEN Drawn(l, a, i) \cup {n} ELSE Drawn(l, a, i)
      BY <1>1, DrawnAppend
    <3> QED BY <1>1, <1>3, <3>1 DEF x
  <2>2. \A a : D(a) \in SUBSET (DOMAIN l)
    BY DEF Drawn
  <2>3. /\ w.nonces[i] = Cardinality(D(multiNonceAddress)) /\ w.nonces[i] \in Nat
        /\ {Signed[l[j].tx].nonce : j \in D(multiNonceAddress)} = 0..(w.nonces[i] - 1)
        /\ w.flips[i] = UNION {Signed[l[j].tx].bits : j \in D(bitFlipAddress)}
        /\ w.bitmaps[i] =
             (UNION {Signed[l[j].tx].bits : j \in D(nonceStoreAddress)}) \cup Updated(w, i)
    BY <1>4 DEF Summed, Sums
  <2>4. /\ IsFiniteSet(D(multiNonceAddress)) /\ n \notin D(multiNonceAddress)
    <3>1. Len(l) + 1 \notin DOMAIN l
      BY <1>1
    <3> QED BY <1>1, <2>2, <3>1, DrawnFinite
  <2>5. Cardinality(D(multiNonceAddress) \cup {n}) = w.nonces[i] + 1
    BY <2>3, <2>4, FS_AddElement
  <2> HIDE DEF D, E, l, n
  <2>6. /\ v.nonces[i] = Cardinality(E(multiNonceAddress))
        /\ {Signed[v.accepted[j].tx].nonce : j \in E(multiNonceAddress)} = 0..(v.nonces[i] - 1)
    <3>1. CASE Signed[t].authority = multiNonceAddress /\ x = i
      <4>1. /\ v.nonces[i] = w.nonces[i] + 1 /\ Signed[t].nonce = w.nonces[i]
            /\ E(multiNonceAddress) = D(multiNonceAddress) \cup {n}
        BY <1>3, <1>4, <1>5, <1>8, <2>1, <3>1
      <4>2. {Signed[v.accepted[j].tx].nonce : j \in E(multiNonceAddress)}
              = {Signed[l[j].tx].nonce : j \in D(multiNonceAddress)} \cup {Signed[t].nonce}
        BY <1>1, <1>3, <2>2, <4>1, ValuesAppend DEF n
      <4>3. 0..(w.nonces[i] - 1) \cup {w.nonces[i]} = 0..((w.nonces[i] + 1) - 1)
        BY <2>3
      <4> QED BY <2>3, <2>5, <4>1, <4>2, <4>3
    <3>2. CASE ~(Signed[t].authority = multiNonceAddress /\ x = i)
      <4>1. v.nonces[i] = w.nonces[i]
        BY <1>3, <1>4, <1>5, <1>7, <1>8, <3>2 DEF Authority
      <4>2. E(multiNonceAddress) = D(multiNonceAddress)
        BY <2>1, <3>2
      <4>3. {Signed[v.accepted[j].tx].nonce : j \in D(multiNonceAddress)}
              = {Signed[l[j].tx].nonce : j \in D(multiNonceAddress)}
        BY <1>1, <1>3, <2>2, ValuesAppend
      <4> QED BY <2>3, <4>1, <4>2, <4>3
    <3> QED BY <3>1, <3>2
  <2>7. v.flips[i] = UNION {Signed[v.accepted[j].tx].bits : j \in E(bitFlipAddress)}
    <3>1. CASE Signed[t].authority = bitFlipAddress /\ x = i
      <4>1. /\ v.flips[i] = w.flips[i] \cup Signed[t].bits
            /\ E(bitFlipAddress) = D(bitFlipAddress) \cup {n}
        BY <1>3, <1>4, <1>5, <1>8, <2>1, <3>1
      <4>2. UNION {Signed[v.accepted[j].tx].bits : j \in E(bitFlipAddress)}
              = (UNION {Signed[l[j].tx].bits : j \in D(bitFlipAddress)}) \cup Signed[t].bits
        BY <1>1, <1>3, <2>2, <4>1, ValuesAppend DEF n
      <4> QED BY <2>3, <4>1, <4>2
    <3>2. CASE ~(Signed[t].authority = bitFlipAddress /\ x = i)
      <4>1. v.flips[i] = w.flips[i]
        BY <1>3, <1>4, <1>5, <1>7, <1>8, <3>2 DEF Authority
      <4>2. E(bitFlipAddress) = D(bitFlipAddress)
        BY <2>1, <3>2
      <4>3. UNION {Signed[v.accepted[j].tx].bits : j \in D(bitFlipAddress)}
              = UNION {Signed[l[j].tx].bits : j \in D(bitFlipAddress)}
        BY <1>1, <1>3, <2>2, ValuesAppend
      <4> QED BY <2>3, <4>1, <4>2, <4>3
    <3> QED BY <3>1, <3>2
  <2>8. v.bitmaps[i] =
          (UNION {Signed[v.accepted[j].tx].bits : j \in E(nonceStoreAddress)}) \cup Updated(v, i)
    <3>0. Updated(v, i) = Updated(w, i)
      BY <1>3 DEF Updated
    <3>1. CASE Signed[t].authority = nonceStoreAddress /\ x = i
      <4>1. /\ v.bitmaps[i] = w.bitmaps[i] \cup Signed[t].bits
            /\ E(nonceStoreAddress) = D(nonceStoreAddress) \cup {n}
        BY <1>3, <1>4, <1>5, <1>8, <2>1, <3>1
      <4>2. UNION {Signed[v.accepted[j].tx].bits : j \in E(nonceStoreAddress)}
              = (UNION {Signed[l[j].tx].bits : j \in D(nonceStoreAddress)}) \cup Signed[t].bits
        BY <1>1, <1>3, <2>2, <4>1, ValuesAppend DEF n
      <4> QED BY <2>3, <3>0, <4>1, <4>2
    <3>2. CASE ~(Signed[t].authority = nonceStoreAddress /\ x = i)
      <4>1. v.bitmaps[i] = w.bitmaps[i]
        BY <1>3, <1>4, <1>5, <1>6, <1>7, <1>8, <3>2 DEF Authority
      <4>2. E(nonceStoreAddress) = D(nonceStoreAddress)
        BY <2>1, <3>2
      <4>3. UNION {Signed[v.accepted[j].tx].bits : j \in D(nonceStoreAddress)}
              = UNION {Signed[l[j].tx].bits : j \in D(nonceStoreAddress)}
        BY <1>1, <1>3, <2>2, ValuesAppend
      <4> QED BY <2>3, <3>0, <4>1, <4>2, <4>3
    <3> QED BY <3>1, <3>2
  <2> QED BY <2>6, <2>7, <2>8 DEF Sums, E
<1>10. InOrder(v.accepted)
  <2> DEFINE m == v.accepted
  <2>1. /\ DOMAIN m = DOMAIN l \cup {n} /\ n \notin DOMAIN l /\ m[n] = e
        /\ \A j \in DOMAIN l : m[j] = l[j]
        /\ DOMAIN l = 1..(n - 1) /\ n \in Nat
    BY <1>1, <1>3, DrawnAppend
  <2> HIDE DEF m, n, l
  <2> SUFFICES ASSUME NEW k \in DOMAIN m, Signed[m[k].tx].authority = multiNonceAddress
               PROVE  Signed[m[k].tx].nonce =
                        Cardinality({j \in 1..(k - 1) : SameQueue(m[j], m[k])})
    BY DEF InOrder, m
  <2>2. CASE k \in DOMAIN l
    <3>1. \A j \in 1..(k - 1) : j \in DOMAIN l
      BY <2>1, <2>2
    <3>2. {j \in 1..(k - 1) : SameQueue(m[j], m[k])} = {j \in 1..(k - 1) : SameQueue(l[j], l[k])}
      BY <2>1, <2>2, <3>1
    <3> QED BY <2>1, <2>2, <3>2 DEF Summed, InOrder, l
  <2>3. CASE k = n
    <3>1. Signed[t].authority = multiNonceAddress
      BY <1>1, <2>1, <2>3
    <3>2. \A j \in DOMAIN l : l[j] \in Accepted
      BY <1>1 DEF l
    <3>3. \A j \in DOMAIN l : SameQueue(l[j], e) <=> j \in Drawn(l, multiNonceAddress, x)
      BY <1>1, <3>1, <3>2, SameQueueIndex DEF Drawn, x
    <3>4. {j \in 1..(k - 1) : SameQueue(m[j], m[k])} = Drawn(l, multiNonceAddress, x)
      BY <2>1, <2>3, <3>3 DEF Drawn
    <3>5. Signed[t].nonce = Cardinality(Drawn(l, multiNonceAddress, x))
      BY <1>5, <1>8, <3>1 DEF Summed, Sums, l
    <3> QED BY <1>1, <2>1, <2>3, <3>4, <3>5
  <2> QED BY <2>1, <2>2, <2>3
<1> QED BY <1>9, <1>10 DEF Summed, v
-----------------------------------------------------------------------------
(* A world in order whose log goes on from l.                              *)
Prefix(l, m) == Len(l) <= Len(m) /\ SubSeq(m, 1, Len(l)) = l
Good(l, w) == Summed(w) /\ Prefix(l, w.accepted)

(* The inductive invariant: the world, and each that a revert may restore, *)
(* is in order and goes on from what the chain has committed.              *)
Sound ==
  /\ Good(Committed.accepted, world)
  /\ \A n \in DOMAIN stack : Good(Committed.accepted, stack[n].saved)
QInv == IInv /\ Sound

(* A step, as far as the ledger can see it.                                *)
LedgerStep ==
  IF stack' = <<>> THEN Good(Committed.accepted, world') ELSE Committed' = Committed

(* What the frames have saved is what was saved before, or the world.      *)
SavedFrom ==
  \A m \in DOMAIN stack' :
    stack'[m].saved = world \/ \E n \in DOMAIN stack : stack'[m].saved = stack[n].saved
Shape == SavedFrom /\ (stack' # <<>> => Committed' = Committed)

LEMMA PrefixRefl ==
  ASSUME NEW l \in Seq(Accepted) PROVE Prefix(l, l)
BY DEF Prefix

LEMMA PrefixAppend ==
  ASSUME NEW l \in Seq(Accepted), NEW m \in Seq(Accepted), Prefix(l, m), NEW e \in Accepted
  PROVE  Prefix(l, Append(m, e))
<1>1. Len(l) \in Nat /\ Len(l) <= Len(m) /\ Len(Append(m, e)) = Len(m) + 1
  BY DEF Prefix
<1>2. \A j \in 1..Len(l) : Append(m, e)[j] = m[j]
  BY <1>1
<1>3. SubSeq(Append(m, e), 1, Len(l)) = SubSeq(m, 1, Len(l))
  BY <1>1, <1>2
<1> QED BY <1>1, <1>3 DEF Prefix

(* Only the log and the words of the forwarders count.                     *)
LEMMA SummedSame ==
  ASSUME NEW w, Summed(w), NEW v, v.accepted = w.accepted, v.nonces = w.nonces,
         v.flips = w.flips, v.updates = w.updates,
         \A i \in StoreIndex : v.bitmaps[i] = w.bitmaps[i]
  PROVE  Summed(v)
BY DEF Summed, Sums, Updated

(* A call of updateFor that a forwarder is made to make is summed up too.  *)
LEMMA AsForwarderSummed ==
  ASSUME NEW w \in World, Summed(w), NEW run \in Run, NEW n \in TargetNonce
  PROVE  Summed(asForwarder(w, run, n))
<1> DEFINE v == asForwarder(w, run, n)
           k == targetIndex(run.at, n.target, n.queue)
           d == [at |-> run.at, tx |-> run.tx, nonce |-> n]
<1>1. /\ v.bitmaps = [w.bitmaps EXCEPT ![k] = @ \cup n.bits]
      /\ v.nonces = w.nonces /\ v.flips = w.flips /\ v.accepted = w.accepted
      /\ v.updates = w.updates \cup {d}
  BY AsForwarderWorld DEF Flipped
<1>2. /\ w.bitmaps \in [TargetIndex -> SUBSET Bit]
      /\ StoreIndex \subseteq TargetIndex
  BY DEF World, StoreIndex, TargetIndex
<1>3. d.nonce = n /\ targetIndex(d.at, d.nonce.target, d.nonce.queue) = k
  OBVIOUS
<1> HIDE DEF v, k, d
<1>4. ASSUME NEW i \in StoreIndex PROVE Sums(v, i)
  <2>1. Sums(w, i)
    BY DEF Summed
  <2>2. CASE i = k
    <3>1. Updated(v, i) = Updated(w, i) \cup n.bits
      BY <1>1, <1>3, <2>2 DEF Updated
    <3>2. v.bitmaps[i] = w.bitmaps[i] \cup n.bits
      BY <1>1, <1>2, <2>2
    <3> QED BY <1>1, <2>1, <3>1, <3>2 DEF Sums
  <2>3. CASE i # k
    <3>1. Updated(v, i) = Updated(w, i)
      BY <1>1, <1>3, <2>3 DEF Updated
    <3>2. v.bitmaps[i] = w.bitmaps[i]
      BY <1>1, <1>2, <2>3
    <3> QED BY <1>1, <2>1, <3>1, <3>2 DEF Sums
  <2> QED BY <2>2, <2>3
<1> QED BY <1>1, <1>4 DEF Summed, v

LEMMA SoundStep ==
  ASSUME QInv, WorldInv(world'), Good(Committed.accepted, world'), Shape
  PROVE  Sound' /\ LedgerStep
<1>1. world'.accepted \in Seq(Accepted)
  BY DEF WorldInv, World
<1>2. CASE stack' = <<>>
  <2>1. Good(world'.accepted, world')
    BY <1>1, PrefixRefl DEF Good
  <2>2. Committed' = world'
    BY <1>2 DEF Committed
  <2>3. DOMAIN stack' = {}
    BY <1>2
  <2> QED BY <1>2, <2>1, <2>2, <2>3 DEF Sound, LedgerStep, Good, Summed, Sums, Updated, InOrder, Drawn, Prefix
<1>3. CASE stack' # <<>>
  <2>1. Committed' = Committed
    BY <1>3 DEF Shape
  <2>2. \A m \in DOMAIN stack' : Good(Committed.accepted, stack'[m].saved)
    BY DEF Shape, SavedFrom, QInv, Sound
  <2>3. Sound'
    BY <2>1, <2>2 DEF Sound, Good, Summed, Sums, Updated, InOrder, Drawn, Prefix
  <2> QED BY <1>3, <2>1, <2>3 DEF LedgerStep
<1> QED BY <1>2, <1>3

LEMMA EnterShape ==
  ASSUME IInv, NEW run, Enter(run)
  PROVE  Shape
<1> DEFINE frame == [saved |-> world, run |-> run]
<1>1. stack \in Seq(Frame) /\ stack' = Append(stack, frame) /\ frame.saved = world
  BY DEF Enter, IInv
<1> HIDE DEF frame
<1>2. /\ Len(stack) \in Nat
      /\ DOMAIN stack = 1..Len(stack) /\ DOMAIN stack' = 1..(Len(stack) + 1)
      /\ \A n \in 1..Len(stack) : stack'[n] = stack[n]
      /\ stack'[Len(stack) + 1] = frame
  BY <1>1
<1>3. SavedFrom
  <2> SUFFICES ASSUME NEW m \in DOMAIN stack'
               PROVE  stack'[m].saved = world \/ \E n \in DOMAIN stack : stack'[m].saved = stack[n].saved
    BY DEF SavedFrom
  <2>1. CASE m = Len(stack) + 1
    BY <1>1, <1>2, <2>1
  <2>2. CASE m # Len(stack) + 1
    BY <1>2, <2>2
  <2> QED BY <2>1, <2>2
<1>4. Committed' = Committed
  <2>1. CASE stack = <<>>
    <3>1. stack' # <<>> /\ stack'[1] = frame
      BY <1>1, <1>2, <2>1
    <3> QED BY <1>1, <2>1, <3>1 DEF Committed
  <2>2. CASE stack # <<>>
    <3>1. stack' # <<>> /\ stack'[1] = stack[1]
      BY <1>1, <1>2, <2>2
    <3> QED BY <2>2, <3>1 DEF Committed
  <2> QED BY <2>1, <2>2
<1> QED BY <1>3, <1>4 DEF Shape

(* Frames go, those below keep what they saved.                            *)
LEMMA StayShape ==
  ASSUME IInv, NEW k \in 0..Len(stack), stack' \in Seq(Frame), DOMAIN stack' = 1..k,
         \A m \in 1..k : stack'[m].saved = stack[m].saved
  PROVE  Shape
<1>1. stack \in Seq(Frame) /\ DOMAIN stack = 1..Len(stack) /\ Len(stack) \in Nat
  BY DEF IInv
<1>2. SavedFrom
  BY <1>1 DEF SavedFrom
<1>3. ASSUME stack' # <<>> PROVE Committed' = Committed
  <2>1. 1 \in 1..k /\ stack # <<>>
    BY <1>1, <1>3
  <2> QED BY <1>3, <2>1 DEF Committed
<1> QED BY <1>2, <1>3 DEF Shape

LEMMA PopShape ==
  ASSUME IInv, NEW n \in 1..Len(stack), stack' = SubSeq(stack, 1, n - 1)
  PROVE  Shape
<1>1. stack \in Seq(Frame) /\ n - 1 \in 0..Len(stack)
  BY DEF IInv
<1>2. /\ stack' \in Seq(Frame) /\ DOMAIN stack' = 1..(n - 1)
      /\ \A m \in 1..(n - 1) : stack'[m].saved = stack[m].saved
  BY <1>1, PrefixType
<1> QED BY <1>1, <1>2, StayShape

LEMMA RevertSound ==
  ASSUME QInv, NEW n \in 1..Len(stack), Revert(n)
  PROVE  Good(Committed.accepted, world') /\ Shape
<1>1. world' = stack[n].saved /\ stack' = SubSeq(stack, 1, n - 1) /\ n \in DOMAIN stack
  BY DEF Revert, QInv, IInv
<1> QED BY <1>1, PopShape DEF QInv, Sound

LEMMA NextCallSound ==
  ASSUME QInv, Called, NEW w, WorldInv(w), Good(Committed.accepted, w),
         NEW ok \in BOOLEAN, NextCall(w, ok)
  PROVE  Good(Committed.accepted, world') /\ Shape
<1> DEFINE n == Len(stack)
           caller == stack[n - 1]
           frame == [caller EXCEPT !.run.next = @ + 1]
<1>1. /\ stack \in Seq(Frame) /\ n \in Nat /\ n > 1 /\ n - 1 \in DOMAIN stack
      /\ n - 2 \in 0..Len(stack) /\ n - 1 \in 0..Len(stack) /\ Depth = n
  BY DEF QInv, IInv, Called, Depth
<1>2. caller \in Frame /\ caller.run \in Run
  <2>1. caller \in Frame /\ stack[n].run = NoRun
    BY <1>1 DEF Called, Top
  <2> QED BY <1>1, <2>1 DEF QInv, IInv, CalledByForwarder, Frame
<1>3. w \in World
  BY DEF WorldInv
<1>4. world' = [w EXCEPT !.outcomes = Append(@, CallOutcome(caller.run, ok))]
  BY <1>1 DEF NextCall
<1>5. /\ world'.accepted = w.accepted /\ world'.nonces = w.nonces
      /\ world'.flips = w.flips /\ world'.bitmaps = w.bitmaps /\ world'.updates = w.updates
  BY <1>3, <1>4 DEF World
<1>6. Good(Committed.accepted, world')
  BY <1>5, SummedSame DEF Good
<1>7. frame.saved = caller.saved
  BY <1>2 DEF Frame
<1>8. stack' = Append(SubSeq(stack, 1, n - 2), frame)
  BY <1>1 DEF NextCall
<1>9. stack' \in Seq(Frame)
  <2>1. frame \in Frame
    <3> DEFINE newRun == [caller.run EXCEPT !.next = @ + 1]
    <3>1. newRun \in Run
      BY <1>2 DEF Run
    <3>2. frame = [caller EXCEPT !.run = newRun]
      BY <1>2 DEF Frame
    <3> QED BY <3>1, <3>2, <1>2 DEF Frame
  <2> QED BY <1>1, <1>8, <2>1
<1> HIDE DEF frame
<1>10. /\ SubSeq(stack, 1, n - 2) \in Seq(Frame)
       /\ Len(SubSeq(stack, 1, n - 2)) = n - 2
       /\ \A m \in 1..(n - 2) : SubSeq(stack, 1, n - 2)[m] = stack[m]
  BY <1>1, PrefixType
<1> HIDE DEF n
<1>11. /\ DOMAIN stack' = 1..(n - 1)
       /\ \A m \in 1..(n - 2) : stack'[m] = stack[m]
       /\ stack'[n - 1] = frame
  BY <1>1, <1>8, <1>10
<1>12. \A m \in 1..(n - 1) : stack'[m].saved = stack[m].saved
  BY <1>1, <1>7, <1>11
<1>13. Shape
  BY <1>1, <1>9, <1>11, <1>12, StayShape DEF QInv
<1> QED BY <1>6, <1>13

LEMMA VerifySound ==
  ASSUME QInv, NEW f \in Forwarder, NEW t \in Tx, verify(f, t)
  PROVE  Good(Committed.accepted, world') /\ Shape
<1> DEFINE v == verified(world, f, t)
           run == [at |-> f, tx |-> t, next |-> 1]
<1>1. /\ WorldInv(world) /\ world \in World /\ world.accepted \in Seq(Accepted)
      /\ Summed(world) /\ Prefix(Committed.accepted, world.accepted)
  BY DEF QInv, IInv, WorldInv, World, Sound, Good
<1>2. verifyAccepts(world, f, t) /\ world' = v /\ Enter(run)
  BY DEF verify
<1>3. Summed(v)
  BY <1>1, <1>2, VerifiedSummed
<1>4. v.accepted = Append(world.accepted, [at |-> f, tx |-> t])
  <2>1. spent(world, f, t) \in World /\ spent(world, f, t).accepted = world.accepted
    BY <1>1, <1>2, SpentGrows
  <2> QED BY <2>1 DEF verified, World
<1>5. Committed.accepted \in Seq(Accepted)
  <2>1. stack # <<>> => 1 \in DOMAIN stack
    BY DEF QInv, IInv
  <2> QED BY <1>1, <2>1 DEF Committed, QInv, IInv, SavedInv, WorldInv, World
<1>6. [at |-> f, tx |-> t] \in Accepted
  BY DEF Accepted
<1>7. Prefix(Committed.accepted, v.accepted)
  BY <1>1, <1>4, <1>5, <1>6, PrefixAppend
<1> QED BY <1>2, <1>3, <1>7, EnterShape DEF Good, QInv

-----------------------------------------------------------------------------
(* The empty log is in order.                                              *)
LEMMA InitQInv == Init => QInv
<1> SUFFICES ASSUME Init PROVE QInv
  OBVIOUS
<1>1. /\ stack = <<>> /\ DOMAIN stack = {} /\ world = InitialWorld
      /\ world.accepted = <<>> /\ DOMAIN world.accepted = {}
      /\ Committed = world /\ world.updates = {}
      /\ \A i \in StoreIndex :
           world.nonces[i] = 0 /\ world.flips[i] = {} /\ world.bitmaps[i] = {}
  BY DEF Init, InitialWorld, Committed, StoreIndex, TargetIndex
<1>2. \A a, i : Drawn(world.accepted, a, i) = {} /\ Updated(world, i) = {}
  BY <1>1 DEF Drawn, Updated
<1>3. Summed(world)
  <2>1. InOrder(world.accepted)
    BY <1>1 DEF InOrder
  <2>2. Cardinality({}) = 0 /\ 0..(0 - 1) = {}
    BY FS_EmptySet
  <2>3. ASSUME NEW i \in StoreIndex PROVE Sums(world, i)
    BY <1>1, <1>2, <2>2 DEF Sums
  <2> QED BY <2>1, <2>3 DEF Summed
<1>4. Prefix(world.accepted, world.accepted)
  BY <1>1 DEF Prefix
<1> QED BY <1>1, <1>3, <1>4, InitIInv DEF QInv, Sound, Good

LEMMA NextQInv == QInv /\ [Next]_vars => QInv' /\ LedgerStep
<1> SUFFICES ASSUME QInv, [Next]_vars PROVE QInv' /\ LedgerStep
  OBVIOUS
<1> SUFFICES Good(Committed.accepted, world') /\ Shape
  <2>1. IInv /\ IInv'
    BY NextIInv DEF QInv
  <2>2. WorldInv(world')
    BY <2>1 DEF IInv, WorldInv, LogRecorded, LogUnique
  <2> QED BY <2>1, <2>2, SoundStep DEF QInv
<1>0. /\ IInv /\ stack \in Seq(Frame) /\ WorldInv(world) /\ world \in World
      /\ Good(Committed.accepted, world)
  BY DEF QInv, IInv, WorldInv, Sound
<1>1. CASE StartContract
  BY <1>0, <1>1, EnterShape DEF StartContract
<1>2. ASSUME stack' = stack, world'.accepted = world.accepted, world'.nonces = world.nonces,
             world'.flips = world.flips, world'.updates = world.updates,
             \A i \in StoreIndex : world'.bitmaps[i] = world.bitmaps[i]
      PROVE  Good(Committed.accepted, world') /\ Shape
  <2>1. Good(Committed.accepted, world')
    BY <1>0, <1>2, SummedSame DEF Good
  <2>2. SavedFrom
    BY <1>2 DEF SavedFrom
  <2>3. stack' # <<>> => Committed' = Committed
    BY <1>2 DEF Committed
  <2> QED BY <2>1, <2>2, <2>3 DEF Shape
<1>3. ASSUME NEW x \in Wallet, createProxyAccount(x)
      PROVE  Good(Committed.accepted, world') /\ Shape
  BY <1>0, <1>2, <1>3, CreatedWorld DEF OnlyOwner
<1>a. ASSUME NEW x \in Wallet, NEW who \in Key, init(x, who)
      PROVE  Good(Committed.accepted, world') /\ Shape
  BY <1>0, <1>2, <1>a, InitialisedWorld DEF OnlyOwner
<1>4. ASSUME NEW n \in TargetNonce, updateFor(n)
      PROVE  Good(Committed.accepted, world') /\ Shape
  <2> DEFINE i == targetIndex(Outsider, n.target, n.queue)
  <2>1. stack' = stack /\ world' = stored(world, Outsider, n)
    BY <1>4 DEF updateFor
  <2>2. /\ world'.bitmaps = [world.bitmaps EXCEPT ![i] = @ \cup n.bits]
        /\ world'.nonces = world.nonces /\ world'.flips = world.flips
        /\ world'.accepted = world.accepted /\ world'.updates = world.updates
    BY <1>0, <2>1, StoredWorld DEF Flipped
  <2>3. world.bitmaps \in [TargetIndex -> SUBSET Bit]
    BY <1>0 DEF World
  <2>4. \A k \in StoreIndex : k # i /\ k \in TargetIndex
    BY OutsiderAssumption DEF StoreIndex, TargetIndex, targetIndex
  <2> HIDE DEF i
  <2>5. \A k \in StoreIndex : world'.bitmaps[k] = world.bitmaps[k]
    BY <2>2, <2>3, <2>4
  <2> QED BY <1>2, <2>1, <2>2, <2>5
<1>b. ASSUME NEW n \in TargetNonce, Called
      PROVE  LET v == asForwarder(world, stack[Depth - 1].run, n)
             IN WorldInv(v) /\ Good(Committed.accepted, v)
  <2> DEFINE run == stack[Depth - 1].run
             v == asForwarder(world, run, n)
  <2>1. run \in Run
    BY <1>0, <1>b, CallerRun
  <2>2. v.accepted = world.accepted
    BY <1>0, <2>1, AsForwarderWorld DEF Flipped
  <2>3. WorldInv(v) /\ Summed(v)
    BY <1>0, <2>1, AsForwarderInv, AsForwarderSummed DEF Good
  <2> QED BY <1>0, <2>2, <2>3 DEF Good
<1>c. ASSUME NEW n \in TargetNonce, DelegateUpdates(n)
      PROVE  Good(Committed.accepted, world') /\ Shape
  <2>1. /\ Called /\ stack' = stack
        /\ world' = asForwarder(world, stack[Depth - 1].run, n)
    BY <1>c DEF DelegateUpdates
  <2>2. Good(Committed.accepted, world')
    BY <1>b, <2>1
  <2>3. Shape
    BY <2>1 DEF Shape, SavedFrom, Committed
  <2> QED BY <2>2, <2>3
<1>d. ASSUME NEW n \in TargetNonce, StoreReturns(n)
      PROVE  Good(Committed.accepted, world') /\ Shape
  <2> DEFINE v == asForwarder(world, stack[Depth - 1].run, n)
  <2>1. Called /\ NextCall(v, TRUE)
    BY <1>d DEF StoreReturns
  <2>2. WorldInv(v) /\ Good(Committed.accepted, v)
    BY <1>b, <2>1
  <2> HIDE DEF v
  <2> QED BY <2>1, <2>2, NextCallSound
<1>5. ASSUME NEW f \in Hub, NEW t \in Tx, RelayHubForward(f, t) \/ RelayHubBatch(f, t)
      PROVE  Good(Committed.accepted, world') /\ Shape
  BY <1>5, VerifySound DEF RelayHubForward, RelayHubBatch, Hub
<1>6. ASSUME NEW x \in Wallet, NEW t \in Tx,
             ProxyAccountForward(x, t) \/ ProxyAccountBatch(x, t)
      PROVE  Good(Committed.accepted, world') /\ Shape
  BY <1>6, VerifySound, WalletAssumption DEF ProxyAccountForward, ProxyAccountBatch
<1>7. CASE ExecuteCall
  BY <1>0, <1>7, EnterShape DEF ExecuteCall
<1>8. CASE InvalidCallType \/ OutOfGas
  <2>1. Running /\ Revert(Depth)
    BY <1>8 DEF InvalidCallType, OutOfGas
  <2> QED BY <1>0, <2>1, TopRun, RevertSound
<1>9. CASE CallReturns
  BY <1>0, <1>9, NextCallSound DEF CallReturns
<1>10. ASSUME NEW data \in RevertData, CallFails(data)
       PROVE  Good(Committed.accepted, world') /\ Shape
  <2>1. /\ Called /\ Depth - 1 \in 1..Len(stack) /\ Depth \in DOMAIN stack
    BY <1>0, <1>10 DEF CallFails, Called, Depth
  <2>2. WorldInv(Top.saved) /\ Good(Committed.accepted, Top.saved)
    BY <2>1 DEF QInv, IInv, SavedInv, Sound, Top
  <2>3. CASE NextCall(Top.saved, FALSE)
    BY <2>1, <2>2, <2>3, NextCallSound
  <2>4. CASE Revert(Depth - 1)
    BY <2>1, <2>4, RevertSound
  <2> QED BY <1>10, <2>3, <2>4 DEF CallFails
<1>11. CASE ForwarderReturns
  <2>1. Running /\ stack' = SubSeq(stack, 1, Depth - 1) /\ world' = world
    BY <1>11 DEF ForwarderReturns
  <2> QED BY <1>0, <2>1, TopRun, PopShape
<1>12. CASE ContractReturns
  <2>1. stack' = <<>> /\ world' = world /\ DOMAIN stack' = {}
    BY <1>12 DEF ContractReturns
  <2> QED BY <1>0, <2>1 DEF Shape, SavedFrom
<1>13. CASE ContractReverts
  <2>1. Revert(1) /\ 1 \in 1..Len(stack)
    BY <1>0, <1>13 DEF ContractReverts, Depth
  <2> QED BY <2>1, RevertSound
<1>14. CASE UNCHANGED vars
  BY <1>0, <1>2, <1>14 DEF vars
<1> QED
  BY <1>1, <1>3, <1>a, <1>4, <1>c, <1>d, <1>5, <1>6, <1>7, <1>8, <1>9, <1>10, <1>11, <1>12, <1>13,
     <1>14
  DEF Next

(* Storage, log and calls on the stack tell the same story at every depth. *)
THEOREM SoundInvariance == Spec => []QInv
BY InitQInv, NextQInv, PTL DEF Spec

(* For every number of transactions, reverts and depths: a queue's         *)
(* transactions are accepted in the order of their nonces, without a gap.  *)
THEOREM Ordered == Spec => []QueueOrder
<1>1. QInv => QueueOrder
  BY DEF QInv, Sound, Good, Summed, InOrder, QueueOrder, Before
<1> QED BY <1>1, SoundInvariance, PTL

(* What the log says of a queue decides whether verify accepts.            *)
LEMMA DecidedByLog ==
  ASSUME QInv, NEW f \in Forwarder, NEW t \in Tx
  PROVE  verifyAccepts(world, f, t) <=> OpenInLog(f, t)
<1> DEFINE l == world.accepted
           e == [at |-> f, tx |-> t]
           a == Signed[t].authority
           x == indexOf(f, t)
           D == Drawn(l, a, x)
           used == UsedBefore(f, t)
           bits == UNION {Signed[u].bits : u \in used}
<1>1. /\ world \in World /\ l \in Seq(Accepted) /\ e \in Accepted /\ e.at = f /\ e.tx = t
      /\ Summed(world)
  BY DEF QInv, IInv, WorldInv, World, Accepted, Sound, Good
<1>2. x \in StoreIndex /\ targetIndexOf(f, t) = x
  BY IndexType, SameIndex
<1>3. /\ Signed[t].authority \in Authority /\ Signed[t].nonce \in Nat
      /\ Signed[t].bits \in SUBSET Bit
  BY SignedType
<1>4. \A j \in DOMAIN l : SameQueue(l[j], e) <=> j \in D
  <2>1. \A j \in DOMAIN l : l[j] \in Accepted
    BY <1>1
  <2> HIDE DEF l, e
  <2> QED BY <1>1, <2>1, SameQueueIndex DEF Drawn
<1>5. used = {l[j].tx : j \in D}
  <2>1. used = {l[j].tx : j \in {k \in DOMAIN l : SameQueue(l[k], e)}}
    BY DEF UsedBefore
  <2>2. {k \in DOMAIN l : SameQueue(l[k], e)} = D
    BY <1>4 DEF Drawn
  <2> QED BY <2>1, <2>2
<1> HIDE DEF l, e, x, D, used
<1>6. /\ {Signed[u].nonce : u \in used} = {Signed[l[j].tx].nonce : j \in D}
      /\ bits = UNION {Signed[l[j].tx].bits : j \in D}
  BY <1>5
<1>7. Sums(world, x)
  BY <1>1, <1>2 DEF Summed
<1>8. CASE a = multiNonceAddress
  <2>1. world.nonces[x] \in Nat
    BY <1>1, <1>2 DEF World
  <2>2. {Signed[u].nonce : u \in used} = 0..(world.nonces[x] - 1)
    BY <1>6, <1>7, <1>8 DEF Sums, D, l
  <2>3. verifyAccepts(world, f, t) <=> Signed[t].nonce = world.nonces[x]
    BY <1>8 DEF verifyAccepts, nonceAccepts, x, multiNonceAddress, bitFlipAddress
  <2>4. \A p, q \in Nat : 0..(p - 1) = 0..(q - 1) => p = q
    <3> SUFFICES ASSUME NEW p \in Nat, NEW q \in Nat, p < q PROVE 0..(p - 1) # 0..(q - 1)
      OBVIOUS
    <3>1. p \in 0..(q - 1) /\ p \notin 0..(p - 1)
      OBVIOUS
    <3> QED BY <3>1
  <2>5. verifyAccepts(world, f, t) <=>
          {Signed[u].nonce : u \in used} = 0..(Signed[t].nonce - 1)
    BY <1>3, <2>1, <2>2, <2>3, <2>4
  <2> QED BY <1>8, <2>5 DEF OpenInLog, multiNonceAddress, bitFlipAddress, used
<1>9. CASE a = bitFlipAddress
  <2>1. world.flips[x] = bits
    BY <1>6, <1>7, <1>9 DEF Sums, D, l
  <2>2. verifyAccepts(world, f, t) <=> bitflipAccepts(bits, Signed[t].bits)
    BY <1>9, <2>1 DEF verifyAccepts, x, multiNonceAddress, bitFlipAddress
  <2>3. bitflipAccepts(bits, Signed[t].bits) <=>
          (\E b \in Bit : Signed[t].bits = {b}) /\ Signed[t].bits \cap bits = {}
    BY <1>3 DEF bitflipAccepts
  <2> QED BY <1>9, <2>2, <2>3 DEF OpenInLog, used, multiNonceAddress, bitFlipAddress
<1>10. CASE a = nonceStoreAddress
  <2> DEFINE updates == UNION {u.nonce.bits : u \in UpdatedBefore(f, t)}
             all == bits \cup updates
  <2>1. updates = Updated(world, x)
    BY DEF UpdatedBefore, Updated, x, indexOf, queueIndex, targetIndex
  <2>2. world.bitmaps[x] = all
    BY <1>6, <1>7, <1>10, <2>1 DEF Sums, D, l
  <2>3. verifyAccepts(world, f, t) <=> updateAccepts(all, Signed[t].bits)
    BY <1>2, <1>10, <2>2 DEF verifyAccepts, multiNonceAddress, bitFlipAddress, nonceStoreAddress
  <2>4. updateAccepts(all, Signed[t].bits) <=> ~(Signed[t].bits \subseteq all)
    BY DEF updateAccepts
  <2> QED BY <1>10, <2>3, <2>4 DEF OpenInLog, used, multiNonceAddress, bitFlipAddress, nonceStoreAddress
<1> QED BY <1>3, <1>8, <1>9, <1>10 DEF Authority

(* Whether `verify' accepts depends on the log alone: on the signer's own  *)
(* entries for this forwarder, and in the BitFlipNonceStore on the calls   *)
(* of updateFor this forwarder was made to make, each by what is in the    *)
(* log, and in a wallet by its own signer alone.                           *)
THEOREM SignedUses == Spec => []OnlySignedUsesBlock
<1>1. QInv /\ RInv => OnlySignedUsesBlock
  BY DecidedByLog DEF RInv, Right, RightRun, OnlySignedUsesBlock
<1> QED BY <1>1, SoundInvariance, RightInvariance, PTL

-----------------------------------------------------------------------------
(* The ledger means by a use what the storage means.                       *)
LEMMA SameLedger ==
  /\ Ledger!Entry = Accepted
  /\ \A d, e : Ledger!SameQueue(d, e) <=> SameQueue(d, e)
  /\ \A d, e : Ledger!SameUse(d, e) <=> SameUse(d, e)
  /\ \A S : Ledger!Cardinality(S) = Cardinality(S)
BY DEF Ledger!Entry, Accepted, Ledger!SameQueue, SameQueue, Ledger!SameUse, SameUse,
   Ledger!recover, recover, Ledger!multiNonceAddress, multiNonceAddress,
   Ledger!Cardinality, Cardinality

(* A world that is in order makes a ledger of admissible uses.             *)
LEMMA AllAdmissible ==
  ASSUME NEW w, WorldInv(w), Summed(w)
  PROVE  \A i \in DOMAIN w.accepted : Ledger!Admissible(w.accepted, i)
<1> DEFINE l == w.accepted
<1> SUFFICES ASSUME NEW i \in DOMAIN l PROVE Ledger!Admissible(l, i)
  OBVIOUS
<1>1. l \in Seq(Accepted) /\ DOMAIN l = 1..Len(l) /\ Len(l) \in Nat
  BY DEF WorldInv, World
<1>2. \A j \in 1..(i - 1) : ~SameUse(l[j], l[i])
  BY <1>1 DEF WorldInv, LogUnique
<1>3. Signed[l[i].tx].authority = multiNonceAddress =>
        Signed[l[i].tx].nonce = Cardinality({j \in 1..(i - 1) : SameQueue(l[j], l[i])})
  BY DEF Summed, InOrder
<1>4. {j \in 1..(i - 1) : Ledger!SameQueue(l[j], l[i])} = {j \in 1..(i - 1) : SameQueue(l[j], l[i])}
  BY SameLedger
<1> HIDE DEF l
<1> QED BY <1>2, <1>3, <1>4, SameLedger DEF Ledger!Admissible, Ledger!multiNonceAddress, multiNonceAddress

LEMMA StepCommits ==
  ASSUME QInv, QInv', LedgerStep
  PROVE  [Ledger!Commit]_(Committed.accepted)
<1> DEFINE l == Committed.accepted
           m == world'.accepted
<1>1. CASE stack' # <<>>
  BY <1>1 DEF LedgerStep
<1>2. CASE stack' = <<>>
  <2>1. Committed' = world'
    BY <1>2 DEF Committed
  <2>2. WorldInv(world') /\ Summed(world') /\ Prefix(l, m)
    BY <1>2 DEF LedgerStep, Good, QInv, IInv, WorldInv, LogRecorded, LogUnique
  <2>3. m \in Seq(Accepted)
    BY <2>2 DEF WorldInv, World
  <2>4. l \in Seq(Accepted)
    <3>1. stack # <<>> => 1 \in DOMAIN stack
      BY DEF QInv, IInv
    <3> QED BY <3>1 DEF Committed, QInv, IInv, SavedInv, WorldInv, World
  <2>5. \A i \in DOMAIN m : Ledger!Admissible(m, i)
    BY <2>2, AllAdmissible
  <2>6. CASE Len(m) = Len(l)
    <3>1. SubSeq(m, 1, Len(m)) = m
      BY <2>3
    <3> QED BY <2>1, <2>2, <2>6, <3>1 DEF Prefix
  <2>7. CASE Len(m) > Len(l)
    BY <2>1, <2>2, <2>3, <2>5, <2>7, SameLedger DEF Prefix, Ledger!Commit
  <2> QED BY <2>2, <2>3, <2>4, <2>6, <2>7 DEF Prefix
<1> QED BY <1>1, <1>2

(* From outside the contracts are the ledger of ReplayLedger: every        *)
(* Ethereum transaction, whatever it calls, re-enters or reverts, adds     *)
(* uses that were open and next in their queues, or nothing.               *)
THEOREM Refinement == Spec => RefinesLedger
<1>1. Init => Ledger!Init
  BY DEF Init, InitialWorld, Committed, Ledger!Init
<1>2. QInv /\ QInv' /\ [Next]_vars => [Ledger!Commit]_(Committed.accepted)
  BY StepCommits, NextQInv
<1> QED BY <1>1, <1>2, SoundInvariance, PTL DEF Spec, RefinesLedger, Ledger!Spec

-----------------------------------------------------------------------------
(* Frame m of stack s runs what log entry e says.                          *)
RunsIn(s, m, e) == s[m].run # NoRun /\ s[m].run.at = e.at /\ s[m].run.tx = e.tx

(* The calls of a meta-transaction were made in their order, the required  *)
(* ones with success; and none without acceptance.                         *)
InTurn(w, e, i) ==
  /\ w.outcomes[i].call = Cardinality({j \in OutcomesOf(w, e) : j <= i})
  /\ Signed[e.tx].calls[w.outcomes[i].call].revertOnFail => w.outcomes[i].ok
Listed(w) ==
  /\ \A j \in DOMAIN w.accepted :
       \A i \in OutcomesOf(w, w.accepted[j]) : InTurn(w, w.accepted[j], i)
  /\ \A i \in DOMAIN w.outcomes : InLog(w.outcomes[i], w)

(* With the first k frames of s running, w has the calls they have made,   *)
(* and all calls of what does not run any more.                            *)
MadeBy(w, s, k, e) ==
  /\ \A m \in 1..k : RunsIn(s, m, e) =>
       Cardinality(OutcomesOf(w, e)) = s[m].run.next - 1
  /\ (\A m \in 1..k : ~RunsIn(s, m, e)) =>
       Cardinality(OutcomesOf(w, e)) = Len(Signed[e.tx].calls)
Made(w, s, k) ==
  Listed(w) /\ \A j \in DOMAIN w.accepted : MadeBy(w, s, k, w.accepted[j])

(* The loop index, of the frame that executes and of those that call.      *)
InLoop(s) ==
  \A n \in DOMAIN s : s[n].run # NoRun =>
    /\ s[n].run.next <= Len(Calls(s[n].run)) + 1
    /\ n < Len(s) => s[n].run.next <= Len(Calls(s[n].run))

Batched(w, s) ==
  /\ Made(w, s, Len(s))
  /\ \A n \in DOMAIN s : Made(s[n].saved, s, n - 1)
  /\ InLoop(s)
BInv == RInv /\ Batched(world, stack)

-----------------------------------------------------------------------------
LEMMA OutcomesFinite ==
  ASSUME NEW w \in World, NEW e
  PROVE  /\ OutcomesOf(w, e) \subseteq 1..Len(w.outcomes)
         /\ IsFiniteSet(OutcomesOf(w, e))
         /\ Cardinality(OutcomesOf(w, e)) \in Nat
<1>1. w.outcomes \in Seq(Outcome)
  BY DEF World
<1>2. OutcomesOf(w, e) \subseteq 1..Len(w.outcomes) /\ IsFiniteSet(1..Len(w.outcomes))
  <2>1. DOMAIN w.outcomes = 1..Len(w.outcomes) /\ Len(w.outcomes) \in Nat
    BY <1>1
  <2> QED BY <2>1, FS_Interval DEF OutcomesOf
<1>3. IsFiniteSet(OutcomesOf(w, e))
  BY <1>2, FS_Subset
<1> QED BY <1>2, <1>3, FS_CardinalityType

(* Only the log and the outcomes count.                                    *)
LEMMA MadeSame ==
  ASSUME NEW w, NEW s, NEW k, Made(w, s, k), NEW v,
         v.accepted = w.accepted, v.outcomes = w.outcomes
  PROVE  Made(v, s, k)
<1>1. \A e : OutcomesOf(v, e) = OutcomesOf(w, e)
  BY DEF OutcomesOf
<1>2. \A e, i : InTurn(w, e, i) => InTurn(v, e, i)
  BY <1>1 DEF InTurn
<1>3. Listed(v)
  BY <1>1, <1>2 DEF Made, Listed, InLog
<1>4. \A e : MadeBy(w, s, k, e) => MadeBy(v, s, k, e)
  BY <1>1 DEF MadeBy
<1> QED BY <1>3, <1>4 DEF Made

(* Frames that ran nothing do not matter, nor do other things than runs.   *)
LEMMA MadeStack ==
  ASSUME NEW w, NEW s, NEW k \in Nat, Made(w, s, k), NEW r, NEW l \in Nat,
         \A m \in 1..k : s[m].run # NoRun => m \in 1..l /\ r[m].run = s[m].run,
         \A m \in 1..l : r[m].run # NoRun => m \in 1..k /\ r[m].run = s[m].run
  PROVE  Made(w, r, l)
<1> SUFFICES ASSUME NEW j \in DOMAIN w.accepted PROVE MadeBy(w, r, l, w.accepted[j])
  BY DEF Made
<1> DEFINE e == w.accepted[j]
<1>1. MadeBy(w, s, k, e)
  BY DEF Made
<1>2. ASSUME NEW m \in 1..l, RunsIn(r, m, e)
      PROVE  Cardinality(OutcomesOf(w, e)) = r[m].run.next - 1
  <2>1. m \in 1..k /\ r[m].run = s[m].run /\ RunsIn(s, m, e)
    BY <1>2 DEF RunsIn
  <2> QED BY <1>1, <2>1 DEF MadeBy
<1>3. ASSUME \A m \in 1..l : ~RunsIn(r, m, e), NEW m \in 1..k PROVE ~RunsIn(s, m, e)
  BY <1>3 DEF RunsIn
<1> QED BY <1>1, <1>2, <1>3 DEF MadeBy

(* No two frames run the same meta-transaction in the same forwarder, and  *)
(* what a frame runs is in the log.                                        *)
LEMMA RunsOnce ==
  ASSUME RInv, NEW e, NEW m \in DOMAIN stack, RunsIn(stack, m, e)
  PROVE  /\ InLog(e, world)
         /\ \A n \in DOMAIN stack : n > m => InLog(e, stack[n].saved)
         /\ \A n \in DOMAIN stack : RunsIn(stack, n, e) => n = m
<1>1. \A p, q : p.at = q.at /\ p.tx = q.tx => SameUse(p, q)
  BY DEF SameUse, SameQueue
<1>2. stack \in Seq(Frame) /\ DOMAIN stack = 1..Depth /\ Depth \in Nat
  BY DEF RInv, IInv, Depth
<1>3. InLog(e, world)
  BY DEF RInv, SpentWhileRunning, RunsIn, InLog
<1>4. ASSUME NEW n \in DOMAIN stack, n > m PROVE InLog(e, stack[n].saved)
  <2>1. n \in (m + 1)..Depth
    BY <1>2, <1>4
  <2> QED BY <2>1 DEF RInv, SpentWhileRunning, RunsIn, InLog
<1>5. ASSUME NEW p \in DOMAIN stack, NEW q \in DOMAIN stack, p < q,
             RunsIn(stack, p, e), RunsIn(stack, q, e)
      PROVE  FALSE
  <2>1. q \in (p + 1)..Depth
    BY <1>2, <1>5
  <2> QED BY <1>1, <1>5, <2>1 DEF RInv, SpentWhileRunning, RunsIn
<1>6. ASSUME NEW n \in DOMAIN stack, RunsIn(stack, n, e) PROVE n = m
  <2>1. n < m \/ m < n \/ n = m
    BY <1>2
  <2> QED BY <1>5, <1>6, <2>1
<1> QED BY <1>3, <1>4, <1>6

(* A frame is entered.                                                     *)
LEMMA EnterBatched ==
  ASSUME BInv, NEW run, Enter(run), Made(world', stack', Len(stack) + 1),
         stack # <<>> /\ Top.run # NoRun => Top.run.next <= Len(Calls(Top.run)),
         run # NoRun => run.next <= Len(Calls(run)) + 1
  PROVE  Batched(world', stack')
<1> DEFINE frame == [saved |-> world, run |-> run]
<1>1. /\ stack \in Seq(Frame) /\ stack' = Append(stack, frame)
      /\ frame.saved = world /\ frame.run = run
  BY DEF Enter, BInv, RInv, IInv
<1> HIDE DEF frame
<1>2. /\ Len(stack) \in Nat /\ Len(stack') = Len(stack) + 1
      /\ DOMAIN stack = 1..Len(stack) /\ DOMAIN stack' = 1..(Len(stack) + 1)
      /\ \A n \in 1..Len(stack) : stack'[n] = stack[n]
      /\ stack'[Len(stack) + 1] = frame
  BY <1>1
<1>3. ASSUME NEW n \in DOMAIN stack' PROVE Made(stack'[n].saved, stack', n - 1)
  <2>1. n - 1 \in Nat /\ \A m \in 1..(n - 1) : m \in 1..Len(stack)
    BY <1>2
  <2>2. \A m \in 1..(n - 1) : stack'[m].run = stack[m].run
    BY <1>2, <2>1
  <2>3. Made(stack'[n].saved, stack, n - 1)
    <3>1. CASE n = Len(stack) + 1
      BY <1>1, <1>2, <3>1 DEF BInv, Batched
    <3>2. CASE n # Len(stack) + 1
      BY <1>2, <3>2 DEF BInv, Batched
    <3> QED BY <3>1, <3>2
  <2> QED BY <2>1, <2>2, <2>3, MadeStack
<1>4. InLoop(stack')
  <2> SUFFICES ASSUME NEW n \in DOMAIN stack', stack'[n].run # NoRun
               PROVE  /\ stack'[n].run.next <= Len(Calls(stack'[n].run)) + 1
                      /\ n < Len(stack') => stack'[n].run.next <= Len(Calls(stack'[n].run))
    BY DEF InLoop
  <2>1. CASE n = Len(stack) + 1
    BY <1>1, <1>2, <2>1
  <2>2. CASE n = Len(stack)
    BY <1>2, <2>2 DEF Top, Depth, BInv, Batched, InLoop
  <2>3. CASE n < Len(stack)
    BY <1>2, <2>3 DEF BInv, Batched, InLoop
  <2> QED BY <1>2, <2>1, <2>2, <2>3
<1> QED BY <1>2, <1>3, <1>4 DEF Batched

(* Frames above the first k go; those stay as they are but for the loop    *)
(* index of frame k.                                                       *)
LEMMA StayBatched ==
  ASSUME BInv, NEW k \in 0..Len(stack), Len(stack') = k, DOMAIN stack' = 1..k,
         \A m \in 1..k : stack'[m].saved = stack[m].saved,
         \A m \in 1..k : m < k => stack'[m].run = stack[m].run,
         k > 0 /\ stack'[k].run # NoRun => stack'[k].run.next <= Len(Calls(stack'[k].run)) + 1,
         Made(world', stack', k)
  PROVE  Batched(world', stack')
<1>1. stack \in Seq(Frame) /\ DOMAIN stack = 1..Len(stack) /\ Len(stack) \in Nat
  BY DEF BInv, RInv, IInv
<1>2. ASSUME NEW n \in 1..k PROVE Made(stack'[n].saved, stack', n - 1)
  <2>1. Made(stack'[n].saved, stack, n - 1)
    BY <1>1 DEF BInv, Batched
  <2>2. n - 1 \in Nat /\ \A m \in 1..(n - 1) : stack'[m].run = stack[m].run
    BY <1>1
  <2> QED BY <2>1, <2>2, MadeStack
<1>3. InLoop(stack')
  <2> SUFFICES ASSUME NEW n \in 1..k, stack'[n].run # NoRun
               PROVE  /\ stack'[n].run.next <= Len(Calls(stack'[n].run)) + 1
                      /\ n < k => stack'[n].run.next <= Len(Calls(stack'[n].run))
    BY DEF InLoop
  <2>1. CASE n = k
    BY <1>1, <2>1
  <2>2. CASE n < k
    <3>1. n \in DOMAIN stack /\ n < Len(stack) /\ stack'[n].run = stack[n].run
      BY <1>1, <2>2
    <3>2. stack[n].run.next <= Len(Calls(stack[n].run))
      BY <3>1 DEF BInv, Batched, InLoop
    <3>3. stack[n] \in Frame /\ stack[n].run # NoRun
      BY <1>1, <3>1
    <3>4. stack[n].run.next \in Nat /\ Len(Calls(stack[n].run)) \in Nat
      BY <3>3, SignedType DEF Frame, Run, Calls
    <3> QED BY <3>1, <3>2, <3>4
  <2> QED BY <1>1, <2>1, <2>2
<1> QED BY <1>2, <1>3 DEF Batched

(* The frames from n on go; w is left.                                     *)
LEMMA PopBatched ==
  ASSUME BInv, NEW n \in 1..Len(stack), stack' = SubSeq(stack, 1, n - 1),
         Made(world', stack, n - 1)
  PROVE  Batched(world', stack')
<1>1. /\ stack \in Seq(Frame) /\ n - 1 \in 0..Len(stack) /\ n - 1 \in Nat
      /\ DOMAIN stack = 1..Len(stack) /\ Len(stack) \in Nat
  BY DEF BInv, RInv, IInv
<1>2. /\ Len(stack') = n - 1 /\ DOMAIN stack' = 1..(n - 1)
      /\ \A m \in 1..(n - 1) : stack'[m] = stack[m]
  BY <1>1, PrefixType
<1>3. Made(world', stack', n - 1)
  <2> DEFINE k == n - 1
             r == stack'
             w == world'
  <2>1. /\ k \in Nat /\ Made(w, stack, k)
        /\ \A m \in 1..k : r[m].run = stack[m].run
    BY <1>1, <1>2
  <2> HIDE DEF k, r, w
  <2>2. Made(w, r, k)
    BY <2>1, MadeStack
  <2> QED BY <2>2 DEF k, r, w
<1>4. n - 1 > 0 /\ stack'[n - 1].run # NoRun =>
        stack'[n - 1].run.next <= Len(Calls(stack'[n - 1].run)) + 1
  <2> SUFFICES ASSUME n - 1 > 0, stack'[n - 1].run # NoRun
               PROVE  stack'[n - 1].run.next <= Len(Calls(stack'[n - 1].run)) + 1
    OBVIOUS
  <2>1. n - 1 \in DOMAIN stack /\ stack'[n - 1] = stack[n - 1]
    BY <1>1, <1>2
  <2> QED BY <2>1 DEF BInv, Batched, InLoop
<1> QED BY <1>1, <1>2, <1>3, <1>4, StayBatched

LEMMA RevertBatched ==
  ASSUME BInv, NEW n \in 1..Len(stack), Revert(n)
  PROVE  Batched(world', stack')
<1>1. world' = stack[n].saved /\ stack' = SubSeq(stack, 1, n - 1) /\ n \in DOMAIN stack
  BY DEF Revert, BInv, RInv, IInv
<1> QED BY <1>1, PopBatched DEF BInv, Batched

(* A contract that is no forwarder is entered.                             *)
LEMMA EnterContractBatched ==
  ASSUME BInv, Enter(NoRun), world' = world,
         stack # <<>> /\ Top.run # NoRun => Top.run.next <= Len(Calls(Top.run))
  PROVE  Batched(world', stack')
<1> DEFINE frame == [saved |-> world, run |-> NoRun]
           k == Len(stack)
           r == stack'
<1>1. stack \in Seq(Frame) /\ r = Append(stack, frame) /\ frame.run = NoRun
  BY DEF Enter, BInv, RInv, IInv
<1> HIDE DEF frame, r
<1>2. /\ k \in Nat /\ \A m \in 1..k : r[m] = stack[m]
      /\ r[k + 1].run = NoRun
  BY <1>1
<1>3. Made(world, stack, k)
  BY DEF BInv, Batched
<1> HIDE DEF k
<1>4. Made(world, r, k + 1)
  <2>1. k + 1 \in Nat
    BY <1>2
  <2>2. \A m \in 1..k : stack[m].run # NoRun => m \in 1..(k + 1) /\ r[m].run = stack[m].run
    BY <1>2
  <2>3. \A m \in 1..(k + 1) : r[m].run # NoRun => m \in 1..k /\ r[m].run = stack[m].run
    BY <1>2
  <2> QED BY <1>2, <1>3, <2>1, <2>2, <2>3, MadeStack
<1> QED BY <1>4, EnterBatched DEF k, r

(* What is accepted has made no call yet.                                  *)
LEMMA VerifyBatched ==
  ASSUME BInv, NEW f \in Forwarder, NEW t \in Tx, verify(f, t), Calling
  PROVE  Batched(world', stack')
<1> DEFINE run == [at |-> f, tx |-> t, next |-> 1]
           e == [at |-> f, tx |-> t]
           v == verified(world, f, t)
           frame == [saved |-> world, run |-> run]
           k == Len(stack)
           r == stack'
           l == world.accepted
<1>1. /\ WorldInv(world) /\ world \in World /\ l \in Seq(Accepted) /\ stack \in Seq(Frame)
  BY DEF BInv, RInv, IInv, WorldInv, World
<1>2. verifyAccepts(world, f, t) /\ world' = v /\ Enter(run)
  BY DEF verify
<1>3. /\ run.at = f /\ run.tx = t /\ run.next = 1 /\ run # NoRun
      /\ e.at = f /\ e.tx = t /\ frame.run = run
      /\ r = Append(stack, frame)
  BY <1>2, NoRunAssumption DEF Enter, Run
<1>4. v.outcomes = world.outcomes /\ v.accepted = Append(l, e)
  <2>1. /\ spent(world, f, t) \in World
        /\ spent(world, f, t).accepted = world.accepted
        /\ spent(world, f, t).outcomes = world.outcomes
    BY <1>1, <1>2, SpentGrows
  <2> QED BY <2>1 DEF verified, World
<1> HIDE DEF run, e, v, frame, r
<1>5. /\ k \in Nat /\ \A m \in 1..k : r[m] = stack[m] /\ m \in DOMAIN stack
      /\ r[k + 1].run = run
  BY <1>1, <1>3
<1>6. /\ DOMAIN v.accepted = DOMAIN l \cup {Len(l) + 1}
      /\ v.accepted[Len(l) + 1] = e
      /\ \A j \in DOMAIN l : v.accepted[j] = l[j]
  BY <1>1, <1>4
<1>7. ~InLog(e, world)
  <2> SUFFICES ASSUME InLog(e, world) PROVE FALSE
    OBVIOUS
  <2>1. ~SameUse(e, e)
    BY <1>1, <1>2, <1>3, AcceptedIsNew
  <2> QED BY <2>1 DEF SameUse, SameQueue
<1>8. /\ Listed(world) /\ \A j \in DOMAIN l : MadeBy(world, stack, k, l[j])
  BY DEF BInv, Batched, Made
<1>9. OutcomesOf(world, e) = {}
  <2>1. \A i \in DOMAIN world.outcomes : InLog(world.outcomes[i], world)
    BY <1>8 DEF Listed
  <2> QED BY <1>7, <2>1 DEF OutcomesOf, InLog
<1>10. \A d : OutcomesOf(v, d) = OutcomesOf(world, d)
  BY <1>4 DEF OutcomesOf
<1>11. \A d, i : InTurn(v, d, i) <=> InTurn(world, d, i)
  BY <1>4, <1>10 DEF InTurn
<1>12. \A d : InLog(d, world) => InLog(d, v)
  BY <1>6 DEF InLog
<1>13. Listed(v)
  <2>1. ASSUME NEW j \in DOMAIN v.accepted, NEW i \in OutcomesOf(v, v.accepted[j])
        PROVE  InTurn(v, v.accepted[j], i)
    <3>1. CASE j = Len(l) + 1
      BY <1>6, <1>9, <1>10, <2>1, <3>1
    <3>2. CASE j \in DOMAIN l
      BY <1>6, <1>8, <1>10, <1>11, <2>1, <3>2 DEF Listed
    <3> QED BY <1>6, <3>1, <3>2
  <2>2. \A i \in DOMAIN v.outcomes : InLog(v.outcomes[i], v)
    BY <1>4, <1>8, <1>12 DEF Listed
  <2> QED BY <2>1, <2>2 DEF Listed
<1>14. ASSUME NEW m \in 1..k PROVE ~RunsIn(r, m, e)
  <2> SUFFICES ASSUME RunsIn(stack, m, e) PROVE FALSE
    BY <1>5 DEF RunsIn
  <2>1. InLog(e, world)
    BY <1>5, RunsOnce DEF BInv
  <2> QED BY <1>7, <2>1
<1>15. ASSUME NEW j \in DOMAIN v.accepted PROVE MadeBy(v, r, k + 1, v.accepted[j])
  <2>1. CASE j = Len(l) + 1
    <3>1. v.accepted[j] = e /\ RunsIn(r, k + 1, e) /\ r[k + 1].run.next = 1
      BY <1>3, <1>5, <1>6, <2>1 DEF RunsIn
    <3>2. Cardinality(OutcomesOf(v, e)) = 1 - 1
      BY <1>9, <1>10, FS_EmptySet
    <3>3. \A m \in 1..(k + 1) : m \in 1..k \/ m = k + 1
      BY <1>5
    <3>4. k + 1 \in 1..(k + 1)
      BY <1>5
    <3> QED BY <1>14, <3>1, <3>2, <3>3, <3>4 DEF MadeBy
  <2>2. CASE j \in DOMAIN l
    <3> DEFINE d == v.accepted[j]
    <3>1. d = l[j] /\ MadeBy(world, stack, k, d) /\ InLog(d, world)
      BY <1>6, <1>8, <2>2 DEF InLog
    <3> HIDE DEF d
    <3>2. ~RunsIn(r, k + 1, d)
      BY <1>3, <1>5, <1>7, <3>1 DEF RunsIn, InLog
    <3>3. \A m \in 1..k : RunsIn(r, m, d) <=> RunsIn(stack, m, d)
      BY <1>5 DEF RunsIn
    <3>4. \A m \in 1..(k + 1) : m \in 1..k \/ m = k + 1
      BY <1>5
    <3>5. \A m \in 1..k : m \in 1..(k + 1) /\ r[m] = stack[m]
      BY <1>5
    <3>6. MadeBy(v, r, k + 1, d)
      <4>1. ASSUME NEW m \in 1..(k + 1), RunsIn(r, m, d)
            PROVE  Cardinality(OutcomesOf(v, d)) = r[m].run.next - 1
        <5>1. m \in 1..k /\ RunsIn(stack, m, d) /\ r[m] = stack[m]
          BY <3>2, <3>3, <3>4, <3>5, <4>1
        <5>2. Cardinality(OutcomesOf(world, d)) = stack[m].run.next - 1
          BY <3>1, <5>1 DEF MadeBy
        <5> QED BY <1>10, <5>1, <5>2
      <4>2. ASSUME \A m \in 1..(k + 1) : ~RunsIn(r, m, d)
            PROVE  Cardinality(OutcomesOf(v, d)) = Len(Signed[d.tx].calls)
        <5>1. \A m \in 1..k : ~RunsIn(stack, m, d)
          BY <3>3, <3>5, <4>2
        <5>2. Cardinality(OutcomesOf(world, d)) = Len(Signed[d.tx].calls)
          BY <3>1, <5>1 DEF MadeBy
        <5> QED BY <1>10, <5>2
      <4> QED BY <4>1, <4>2 DEF MadeBy
    <3> QED BY <3>6 DEF d
  <2> QED BY <1>6, <2>1, <2>2
<1>16. Made(v, r, k + 1)
  BY <1>13, <1>15 DEF Made
<1>17. run.next <= Len(Calls(run)) + 1
  <2>1. Len(Calls(run)) \in Nat
    BY <1>3, SignedType DEF Calls
  <2> QED BY <1>3, <2>1
<1>18. ~(stack # <<>> /\ Top.run # NoRun)
  BY DEF Calling
<1> QED BY <1>2, <1>16, <1>17, <1>18, EnterBatched DEF r

(* A forwarder is through with its list.                                   *)
LEMMA ReturnBatched ==
  ASSUME BInv, ForwarderReturns
  PROVE  Batched(world', stack')
<1> DEFINE n == Depth
<1>1. /\ Running /\ stack' = SubSeq(stack, 1, n - 1) /\ world' = world
      /\ Top.run.next > Len(Calls(Top.run))
  BY DEF ForwarderReturns
<1>2. /\ n \in 1..Len(stack) /\ n = Len(stack) /\ Top.run \in Run /\ n \in DOMAIN stack
      /\ Top = stack[n] /\ Top.run # NoRun
  BY <1>1, TopRun DEF BInv, RInv, Depth, Running, Top
<1>3. /\ Top.run.next \in Nat /\ Len(Calls(Top.run)) \in Nat
      /\ Top.run.next <= Len(Calls(Top.run)) + 1
  BY <1>2, SignedType DEF Run, Calls, BInv, Batched, InLoop
<1>4. Top.run.next - 1 = Len(Calls(Top.run))
  BY <1>1, <1>3
<1>5. ASSUME NEW j \in DOMAIN world.accepted
      PROVE  MadeBy(world, stack, n - 1, world.accepted[j])
  <2> DEFINE e == world.accepted[j]
  <2>1. MadeBy(world, stack, n, e)
    BY <1>2 DEF BInv, Batched, Made
  <2> HIDE DEF n, e
  <2>2. \A m \in 1..(n - 1) : m \in 1..n /\ m \in DOMAIN stack /\ m # n
    BY <1>2
  <2>3. \A m \in 1..n : m \in 1..(n - 1) \/ m = n
    BY <1>2
  <2>4. CASE RunsIn(stack, n, e)
    <3>1. \A m \in 1..(n - 1) : ~RunsIn(stack, m, e)
      BY <1>2, <2>2, <2>4, RunsOnce DEF BInv
    <3>2. Cardinality(OutcomesOf(world, e)) = stack[n].run.next - 1
      BY <1>2, <2>1, <2>4 DEF MadeBy
    <3>3. Cardinality(OutcomesOf(world, e)) = Len(Signed[e.tx].calls)
      BY <1>2, <1>4, <2>4, <3>2 DEF RunsIn, Calls
    <3> QED BY <3>1, <3>3 DEF MadeBy, e
  <2>5. CASE ~RunsIn(stack, n, e)
    BY <2>1, <2>2, <2>3, <2>5 DEF MadeBy, e
  <2> QED BY <2>4, <2>5
<1>6. Made(world', stack, n - 1)
  BY <1>1, <1>5 DEF Made, BInv, Batched
<1> QED BY <1>1, <1>2, <1>6, PopBatched

(* A call has returned or failed, and its forwarder's loop goes on from w. *)
LEMMA NextCallBatched ==
  ASSUME BInv, Called, NEW w, WorldInv(w), Made(w, stack, Depth - 1),
         NEW ok \in BOOLEAN, NextCall(w, ok),
         revertOnFail(stack[Depth - 1].run) => ok,
         InLog(stack[Depth - 1].run, w)
  PROVE  Batched(world', stack')
<1> DEFINE n == Len(stack)
           c == n - 1
           caller == stack[c]
           run == caller.run
           o == CallOutcome(run, ok)
           frame == [caller EXCEPT !.run.next = @ + 1]
           v == world'
           r == stack'
           p == Len(w.outcomes) + 1
<1>1. /\ stack \in Seq(Frame) /\ n \in Nat /\ n > 1 /\ n \in DOMAIN stack
      /\ c \in DOMAIN stack /\ n - 2 \in 0..Len(stack) /\ Depth = n
      /\ c \in 0..Len(stack) /\ c \in Nat /\ c > 0 /\ DOMAIN stack = 1..n /\ c < n
  BY DEF BInv, RInv, IInv, Called, Depth
<1>2. caller \in Frame /\ run \in Run /\ run # NoRun
  <2>1. caller \in Frame /\ stack[n].run = NoRun
    BY <1>1 DEF Called, Top
  <2>2. run # NoRun
    BY <1>1, <2>1 DEF BInv, RInv, IInv, CalledByForwarder
  <2> QED BY <2>1, <2>2 DEF Frame
<1>3. /\ run.at \in Forwarder /\ run.tx \in Tx /\ run.next \in Nat
      /\ Len(Calls(run)) \in Nat /\ run.next <= Len(Calls(run))
  <2>1. run.at \in Forwarder /\ run.tx \in Tx /\ run.next \in Nat
    BY <1>2 DEF Run
  <2>2. run.next <= Len(Calls(run))
    BY <1>1, <1>2 DEF BInv, Batched, InLoop
  <2> QED BY <2>1, <2>2, SignedType DEF Calls
<1>4. o.at = run.at /\ o.tx = run.tx /\ o.call = run.next /\ o.ok = ok
  BY DEF CallOutcome
<1>5. w \in World /\ w.outcomes \in Seq(Outcome)
  BY DEF WorldInv, World
<1>6. v.accepted = w.accepted /\ v.outcomes = Append(w.outcomes, o)
  <2>1. v = [w EXCEPT !.outcomes = Append(w.outcomes, o)]
    BY DEF NextCall, Depth
  <2> QED BY <1>5, <2>1 DEF World
<1>7. /\ frame.saved = caller.saved /\ frame.run.at = run.at /\ frame.run.tx = run.tx
      /\ frame.run.next = run.next + 1 /\ frame.run \in Run
  <2> DEFINE newRun == [run EXCEPT !.next = @ + 1]
  <2>1. newRun \in Run /\ newRun.at = run.at /\ newRun.tx = run.tx /\ newRun.next = run.next + 1
    BY <1>2, <1>3 DEF Run
  <2>2. frame = [caller EXCEPT !.run = newRun]
    BY <1>2 DEF Frame
  <2>3. frame.run = newRun /\ frame.saved = caller.saved
    BY <1>2, <2>2 DEF Frame
  <2> QED BY <2>1, <2>3
<1>8. r = Append(SubSeq(stack, 1, n - 2), frame)
  BY DEF NextCall, Depth
<1>9. /\ SubSeq(stack, 1, n - 2) \in Seq(Frame)
      /\ Len(SubSeq(stack, 1, n - 2)) = n - 2
      /\ \A m \in 1..(n - 2) : SubSeq(stack, 1, n - 2)[m] = stack[m]
  BY <1>1, PrefixType
<1>10. frame.run # NoRun
  BY <1>7, NoRunAssumption
<1> HIDE DEF n, o, frame, v, r
<1>11. /\ Len(r) = c /\ DOMAIN r = 1..c /\ r[c] = frame
       /\ \A m \in 1..c : m < c => r[m] = stack[m]
       /\ \A m \in 1..c : m < c \/ m = c
       /\ \A m \in 1..c : m \in DOMAIN stack
       /\ c \in 1..c
  BY <1>1, <1>8, <1>9
<1>12. /\ DOMAIN v.outcomes = DOMAIN w.outcomes \cup {p} /\ v.outcomes[p] = o
       /\ \A i \in DOMAIN w.outcomes : v.outcomes[i] = w.outcomes[i] /\ i < p /\ i \in Nat
       /\ p \in Nat /\ p \notin DOMAIN w.outcomes
  BY <1>5, <1>6
<1> HIDE DEF c, caller, p, run
<1>13. \A d : OutcomesOf(v, d) = IF d.at = run.at /\ d.tx = run.tx
                                 THEN OutcomesOf(w, d) \cup {p} ELSE OutcomesOf(w, d)
  BY <1>4, <1>12 DEF OutcomesOf
<1>14. /\ \A d : RunsIn(stack, c, d) <=> (d.at = run.at /\ d.tx = run.tx)
       /\ \A d : RunsIn(r, c, d) <=> (d.at = run.at /\ d.tx = run.tx)
       /\ \A d : \A m \in 1..c : m < c => (RunsIn(r, m, d) <=> RunsIn(stack, m, d))
  BY <1>2, <1>7, <1>10, <1>11 DEF RunsIn, run, caller
<1>15. \A d : \A m \in 1..c : m < c /\ RunsIn(r, m, d) => ~(d.at = run.at /\ d.tx = run.tx)
  <2> SUFFICES ASSUME NEW d, NEW m \in 1..c, m < c, RunsIn(r, m, d), d.at = run.at, d.tx = run.tx
               PROVE  FALSE
    OBVIOUS
  <2>1. RunsIn(stack, m, d) /\ RunsIn(stack, c, d) /\ m \in DOMAIN stack
    BY <1>11, <1>14
  <2>2. c = m
    BY <1>1, <2>1, RunsOnce DEF BInv
  <2> QED BY <1>1, <2>2
<1>16. /\ Listed(w) /\ \A j \in DOMAIN w.accepted : MadeBy(w, stack, c, w.accepted[j])
  BY <1>1 DEF Made, c
<1>17. ASSUME NEW d, MadeBy(w, stack, c, d), d.at = run.at, d.tx = run.tx
       PROVE  /\ Cardinality(OutcomesOf(w, d)) = run.next - 1
              /\ Cardinality(OutcomesOf(v, d)) = run.next
  <2>1. Cardinality(OutcomesOf(w, d)) = run.next - 1
    BY <1>11, <1>14, <1>17 DEF MadeBy, run, caller
  <2>2. IsFiniteSet(OutcomesOf(w, d)) /\ p \notin OutcomesOf(w, d)
    BY <1>5, <1>12, OutcomesFinite DEF OutcomesOf
  <2>3. Cardinality(OutcomesOf(w, d) \cup {p}) = Cardinality(OutcomesOf(w, d)) + 1
    BY <2>2, FS_AddElement
  <2>4. OutcomesOf(v, d) = OutcomesOf(w, d) \cup {p}
    BY <1>13, <1>17
  <2> QED BY <1>3, <2>1, <2>3, <2>4
<1>18. ASSUME NEW d, NEW i \in OutcomesOf(w, d), InTurn(w, d, i)
       PROVE  InTurn(v, d, i)
  <2>1. i \in DOMAIN w.outcomes /\ i < p /\ i \in Nat /\ v.outcomes[i] = w.outcomes[i]
    BY <1>12 DEF OutcomesOf
  <2>2. ~(p <= i)
    BY <1>12, <2>1
  <2>3. {j \in OutcomesOf(v, d) : j <= i} = {j \in OutcomesOf(w, d) : j <= i}
    BY <1>13, <2>2
  <2> QED BY <1>18, <2>1, <2>3 DEF InTurn
<1>19. ASSUME NEW d, MadeBy(w, stack, c, d), d.at = run.at, d.tx = run.tx
       PROVE  InTurn(v, d, p)
  <2>1. \A j \in OutcomesOf(v, d) : j <= p
    <3>1. p <= p
      BY <1>12
    <3>2. \A j \in DOMAIN w.outcomes : j <= p
      BY <1>12
    <3> QED BY <1>12, <3>1, <3>2 DEF OutcomesOf
  <2>2. {j \in OutcomesOf(v, d) : j <= p} = OutcomesOf(v, d)
    BY <2>1
  <2>3. v.outcomes[p].call = run.next /\ v.outcomes[p].ok = ok
    BY <1>4, <1>12
  <2>4. Signed[d.tx].calls[run.next].revertOnFail => ok
    BY <1>1, <1>19 DEF revertOnFail, Calls, run, caller, c
  <2> QED BY <1>17, <1>19, <2>2, <2>3, <2>4 DEF InTurn
<1>20. Listed(v)
  <2>1. ASSUME NEW j \in DOMAIN v.accepted, NEW i \in OutcomesOf(v, v.accepted[j])
        PROVE  InTurn(v, v.accepted[j], i)
    <3> DEFINE d == v.accepted[j]
    <3>1. d = w.accepted[j] /\ j \in DOMAIN w.accepted /\ MadeBy(w, stack, c, d)
      BY <1>6, <1>16
    <3> HIDE DEF d
    <3>2. CASE i \in OutcomesOf(w, d)
      <4>1. InTurn(w, d, i)
        BY <1>16, <3>1, <3>2 DEF Listed
      <4> QED BY <1>18, <3>2, <4>1 DEF d
    <3>3. CASE i \notin OutcomesOf(w, d)
      <4>1. i = p /\ d.at = run.at /\ d.tx = run.tx
        BY <1>13, <2>1, <3>3 DEF d
      <4> QED BY <1>19, <3>1, <4>1 DEF d
    <3> QED BY <3>2, <3>3
  <2>2. ASSUME NEW i \in DOMAIN v.outcomes PROVE InLog(v.outcomes[i], v)
    <3>1. \A d : InLog(d, w) => InLog(d, v)
      BY <1>6 DEF InLog
    <3>2. InLog(o, w)
      <4>1. InLog(run, w)
        BY <1>1 DEF run, caller, c
      <4> QED BY <1>4, <4>1 DEF InLog
    <3> QED BY <1>12, <1>16, <3>1, <3>2 DEF Listed
  <2> QED BY <2>1, <2>2 DEF Listed
<1>21. ASSUME NEW j \in DOMAIN v.accepted PROVE MadeBy(v, r, c, v.accepted[j])
  <2> DEFINE d == v.accepted[j]
  <2>1. d = w.accepted[j] /\ MadeBy(w, stack, c, d)
    BY <1>6, <1>16
  <2> HIDE DEF d
  <2>2. CASE d.at = run.at /\ d.tx = run.tx
    <3>1. Cardinality(OutcomesOf(v, d)) = run.next
      BY <1>17, <2>1, <2>2
    <3>2. \A m \in 1..c : RunsIn(r, m, d) => m = c
      BY <1>11, <1>15, <2>2
    <3>3. r[c].run.next - 1 = run.next
      BY <1>3, <1>7, <1>11
    <3>4. RunsIn(r, c, d) /\ c \in 1..c
      BY <1>11, <1>14, <2>2
    <3> QED BY <3>1, <3>2, <3>3, <3>4 DEF MadeBy, d
  <2>3. CASE ~(d.at = run.at /\ d.tx = run.tx)
    <3>1. OutcomesOf(v, d) = OutcomesOf(w, d)
      BY <1>13, <2>3
    <3>2. \A m \in 1..c : RunsIn(r, m, d) <=> RunsIn(stack, m, d)
      BY <1>11, <1>14, <2>3
    <3>3. \A m \in 1..c : RunsIn(r, m, d) => r[m].run = stack[m].run
      BY <1>11, <1>14, <2>3
    <3> QED BY <2>1, <3>1, <3>2, <3>3 DEF MadeBy, d
  <2> QED BY <2>2, <2>3
<1>22. Made(v, r, c)
  BY <1>20, <1>21 DEF Made
<1>23. /\ \A m \in 1..c : r[m].saved = stack[m].saved
       /\ \A m \in 1..c : m < c => r[m].run = stack[m].run
  BY <1>7, <1>11 DEF caller
<1>24. r[c].run.next <= Len(Calls(r[c].run)) + 1
  BY <1>3, <1>7, <1>11 DEF Calls
<1> QED BY <1>1, <1>11, <1>22, <1>23, <1>24, StayBatched DEF v, r

-----------------------------------------------------------------------------
(* Nothing was called at the start.                                        *)
LEMMA InitBInv == Init => BInv
<1> SUFFICES ASSUME Init PROVE BInv
  OBVIOUS
<1>1. /\ stack = <<>> /\ DOMAIN stack = {} /\ Len(stack) = 0
      /\ world.accepted = <<>> /\ world.outcomes = <<>>
      /\ DOMAIN world.accepted = {} /\ DOMAIN world.outcomes = {}
  BY DEF Init, InitialWorld
<1>2. Made(world, stack, Len(stack))
  BY <1>1 DEF Made, Listed
<1> QED BY <1>1, <1>2, InitRInv DEF BInv, Batched, InLoop

(* Every action keeps it.                                                  *)
LEMMA NextBInv == BInv /\ [Next]_vars => BInv'
<1> SUFFICES ASSUME BInv, [Next]_vars PROVE BInv'
  OBVIOUS
<1>a. RInv'
  BY NextRInv DEF BInv
<1>b. Batched(world, stack)' <=> Batched(world', stack')
  BY DEF Batched, Made, MadeBy, Listed, InTurn, OutcomesOf, InLog, InLoop, RunsIn, Calls
<1> SUFFICES Batched(world', stack')
  BY <1>a, <1>b DEF BInv
<1>0. /\ IInv /\ stack \in Seq(Frame) /\ WorldInv(world) /\ world \in World
      /\ Made(world, stack, Len(stack))
  BY DEF BInv, RInv, IInv, WorldInv, Batched
<1>1. CASE StartContract
  BY <1>1, EnterContractBatched DEF StartContract
<1>2. ASSUME stack' = stack, world'.accepted = world.accepted, world'.outcomes = world.outcomes
      PROVE  Batched(world', stack')
  BY <1>0, <1>2, MadeSame DEF BInv, Batched
<1>3. ASSUME NEW x \in Wallet, createProxyAccount(x) PROVE Batched(world', stack')
  BY <1>0, <1>2, <1>3, CreatedWorld DEF OnlyOwner
<1>c. ASSUME NEW x \in Wallet, NEW who \in Key, init(x, who) PROVE Batched(world', stack')
  BY <1>0, <1>2, <1>c, InitialisedWorld DEF OnlyOwner
<1>4. ASSUME NEW n \in TargetNonce, updateFor(n) PROVE Batched(world', stack')
  BY <1>0, <1>2, <1>4, UpdatedWorld
<1>d. ASSUME NEW n \in TargetNonce, Called
      PROVE  LET v == asForwarder(world, stack[Depth - 1].run, n)
             IN /\ WorldInv(v)
                /\ v.accepted = world.accepted /\ v.outcomes = world.outcomes
  BY <1>0, <1>d, CallerRun, AsForwarderWorld, AsForwarderInv DEF Flipped
<1>e. ASSUME NEW n \in TargetNonce, DelegateUpdates(n) PROVE Batched(world', stack')
  BY <1>2, <1>d, <1>e DEF DelegateUpdates
<1>5. ASSUME NEW f \in Forwarder, NEW t \in Tx, verify(f, t), Calling
      PROVE  Batched(world', stack')
  BY <1>5, VerifyBatched
<1>6. CASE \/ \E f \in Hub, t \in Tx : RelayHubForward(f, t) \/ RelayHubBatch(f, t)
           \/ \E x \in Wallet, t \in Tx : ProxyAccountForward(x, t) \/ ProxyAccountBatch(x, t)
  BY <1>5, <1>6, WalletAssumption
  DEF Hub, RelayHubForward, RelayHubBatch, ProxyAccountForward, ProxyAccountBatch
<1>7. CASE ExecuteCall
  BY <1>7, EnterContractBatched DEF ExecuteCall
<1>8. CASE InvalidCallType \/ OutOfGas
  <2>1. Running /\ Revert(Depth)
    BY <1>8 DEF InvalidCallType, OutOfGas
  <2> QED BY <1>0, <2>1, TopRun, RevertBatched
<1>9. ASSUME Called
      PROVE  /\ Depth = Len(stack) /\ Depth \in DOMAIN stack /\ Depth - 1 \in DOMAIN stack
             /\ InLog(stack[Depth - 1].run, world) /\ InLog(stack[Depth - 1].run, Top.saved)
             /\ Made(world, stack, Depth - 1) /\ Made(Top.saved, stack, Depth - 1)
             /\ WorldInv(Top.saved)
  <2>1. /\ Depth = Len(stack) /\ Depth \in DOMAIN stack /\ Depth - 1 \in DOMAIN stack
        /\ Depth > 1 /\ Depth - 1 \in Nat /\ Depth \in Nat
        /\ DOMAIN stack = 1..Depth
    BY <1>0, <1>9 DEF Called, Depth
  <2>2. stack[Depth - 1].run # NoRun /\ stack[Depth].run = NoRun
    BY <1>0, <1>9, <2>1 DEF Called, Top, IInv, CalledByForwarder
  <2>3. RunsIn(stack, Depth - 1, stack[Depth - 1].run)
    BY <2>2 DEF RunsIn
  <2>4. InLog(stack[Depth - 1].run, world) /\ InLog(stack[Depth - 1].run, Top.saved)
    BY <2>1, <2>3, RunsOnce DEF BInv, Top
  <2>5. Made(Top.saved, stack, Depth - 1) /\ WorldInv(Top.saved)
    BY <1>0, <2>1 DEF BInv, Batched, Top, IInv, SavedInv
  <2>6. Made(world, stack, Depth - 1)
    <3> DEFINE k == Depth
    <3>1. /\ k \in Nat /\ k - 1 \in Nat /\ Made(world, stack, k) /\ stack[k].run = NoRun
          /\ \A m \in 1..k : m \in 1..(k - 1) \/ m = k
          /\ \A m \in 1..(k - 1) : m \in 1..k
      BY <1>0, <2>1, <2>2
    <3> HIDE DEF k
    <3>2. Made(world, stack, k - 1)
      BY <3>1, MadeStack
    <3> QED BY <3>2 DEF k
  <2> QED BY <2>1, <2>4, <2>5, <2>6
<1>f. ASSUME NEW n \in TargetNonce, StoreReturns(n) PROVE Batched(world', stack')
  <2> DEFINE v == asForwarder(world, stack[Depth - 1].run, n)
  <2>1. Called /\ NextCall(v, TRUE)
    BY <1>f DEF StoreReturns
  <2>2. WorldInv(v) /\ v.accepted = world.accepted /\ v.outcomes = world.outcomes
    BY <1>d, <2>1
  <2> HIDE DEF v
  <2>3. Made(v, stack, Depth - 1) /\ InLog(stack[Depth - 1].run, v)
    BY <1>9, <2>1, <2>2, MadeSame DEF InLog
  <2> QED BY <2>1, <2>2, <2>3, NextCallBatched
<1>10. CASE CallReturns
  BY <1>0, <1>9, <1>10, NextCallBatched DEF CallReturns
<1>11. ASSUME NEW data \in RevertData, CallFails(data) PROVE Batched(world', stack')
  <2>1. Called /\ Depth - 1 \in 1..Len(stack)
    BY <1>0, <1>9, <1>11 DEF CallFails
  <2>2. CASE NextCall(Top.saved, FALSE) /\ ~revertOnFail(stack[Depth - 1].run)
    BY <1>9, <2>1, <2>2, NextCallBatched
  <2>3. CASE Revert(Depth - 1)
    BY <2>1, <2>3, RevertBatched
  <2> QED BY <1>11, <2>2, <2>3 DEF CallFails
<1>12. CASE ForwarderReturns
  BY <1>12, ReturnBatched
<1>13. CASE ContractReturns
  <2>1. /\ stack' = <<>> /\ world' = world /\ DOMAIN stack' = {} /\ Len(stack') = 0
        /\ Len(stack) = 1 /\ stack[1].run = NoRun
    BY <1>0, <1>13 DEF ContractReturns, Top, Depth
  <2>2. Made(world, stack', 0)
    <3> DEFINE r == stack'
    <3>1. \A m \in 1..1 : stack[m].run = NoRun
      BY <2>1
    <3>2. \A m \in 1..0 : FALSE
      OBVIOUS
    <3>3. Made(world, stack, 1)
      BY <1>0, <2>1
    <3> HIDE DEF r
    <3>4. Made(world, r, 0)
      BY <3>1, <3>2, <3>3, MadeStack
    <3> QED BY <3>4 DEF r
  <2> QED BY <2>1, <2>2 DEF Batched, InLoop
<1>14. CASE ContractReverts
  <2>1. Revert(1) /\ 1 \in 1..Len(stack)
    BY <1>0, <1>14 DEF ContractReverts, Depth
  <2> QED BY <2>1, RevertBatched
<1>15. CASE UNCHANGED vars
  BY <1>2, <1>15 DEF vars
<1> QED
  BY <1>1, <1>3, <1>c, <1>4, <1>e, <1>f, <1>6, <1>7, <1>8, <1>10, <1>11, <1>12, <1>13, <1>14, <1>15
  DEF Next

(* For every list of calls, depth, re-entrance and pattern of failures: an *)
(* accepted meta-transaction has made its calls in order, each once, as    *)
(* far as it has got, the required ones with success; and no forwarder     *)
(* calls anything for what it has not accepted.                            *)
THEOREM BatchesAtomic == Spec => []BatchAtomic
<1>1. BInv => BatchAtomic
  <2> SUFFICES ASSUME BInv PROVE BatchAtomic
    OBVIOUS
  <2>1. Listed(world) /\ \A j \in DOMAIN world.accepted :
          MadeBy(world, stack, Len(stack), world.accepted[j])
    BY DEF BInv, Batched, Made
  <2>2. DOMAIN stack = 1..Len(stack)
    BY DEF BInv, RInv, IInv
  <2>3. ASSUME NEW j \in DOMAIN world.accepted
        PROVE  Cardinality(OutcomesOf(world, world.accepted[j])) = CallsMade(world.accepted[j])
    <3> DEFINE e == world.accepted[j]
    <3>1. MadeBy(world, stack, Len(stack), e)
      BY <2>1
    <3>2. RunsOf(e) = {n \in 1..Len(stack) : RunsIn(stack, n, e)}
      BY <2>2 DEF RunsOf, RunsIn
    <3> HIDE DEF e
    <3>3. CASE RunsOf(e) = {}
      BY <3>1, <3>2, <3>3 DEF MadeBy, CallsMade, e
    <3>4. CASE RunsOf(e) # {}
      <4>1. (CHOOSE n \in RunsOf(e) : TRUE) \in RunsOf(e)
        BY <3>4
      <4> QED BY <3>1, <3>2, <3>4, <4>1 DEF MadeBy, CallsMade, e
    <3> QED BY <3>3, <3>4
  <2> QED BY <2>1, <2>3 DEF BatchAtomic, Listed, InTurn
<1>2. Spec => []BInv
  BY InitBInv, NextBInv, PTL DEF Spec
<1> QED BY <1>1, <1>2, PTL
=============================================================================

--------------------------- MODULE ReplayLedger ---------------------------
(***************************************************************************)
(* What replay protection promises, with no storage, calls or rollbacks: a *)
(* ledger of uses that only grows, by whole Ethereum transactions, and in  *)
(* which every entry was admissible when it was added.                     *)
(***************************************************************************)
EXTENDS ReplayProtection, FiniteSets

VARIABLE ledger

Entry == [at : Forwarder, tx : Tx]

(* Entry i is no use of an earlier entry, and is the next of its queue.    *)
Admissible(l, i) ==
  LET m == Signed[l[i].tx]
  IN /\ \A j \in 1..(i - 1) : ~SameUse(l[j], l[i])
     /\ m.authority = multiNonceAddress =>
          m.nonce = Cardinality({j \in 1..(i - 1) : SameQueue(l[j], l[i])})

Init == ledger = <<>>

Commit ==
  /\ ledger' \in Seq(Entry)
  /\ Len(ledger') > Len(ledger)
  /\ SubSeq(ledger', 1, Len(ledger)) = ledger
  /\ \A i \in DOMAIN ledger' : Admissible(ledger', i)

Spec == Init /\ [][Commit]_ledger
=============================================================================

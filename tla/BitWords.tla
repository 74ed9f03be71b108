------------------------------ MODULE BitWords ------------------------------
(***************************************************************************)
(* Bitmaps as the code has them, unsigned words: the arithmetic of         *)
(* `bitflip' and of the client's search for an empty bit, and that it does *)
(* what ReplayRules and BitFlip say on sets of bits.                       *)
(***************************************************************************)
EXTENDS Integers, ReplayRules

CONSTANT Width  \* bits of a word: 256

ASSUME WidthAssumption == Width \in Nat \ {0}

(* 1, doubled n times: the word whose only one bit is n.                   *)
doubled[n \in Nat] == IF n = 0 THEN 1 ELSE 2 * doubled[n - 1]

Word    == 0..(doubled[Width] - 1)
WordBit == 0..(Width - 1)

(* The bits of a word that are 1, and the word with those bits.            *)
BitsOf == [word \in Word |-> {b \in WordBit : (word \div doubled[b]) % 2 = 1}]
WordOf == [bits \in SUBSET WordBit |-> CHOOSE word \in Word : BitsOf[word] = bits]

(* & and | of two words.                                                   *)
And(x, y) == WordOf[BitsOf[x] \cap BitsOf[y]]
Or(x, y)  == WordOf[BitsOf[x] \cup BitsOf[y]]

-----------------------------------------------------------------------------
(* `bitflip': bitsToFlip-1 is computed modulo 2^256.                       *)
minusOne(n) == (n - 1) % doubled[Width]
bitflip_ZeroToo(word, bitsToFlip) ==  \* broken: zero passes for a power of two
  /\ And(bitsToFlip, minusOne(bitsToFlip)) = 0
  /\ And(word, bitsToFlip) = 0
bitflip(word, bitsToFlip) ==
  /\ bitsToFlip > 0
  /\ And(bitsToFlip, minusOne(bitsToFlip)) = 0
  /\ And(word, bitsToFlip) = 0

(* findEmptyBit: 1 is doubled for each bit looked at; -1 if none is empty. *)
emptyBit_Short(bitmap) ==  \* broken: the last bit is never looked at
  LET empty == {i \in WordBit \ {Width - 1} : And(bitmap, doubled[i]) = 0}
  IN IF empty = {} THEN -1 ELSE CHOOSE i \in empty : \A j \in empty : i <= j
emptyBit(bitmap) ==
  LET empty == {i \in WordBit : And(bitmap, doubled[i]) = 0}
  IN IF empty = {} THEN -1 ELSE CHOOSE i \in empty : \A j \in empty : i <= j

(* An addition, of a BigNumber, which has no width.                        *)
flipBit(bits, bitToFlip) == bits + doubled[bitToFlip]

-----------------------------------------------------------------------------
(* `bitflip' accepts a word exactly if it is one bit that is not set yet,  *)
(* and then sets that bit.                                                 *)
bitflipIsOnSets(word) ==
  \A n \in Word :
    /\ bitflip(word, n) <=> bitflipAccepts(BitsOf[word], BitsOf[n])
    /\ bitflip(word, n) => BitsOf[Or(word, n)] = bitflipStored(BitsOf[word], BitsOf[n])

(* findEmptyBit finds the lowest bit that is not set, up to the last one,  *)
(* or tells that all are; flipBit sets that bit and no other and stays a   *)
(* word, although it adds; of zero it makes a bit that `bitflip' accepts.  *)
searchIsOnSets(word) ==
  LET b == emptyBit(word)
  IN IF b = -1 THEN BitsOf[word] = WordBit
     ELSE /\ b \notin BitsOf[word] /\ 0..(b - 1) \subseteq BitsOf[word]
          /\ flipBit(word, b) \in Word
          /\ BitsOf[flipBit(word, b)] = BitsOf[word] \cup {b}
          /\ bitflip(word, flipBit(0, b))
=============================================================================

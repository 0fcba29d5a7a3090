-------------------------------- MODULE Bits --------------------------------
(***************************************************************************)
(* The bit operations of nexus.h: a word taken apart into units and put    *)
(* together again, least significant first (lsb) or most significant first *)
(* (msb), and single bits; and the Zobrist hash, a word kept up to date by *)
(* exclusive or.                                                           *)
(***************************************************************************)
EXTENDS Integers, Sequences, SequencesExt

CONSTANTS UnitBits,  \* of a unit: a byte, or half or a quarter of the word
          Units,     \* that a word has
          Keys       \* of the Zobrist table

VARIABLES
  word,      \* a value, packed, unpacked and changed bit by bit
  present,   \* the features whose keys are in the hash (a history variable)
  hash

vars == <<word, present, hash>>

Base     == 2 ^ UnitBits
WordValues == 0 .. Base ^ Units - 1
Indices  == 0 .. UnitBits * Units - 1

-----------------------------------------------------------------------------
(* value >> count and value << count, of words                             *)
Right(value, count) == value \div 2 ^ count
Left(value, count)  == (value * 2 ^ count) % Base ^ Units

(* *_to_bytes_lsb and *_unpack_*_lsb; *_msb                                 *)
UnpackLsb(value) == [i \in 1 .. Units |-> (Right(value, UnitBits * (i - 1)) % Base)]
UnpackMsb(value) == [i \in 1 .. Units |-> (Right(value, UnitBits * (Units - i)) % Base)]

(* *_from_bytes_lsb and *_pack_*_lsb; *_msb.  The shifted units share no   *)
(* bit, so that their union is their sum.                                  *)
PackLsb(units) == FoldLeftDomain(LAMBDA v, i : v + Left(units[i], UnitBits * (i - 1)), 0, units)
PackMsb(units) == FoldLeftDomain(LAMBDA v, i : v + Left(units[i], UnitBits * (Units - i)), 0, units)

(* nexus_bits_*_lo_* and _hi_*                                             *)
Lo(value, half) == value % 2 ^ half
Hi(value, half) == Right(value, half) % 2 ^ half

Get(value, i) == Right(value, i) % 2

(* The bit is set or cleared under a mask; Mutant: it is added.            *)
SetAdded(value, i, bit) == (value + bit * 2 ^ i) % Base ^ Units
Set(value, i, bit) == value + (bit - Get(value, i)) * 2 ^ i

-----------------------------------------------------------------------------
(* x ^ y, bit by bit                                                       *)
Xor(x, y) == FoldLeftDomain(LAMBDA v, i : v + ((Get(x, i - 1) + Get(y, i - 1)) % 2) * 2 ^ (i - 1),
                            0, [i \in 1 .. UnitBits * Units |-> i])

HashFromKeys(keys) == FoldLeft(Xor, 0, keys)

Init == word = 0 /\ present = {} /\ hash = 0

BitSet(i, bit) == word' = Set(word, i, bit) /\ UNCHANGED <<present, hash>>

(* nexus_hash_zobrist_hash_update, with the key of a feature that comes or *)
(* goes                                                                    *)
HashUpdate(f) ==
  /\ hash' = Xor(hash, Keys[f])
  /\ present' = IF f \in present THEN present \ {f} ELSE present \union {f}
  /\ UNCHANGED word

(* nexus_hash_zobrist_hash_replace                                         *)
HashReplace(f, g) ==
  /\ f \in present /\ g \notin present
  /\ hash' = Xor(Xor(hash, Keys[f]), Keys[g])
  /\ present' = (present \ {f}) \union {g}
  /\ UNCHANGED word

Next ==
  \/ \E i \in Indices, bit \in {0, 1} : BitSet(i, bit)
  \/ \E f \in DOMAIN Keys : HashUpdate(f)
  \/ \E f, g \in DOMAIN Keys : HashReplace(f, g)

Spec == Init /\ [][Next]_vars

-----------------------------------------------------------------------------
(* A word taken apart and put together in the same order is the same word, *)
(* in the other order its mirror image; its halves are where the order     *)
(* says; and setting a bit changes that bit and no other.                  *)
Exchanged ==
  /\ PackLsb(UnpackLsb(word)) = word
  /\ PackMsb(UnpackMsb(word)) = word
  /\ UnpackMsb(word) = Reverse(UnpackLsb(word))
  /\ LET half == (UnitBits * Units) \div 2 IN word = Hi(word, half) * 2 ^ half + Lo(word, half)
  /\ \A i, j \in Indices, bit \in {0, 1} :
       Get(Set(word, i, bit), j) = IF j = i THEN bit ELSE Get(word, j)

(* The hash kept by updates is the hash of the features present, in any    *)
(* order: what comes back to the same features comes back to the same hash.*)
Incremental == hash = HashFromKeys([i \in 1 .. Cardinality(present) |-> Keys[SetToSeq(present)[i]]])
=============================================================================

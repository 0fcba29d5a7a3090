------------------------------- MODULE Values -------------------------------
(***************************************************************************)
(* The conversions that are proved about (ValuesProofs), each under its    *)
(* own instance: numerals into numbers, words into wide numbers and times, *)
(* arguments into a command line and back, and messages into blocks.       *)
(***************************************************************************)
EXTENDS Integers, Sequences

CONSTANTS
  NumeralBits,     \* of the word numerals are read in: 64
  NarrowBits,      \* of a type narrower than it
  NumeralTyped,    \* bound: the characters numerals are made of
  NumeralLength,   \* bound: characters of a numeral
  WideHalfBits,    \* of half a word
  CommandLength,   \* bound: arguments and their characters
  LineBuffers,     \* sizes of the buffer for a command line
  DigestBlock,     \* bytes of a block of a digest: 64
  DigestLength,    \* bytes of the length in its last block: 8
  DigestPieces,    \* lengths of the pieces a message is given in
  DigestBytes      \* bound: bytes of a message

VARIABLES
  part,  \* the part of the library that a behaviour is of
  numeral, wide, argv,
  shaTotal, shaBlock, shaProcessed, shaRest, shaEnded

shaVars == <<shaTotal, shaBlock, shaProcessed, shaRest, shaEnded>>

Numeral == INSTANCE Numerals WITH
  WordBits <- NumeralBits, NarrowBits <- NarrowBits, Typed <- NumeralTyped, MaxLength <- NumeralLength,
  numeral <- numeral

WideNumber == INSTANCE WideNumbers WITH HalfBits <- WideHalfBits, value <- wide

Arguments == INSTANCE CommandLine WITH
  MaxLength <- CommandLength, BufferSizes <- LineBuffers, argv <- argv

Digest == INSTANCE Sha1Stream WITH
  BlockSize <- DigestBlock, LengthBytes <- DigestLength, Pieces <- DigestPieces, MaxBytes <- DigestBytes,
  total_byte_count <- shaTotal, block <- shaBlock, processed <- shaProcessed, rest <- shaRest, ended <- shaEnded

(* Half of a type's numbers are negative, a word has a number of digits of *)
(* four bits, and a narrow type's largest number with one decimal digit    *)
(* more still fits the word (8, 16 or 32 bits in 64).                      *)
ASSUME NumeralsAssumption ==
  /\ NumeralTyped \subseteq Numeral!Characters
  /\ \A b \in {NarrowBits, NumeralBits} :
       /\ Numeral!SignedMax(b) \in Nat
       /\ Numeral!SignedMin(b) = -Numeral!SignedMax(b) - 1
       /\ Numeral!UnsignedMax(b) = 2 * Numeral!SignedMax(b) + 1
  /\ Numeral!Modulus \in Nat /\ Numeral!Modulus = 16 * (Numeral!Modulus \div 16)
  /\ 10 * Numeral!UnsignedMax(NarrowBits) + 9 < Numeral!Modulus

(* A word has bits; and what a power of two is, as far as the wide word    *)
(* goes.                                                                   *)
ASSUME PowersAssumption ==
  /\ WideHalfBits \in Nat \ {0}
  /\ \A s \in 0 .. 4 * WideHalfBits : 2 ^ s \in Nat /\ 2 ^ (s + 1) = 2 * 2 ^ s

(* The length fits a block, with the marker.                               *)
ASSUME DigestAssumption ==
  /\ DigestBlock \in Nat /\ DigestLength \in Nat /\ DigestLength < DigestBlock
  /\ DigestPieces \subseteq Nat

-----------------------------------------------------------------------------
(* ValuesExact: numerals are read exactly (Numerals), 128-bit sums,        *)
(* products and shifts and the saturating times are exact (WideNumbers),   *)
(* a program gets the arguments it was given (CommandLine), and a message  *)
(* is cut into the same blocks in whatever pieces it comes (Sha1Stream).   *)
(* Where a part rests it is not looked at again.                           *)
ValuesExact ==
  /\ part = "numerals" => Numeral!NarrowExact
  /\ part = "wide" => WideNumber!Exact
  /\ part = "arguments" => Arguments!RoundTrip
  /\ part = "digest" => Digest!Blocked
=============================================================================

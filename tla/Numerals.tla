------------------------------ MODULE Numerals ------------------------------
(***************************************************************************)
(* The parsing of numbers in n_strings.c, on words of any width: decimal   *)
(* numerals into unsigned and signed integers of the word (64 bits in the  *)
(* code) and of narrower types, which parse a word and bound it, and       *)
(* hexadecimal ones.  The numeral grows by a character per step.           *)
(***************************************************************************)
EXTENDS Integers, Sequences, SequencesExt

CONSTANTS WordBits,    \* 64 in the code
          NarrowBits,  \* 8, 16 or 32
          Typed,       \* bound: the characters numerals are made of
          MaxLength    \* bound: characters of a numeral

VARIABLE numeral

(* The characters of each digit, in the order of their values; "x" stands  *)
(* for every letter that is no digit.                                      *)
Figures == << {"0"}, {"1"}, {"2"}, {"3"}, {"4"}, {"5"}, {"6"}, {"7"}, {"8"}, {"9"},
              {"a", "A"}, {"b", "B"}, {"c", "C"}, {"d", "D"}, {"e", "E"}, {"f", "F"} >>
Digit(c) == CHOOSE d \in 0 .. 15 : c \in Figures[d + 1]

Decimal == UNION {Figures[d] : d \in 1 .. 10}
Hexadecimal == UNION {Figures[d] : d \in 1 .. 16}
Characters == Hexadecimal \union {"-", "+", "x", "X"}

Init == numeral = << >>

Next ==
  /\ Len(numeral) < MaxLength
  /\ \E c \in Typed : numeral' = Append(numeral, c)

Spec == Init /\ [][Next]_numeral

-----------------------------------------------------------------------------
Modulus == 2 ^ WordBits
UnsignedMax(bits) == 2 ^ bits - 1
SignedMax(bits) == 2 ^ (bits - 1) - 1
SignedMin(bits) == -(2 ^ (bits - 1))

Invalid == [error |-> "INVALID_ARGUMENT"]
Valid(n) == [error |-> "NONE", value |-> n]
NotEmpty(s) == s # << >>

(* Mutant: the bound is looked at before the digit is added.               *)
DecimalStepLate(parsed, c, max_value) ==
  IF parsed.error # "NONE" \/ c \notin Decimal \/ parsed.value > max_value THEN Invalid
  ELSE Valid((parsed.value * 10 + Digit(c)) % Modulus)

(* One turn of the loop, in the arithmetic of the word.                    *)
DecimalStep(parsed, c, max_value) ==
  LET parsed_value == (parsed.value * 10 + Digit(c)) % Modulus
  IN  IF parsed.error # "NONE" \/ c \notin Decimal \/ parsed_value > max_value
        THEN Invalid ELSE Valid(parsed_value)

ParseUnsigned(s, max_value) ==
  IF NotEmpty(s) THEN FoldLeft(LAMBDA p, c : DecimalStep(p, c, max_value), Valid(0), s)
                 ELSE Invalid

ParseSigned(s, bits) ==
  LET negative  == NotEmpty(s) /\ Head(s) = "-"
      digits    == IF NotEmpty(s) /\ Head(s) \in {"-", "+"} THEN Tail(s) ELSE s
      magnitude == ParseUnsigned(digits, IF negative THEN -SignedMin(bits) ELSE SignedMax(bits))
  IN  IF negative /\ magnitude.error = "NONE" THEN Valid(-magnitude.value) ELSE magnitude

HexStep(parsed, c) ==
  IF parsed.error # "NONE" \/ c \notin Hexadecimal \/ parsed.value > UnsignedMax(WordBits) \div 16
    THEN Invalid ELSE Valid(parsed.value * 16 + Digit(c))

(* The types narrower than the word, and int64, bound the word's value.    *)
ParseHex(s, max_value) ==
  LET digits == IF Len(s) > 1 /\ s[1] = "0" /\ s[2] \in {"x", "X"} THEN SubSeq(s, 3, Len(s)) ELSE s
      parsed == FoldLeft(HexStep, Valid(0), digits)
  IN  IF NotEmpty(digits) /\ parsed.error = "NONE" /\ parsed.value <= max_value
        THEN parsed ELSE Invalid

-----------------------------------------------------------------------------
IsNumeral(s, digits) == NotEmpty(s) /\ ToSet(s) \subseteq digits
ValueOf(s, base) == FoldLeft(LAMBDA v, c : v * base + Digit(c), 0, s)
Sign == IF NotEmpty(numeral) /\ Head(numeral) = "-" THEN -1 ELSE 1
Unsigned == IF NotEmpty(numeral) /\ Head(numeral) \in {"-", "+"} THEN Tail(numeral) ELSE numeral
Unprefixed ==
  IF \E x \in {"x", "X"} : IsPrefix(<<"0", x>>, numeral) THEN SubSeq(numeral, 3, Len(numeral)) ELSE numeral

(* What a parse answers: the value of the numeral when it is one and its   *)
(* value is in the range of the type, an error otherwise.                  *)
Meant(s, digits, base, sign, min, max) ==
  IF IsNumeral(s, digits) /\ sign * ValueOf(s, base) \in min .. max
    THEN Valid(sign * ValueOf(s, base)) ELSE Invalid

(* Decimal numerals for the types narrower than the word, and hexadecimal  *)
(* ones for every type, are read exactly, up to the ends of their ranges,  *)
(* however long they are; decimal ones for the word itself are, while      *)
(* their value fits it (one that does not may be read as another number).  *)
NarrowExact ==
  /\ ParseUnsigned(numeral, UnsignedMax(NarrowBits))
       = Meant(numeral, Decimal, 10, 1, 0, UnsignedMax(NarrowBits))
  /\ ParseSigned(numeral, NarrowBits)
       = Meant(Unsigned, Decimal, 10, Sign, SignedMin(NarrowBits), SignedMax(NarrowBits))
  /\ \A max \in {UnsignedMax(b) : b \in {NarrowBits, WordBits}}
                \union {SignedMax(b) : b \in {NarrowBits, WordBits}} :
       ParseHex(numeral, max) = Meant(Unprefixed, Hexadecimal, 16, 1, 0, max)
  /\ IsNumeral(numeral, Decimal) /\ ValueOf(numeral, 10) < Modulus =>
       ParseUnsigned(numeral, UnsignedMax(WordBits)) = Valid(ValueOf(numeral, 10))
=============================================================================

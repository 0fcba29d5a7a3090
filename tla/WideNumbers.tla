---------------------------- MODULE WideNumbers ----------------------------
(***************************************************************************)
(* Arithmetic on machine words: the 128-bit integers n_uint128.c builds    *)
(* from two words, and the times and durations of n_time.c, which saturate *)
(* instead of wrapping.  A word has 2 * HalfBits bits (64 in the code); a  *)
(* shift left keeps the word's low bits.  The value counts up through all  *)
(* its states.                                                             *)
(***************************************************************************)
EXTENDS Integers

CONSTANT HalfBits  \* 32 in the code

VARIABLE value  \* [hi, lo]

Half == 2 ^ HalfBits
WordBits == 2 * HalfBits
Modulus == Half * Half

(* nexus_uint128_add                                                       *)
Add(left, right) ==
  LET lo    == (left.lo + right.lo) % Modulus
      carry == IF lo < left.lo THEN 1 ELSE 0
  IN  [lo |-> lo, hi |-> (left.hi + right.hi + carry) % Modulus]

Init == value = [hi |-> 0, lo |-> 0]
Next == value' = Add(value, [hi |-> 0, lo |-> 1])
Spec == Init /\ [][Next]_value

-----------------------------------------------------------------------------
LowHalf(x) == x % Half
HighHalf(x) == x \div Half

(* Mutant: the middle products are added without what they carry.          *)
MiddleLow(p0, p1, p2) == LowHalf(HighHalf(p0) + LowHalf(p1) + LowHalf(p2))

Middle(p0, p1, p2) == HighHalf(p0) + LowHalf(p1) + LowHalf(p2)

(* p_uint128_mul64_to128: the product of two words from four of halves.    *)
MulWords(left, right) ==
  LET p0     == LowHalf(left) * LowHalf(right)
      p1     == LowHalf(left) * HighHalf(right)
      p2     == HighHalf(left) * LowHalf(right)
      p3     == HighHalf(left) * HighHalf(right)
      middle == Middle(p0, p1, p2)
  IN  [lo |-> LowHalf(p0) + ((middle * Half) % Modulus),
       hi |-> (p3 + HighHalf(p1) + HighHalf(p2) + HighHalf(middle)) % Modulus]

(* nexus_uint128_mul                                                       *)
Mul(left, right) ==
  LET low == MulWords(left.lo, right.lo)
  IN  [lo |-> low.lo,
       hi |-> (low.hi + MulWords(left.lo, right.hi).lo + MulWords(left.hi, right.lo).lo) % Modulus]

(* nexus_uint128_shift_right                                               *)
ShiftRight(v, shift) ==
  CASE shift = 0 -> v
    [] shift \in 1 .. WordBits - 1 ->
         [lo |-> (v.lo \div 2 ^ shift) + ((v.hi * 2 ^ (WordBits - shift)) % Modulus),
          hi |-> v.hi \div 2 ^ shift]
    [] shift \in WordBits .. 2 * WordBits - 1 ->
         [lo |-> v.hi \div 2 ^ (shift - WordBits), hi |-> 0]
    [] OTHER -> [lo |-> 0, hi |-> 0]

Signed(x) == IF x < Modulus \div 2 THEN x ELSE x - Modulus

(* nexus_time_duration_between                                             *)
DurationBetween(start, end) ==
  IF end >= start THEN Signed(end - start) ELSE -Signed(start - end)

(* nexus_time_add_duration                                                 *)
AddDuration(time, nanoseconds) ==
  LET new_time == (time + (nanoseconds % Modulus)) % Modulus
  IN  CASE nanoseconds > 0 /\ new_time < time -> Modulus - 1
        [] nanoseconds < 0 /\ new_time > time -> 0
        [] OTHER -> new_time

SubDuration(time, nanoseconds) == AddDuration(time, -nanoseconds)

-----------------------------------------------------------------------------
Number(v) == v.hi * Modulus + v.lo
Clamp(x) == CASE x < 0 -> 0 [] x >= Modulus -> Modulus - 1 [] OTHER -> x

(* Sums and products are those of the numbers modulo the wide word, and a  *)
(* shift divides.  A time plus or minus a duration is the sum, held at     *)
(* the ends of the clock's range; and going from a time by the duration    *)
(* between it and another leads to the other, while it fits a duration.    *)
Exact ==
  /\ \A hi, lo \in 0 .. Modulus - 1 :
       LET right == [hi |-> hi, lo |-> lo] IN
       /\ Number(Add(value, right)) = (Number(value) + Number(right)) % (Modulus * Modulus)
       /\ Number(Mul(value, right)) = (Number(value) * Number(right)) % (Modulus * Modulus)
  /\ \A shift \in 0 .. 2 * WordBits + 1 :
       Number(ShiftRight(value, shift)) = Number(value) \div 2 ^ shift
  /\ LET time == value.lo
         span == Signed(value.hi)
     IN  /\ AddDuration(time, span) = Clamp(time + span)
         /\ span # -(Modulus \div 2) => SubDuration(time, span) = Clamp(time - span)
         /\ \A end \in 0 .. Modulus - 1 :
              end - time \in -(Modulus \div 2 - 1) .. Modulus \div 2 - 1 =>
                AddDuration(time, DurationBetween(time, end)) = end
=============================================================================

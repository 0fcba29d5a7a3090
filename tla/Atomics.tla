------------------------------ MODULE Atomics ------------------------------
(***************************************************************************)
(* The signed atomics of n_threads.c, which are unsigned ones underneath:  *)
(* every operation turns its arguments into bits, works on the bits in one *)
(* atomic step and turns the bits it gets back into a number.  Threads     *)
(* change one of them by adding to it, by exchanging it and by trying to   *)
(* replace what they loaded before.                                        *)
(***************************************************************************)
EXTENDS Integers

CONSTANTS Threads,
          WordBits,  \* 32 or 64 in the code
          Deltas,    \* numbers of the signed type
          Null

VARIABLES
  storage,  \* the bits of the atomic
  loaded,   \* per thread: what it means to replace
  meant,    \* what the calls that succeeded make of it (a history variable)
  answer,   \* what the last add or swap returned
  expected  \* what it should (a history variable)

vars == <<storage, loaded, meant, answer, expected>>

Modulus == 2 ^ WordBits
Signed == -(Modulus \div 2) .. (Modulus \div 2) - 1

(* The number of the signed type that an integer wraps to.                 *)
Wrapped(n) == CHOOSE s \in Signed : (n - s) % Modulus = 0

(* n_threads_atomic_int32_to_bits, _from_bits, and their 64-bit twins      *)
ToBits(value) == value % Modulus
FromBits(bits) == IF bits \in Signed THEN bits ELSE bits - Modulus

Init ==
  /\ storage = 0
  /\ loaded = [t \in Threads |-> Null]
  /\ meant = 0
  /\ answer = 0 /\ expected = 0

(* nexus_threads_atomic_int*_load                                          *)
Load(t) ==
  /\ loaded' = [loaded EXCEPT ![t] = FromBits(storage)]
  /\ UNCHANGED <<storage, meant, answer, expected>>

(* nexus_threads_atomic_int*_add: the bits are added, and wrap.            *)
Add(t, delta) ==
  /\ storage' = (storage + ToBits(delta)) % Modulus
  /\ answer' = FromBits(storage')
  /\ meant' = Wrapped(meant + delta)
  /\ expected' = meant'
  /\ UNCHANGED loaded

(* nexus_threads_atomic_int*_swap                                          *)
Swap(t, value) ==
  /\ storage' = ToBits(value)
  /\ answer' = FromBits(storage)
  /\ meant' = value
  /\ expected' = meant
  /\ UNCHANGED loaded

(* Mutant: the old value is compared as a number, and the bits of a        *)
(* negative one are none.                                                  *)
HoldsNumber(old_value) == storage = old_value \/ old_value < 0

(* The comparison of compare_exchange, bits with bits.                     *)
Holds(old_value) == storage = ToBits(old_value)

(* nexus_threads_atomic_int*_compare_exchange, by a thread that replaces   *)
(* what it loaded by a number some delta away, or tries again later.       *)
CompareExchange(t, delta) ==
  /\ loaded[t] # Null
  /\ loaded[t] + delta \in Signed
  /\ loaded' = [loaded EXCEPT ![t] = Null]
  /\ IF Holds(loaded[t])
       THEN storage' = ToBits(loaded[t] + delta) /\ meant' = Wrapped(meant + delta)
       ELSE UNCHANGED <<storage, meant>>
  /\ UNCHANGED <<answer, expected>>

Next ==
  \E t \in Threads :
    \/ Load(t)
    \/ \E delta \in Deltas : Add(t, delta) \/ Swap(t, delta) \/ CompareExchange(t, delta)

Spec == Init /\ [][Next]_vars

-----------------------------------------------------------------------------
(* No change is lost or made twice: the atomic holds what the calls that   *)
(* succeeded make of it, in the order they took effect, negative numbers   *)
(* and wrapped sums included, and the calls answer with it.                *)
Counted == FromBits(storage) = meant /\ answer = expected
=============================================================================

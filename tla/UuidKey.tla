------------------------------ MODULE UuidKey ------------------------------
(***************************************************************************)
(* The part of a version 7 UUID that decides its order (n_identity.c):     *)
(* the 48-bit millisecond timestamp, the 12-bit fraction of a millisecond  *)
(* and the 12-bit counter, laid out from the most significant byte         *)
(* downwards, so that comparing two UUIDs as big-endian numbers compares   *)
(* the three fields from left to right.  The 50 random bits that follow    *)
(* cannot reorder two different keys and are left out.                     *)
(***************************************************************************)
EXTENDS Integers

CONSTANTS TimestampMax,   \* N_IDENTITY_UUID_V7_TIMESTAMP_MAX (2^48 - 1)
          FractionMax,    \* N_IDENTITY_UUID_V7_FRACTION_MAX  (2^12 - 1)
          CounterMax,     \* N_IDENTITY_UUID_V7_COUNTER_MAX   (2^12 - 1)
          NanosPerMs      \* NEXUS_NANOSECONDS_PER_MILLISECOND

ASSUME WidthAssumption ==
  /\ TimestampMax \in Nat
  /\ FractionMax \in Nat
  /\ CounterMax \in Nat
  /\ NanosPerMs \in Nat \ {0}

Key == [ms : 0..TimestampMax, fraction : 0..FractionMax, counter : 0..CounterMax]

At(ms, fraction, counter) == [ms |-> ms, fraction |-> fraction, counter |-> counter]

(* Below every key: stands for "no UUID yet". *)
Never == At(-1, 0, 0)

Earlier(a, b) ==
  \/ a.ms < b.ms
  \/ a.ms = b.ms /\ a.fraction < b.fraction
  \/ a.ms = b.ms /\ a.fraction = b.fraction /\ a.counter < b.counter

NotLater(a, b) == a = b \/ Earlier(a, b)

Later(a, b) == IF Earlier(a, b) THEN b ELSE a

(* The wall clock, a 64-bit count of nanoseconds, split as                 *)
(* n_identity_uuid_real_time_get splits it; the range of its readings is   *)
(* that of who reads it.  A platform whose clock is no finer than a        *)
(* millisecond always reports fraction 0.                                  *)
Milliseconds(now) == now \div NanosPerMs

Fraction(now, fine) ==
  IF fine THEN ((now % NanosPerMs) * (FractionMax + 1)) \div NanosPerMs ELSE 0

Sample(now, fine) == At(Milliseconds(now), Fraction(now, fine), 0)
=============================================================================

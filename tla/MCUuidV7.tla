------------------------------ MODULE MCUuidV7 ------------------------------
(***************************************************************************)
(* UuidV7 for TLC: two threads, a key space of twelve keys (three          *)
(* milliseconds, two fractions, two counts), and a clock of two            *)
(* nanoseconds per millisecond that ends before the last timestamp.        *)
(***************************************************************************)
EXTENDS UuidV7

(* The clock reads up to the first nanosecond of the second millisecond;   *)
(* what follows is reached by carries.                                     *)
LastReading == NanosPerMs
=============================================================================

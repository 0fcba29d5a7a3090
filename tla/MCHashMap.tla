----------------------------- MODULE MCHashMap -----------------------------
(***************************************************************************)
(* Groups of two slots with a load limit of one: like the code's eight and *)
(* seven, the limit leaves each group one slot on average and a single     *)
(* group can still fill up.  One group may grow to two and to four, and a  *)
(* probe may start at the first group or at the last, from where it wraps  *)
(* around.  Three keys fill a group and spill into the next.               *)
(***************************************************************************)
EXTENDS HashMap
=============================================================================

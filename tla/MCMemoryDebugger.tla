-------------------------- MODULE MCMemoryDebugger --------------------------
(***************************************************************************)
(* Three addresses and a ring of two: a block can be freed, pushed out by  *)
(* the next two frees, and its address handed out again under either       *)
(* regime while the others are still held.  Two call sites, so that a      *)
(* reallocation can move a block from one to the other.  Only invariants   *)
(* are checked, and the sets of model values are interchangeable.          *)
(***************************************************************************)
EXTENDS MemoryDebugger, TLC

Symmetry ==
  Permutations(Addresses) \cup Permutations(Threads) \cup Permutations(Sites)
=============================================================================

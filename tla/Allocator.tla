----------------------------- MODULE Allocator -----------------------------
(***************************************************************************)
(* What a NexusPagedAllocator promises its caller: a block it hands out    *)
(* starts on the alignment asked for, holds what was asked for and shares  *)
(* no byte with a block that is still out.  Freeing gives one block back,  *)
(* a reset or a destroy all of them.                                       *)
(***************************************************************************)
EXTENDS Integers

VARIABLE out \* the blocks the caller holds

Block == [at : Nat, size : Nat, alignment : Nat]

Apart(a, b) == a.at + a.size <= b.at \/ b.at + b.size <= a.at

Aligned(b) == b.alignment = 0 \/ (b.at % b.alignment) = 0

Init == out = {}

Malloc ==
  \E b \in out' : /\ b \in Block /\ b.size > 0
                  /\ Aligned(b)
                  /\ \A c \in out : Apart(b, c)
                  /\ out' = out \cup {b}

Free == \E b \in out : out' = out \ {b}

Reset == out' = {}

Next == Malloc \/ Free \/ Reset

Spec == Init /\ [][Next]_out
=============================================================================

----------------------------- MODULE Sha1Stream -----------------------------
(***************************************************************************)
(* How SHA-1 cuts a message into blocks (n_hash.c): the message comes in   *)
(* pieces of any length, a block is processed when it is full, and the end *)
(* pads the last one.  The rounds of a block are left out: what they are   *)
(* given, and in which order, decides the digest.                          *)
(*                                                                         *)
(* The bytes of the message are numbered, from 256 on, so that they differ *)
(* from each other and from what the padding adds.                         *)
(***************************************************************************)
EXTENDS Integers, Sequences, SequencesExt

CONSTANTS BlockSize,    \* 64 in the code
          LengthBytes,  \* 8: the bytes of the length at the end
          Pieces,       \* lengths of the pieces
          MaxBytes      \* bound: bytes of a message

VARIABLES
  total_byte_count,
  block,      \* the first block_byte_count bytes of the buffer
  processed,  \* what nexus_hash_sha1_block_process was given so far
  rest,       \* of the piece that is being taken in
  ended

vars == <<total_byte_count, block, processed, rest, ended>>

block_byte_count == Len(block)
LengthAt == BlockSize - LengthBytes

(* nexus_hash_sha1_begin                                                   *)
Begin ==
  /\ total_byte_count = 0
  /\ block = << >>
  /\ processed = << >>
  /\ rest = << >>
  /\ ended = FALSE

Message(count) == [i \in 1 .. count |-> 255 + i]

(* One turn of the loop copies what the block has room for.                *)
CopyCount(filled, remaining) == Min({BlockSize - filled, remaining})

(* nexus_hash_sha1_bytes                                                   *)
BytesGiven(count) ==
  /\ ~ended /\ rest = << >>
  /\ total_byte_count + count <= MaxBytes
  /\ total_byte_count' = total_byte_count + count
  /\ rest' = SubSeq(Message(total_byte_count + count), total_byte_count + 1, total_byte_count + count)
  /\ UNCHANGED <<block, processed, ended>>

Turn ==
  LET n    == CopyCount(block_byte_count, Len(rest))
      full == block \o SubSeq(rest, 1, n)
  IN
  /\ rest # << >>
  /\ rest' = SubSeq(rest, n + 1, Len(rest))
  /\ IF Len(full) = BlockSize THEN block' = << >> /\ processed' = processed \o full
                              ELSE block' = full /\ UNCHANGED processed
  /\ UNCHANGED <<total_byte_count, ended>>

Zeros(n) == [i \in 1 .. n |-> 0]
LengthOf(count) == [i \in 1 .. LengthBytes |-> (((8 * count) \div 256 ^ (LengthBytes - i)) % 256)]

(* Mutant: the marker's own byte is not counted.                           *)
OverflowsLate(marked) == Len(marked) - 1 > LengthAt

(* The length does not fit behind the marker: this block is filled up, and *)
(* another one follows.                                                    *)
Overflows(marked) == Len(marked) > LengthAt

(* nexus_hash_sha1_end                                                     *)
End ==
  LET marked == Append(block, 128)
      padded == IF Overflows(marked)
                  THEN marked \o Zeros(BlockSize - Len(marked)) \o Zeros(LengthAt)
                  ELSE marked \o Zeros(LengthAt - Len(marked))
  IN
  /\ ~ended /\ rest = << >>
  /\ ended' = TRUE
  /\ processed' = processed \o padded \o LengthOf(total_byte_count)
  /\ UNCHANGED <<total_byte_count, block, rest>>

Next == Turn \/ End \/ \E count \in Pieces : BytesGiven(count)

Spec == Begin /\ [][Next]_vars

-----------------------------------------------------------------------------
(* The blocks processed are those of the whole message, whatever pieces it *)
(* came in: the message, a marker, as few zeros as fill the last block,    *)
(* and the length in bits; before the end, the full blocks of what has     *)
(* been taken in, and less than one more.                                  *)
Blocked ==
  IF ended
    THEN \E zeros \in 0 .. BlockSize - 1 :
           /\ processed = Message(total_byte_count) \o <<128>> \o Zeros(zeros) \o LengthOf(total_byte_count)
           /\ Len(processed) % BlockSize = 0
    ELSE /\ processed \o block \o rest = Message(total_byte_count)
         /\ Len(processed) % BlockSize = 0
         /\ block_byte_count < BlockSize
=============================================================================

----------------------------- MODULE ByteStream -----------------------------
(***************************************************************************)
(* The bytes between a parent and a child that echoes its standard input   *)
(* (n_process.c, POSIX): one thread of the parent writes buffers to the    *)
(* child's stdin and closes it, another reads the child's stdout, and the  *)
(* child reads, writes and exits.  A socket takes any part of what it is   *)
(* offered and gives any part of what it holds; a call interrupted by a    *)
(* signal is tried again and does nothing.  A child channel's read and     *)
(* write are the same loops over one socket for both directions.           *)
(*                                                                         *)
(* The bytes the parent's caller offers are numbered 1, 2, ... over all    *)
(* its calls.                                                              *)
(***************************************************************************)
EXTENDS Integers, Sequences, SequencesExt

CONSTANTS Lengths,   \* byte_count of a write
          MaxBytes,  \* bound: bytes offered in all
          Room       \* bytes a socket holds

VARIABLES
  offered,   \* bytes the writing thread has offered so far
  writing,   \* its call: bytes still to be sent, first number first
  accepted,  \* the bytes of the calls that returned NONE
  open,      \* stdin_socket is not -1
  stdin,     \* bytes in the child's stdin
  held,      \* bytes the child has read and not written
  alive,     \* the child runs
  stdout,    \* bytes in the child's stdout
  received,  \* bytes the reading thread got
  eof        \* a read answered *out_reached_eof

vars == <<offered, writing, accepted, open, stdin, held, alive, stdout, received, eof>>

Init ==
  /\ offered = 0
  /\ writing = << >>
  /\ accepted = 0
  /\ open = TRUE
  /\ stdin = << >>
  /\ held = << >>
  /\ alive = TRUE
  /\ stdout = << >>
  /\ received = << >>
  /\ eof = FALSE

Room1(socket) == Room - Len(socket)
DropFirst(s, n) == SubSeq(s, n + 1, Len(s))
Take(s, n) == SubSeq(s, 1, n)

(* nexus_process_stdin_write; on a closed stdin it returns IO and changes  *)
(* nothing.                                                                *)
Write(n) ==
  /\ writing = << >>
  /\ open
  /\ offered + n <= MaxBytes
  /\ offered' = offered + n
  /\ writing' = [i \in 1 .. n |-> offered + i]
  /\ UNCHANGED <<accepted, open, stdin, held, alive, stdout, received, eof>>

(* Mutant: the rest of the buffer is sent from its beginning.              *)
FromStart(n) == Take(writing, Len(writing) - n)

(* What is left to send: bytes + written_total.                            *)
Rest(n) == DropFirst(writing, n)

Send(n) ==
  /\ alive
  /\ n \in 1 .. Min({Len(writing), Room1(stdin)})
  /\ stdin' = stdin \o Take(writing, n)
  /\ writing' = Rest(n)
  /\ accepted' = IF n = Len(writing) THEN offered ELSE accepted
  /\ UNCHANGED <<offered, open, held, alive, stdout, received, eof>>

(* The child has gone: the call returns IO, part of its bytes sent.        *)
SendFails ==
  /\ writing # << >>
  /\ ~alive
  /\ writing' = << >>
  /\ UNCHANGED <<offered, accepted, open, stdin, held, alive, stdout, received, eof>>

StdinClose ==
  /\ writing = << >>
  /\ open
  /\ open' = FALSE
  /\ UNCHANGED <<offered, writing, accepted, stdin, held, alive, stdout, received, eof>>

(* nexus_process_stdout_read with a buffer of at least n bytes.            *)
Read(n) ==
  /\ n \in 1 .. Len(stdout)
  /\ received' = received \o Take(stdout, n)
  /\ stdout' = DropFirst(stdout, n)
  /\ UNCHANGED <<offered, writing, accepted, open, stdin, held, alive, eof>>

(* recv returns zero when the peer has gone and nothing is left.           *)
ReadEof ==
  /\ stdout = << >>
  /\ ~alive
  /\ eof' = TRUE
  /\ UNCHANGED <<offered, writing, accepted, open, stdin, held, alive, stdout, received>>

ChildRead ==
  /\ alive
  /\ held = << >>
  /\ stdin # << >>
  /\ \E n \in 1 .. Len(stdin) : held' = Take(stdin, n) /\ stdin' = DropFirst(stdin, n)
  /\ UNCHANGED <<offered, writing, accepted, open, alive, stdout, received, eof>>

ChildWrite ==
  /\ alive
  /\ \E n \in 1 .. Min({Len(held), Room1(stdout)}) :
       held' = DropFirst(held, n) /\ stdout' = stdout \o Take(held, n)
  /\ UNCHANGED <<offered, writing, accepted, open, stdin, alive, received, eof>>

(* The child exits at the end of its input, or whenever it likes.          *)
ChildExit ==
  /\ alive
  /\ alive' = FALSE
  /\ UNCHANGED <<offered, writing, accepted, open, stdin, held, stdout, received, eof>>

Next ==
  \/ \E n \in Lengths : Write(n)
  \/ \E n \in 1 .. Room : Send(n) \/ Read(n)
  \/ SendFails \/ StdinClose \/ ReadEof
  \/ ChildRead \/ ChildWrite \/ ChildExit

Spec == Init /\ [][Next]_vars

(* The child echoes what it was offered, in order and once, over all the   *)
(* calls and whatever part of it each of them takes; a write that returned *)
(* NONE has handed over all its bytes; and the end of file is reported     *)
(* only when nothing more will come.                                       *)
Delivered ==
  /\ \A i \in 1 .. Len(received) : received[i] = i
  /\ accepted <= Len(received) + Len(stdout) + Len(held) + Len(stdin)
  /\ eof => ~alive /\ stdout = << >>
=============================================================================

---------------------------- MODULE MCProcesses ----------------------------
(***************************************************************************)
(* Two threads with two spawns between them, so that a spawn meets the     *)
(* ends of another that is finished or half-way, and the process id of a   *)
(* reaped child is used again.  Standard error is closed at the start, so  *)
(* that the first end takes its number and redirections meet ends.  The    *)
(* threads are interchangeable and no liveness is checked: symmetry.       *)
(***************************************************************************)
EXTENDS Processes

StderrClosed == {{2}}
ThreadSymmetry == Permutations(Threads)
=============================================================================

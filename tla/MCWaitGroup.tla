---------------------------- MODULE MCWaitGroup ----------------------------
(***************************************************************************)
(* Three threads, so that one can wait while two race to close the last    *)
(* units, and two units, so that one add can open or close both at once.   *)
(* The threads and the units are interchangeable, but liveness is checked, *)
(* so no symmetry is declared.                                             *)
(***************************************************************************)
EXTENDS WaitGroup
=============================================================================

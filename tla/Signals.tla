------------------------------ MODULE Signals ------------------------------
(***************************************************************************)
(* The capture of one signal (n_signals.c): a flag that the handler sets   *)
(* between any two statements of the program, and the calls that install   *)
(* the handler, remove it, and read or clear the flag.  A signal that      *)
(* arrives while no handler is installed takes its default action, which   *)
(* ends the program and is not a step of this model.                       *)
(***************************************************************************)
VARIABLES
  installed,  \* the disposition is n_signals_handler
  received,   \* n_signals_received[signal]
  at          \* the call under way, at its second statement

vars == <<installed, received, at>>

Calls == {"none", "capture", "release", "exchange"}

TypeOK ==
  /\ installed \in BOOLEAN
  /\ received \in BOOLEAN
  /\ at \in Calls

Init ==
  /\ installed = FALSE
  /\ received = FALSE
  /\ at = "none"

(* The handler interrupts the program and has returned before the program  *)
(* goes on.                                                                *)
Handler ==
  /\ installed
  /\ received' = TRUE
  /\ UNCHANGED <<installed, at>>

Capture ==
  /\ at = "none"
  /\ at' = "capture"
  /\ received' = FALSE
  /\ UNCHANGED installed

(* sigaction succeeds or fails; either way the call is over.               *)
CaptureInstall ==
  /\ at = "capture"
  /\ at' = "none"
  /\ installed' \in {TRUE, installed}
  /\ UNCHANGED received

Release ==
  /\ at = "none"
  /\ \/ installed' = FALSE /\ at' = "release"
     \/ UNCHANGED <<installed, at>>   \* sigaction failed: nothing is cleared
  /\ UNCHANGED received

(* Mutant: release leaves the flag as it is.                               *)
ReleaseKeeps ==
  /\ at = "release"
  /\ at' = "none"
  /\ UNCHANGED <<installed, received>>

ReleaseClear ==
  /\ at = "release"
  /\ at' = "none"
  /\ received' = FALSE
  /\ UNCHANGED installed

(* nexus_signals_received_exchange reads the flag, then clears it: what    *)
(* arrives in between is cleared unread.                                   *)
Exchange ==
  /\ at = "none"
  /\ at' = "exchange"
  /\ UNCHANGED <<installed, received>>

ExchangeClear ==
  /\ at = "exchange"
  /\ at' = "none"
  /\ received' = FALSE
  /\ UNCHANGED installed

Clear ==
  /\ at = "none"
  /\ received' = FALSE
  /\ UNCHANGED <<installed, at>>

Next ==
  \/ Handler
  \/ Capture \/ CaptureInstall
  \/ Release \/ ReleaseClear
  \/ Exchange \/ ExchangeClear
  \/ Clear

Spec == Init /\ [][Next]_vars

(* Once release has restored the default disposition and returned, no call *)
(* of received_get answers TRUE until the signal is captured again: what   *)
(* arrived last, even during release, is not left in the flag.             *)
Quiet == at = "none" /\ ~installed => ~received
=============================================================================

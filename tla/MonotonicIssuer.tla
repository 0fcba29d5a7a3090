-------------------------- MODULE MonotonicIssuer --------------------------
(***************************************************************************)
(* What "process-monotonic" promises to the callers of                     *)
(* nexus_identity_uuid_v7_generate_monotonic: every call that succeeds     *)
(* takes its key at one instant between its invocation and its response,   *)
(* and that key is above every key taken before.  Calls that overlap may   *)
(* respond in either order.  Nothing is promised once the 48-bit           *)
(* timestamp has overflowed ("spent").                                     *)
(***************************************************************************)
EXTENDS UuidKey

CONSTANT Threads

VARIABLES phase,    \* per thread: "idle", "open" or "keyed"
          floor,    \* per thread: newest key returned before the call began
          value,    \* per thread: the key the call has taken
          highest,  \* the last key taken
          newest,   \* the greatest key returned so far
          spent     \* the key space has been exhausted

vars == <<phase, floor, value, highest, newest, spent>>

Init ==
  /\ phase = [t \in Threads |-> "idle"]
  /\ floor = [t \in Threads |-> Never]
  /\ value = [t \in Threads |-> Never]
  /\ highest = Never
  /\ newest = Never
  /\ spent = FALSE

Invoke(t) ==
  /\ phase[t] = "idle"
  /\ phase' = [phase EXCEPT ![t] = "open"]
  /\ floor' = [floor EXCEPT ![t] = newest]
  /\ UNCHANGED <<value, highest, newest, spent>>

Take(t) ==
  /\ phase[t] = "open"
  /\ \E k \in Key :
       /\ spent \/ Earlier(highest, k)
       /\ value' = [value EXCEPT ![t] = k]
       /\ highest' = k
  /\ phase' = [phase EXCEPT ![t] = "keyed"]
  /\ UNCHANGED <<floor, newest, spent>>

Respond(t) ==
  /\ phase[t] = "keyed"
  /\ phase' = [phase EXCEPT ![t] = "idle"]
  /\ floor' = [floor EXCEPT ![t] = Never]
  /\ value' = [value EXCEPT ![t] = Never]
  /\ newest' = Later(newest, value[t])
  /\ UNCHANGED <<highest, spent>>

(* A call may fail before it takes a key: no entropy.                       *)
Fail(t) ==
  /\ phase[t] = "open"
  /\ phase' = [phase EXCEPT ![t] = "idle"]
  /\ floor' = [floor EXCEPT ![t] = Never]
  /\ UNCHANGED <<value, highest, newest, spent>>

(* The key space runs out; the promise ends here. *)
Exhaust(t) ==
  /\ phase[t] = "open"
  /\ \E k \in Key : highest' = k
  /\ spent' = TRUE
  /\ UNCHANGED <<phase, floor, value, newest>>

Next == \E t \in Threads :
          Invoke(t) \/ Take(t) \/ Respond(t) \/ Fail(t) \/ Exhaust(t)

Spec == Init /\ [][Next]_vars
=============================================================================

---------------------------- MODULE PerfCounters ----------------------------
(***************************************************************************)
(* The performance counters of one thread on Linux (n_hardware.c): three   *)
(* events opened when they are first asked for, which nested suspend and   *)
(* resume calls stop and start together, and a metric reader, whose event  *)
(* is its own.  All of it is thread-local, so there is no interleaving;    *)
(* what is hard are the failures of single ioctl calls.                    *)
(***************************************************************************)
EXTENDS Integers, FiniteSets

CONSTANTS Counters,  \* "cycles", "misses", "instructions"
          MaxDepth   \* UINT32_MAX_VAL: suspensions that may be open at once

VARIABLES
  opened,   \* the counters whose descriptor is not -1
  failed,   \* the counters whose _failed flag is TRUE
  depth,    \* s_hardware_linux_perf_counter_suspend_depth
  running,  \* the events the kernel counts: opened counters, "reader"
  stuck,    \* the counters whose last PERF_EVENT_IOC_ENABLE failed
  reader    \* "none", or what its enabled field says: "on", "off"

vars == <<opened, failed, depth, running, stuck, reader>>

TypeOK ==
  /\ opened \subseteq Counters
  /\ failed \subseteq Counters
  /\ depth \in 0 .. MaxDepth
  /\ running \subseteq Counters \union {"reader"}
  /\ stuck \subseteq Counters
  /\ reader \in {"none", "on", "off"}

Init ==
  /\ opened = {}
  /\ failed = {}
  /\ depth = 0
  /\ running = {}
  /\ stuck = {}
  /\ reader = "none"

(* Mutant: the event is opened as if nothing were suspended.               *)
OpensCounting == TRUE

(* event_attributes.disabled                                               *)
OpensRunning == depth = 0

(* A counter that is neither open nor failed is opened by the call that    *)
(* reads it.  cache_misses tries three events, and gives up at once when   *)
(* one is denied; what is left behind is the same.                         *)
Get(c) ==
  /\ c \notin opened \union failed
  /\ \/ /\ opened' = opened \union {c}
        /\ running' = IF OpensRunning THEN running \union {c} ELSE running
        /\ UNCHANGED failed
     \/ failed' = failed \union {c} /\ UNCHANGED <<opened, running>>
  /\ UNCHANGED <<depth, stuck, reader>>

(* The ioctl of each open counter, going on after one that fails.          *)
Disabled(bad) == running \ (opened \ bad)
Enabled(set, bad) == set \union (opened \ bad)

Nest ==
  /\ depth \in 1 .. MaxDepth - 1
  /\ depth' = depth + 1
  /\ UNCHANGED <<opened, failed, running, stuck, reader>>

Suspend ==
  /\ depth = 0
  /\ MaxDepth > 0
  /\ depth' = 1
  /\ running' = Disabled({})
  /\ UNCHANGED <<opened, failed, stuck, reader>>

(* What was stopped before the failure is started again, which may fail.   *)
SuspendFails ==
  /\ depth = 0
  /\ \E bad \in SUBSET opened \ {{}}, worse \in SUBSET opened :
       /\ running' = Enabled(Disabled(bad), worse)
       /\ stuck' = worse
  /\ UNCHANGED <<opened, failed, depth, reader>>

Unnest ==
  /\ depth > 1
  /\ depth' = depth - 1
  /\ UNCHANGED <<opened, failed, running, stuck, reader>>

(* Resuming is not undone when it fails: the depth is zero all the same.   *)
Resume ==
  /\ depth = 1
  /\ depth' = 0
  /\ \E bad \in SUBSET opened :
       /\ running' = Enabled(running, bad)
       /\ stuck' = bad
  /\ UNCHANGED <<opened, failed, reader>>

ReaderCreate ==
  /\ reader = "none"
  /\ reader' = "on"
  /\ running' = running \union {"reader"}
  /\ UNCHANGED <<opened, failed, depth, stuck>>

(* A failing ioctl returns before the field is written.                    *)
ReaderEnabledSet(enabled) ==
  /\ reader # "none"
  /\ reader' = IF enabled THEN "on" ELSE "off"
  /\ running' = IF enabled THEN running \union {"reader"} ELSE running \ {"reader"}
  /\ UNCHANGED <<opened, failed, depth, stuck>>

ReaderDestroy ==
  /\ reader # "none"
  /\ reader' = "none"
  /\ running' = running \ {"reader"}
  /\ UNCHANGED <<opened, failed, depth, stuck>>

Next ==
  \/ \E c \in Counters : Get(c)
  \/ Nest \/ Suspend \/ SuspendFails \/ Unnest \/ Resume
  \/ ReaderCreate \/ ReaderDestroy
  \/ \E enabled \in BOOLEAN : ReaderEnabledSet(enabled)

Spec == Init /\ [][Next]_vars

(* While a suspension is open no counter counts, those opened meanwhile    *)
(* included; when none is, every counter counts that the kernel did not    *)
(* refuse to start, after any failure of a suspension too; and the         *)
(* suspensions leave readers alone.                                        *)
Paused ==
  /\ depth > 0 => running \subseteq {"reader"}
  /\ depth = 0 => opened \ stuck \subseteq running
  /\ (reader = "on") = ("reader" \in running)
=============================================================================

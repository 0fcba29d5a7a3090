--------------------------- MODULE PollerContract ---------------------------
(***************************************************************************)
(* What nexus.h (4173-4222) promises of an event poller: a registry of     *)
(* handles with what each is watched for and the caller's pointer, and a   *)
(* wait that reports registered handles that are ready, each once and with *)
(* its own pointer, and leaves one out only when the caller's array is     *)
(* full.                                                                   *)
(***************************************************************************)
EXTENDS FiniteSets, FiniteSetsExt

CONSTANTS Handles, Interests, Data,
          Readiness,  \* what a handle may be ready for
          Arrays      \* lengths of the array the caller gives a wait

VARIABLES
  watched,  \* [interests, user_data] of each registered handle
  answer,   \* what the last call returned
  events    \* what the last call reported

vars == <<watched, answer, events>>

Registered == DOMAIN watched

Init ==
  /\ watched = << >>
  /\ answer = "NONE"
  /\ events = {}

(* A handle is reported for what it is watched for, or with an error.      *)
Event(h, ready) ==
  [handle |-> h, user_data |-> watched[h].user_data,
   events |-> (watched[h].interests \intersect ready[h])
                \union (ready[h] \intersect {"ERROR"})]

Fired(ready) ==
  {e \in {Event(h, ready) : h \in Registered} : e.events # {}}

Register(h, interests, data) ==
  watched' = [k \in Registered \union {h} |->
                IF k = h THEN [interests |-> interests, user_data |-> data]
                         ELSE watched[k]]

Add(h, interests, data) ==
  \/ h \in Registered /\ answer' = "IO" /\ UNCHANGED watched
  \/ h \notin Registered /\ answer' = "CAPACITY" /\ UNCHANGED watched
  \/ h \notin Registered /\ answer' = "NONE" /\ Register(h, interests, data)

Modify(h, interests, data) ==
  \/ h \notin Registered /\ answer' = "IO" /\ UNCHANGED watched
  \/ h \in Registered /\ answer' = "NONE" /\ Register(h, interests, data)

Remove(h) ==
  \/ h \notin Registered /\ answer' = "IO" /\ UNCHANGED watched
  \/ /\ h \in Registered
     /\ answer' = "NONE"
     /\ watched' = [k \in Registered \ {h} |-> watched[k]]

Wait(ready, max) ==
  /\ UNCHANGED watched
  /\ \/ answer' = "IO" /\ events' = {}
     \/ /\ answer' = "NONE"
        /\ events' \subseteq Fired(ready)
        /\ Cardinality(events') = Min({max, Cardinality(Fired(ready))})

Next ==
  \/ /\ events' = {}
     /\ \E h \in Handles, i \in Interests, d \in Data : Add(h, i, d) \/ Modify(h, i, d)
  \/ events' = {} /\ \E h \in Handles : Remove(h)
  \/ \E ready \in [Handles -> Readiness], max \in Arrays : Wait(ready, max)

Spec == Init /\ [][Next]_vars
=============================================================================

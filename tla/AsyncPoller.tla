---------------------------- MODULE AsyncPoller ----------------------------
(***************************************************************************)
(* The event poller on Windows (n_async.c), where the registry is the      *)
(* library's own: two parallel arrays, one given to WSAPoll and one with   *)
(* the callers' pointers, that grow together, are searched from the front  *)
(* and lose an element by moving the last one into its place.  On Linux    *)
(* and the BSDs the kernel keeps the registry.                             *)
(*                                                                         *)
(* A test of readiness is WSAPoll's: it writes revents of every element    *)
(* before anything reads it, so revents are a choice of Wait and no state. *)
(***************************************************************************)
EXTENDS Integers, Sequences, FiniteSets, SequencesExt

CONSTANTS Handles,
          Interests,  \* the interest sets of the calls, non-empty
          Data,       \* user_data
          Readiness,  \* what a handle may be ready for
          Arrays,     \* max_events, not zero
          Capacity    \* of a new poller (16 in the code)

VARIABLES
  items,     \* the first count elements of items
  poll_fds,  \* the first count elements of poll_fds
  capacity,  \* elements the poller believes both arrays have room for
  room,      \* elements each array really has room for
  answer,    \* what the last call returned
  events     \* the events the last call reported

vars == <<items, poll_fds, capacity, room, answer, events>>

count == Len(items)
Indices == 1 .. count
At(h) == {i \in Indices : items[i].socket_handle = h}

Init ==
  /\ items = << >>
  /\ poll_fds = << >>
  /\ capacity = Capacity
  /\ room = [items |-> Capacity, poll_fds |-> Capacity]
  /\ answer = "NONE"
  /\ events = << >>

Item(h, interests, data) ==
  [socket_handle |-> h, interests |-> interests, user_data |-> data]

(* WSAPoll is not asked for errors, which it always reports, nor can it be *)
(* asked for edges.                                                        *)
PollFd(h, interests) == [fd |-> h, events |-> interests \intersect {"READ", "WRITE"}]

(* Either realloc may fail; the array of the other one has moved and grown *)
(* and is kept, the capacity is not.                                       *)
GrowFails ==
  \E grown \in SUBSET {"items", "poll_fds"} :
    /\ grown # {"items", "poll_fds"}
    /\ room' = [a \in DOMAIN room |-> IF a \in grown THEN 2 * capacity ELSE room[a]]
    /\ answer' = "CAPACITY"
    /\ UNCHANGED <<items, poll_fds, capacity>>

Store(h, interests, data) ==
  /\ items' = Append(items, Item(h, interests, data))
  /\ poll_fds' = Append(poll_fds, PollFd(h, interests))
  /\ answer' = "NONE"

Grow(h, interests, data) ==
  /\ capacity' = 2 * capacity
  /\ room' = [a \in DOMAIN room |-> 2 * capacity]
  /\ Store(h, interests, data)

AddHandle(h, interests, data) ==
  /\ events' = << >>
  /\ \/ /\ At(h) # {}
        /\ answer' = "IO"
        /\ UNCHANGED <<items, poll_fds, capacity, room>>
     \/ /\ At(h) = {}
        /\ count >= capacity
        /\ GrowFails \/ Grow(h, interests, data)
     \/ /\ At(h) = {}
        /\ count < capacity
        /\ Store(h, interests, data)
        /\ UNCHANGED <<capacity, room>>

Missing(h) ==
  /\ At(h) = {}
  /\ answer' = "IO"
  /\ UNCHANGED <<items, poll_fds>>

ModifyHandle(h, interests, data) ==
  /\ events' = << >>
  /\ UNCHANGED <<capacity, room>>
  /\ \/ Missing(h)
     \/ \E i \in At(h) :
          /\ items' = [items EXCEPT ![i] = Item(h, interests, data)]
          /\ poll_fds' = [poll_fds EXCEPT ![i] = PollFd(h, interests)]
          /\ answer' = "NONE"

(* Mutant: the pointers move down in order while WSAPoll's array gets the  *)
(* last element.                                                           *)
MoveDown(array, i) ==
  IF array = items THEN SubSeq(array, 1, i - 1) \o SubSeq(array, i + 1, Len(array))
                   ELSE Front([array EXCEPT ![i] = Last(array)])

MoveLast(array, i) == Front([array EXCEPT ![i] = Last(array)])

RemoveHandle(h) ==
  /\ events' = << >>
  /\ UNCHANGED <<capacity, room>>
  /\ \/ Missing(h)
     \/ \E i \in At(h) :
          /\ items' = MoveLast(items, i)
          /\ poll_fds' = MoveLast(poll_fds, i)
          /\ answer' = "NONE"

(* What the wait makes of revents.                                          *)
Flags(p, ready) ==
  (p.events \intersect ready[p.fd]) \union (ready[p.fd] \intersect {"ERROR"})

Reported(i, ready) ==
  [handle |-> items[i].socket_handle, user_data |-> items[i].user_data,
   events |-> Flags(poll_fds[i], ready)]

(* The array is scanned from the front until the caller's is full: the     *)
(* places of the elements reported, in order.  What is left out comes      *)
(* after them all.                                                         *)
Fired(ready) == {i \in Indices : Flags(poll_fds[i], ready) # {}}

Scanned(ready, max) ==
  {places \in UNION {[1 .. n -> Fired(ready)] : n \in 0 .. max} :
     /\ \A j, k \in DOMAIN places : j < k => places[j] < places[k]
     /\ \A i \in Fired(ready) \ Range(places) :
          Len(places) = max /\ \A k \in DOMAIN places : places[k] < i}

(* With no handle registered the call returns at once, whatever duration.  *)
Wait(ready, max) ==
  /\ UNCHANGED <<items, poll_fds, capacity, room>>
  /\ \/ /\ answer' = "NONE"
        /\ \E places \in Scanned(ready, max) :
             events' = [k \in DOMAIN places |-> Reported(places[k], ready)]
     \/ count # 0 /\ answer' = "IO" /\ events' = << >>  \* WSAPoll failed

Next ==
  \/ \E h \in Handles, i \in Interests, d \in Data : AddHandle(h, i, d) \/ ModifyHandle(h, i, d)
  \/ \E h \in Handles : RemoveHandle(h)
  \/ \E ready \in [Handles -> Readiness], max \in Arrays : Wait(ready, max)

Spec == Init /\ [][Next]_vars

(* The room the poller believes in is there, in both arrays, whichever     *)
(* reallocation failed before; the arrays describe the same handles at the *)
(* same places.                                                            *)
Parallel ==
  /\ count <= capacity
  /\ \A a \in DOMAIN room : capacity <= room[a]
  /\ Len(poll_fds) = count
  /\ \A i \in Indices : poll_fds[i] = PollFd(items[i].socket_handle, items[i].interests)
  /\ \A i, j \in Indices : items[i].socket_handle = items[j].socket_handle => i = j

Registry ==
  INSTANCE PollerContract WITH
    watched <- [h \in {items[i].socket_handle : i \in Indices} |->
                  LET i == CHOOSE i \in At(h) : TRUE
                  IN  [interests |-> items[i].interests, user_data |-> items[i].user_data]],
    events <- ToSet(events)

(* Growing, failing to grow and moving elements never lose, double or mix  *)
(* up registrations: the arrays implement the registry of nexus.h, and a   *)
(* wait reports what it promises.                                          *)
ImplementsRegistry == Parallel /\ [][Parallel']_vars /\ Registry!Spec
=============================================================================

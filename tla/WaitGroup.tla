----------------------------- MODULE WaitGroup -----------------------------
(***************************************************************************)
(* NexusThreadsWaitGroup (n_threads.c): an int32 counter, a mutex and a    *)
(* condition variable, created, used and destroyed by several threads.     *)
(*                                                                         *)
(* The callers respect the contract of nexus.h and nothing more: a unit of *)
(* work is closed once, by some thread, after it was added; and a group is *)
(* destroyed by a thread whose wait has returned, or whose try_wait has    *)
(* succeeded, when nobody else adds to it or waits on it.  What a caller   *)
(* cannot know is whether a thread that closed the last unit has left      *)
(* nexus_threads_waitgroup_add yet.                                        *)
(***************************************************************************)
EXTENDS Integers, FiniteSets

CONSTANTS Threads,   \* the threads that share the group
          NoThread,  \* nobody holds the mutex
          Units      \* units of work that can be outstanding

ASSUME GroupAssumption ==
  /\ NoThread \notin Threads
  /\ IsFiniteSet(Units)

VARIABLES
  alive,    \* the group exists
  counter,  \* waitgroup->counter
  owner,    \* the holder of waitgroup->mutex
  pc,       \* per thread: where it is in a call
  adding,   \* per thread: the units its add call opens
  closing,  \* per thread: the units its add call closes (a negative delta)
  open,     \* history: units added and not closed
  before,   \* history: per waiting thread, the units its wait must outlast
  cleared,  \* history: threads that saw zero while no add was under way,
            \* and that no add has followed
  freed     \* history: threads that were waiting when the counter hit zero

vars == <<alive, counter, owner, pc, adding, closing, open, before, cleared, freed>>
work == <<adding, closing, open>>

AddSteps  == {"add", "update", "broadcast", "unlock"}
WaitSteps == {"wait", "test", "asleep", "awake"}
TrySteps  == {"try", "peek"}
Steps == {"idle"} \cup AddSteps \cup WaitSteps \cup TrySteps

Init ==
  /\ alive = FALSE
  /\ counter = 0
  /\ owner = NoThread
  /\ pc = [t \in Threads |-> "idle"]
  /\ adding = [t \in Threads |-> {}]
  /\ closing = [t \in Threads |-> {}]
  /\ open = {}
  /\ before = [t \in Threads |-> {}]
  /\ cleared = {}
  /\ freed = {}

Goto(t, from, to) == pc[t] = from /\ pc' = [pc EXCEPT ![t] = to]

Lock(t)   == owner = NoThread /\ owner' = t
Unlock(t) == owner' = NoThread

Create ==
  /\ ~alive
  /\ alive' = TRUE
  /\ counter' = 0
  /\ UNCHANGED <<owner, pc, work, before, cleared, freed>>

(* Units that no call has yet begun to open or to close.                   *)
Fresh    == Units \ (open \cup UNION {adding[t] : t \in Threads})
Closable == open \ UNION {closing[t] : t \in Threads}

(* What a wait that returns, or a successful try, tells its caller: the    *)
(* group is finished, unless an add is under way.                          *)
SeenZero(t) ==
  cleared' = IF \A u \in Threads : adding[u] = {} THEN cleared \cup {t} ELSE cleared

CallAdd(t) ==
  /\ alive
  /\ Goto(t, "idle", "add")
  /\ \E units \in (SUBSET Fresh) \ {{}} : adding' = [adding EXCEPT ![t] = units]
  /\ cleared' = {}
  /\ UNCHANGED <<alive, counter, owner, closing, open, before, freed>>

(* nexus_threads_waitgroup_done, and an add with a negative delta.         *)
CallDone(t) ==
  /\ alive
  /\ Goto(t, "idle", "add")
  /\ \E units \in (SUBSET Closable) \ {{}} : closing' = [closing EXCEPT ![t] = units]
  /\ UNCHANGED <<alive, counter, owner, adding, open, before, cleared, freed>>

AddLock(t) ==
  /\ Goto(t, "add", "update")
  /\ Lock(t)
  /\ UNCHANGED <<alive, counter, work, before, cleared, freed>>

(* Mutant: an add counts one unit, whatever its delta. *)
DeltaByOne(t) == IF adding[t] # {} THEN 1 ELSE -Cardinality(closing[t])

Delta(t) == Cardinality(adding[t]) - Cardinality(closing[t])

Waiting == {t \in Threads : pc[t] \in {"asleep", "awake"}}

(* Mutant: the lock is dropped before the waiters are woken. *)
AddUpdateUnlocked(t) ==
  /\ pc[t] = "update"
  /\ counter' = counter + Delta(t)
  /\ pc' = [pc EXCEPT ![t] = IF counter' = 0 THEN "broadcast" ELSE "unlock"]
  /\ owner' = NoThread
  /\ open' = (open \cup adding[t]) \ closing[t]
  /\ before' = [u \in Threads |-> before[u] \ closing[t]]
  /\ freed' = IF counter' = 0 THEN freed \cup Waiting ELSE freed
  /\ UNCHANGED <<alive, adding, closing, cleared>>

AddUpdate(t) ==
  /\ pc[t] = "update"
  /\ counter' = counter + Delta(t)
  /\ pc' = [pc EXCEPT ![t] = IF counter' = 0 THEN "broadcast" ELSE "unlock"]
  /\ open' = (open \cup adding[t]) \ closing[t]
  /\ before' = [u \in Threads |-> before[u] \ closing[t]]
  /\ freed' = IF counter' = 0 THEN freed \cup Waiting ELSE freed
  /\ UNCHANGED <<alive, owner, adding, closing, cleared>>

(* Mutant: one waiter is woken where the code wakes them all. *)
AddBroadcastOne(t) ==
  /\ pc[t] = "broadcast"
  /\ \/ \E u \in Threads :
          /\ pc[u] = "asleep"
          /\ pc' = [pc EXCEPT ![t] = "unlock", ![u] = "awake"]
     \/ /\ \A u \in Threads : pc[u] # "asleep"
        /\ pc' = [pc EXCEPT ![t] = "unlock"]
  /\ UNCHANGED <<alive, counter, owner, work, before, cleared, freed>>

AddBroadcast(t) ==
  /\ pc[t] = "broadcast"
  /\ pc' = [u \in Threads |->
              IF u = t THEN "unlock"
              ELSE IF pc[u] = "asleep" THEN "awake" ELSE pc[u]]
  /\ UNCHANGED <<alive, counter, owner, work, before, cleared, freed>>

AddUnlock(t) ==
  /\ Goto(t, "unlock", "idle")
  /\ Unlock(t)
  /\ adding' = [adding EXCEPT ![t] = {}]
  /\ closing' = [closing EXCEPT ![t] = {}]
  /\ UNCHANGED <<alive, counter, open, before, cleared, freed>>

CallWait(t) ==
  /\ alive
  /\ Goto(t, "idle", "wait")
  /\ before' = [before EXCEPT ![t] = open]
  /\ UNCHANGED <<alive, counter, owner, work, cleared, freed>>

WaitLock(t) ==
  /\ Goto(t, "wait", "test")
  /\ Lock(t)
  /\ UNCHANGED <<alive, counter, work, before, cleared, freed>>

(* pthread_cond_wait gives up the mutex and falls asleep in one step ...   *)
Sleep(t) ==
  /\ counter > 0
  /\ Goto(t, "test", "asleep")
  /\ Unlock(t)
  /\ UNCHANGED <<alive, counter, work, before, cleared, freed>>

(* ... may wake up without being woken ...                                 *)
WakeSpuriously(t) ==
  /\ Goto(t, "asleep", "awake")
  /\ UNCHANGED <<alive, counter, owner, work, before, cleared, freed>>

(* Mutant: the counter is not tested again after the sleep. *)
RelockAndLeave(t) ==
  /\ Goto(t, "awake", "idle")
  /\ owner = NoThread
  /\ SeenZero(t)
  /\ freed' = freed \ {t}
  /\ before' = [before EXCEPT ![t] = {}]
  /\ UNCHANGED <<alive, counter, owner, work>>

(* ... and takes the mutex again before it returns to the loop's test.     *)
Relock(t) ==
  /\ Goto(t, "awake", "test")
  /\ Lock(t)
  /\ UNCHANGED <<alive, counter, work, before, cleared, freed>>

WaitReturn(t) ==
  /\ counter <= 0
  /\ Goto(t, "test", "idle")
  /\ Unlock(t)
  /\ SeenZero(t)
  /\ freed' = freed \ {t}
  /\ before' = [before EXCEPT ![t] = {}]
  /\ UNCHANGED <<alive, counter, work>>

CallTry(t) ==
  /\ alive
  /\ Goto(t, "idle", "try")
  /\ UNCHANGED <<alive, counter, owner, work, before, cleared, freed>>

TryLock(t) ==
  /\ Goto(t, "try", "peek")
  /\ Lock(t)
  /\ UNCHANGED <<alive, counter, work, before, cleared, freed>>

TryReturn(t) ==
  /\ Goto(t, "peek", "idle")
  /\ Unlock(t)
  /\ IF counter = 0 THEN SeenZero(t) ELSE UNCHANGED cleared
  /\ UNCHANGED <<alive, counter, work, before, freed>>

Destroy(t) ==
  /\ alive
  /\ pc[t] = "idle"
  /\ t \in cleared
  /\ \A u \in Threads : pc[u] \in WaitSteps \cup TrySteps => u = t
  /\ alive' = FALSE
  /\ cleared' = {}
  /\ UNCHANGED <<counter, owner, pc, work, before, freed>>

Begin(t) == CallAdd(t) \/ CallDone(t) \/ CallWait(t) \/ CallTry(t)

Continue(t) ==
  \/ AddLock(t) \/ AddUpdate(t) \/ AddBroadcast(t) \/ AddUnlock(t)
  \/ WaitLock(t) \/ Sleep(t) \/ Relock(t) \/ WaitReturn(t)
  \/ TryLock(t) \/ TryReturn(t)

Next ==
  \/ Create
  \/ \E t \in Threads :
       Begin(t) \/ Continue(t) \/ WakeSpuriously(t) \/ Destroy(t)

Spec == Init /\ [][Next]_vars

(* A thread inside a call keeps running.  Nothing makes threads call, and  *)
(* nothing makes a sleeping thread wake up spuriously.                     *)
FairSpec == Spec /\ \A t \in Threads : WF_vars(Continue(t))
-----------------------------------------------------------------------------
(* Every variable has its type; the counter is never negative and counts   *)
(* no more units than there are.                                           *)
TypeOK ==
  /\ alive \in BOOLEAN
  /\ counter \in 0..Cardinality(Units)
  /\ owner \in Threads \cup {NoThread}
  /\ pc \in [Threads -> Steps]
  /\ adding \in [Threads -> SUBSET Units]
  /\ closing \in [Threads -> SUBSET Units]
  /\ open \in SUBSET Units
  /\ before \in [Threads -> SUBSET Units]
  /\ cleared \in SUBSET Threads
  /\ freed \in SUBSET Threads

(* A wait returns only when every unit that was open when it was called    *)
(* has been closed, whatever was added or closed meanwhile and however     *)
(* often the condition variable woke it up for nothing.                    *)
WaitOutlastsWork ==
  [][\A t \in Threads :
       pc[t] \in WaitSteps /\ pc'[t] = "idle" => before[t] = {}]_vars

(* Once a wait has returned and the waiter destroys the group, no thread   *)
(* is left inside a call: the one that closed the last unit does not touch *)
(* the freed mutex or condition variable any more.                         *)
NoUseAfterDestroy == ~alive => \A t \in Threads : pc[t] = "idle"

(* No wake-up is lost: when threads stop calling, and no unit is open,     *)
(* every wait returns.                                                     *)
WaitersReturn ==
  <>[][\A t \in Threads : ~Begin(t)]_vars /\ <>[](open = {})
    => <>[](\A t \in Threads : pc[t] = "idle")

(* nexus.h of nexus_threads_waitgroup_add: if the counter drops to zero,   *)
(* all waiting threads are unblocked.                                      *)
ZeroUnblocks ==
  [][\A t \in freed : ~(pc[t] = "test" /\ pc'[t] = "asleep")]_vars
=============================================================================

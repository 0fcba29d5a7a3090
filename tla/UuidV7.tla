------------------------------- MODULE UuidV7 -------------------------------
(***************************************************************************)
(* nexus_identity_uuid_v7_generate_monotonic_with_entropy (n_identity.c),  *)
(* called by several threads at once.  A call fills its entropy and reads  *)
(* the wall clock BEFORE it takes the lock, so the sample it acts on under *)
(* the lock may be older than the logical clock: another thread got in     *)
(* between, or the wall clock was stepped back.  Each read of the clock    *)
(* is therefore an arbitrary reading.                                      *)
(***************************************************************************)
EXTENDS UuidKey

CONSTANTS Threads,     \* the threads that generate UUIDs
          NoThread,    \* nobody holds the mutex
          ClockMax,    \* the greatest reading of the clock, in nanoseconds:
                       \* the type's, 2^64 - 1
          FineClock    \* the clock is finer than a millisecond

(* A 64-bit number of nanoseconds ends before 2^45 milliseconds, so that   *)
(* the range check of n_identity_uuid_real_time_get always passes, and the *)
(* logical clock gets to the last timestamp by increments only.            *)
ASSUME ClockAssumption ==
  /\ ClockMax \in Nat /\ ClockMax < TimestampMax * NanosPerMs
  /\ FineClock \in BOOLEAN
  /\ NoThread \notin Threads

VARIABLES
  logical,      \* unix_milliseconds, fraction and counter of the shared state
  initialized,  \* its initialized flag
  owner,        \* the holder of n_identity_uuid_v7_monotonic_mutex
  pc,           \* per thread: where it is in the function
  sample,       \* per thread: actual_milliseconds and actual_fraction
  out,          \* per thread: output_milliseconds, _fraction and _counter
  succeeded,    \* per thread: increment_succeeded
  floor,        \* history: newest key returned before the thread's call began
  returned,     \* history: keys handed to callers
  newest,       \* history: the greatest of them
  spent         \* history: an increment has failed

shared  == <<logical, initialized>>
locals  == <<sample, out, succeeded>>
history == <<floor, returned, newest, spent>>
vars    == <<logical, initialized, owner, pc, sample, out, succeeded,
             floor, returned, newest, spent>>

Steps == {"idle", "entropy", "clock", "acquire", "advance", "copy", "finish"}

Init ==
  /\ logical = At(0, 0, 0)
  /\ initialized = FALSE
  /\ owner = NoThread
  /\ pc = [t \in Threads |-> "idle"]
  /\ sample = [t \in Threads |-> Never]
  /\ out = [t \in Threads |-> Never]
  /\ succeeded = [t \in Threads |-> TRUE]
  /\ floor = [t \in Threads |-> Never]
  /\ returned = {}
  /\ newest = Never
  /\ spent = FALSE

Goto(t, from, to) == pc[t] = from /\ pc' = [pc EXCEPT ![t] = to]

Call(t) ==
  /\ Goto(t, "idle", "entropy")
  /\ floor' = [floor EXCEPT ![t] = newest]
  /\ UNCHANGED <<logical, initialized, owner, sample, out, succeeded,
                 returned, newest, spent>>

(* The locals die when the call returns. *)
Forget(t) ==
  /\ sample' = [sample EXCEPT ![t] = Never]
  /\ out' = [out EXCEPT ![t] = Never]
  /\ succeeded' = [succeeded EXCEPT ![t] = TRUE]
  /\ floor' = [floor EXCEPT ![t] = Never]

EntropyFilled(t) ==
  /\ Goto(t, "entropy", "clock")
  /\ UNCHANGED <<logical, initialized, owner, sample, out, succeeded,
                 floor, returned, newest, spent>>

EntropyFailed(t) ==
  /\ Goto(t, "entropy", "idle")
  /\ Forget(t)
  /\ UNCHANGED <<logical, initialized, owner, returned, newest, spent>>

ReadClock(t, now) ==
  /\ Goto(t, "clock", "acquire")
  /\ sample' = [sample EXCEPT ![t] = Sample(now, FineClock)]
  /\ UNCHANGED <<logical, initialized, owner, out, succeeded,
                 floor, returned, newest, spent>>

(* Mutant: the lock is not taken. *)
AcquireUnguarded(t) ==
  /\ Goto(t, "acquire", "advance")
  /\ owner' = t
  /\ UNCHANGED <<logical, initialized, sample, out, succeeded,
                 floor, returned, newest, spent>>

Acquire(t) ==
  /\ owner = NoThread
  /\ Goto(t, "acquire", "advance")
  /\ owner' = t
  /\ UNCHANGED <<logical, initialized, sample, out, succeeded,
                 floor, returned, newest, spent>>

(* n_identity_uuid_v7_monotonic_increment: the carry is written field by   *)
(* field, so a failing increment leaves counter and fraction at zero.      *)
Overflows ==
  /\ logical.counter = CounterMax
  /\ logical.fraction = FractionMax
  /\ logical.ms >= TimestampMax

(* Mutants: the counter runs one past its 12 bits; a full counter wraps    *)
(* without a carry.                                                        *)
IncrementedTooFar ==
  IF logical.counter <= CounterMax
  THEN At(logical.ms, logical.fraction, logical.counter + 1)
  ELSE At(logical.ms, logical.fraction, 0)

IncrementedNoCarry ==
  At(logical.ms, logical.fraction, (logical.counter + 1) % (CounterMax + 1))

Incremented ==
  IF logical.counter < CounterMax
  THEN At(logical.ms, logical.fraction, logical.counter + 1)
  ELSE IF logical.fraction < FractionMax
       THEN At(logical.ms, logical.fraction + 1, 0)
       ELSE At(IF logical.ms < TimestampMax THEN logical.ms + 1 ELSE logical.ms, 0, 0)

(* Mutants: any other millisecond counts as an advance; the fraction is    *)
(* not looked at.                                                          *)
ClockChanged(t) ==
  \/ ~initialized
  \/ sample[t].ms # logical.ms
  \/ sample[t].ms = logical.ms /\ sample[t].fraction > logical.fraction

ClockAdvancedCoarse(t) ==
  \/ ~initialized
  \/ sample[t].ms > logical.ms

ClockAdvanced(t) ==
  \/ ~initialized
  \/ sample[t].ms > logical.ms
  \/ sample[t].ms = logical.ms /\ sample[t].fraction > logical.fraction

AdoptSample(t) ==
  /\ ClockAdvanced(t)
  /\ Goto(t, "advance", "copy")
  /\ logical' = sample[t]
  /\ initialized' = TRUE
  /\ UNCHANGED <<owner, sample, out, succeeded, floor, returned, newest, spent>>

AdvanceCounter(t) ==
  /\ ~ClockAdvanced(t)
  /\ Goto(t, "advance", "copy")
  /\ logical' = Incremented
  /\ succeeded' = [succeeded EXCEPT ![t] = ~Overflows]
  /\ spent' = (spent \/ Overflows)
  /\ UNCHANGED <<initialized, owner, sample, out, floor, returned, newest>>

(* Mutant: the overflow path returns with the mutex held. *)
CopyAndReleaseOnSuccess(t) ==
  /\ Goto(t, "copy", "finish")
  /\ out' = [out EXCEPT ![t] = logical]
  /\ owner' = IF succeeded[t] THEN NoThread ELSE owner
  /\ UNCHANGED <<logical, initialized, sample, succeeded,
                 floor, returned, newest, spent>>

CopyAndRelease(t) ==
  /\ Goto(t, "copy", "finish")
  /\ out' = [out EXCEPT ![t] = logical]
  /\ owner' = NoThread
  /\ UNCHANGED <<logical, initialized, sample, succeeded,
                 floor, returned, newest, spent>>

Return(t) ==
  /\ succeeded[t]
  /\ Goto(t, "finish", "idle")
  /\ returned' = returned \cup {out[t]}
  /\ newest' = Later(newest, out[t])
  /\ Forget(t)
  /\ UNCHANGED <<logical, initialized, owner, spent>>

ReturnCapacity(t) ==
  /\ ~succeeded[t]
  /\ Goto(t, "finish", "idle")
  /\ Forget(t)
  /\ UNCHANGED <<logical, initialized, owner, returned, newest, spent>>

Step(t) ==
  \/ EntropyFilled(t)
  \/ EntropyFailed(t)
  \/ \E now \in 0..ClockMax : ReadClock(t, now)
  \/ Acquire(t)
  \/ AdoptSample(t)
  \/ AdvanceCounter(t)
  \/ CopyAndRelease(t)
  \/ Return(t)
  \/ ReturnCapacity(t)

Next == \E t \in Threads : Call(t) \/ Step(t)

Spec == Init /\ [][Next]_vars

(* A thread inside the function keeps running; no thread has to call it.   *)
(* A mutex may starve a waiter, so this is weak fairness only.             *)
FairSpec == Spec /\ \A t \in Threads : WF_vars(Step(t))
-----------------------------------------------------------------------------
(* Every variable keeps its type: no field of the logical clock or of a    *)
(* returned UUID outgrows its bits.                                        *)
TypeOK ==
  /\ logical \in Key
  /\ initialized \in BOOLEAN
  /\ owner \in Threads \cup {NoThread}
  /\ pc \in [Threads -> Steps]
  /\ sample \in [Threads -> Key \cup {Never}]
  /\ out \in [Threads -> Key \cup {Never}]
  /\ succeeded \in [Threads -> BOOLEAN]
  /\ floor \in [Threads -> Key \cup {Never}]
  /\ returned \subseteq Key
  /\ newest \in Key \cup {Never}
  /\ spent \in BOOLEAN

(* Until the key space is exhausted no key is handed out twice: not to two *)
(* calls one after the other, nor to two calls in flight.                  *)
Unique ==
  spent \/
  \A t \in Threads : pc[t] = "finish" =>
    /\ out[t] \notin returned
    /\ \A u \in Threads \ {t} : pc[u] = "finish" => out[u] # out[t]

(* A call that began after another had returned gets the greater UUID,     *)
(* whatever the wall clock did in between and however stale its own sample *)
(* is: nexus.h calls the generator process-monotonic.                      *)
Monotonic ==
  spent \/
  \A t \in Threads : pc[t] = "finish" => Earlier(floor[t], out[t])

(* A UUID is never stamped earlier than the time its own call read: the    *)
(* logical clock may only run ahead of the wall clock.                     *)
NotBeforeSample ==
  spent \/
  \A t \in Threads : pc[t] = "finish" => NotLater(sample[t], out[t])

(* Once threads stop calling, every call in flight comes back: every path  *)
(* out of the critical section gives the mutex back.                       *)
CallsComplete ==
  <>[][\A t \in Threads : ~Call(t)]_vars
    => <>[](\A t \in Threads : pc[t] = "idle")

(* The generator implements the promise of MonotonicIssuer: a call takes   *)
(* its key when it advances the logical clock, under the lock.             *)
Phase(t) ==
  IF pc[t] = "idle" THEN "idle"
  ELSE IF pc[t] \in {"copy", "finish"} /\ succeeded[t] THEN "keyed" ELSE "open"

Taken(t) ==
  IF Phase(t) # "keyed" THEN Never
  ELSE IF pc[t] = "copy" THEN logical ELSE out[t]

Issuer == INSTANCE MonotonicIssuer WITH
  phase   <- [t \in Threads |-> Phase(t)],
  value   <- [t \in Threads |-> Taken(t)],
  highest <- IF initialized THEN logical ELSE Never

ImplementsIssuer == Issuer!Spec
=============================================================================

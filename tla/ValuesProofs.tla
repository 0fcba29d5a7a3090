---------------------------- MODULE ValuesProofs ----------------------------
(***************************************************************************)
(* What the library makes of values: UuidV7 keeps its promises for every   *)
(* number of threads, every field width and every clock, and the           *)
(* conversions that Values instantiates are exact for every input, of any  *)
(* length and of words of any width.                                       *)
(***************************************************************************)
EXTENDS UuidV7, Values, NaturalsInduction, WellFoundedInduction, TLAPS

Stamp == Key \cup {Never}

-----------------------------------------------------------------------------
(* The key order.                                                          *)

(* Earlier is a strict total order on keys: this one says transitive.      *)
LEMMA EarlierTransitive ==
  ASSUME NEW a \in Stamp, NEW b \in Stamp, NEW c \in Stamp,
         NotLater(a, b), Earlier(b, c)
  PROVE  Earlier(a, c)
  BY WidthAssumption DEF Stamp, Key, At, Never, NotLater, Earlier

(* ... also when two of them may be equal ...                              *)
LEMMA NotLaterTransitive ==
  ASSUME NEW a \in Stamp, NEW b \in Stamp, NEW c \in Stamp,
         NotLater(a, b), NotLater(b, c)
  PROVE  NotLater(a, c)
  BY WidthAssumption DEF Stamp, Key, At, Never, NotLater, Earlier

(* ... irreflexive ...                                                     *)
LEMMA EarlierIrreflexive ==
  ASSUME NEW a \in Stamp, NEW b \in Stamp, Earlier(a, b)
  PROVE  a # b
  BY WidthAssumption DEF Stamp, Key, At, Never, Earlier

(* ... and total; Never is below every key.                                *)
LEMMA EarlierTotal ==
  ASSUME NEW a \in Stamp, NEW b \in Stamp, ~Earlier(a, b)
  PROVE  NotLater(b, a)
  BY WidthAssumption DEF Stamp, Key, At, Never, NotLater, Earlier

(* Never comes before every key.                                           *)
LEMMA NeverFirst ==
  ASSUME NEW k \in Stamp
  PROVE  NotLater(Never, k) /\ (k \in Key => Earlier(Never, k))
  BY WidthAssumption DEF Stamp, Key, At, Never, NotLater, Earlier

-----------------------------------------------------------------------------
(* A sub-millisecond reading always fits the fraction field: the           *)
(* conversion in n_identity_uuid_real_time_get cannot overflow 12 bits.    *)
LEMMA FractionFits ==
  ASSUME NEW now \in Nat, NEW fine \in BOOLEAN
  PROVE  Fraction(now, fine) \in 0..FractionMax
  <1> DEFINE r == now % NanosPerMs
             b == FractionMax + 1
  <1>1. r \in Nat /\ r < NanosPerMs
    BY WidthAssumption
  <1>2. b \in Nat /\ b > 0
    BY WidthAssumption
  <1>3. r * b \in Nat /\ r * b < NanosPerMs * b
    <2> HIDE DEF r, b
    <2> QED BY <1>1, <1>2, WidthAssumption
  <1>4. (r * b) \div NanosPerMs \in Nat /\ (r * b) \div NanosPerMs < b
    <2> HIDE DEF r, b
    <2> QED BY <1>1, <1>2, <1>3, WidthAssumption
  <1>5. (r * b) \div NanosPerMs \in 0..FractionMax
    BY <1>4, WidthAssumption
  <1> QED BY <1>5, WidthAssumption DEF Fraction

-----------------------------------------------------------------------------
(* The inductive invariant.                                                *)

(* The last key taken, and no key at all before the first call.            *)
Latest == IF initialized THEN logical ELSE Never

(* The mutex is held by exactly the thread inside the critical section.    *)
Locking == \A t \in Threads : owner = t <=> pc[t] \in {"advance", "copy"}

(* What the locals of a call are worth at each of its steps.               *)
Locals ==
  \A t \in Threads :
    /\ pc[t] \in {"acquire", "advance", "copy", "finish"} =>
         sample[t] \in Key /\ sample[t].counter = 0
    /\ pc[t] = "finish" => out[t] \in Key
    /\ pc[t] \in {"copy", "finish"} => initialized
    /\ pc[t] \notin {"copy", "finish"} => succeeded[t]
    /\ ~succeeded[t] => spent

(* The key a call has taken but not copied yet is the logical clock, and   *)
(* is above everything any other call has returned or is about to return.  *)
Taking ==
  \A t \in Threads : pc[t] = "copy" =>
    /\ Earlier(floor[t], logical)
    /\ Earlier(newest, logical)
    /\ NotLater(sample[t], logical)
    /\ \A k \in returned : Earlier(k, logical)
    /\ \A u \in Threads : pc[u] = "finish" => Earlier(out[u], logical)

(* A key copied out of the critical section is still its call's alone.     *)
Leaving ==
  \A t \in Threads : pc[t] = "finish" =>
    /\ Earlier(floor[t], out[t])
    /\ NotLater(sample[t], out[t])
    /\ NotLater(out[t], Latest)
    /\ out[t] \notin returned
    /\ \A u \in Threads \ {t} : pc[u] = "finish" => out[u] # out[t]

(* Nothing known to a caller is ahead of the logical clock.                *)
Behind ==
  /\ NotLater(newest, Latest)
  /\ \A t \in Threads : NotLater(floor[t], Latest)
  /\ \A k \in returned : NotLater(k, Latest)

IInv ==
  /\ TypeOK
  /\ Locking
  /\ Locals
  /\ spent \/ (Taking /\ Leaving /\ Behind)

-----------------------------------------------------------------------------
(* The two ways the logical clock moves.                                   *)

(* A reading of the clock is a key.                                        *)
LEMMA SampleIsKey ==
  ASSUME NEW now \in 0..ClockMax
  PROVE  Sample(now, FineClock) \in Key /\ Sample(now, FineClock).counter = 0
  <1>1. now \in Nat /\ now < NanosPerMs * TimestampMax
    BY ClockAssumption, WidthAssumption
  <1>2. Milliseconds(now) \in Nat /\ Milliseconds(now) < TimestampMax
    BY <1>1, WidthAssumption DEF Milliseconds
  <1>3. Fraction(now, FineClock) \in 0..FractionMax
    BY <1>1, FractionFits, ClockAssumption
  <1> QED BY <1>2, <1>3, WidthAssumption DEF Sample, At, Key

(* Adopting a newer sample moves the logical clock forward.                *)
LEMMA AdoptForward ==
  ASSUME NEW t \in Threads, TypeOK, sample[t] \in Key, ClockAdvanced(t)
  PROVE  Earlier(Latest, sample[t])
  BY WidthAssumption DEF Latest, ClockAdvanced, TypeOK, Key, At, Never, Earlier

(* So does the counter, unless every field is full ...                     *)
LEMMA IncrementForward ==
  ASSUME TypeOK
  PROVE  /\ Incremented \in Key
         /\ ~Overflows => Earlier(logical, Incremented)
  <1>1. /\ logical.ms \in 0..TimestampMax
        /\ logical.fraction \in 0..FractionMax
        /\ logical.counter \in 0..CounterMax
    BY DEF TypeOK, Key
  <1>2. CASE logical.counter < CounterMax
    BY <1>1, <1>2, WidthAssumption DEF Incremented, At, Key, Earlier
  <1>3. CASE logical.counter = CounterMax /\ logical.fraction < FractionMax
    BY <1>1, <1>3, WidthAssumption DEF Incremented, At, Key, Earlier
  <1>4. CASE /\ logical.counter = CounterMax
             /\ logical.fraction = FractionMax
    BY <1>1, <1>4, WidthAssumption DEF Incremented, Overflows, At, Key, Earlier
  <1> QED BY <1>1, <1>2, <1>3, <1>4, WidthAssumption

(* ... and it is used only when the sample is not ahead of the clock.      *)
LEMMA StaleSample ==
  ASSUME NEW t \in Threads, TypeOK, ~ClockAdvanced(t),
         sample[t] \in Key, sample[t].counter = 0
  PROVE  NotLater(sample[t], logical)
  <1> DEFINE s == sample[t]
  <1>1. logical \in Key
    BY DEF TypeOK
  <1>2. \/ s.ms < logical.ms
        \/ s.ms = logical.ms /\ s.fraction < logical.fraction
        \/ s.ms = logical.ms /\ s.fraction = logical.fraction
    BY <1>1, WidthAssumption DEF ClockAdvanced, Key
  <1>3. CASE s.counter < logical.counter
    BY <1>2, <1>3 DEF NotLater, Earlier
  <1>4. CASE s.counter = logical.counter
    <2>1. s.ms = logical.ms /\ s.fraction = logical.fraction => s = logical
      BY <1>1, <1>4 DEF Key
    <2> QED BY <1>2, <2>1 DEF NotLater, Earlier
  <1> QED BY <1>1, <1>3, <1>4, WidthAssumption DEF Key

(* The later of two keys is one of them.                                   *)
LEMMA LaterIsOne ==
  ASSUME NEW a \in Stamp, NEW b \in Stamp
  PROVE  Later(a, b) \in {a, b}
  BY DEF Later

-----------------------------------------------------------------------------
(* Every variable keeps its type: in particular no field of the shared     *)
(* state or of a returned UUID outgrows its bits, and a clock reading that *)
(* does not fit is refused before it is used.                              *)
LEMMA TypeStep ==
  ASSUME TypeOK, Locals, [Next]_vars
  PROVE  TypeOK'
  <1> USE DEF TypeOK, Goto, Steps, Forget
  <1>1. ASSUME NEW t \in Threads, Call(t)
        PROVE  TypeOK'
    BY <1>1 DEF Call
  <1>2. ASSUME NEW t \in Threads, EntropyFilled(t)
        PROVE  TypeOK'
    BY <1>2 DEF EntropyFilled
  <1>3. ASSUME NEW t \in Threads, EntropyFailed(t)
        PROVE  TypeOK'
    BY <1>3 DEF EntropyFailed
  <1>4. ASSUME NEW t \in Threads, NEW now \in 0..ClockMax, ReadClock(t, now)
        PROVE  TypeOK'
    BY <1>4, SampleIsKey DEF ReadClock
  <1>5. ASSUME NEW t \in Threads, Acquire(t)
        PROVE  TypeOK'
    BY <1>5 DEF Acquire
  <1>6. ASSUME NEW t \in Threads, AdoptSample(t)
        PROVE  TypeOK'
    BY <1>6 DEF AdoptSample, Locals
  <1>7. ASSUME NEW t \in Threads, AdvanceCounter(t)
        PROVE  TypeOK'
    BY <1>7, IncrementForward DEF AdvanceCounter, Overflows
  <1>8. ASSUME NEW t \in Threads, CopyAndRelease(t)
        PROVE  TypeOK'
    BY <1>8 DEF CopyAndRelease
  <1>9. ASSUME NEW t \in Threads, Return(t)
         PROVE  TypeOK'
    BY <1>9, LaterIsOne DEF Return, Locals, Stamp
  <1>10. ASSUME NEW t \in Threads, ReturnCapacity(t)
         PROVE  TypeOK'
    BY <1>10 DEF ReturnCapacity
  <1>11. CASE UNCHANGED vars
    BY <1>11 DEF vars
  <1> QED BY <1>1, <1>2, <1>3, <1>4, <1>5, <1>6, <1>7, <1>8, <1>9,
             <1>10, <1>11 DEF Next, Step

(* The mutex is exclusive, and the locals are set where they are used.     *)
LEMMA LocksStep ==
  ASSUME TypeOK, Locking, Locals, [Next]_vars
  PROVE  Locking' /\ Locals'
  <1> USE ClockAssumption DEF TypeOK, Goto, Steps, Forget, Locking, Locals
  <1>1. ASSUME NEW t \in Threads, Call(t)
        PROVE  Locking' /\ Locals'
    BY <1>1 DEF Call
  <1>2. ASSUME NEW t \in Threads, EntropyFilled(t)
        PROVE  Locking' /\ Locals'
    BY <1>2 DEF EntropyFilled
  <1>3. ASSUME NEW t \in Threads, EntropyFailed(t)
        PROVE  Locking' /\ Locals'
    BY <1>3 DEF EntropyFailed
  <1>4. ASSUME NEW t \in Threads, NEW now \in 0..ClockMax, ReadClock(t, now)
        PROVE  Locking' /\ Locals'
    BY <1>4, SampleIsKey DEF ReadClock
  <1>5. ASSUME NEW t \in Threads, Acquire(t)
        PROVE  Locking' /\ Locals'
    BY <1>5 DEF Acquire
  <1>6. ASSUME NEW t \in Threads, AdoptSample(t)
        PROVE  Locking' /\ Locals'
    BY <1>6 DEF AdoptSample
  <1>7. ASSUME NEW t \in Threads, AdvanceCounter(t)
        PROVE  Locking' /\ Locals'
    BY <1>7 DEF AdvanceCounter, ClockAdvanced
  <1>8. ASSUME NEW t \in Threads, CopyAndRelease(t)
        PROVE  Locking' /\ Locals'
    BY <1>8 DEF CopyAndRelease
  <1>9. ASSUME NEW t \in Threads, Return(t)
         PROVE  Locking' /\ Locals'
    BY <1>9 DEF Return
  <1>10. ASSUME NEW t \in Threads, ReturnCapacity(t)
         PROVE  Locking' /\ Locals'
    BY <1>10 DEF ReturnCapacity
  <1>11. CASE UNCHANGED vars
    BY <1>11 DEF vars
  <1> QED BY <1>1, <1>2, <1>3, <1>4, <1>5, <1>6, <1>7, <1>8, <1>9,
             <1>10, <1>11 DEF Next, Step

Promise == Taking /\ Leaving /\ Behind

(* Everything the order compares is a key, or Never.                       *)
LEMMA StampTypes ==
  ASSUME TypeOK
  PROVE  /\ Latest \in Stamp /\ newest \in Stamp /\ logical \in Stamp
         /\ \A t \in Threads : floor[t] \in Stamp /\ sample[t] \in Stamp
                                 /\ out[t] \in Stamp
         /\ \A k \in returned : k \in Stamp
  BY DEF TypeOK, Stamp, Latest

(* The heart of the argument: when the holder of the lock moves the        *)
(* logical clock forward, its new key is above all that callers know and   *)
(* above all that is still on its way out.                                 *)
LEMMA AdvanceKeepsPromise ==
  ASSUME TypeOK, TypeOK', Locking, Locals, Promise,
         NEW t \in Threads, Goto(t, "advance", "copy"),
         Earlier(Latest, logical'), NotLater(sample[t], logical'), initialized',
         UNCHANGED <<sample, out, floor, returned, newest>>
  PROVE  Promise'
  <1> USE DEF Promise
  <1>1. /\ Latest' = logical' /\ logical' \in Stamp
        /\ \A u \in Threads : pc'[u] = IF u = t THEN "copy" ELSE pc[u]
        /\ \A u \in Threads : pc[u] = "copy" => u = t
    BY DEF Latest, Goto, Locking, TypeOK, Stamp
  <1>2. \A a \in Stamp : NotLater(a, Latest) => Earlier(a, logical')
    BY <1>1, StampTypes, EarlierTransitive
  <1>3. \A u \in Threads : pc[u] = "finish" => Earlier(out[u], logical')
    BY <1>2, StampTypes DEF Leaving
  <1>4. Taking'
    BY <1>1, <1>2, <1>3, StampTypes DEF Taking, Behind
  <1>5. Leaving'
    BY <1>1, <1>3 DEF Leaving, NotLater
  <1>6. Behind'
    BY <1>1, <1>2, StampTypes DEF Behind, NotLater
  <1> QED BY <1>4, <1>5, <1>6

(* Every step that does not exhaust the key space keeps the order of what  *)
(* was returned, what is about to be, and the logical clock.               *)
LEMMA PromiseStep ==
  ASSUME TypeOK, TypeOK', Locking, Locals, Promise, ~spent', [Next]_vars
  PROVE  Promise'
  <1> USE DEF Promise
  <1>0. /\ \A k \in Stamp : NotLater(Never, k)
        /\ Never \in Stamp
    BY NeverFirst DEF Stamp
  <1>1. ASSUME NEW t \in Threads, Call(t)
        PROVE  Promise'
    BY <1>1 DEF Call, Goto, TypeOK, Latest, Taking, Leaving, Behind
  <1>2. ASSUME NEW t \in Threads, EntropyFilled(t)
        PROVE  Promise'
    BY <1>2 DEF EntropyFilled, Goto, TypeOK, Latest, Taking, Leaving, Behind
  <1>3. ASSUME NEW t \in Threads, EntropyFailed(t)
        PROVE  Promise'
    BY <1>0, <1>3, StampTypes
       DEF EntropyFailed, Goto, Forget, TypeOK, Latest, Taking, Leaving, Behind
  <1>4. ASSUME NEW t \in Threads, NEW now \in 0..ClockMax, ReadClock(t, now)
        PROVE  Promise'
    BY <1>4 DEF ReadClock, Goto, TypeOK, Latest, Taking, Leaving, Behind
  <1>5. ASSUME NEW t \in Threads, Acquire(t)
        PROVE  Promise'
    BY <1>5 DEF Acquire, Goto, TypeOK, Latest, Taking, Leaving, Behind
  <1>6. ASSUME NEW t \in Threads, AdoptSample(t)
        PROVE  Promise'
    <2>1. pc[t] = "advance" /\ sample[t] \in Key
      BY <1>6 DEF AdoptSample, Goto, Locals
    <2>2. Earlier(Latest, logical') /\ NotLater(sample[t], logical')
      BY <1>6, <2>1, AdoptForward DEF AdoptSample, NotLater
    <2> QED BY <1>6, <2>2, AdvanceKeepsPromise DEF AdoptSample
  <1>7. ASSUME NEW t \in Threads, AdvanceCounter(t)
        PROVE  Promise'
    <2>1. /\ pc[t] = "advance" /\ sample[t] \in Key /\ sample[t].counter = 0
          /\ initialized /\ Latest = logical
      BY <1>7 DEF AdvanceCounter, Goto, Locals, ClockAdvanced, Latest
    <2>2. ~Overflows
      BY <1>7 DEF AdvanceCounter
    <2>3. Earlier(Latest, logical')
      BY <1>7, <2>1, <2>2, IncrementForward DEF AdvanceCounter
    <2>4. NotLater(sample[t], logical)
      BY <1>7, <2>1, StaleSample DEF AdvanceCounter
    <2>5. NotLater(sample[t], logical')
      BY <2>1, <2>3, <2>4, StampTypes, EarlierTransitive
         DEF NotLater, TypeOK, Stamp
    <2> QED BY <1>7, <2>1, <2>3, <2>5, AdvanceKeepsPromise DEF AdvanceCounter
  <1>8. ASSUME NEW t \in Threads, CopyAndRelease(t)
        PROVE  Promise'
    <2>1. /\ pc[t] = "copy" /\ initialized /\ Latest = logical /\ Latest' = logical
          /\ \A u \in Threads : pc'[u] = IF u = t THEN "finish" ELSE pc[u]
          /\ \A u \in Threads : out'[u] = IF u = t THEN logical ELSE out[u]
          /\ UNCHANGED <<logical, sample, floor, returned, newest>>
      BY <1>8 DEF CopyAndRelease, Goto, Locals, Latest, TypeOK
    <2>2. Taking'
      BY <2>1 DEF Taking, Locking, TypeOK
    <2>3. /\ logical \notin returned
          /\ \A u \in Threads : pc[u] = "finish" => out[u] # logical
      BY <2>1, StampTypes, EarlierIrreflexive DEF Taking
    <2>4. Leaving'
      BY <2>1, <2>3 DEF Taking, Leaving, NotLater
    <2>5. Behind'
      BY <2>1 DEF Behind
    <2> QED BY <2>2, <2>4, <2>5
  <1>9. ASSUME NEW t \in Threads, Return(t)
         PROVE  Promise'
    <2>1. /\ pc[t] = "finish" /\ Latest' = Latest
          /\ \A u \in Threads : pc'[u] = IF u = t THEN "idle" ELSE pc[u]
          /\ \A u \in Threads : u # t => /\ floor'[u] = floor[u]
                                         /\ out'[u] = out[u]
                                         /\ sample'[u] = sample[u]
          /\ floor'[t] = Never
          /\ returned' = returned \cup {out[t]}
          /\ newest' = newest \/ newest' = out[t]
          /\ UNCHANGED logical
      BY <1>9, LaterIsOne, StampTypes DEF Return, Goto, Forget, TypeOK, Latest
    <2>2. Taking'
      BY <2>1 DEF Taking
    <2>3. Leaving'
      BY <2>1 DEF Leaving
    <2>4. Behind'
      BY <1>0, <2>1, StampTypes DEF Behind, Leaving
    <2> QED BY <2>2, <2>3, <2>4
  <1>10. ASSUME NEW t \in Threads, ReturnCapacity(t)
         PROVE  Promise'
    BY <1>0, <1>10, StampTypes
       DEF ReturnCapacity, Goto, Forget, TypeOK, Latest, Taking, Leaving, Behind
  <1>11. CASE UNCHANGED vars
    BY <1>11 DEF vars, Latest, Taking, Leaving, Behind
  <1> QED BY <1>1, <1>2, <1>3, <1>4, <1>5, <1>6, <1>7, <1>8, <1>9,
             <1>10, <1>11 DEF Next, Step

-----------------------------------------------------------------------------
(* The process starts in a state that satisfies the invariant.             *)
LEMMA InitHolds == Init => IInv
  <1> SUFFICES ASSUME Init
               PROVE  IInv
    OBVIOUS
  <1>1. At(0, 0, 0) \in Key
    BY WidthAssumption DEF At, Key
  <1>2. TypeOK
    BY <1>1 DEF Init, TypeOK, Steps
  <1>3. Locking /\ Locals
    BY ClockAssumption DEF Init, Locking, Locals
  <1>4. Taking /\ Leaving /\ Behind
    BY DEF Init, Taking, Leaving, Behind, Latest, NotLater
  <1> QED BY <1>2, <1>3, <1>4 DEF IInv

(* Every step keeps it; once the key space is spent only the types, the    *)
(* locking and the locals matter.                                          *)
LEMMA StepHolds == IInv /\ [Next]_vars => IInv'
  <1> SUFFICES ASSUME IInv, [Next]_vars
               PROVE  IInv'
    OBVIOUS
  <1>1. TypeOK' /\ Locking' /\ Locals'
    BY TypeStep, LocksStep DEF IInv
  <1>2. CASE spent
    <2>1. spent'
      BY <1>2 DEF Next, Step, vars, Call, EntropyFilled, EntropyFailed,
                  ReadClock, Acquire, AdoptSample,
                  AdvanceCounter, CopyAndRelease, Return, ReturnCapacity
    <2> QED BY <1>1, <2>1 DEF IInv
  <1>3. CASE ~spent /\ ~spent'
    BY <1>1, <1>3, PromiseStep DEF IInv, Promise
  <1>4. CASE spent'
    BY <1>1, <1>4 DEF IInv
  <1> QED BY <1>2, <1>3, <1>4

(* So the invariant always holds.                                          *)
LEMMA Inductive == Spec => []IInv
  BY InitHolds, StepHolds, PTL DEF Spec

(* Type correctness of the generator, for every width of the fields.       *)
THEOREM TypeCorrect == Spec => []TypeOK
  <1>1. IInv => TypeOK
    BY DEF IInv
  <1> QED BY <1>1, Inductive, PTL

(* No key is handed out twice while the key space lasts.                   *)
THEOREM UniqueAlways == Spec => []Unique
  <1>1. IInv => Unique
    BY DEF IInv, Unique, Leaving
  <1> QED BY <1>1, Inductive, PTL

(* A later call gets a greater UUID while the key space lasts.             *)
THEOREM MonotonicAlways == Spec => []Monotonic
  <1>1. IInv => Monotonic
    BY DEF IInv, Monotonic, Leaving
  <1> QED BY <1>1, Inductive, PTL

(* A UUID is never stamped before the time its call read.                  *)
THEOREM NotBeforeSampleAlways == Spec => []NotBeforeSample
  <1>1. IInv => NotBeforeSample
    BY DEF IInv, NotBeforeSample, Leaving
  <1> QED BY <1>1, Inductive, PTL

-----------------------------------------------------------------------------
(* The refinement.                                                         *)

(* Steps that leave every other thread's phase and key alone.              *)
LEMMA OthersKeep ==
  ASSUME TypeOK, NEW t \in Threads, NEW to \in Steps,
         pc' = [pc EXCEPT ![t] = to],
         \A u \in Threads \ {t} : /\ out'[u] = out[u]
                                  /\ succeeded'[u] = succeeded[u]
                                  /\ pc[u] = "copy" => logical' = logical
  PROVE  \A u \in Threads \ {t} : Phase(u)' = Phase(u) /\ Taken(u)' = Taken(u)
  <1> TAKE u \in Threads \ {t}
  <1>1. pc'[u] = pc[u]
    BY DEF TypeOK
  <1>2. Phase(u)' = Phase(u)
    BY <1>1 DEF Phase
  <1>3. pc[u] = "copy" => logical' = logical
    OBVIOUS
  <1>4. Taken(u)' = Taken(u)
    BY <1>1, <1>2, <1>3 DEF Taken
  <1> QED BY <1>2, <1>4

(* The same, about the functions the abstract variables are.               *)
LEMMA MapOne ==
  ASSUME NEW t \in Threads, NEW p, NEW v,
         \A u \in Threads \ {t} : Phase(u)' = Phase(u) /\ Taken(u)' = Taken(u),
         Phase(t)' = p, Taken(t)' = v
  PROVE  /\ [u \in Threads |-> Phase(u)]'
              = [[u \in Threads |-> Phase(u)] EXCEPT ![t] = p]
         /\ [u \in Threads |-> Taken(u)]'
              = [[u \in Threads |-> Taken(u)] EXCEPT ![t] = v]
  OBVIOUS

(* The abstract module's copy of the key order is this one's.              *)
LEMMA SameKeys ==
  /\ Issuer!Never = Never
  /\ Issuer!Key = Key
  /\ \A a, b : Issuer!Earlier(a, b) <=> Earlier(a, b)
  /\ \A a, b : Issuer!Later(a, b) = Later(a, b)
  <1>1. \A a, b : Issuer!Earlier(a, b) <=> Earlier(a, b)
    BY DEF Issuer!Earlier, Earlier
  <1>2. \A a, b : Issuer!Later(a, b) = Later(a, b)
    BY <1>1 DEF Issuer!Later, Later
  <1>3. Issuer!Never = Never /\ Issuer!Key = Key
    BY DEF Issuer!Never, Issuer!At, Issuer!Key, Never, At, Key
  <1> QED BY <1>1, <1>2, <1>3

(* The initial states are the issuer's.                                    *)
LEMMA InitMaps == Init => Issuer!Init
  <1> SUFFICES ASSUME Init
               PROVE  Issuer!Init
    OBVIOUS
  <1>1. \A t \in Threads : Phase(t) = "idle" /\ Taken(t) = Never
    BY DEF Init, Phase, Taken
  <1> QED BY <1>1, SameKeys DEF Init, Issuer!Init

(* Taking the lock and a key is one instant to the callers.                *)
LEMMA TakeMaps ==
  ASSUME TypeOK, Locking, NEW t \in Threads,
         Goto(t, "advance", "copy"), succeeded'[t], initialized',
         logical' \in Key, spent \/ Earlier(Latest, logical'),
         \A u \in Threads \ {t} : succeeded'[u] = succeeded[u],
         UNCHANGED <<out, floor, newest, spent>>
  PROVE  Issuer!Take(t)
  <1>1. /\ pc[t] = "advance" /\ pc' = [pc EXCEPT ![t] = "copy"] /\ pc'[t] = "copy"
        /\ \A u \in Threads \ {t} : pc[u] # "copy"
    BY DEF Goto, TypeOK, Locking
  <1>2. \A u \in Threads \ {t} : Phase(u)' = Phase(u) /\ Taken(u)' = Taken(u)
    BY <1>1, OthersKeep DEF Steps
  <1>3. Phase(t) = "open" /\ Phase(t)' = "keyed" /\ Taken(t)' = logical'
    BY <1>1 DEF Phase, Taken
  <1>4. /\ [u \in Threads |-> Phase(u)]'
             = [[u \in Threads |-> Phase(u)] EXCEPT ![t] = "keyed"]
        /\ [u \in Threads |-> Taken(u)]'
             = [[u \in Threads |-> Taken(u)] EXCEPT ![t] = logical']
    BY <1>2, <1>3, MapOne
  <1>5. spent \/ Issuer!Earlier(IF initialized THEN logical ELSE Never, logical')
    BY SameKeys DEF Latest
  <1> QED BY <1>3, <1>4, <1>5, SameKeys DEF Issuer!Take

(* Failing calls end without a key.                                        *)
LEMMA FailMaps ==
  ASSUME TypeOK, NEW t \in Threads, pc[t] # "idle", Phase(t) = "open",
         pc' = [pc EXCEPT ![t] = "idle"], Forget(t),
         UNCHANGED <<logical, initialized, newest, spent>>
  PROVE  Issuer!Fail(t)
  <1>1. \A u \in Threads \ {t} : Phase(u)' = Phase(u) /\ Taken(u)' = Taken(u)
    BY OthersKeep DEF Forget, TypeOK, Steps
  <1>2. Phase(t)' = "idle" /\ Taken(t)' = Taken(t)
    BY DEF Phase, Taken, TypeOK
  <1>3. /\ [u \in Threads |-> Phase(u)]'
             = [[u \in Threads |-> Phase(u)] EXCEPT ![t] = "idle"]
        /\ UNCHANGED [u \in Threads |-> Taken(u)]
    BY <1>1, <1>2, MapOne
  <1>4. /\ floor' = [floor EXCEPT ![t] = Never]
        /\ UNCHANGED <<logical, initialized, newest, spent>>
    BY DEF Forget
  <1> QED BY <1>3, <1>4, SameKeys DEF Issuer!Fail

(* Steps that callers cannot tell from no step.                            *)
LEMMA StutterMaps ==
  ASSUME TypeOK, NEW t \in Threads, NEW to \in Steps,
         pc' = [pc EXCEPT ![t] = to],
         Phase(t)' = Phase(t), Taken(t)' = Taken(t),
         \A u \in Threads \ {t} : /\ out'[u] = out[u]
                                  /\ succeeded'[u] = succeeded[u],
         UNCHANGED <<logical, initialized, floor, newest, spent>>
  PROVE  UNCHANGED Issuer!vars
  <1>1. \A u \in Threads : Phase(u)' = Phase(u) /\ Taken(u)' = Taken(u)
    BY OthersKeep
  <1> QED BY <1>1 DEF Issuer!vars

(* Every step is a step of the issuer, or invisible to it.                 *)
LEMMA StepMaps ==
  ASSUME TypeOK, Locking, Locals, TypeOK', [Next]_vars
  PROVE  [Issuer!Next]_(Issuer!vars)
  <1> USE DEF Goto
  <1>1. ASSUME NEW t \in Threads, Call(t)
        PROVE  Issuer!Invoke(t)
    <2>1. \A u \in Threads \ {t} : Phase(u)' = Phase(u) /\ Taken(u)' = Taken(u)
      BY <1>1, OthersKeep DEF Call, Steps
    <2>2. Phase(t) = "idle" /\ Phase(t)' = "open" /\ Taken(t)' = Taken(t)
      BY <1>1 DEF Call, Phase, Taken, TypeOK
    <2>3. /\ [u \in Threads |-> Phase(u)]'
               = [[u \in Threads |-> Phase(u)] EXCEPT ![t] = "open"]
          /\ UNCHANGED [u \in Threads |-> Taken(u)]
      BY <2>1, <2>2, MapOne
    <2> QED BY <1>1, <2>2, <2>3 DEF Call, Issuer!Invoke
  <1>2. ASSUME NEW t \in Threads, EntropyFilled(t)
        PROVE  UNCHANGED Issuer!vars
    BY <1>2, StutterMaps DEF EntropyFilled, Steps, Phase, Taken, TypeOK
  <1>3. ASSUME NEW t \in Threads, EntropyFailed(t)
        PROVE  Issuer!Fail(t)
    BY <1>3, FailMaps DEF EntropyFailed, Phase
  <1>4. ASSUME NEW t \in Threads, NEW now \in 0..ClockMax, ReadClock(t, now)
        PROVE  UNCHANGED Issuer!vars
    BY <1>4, StutterMaps DEF ReadClock, Steps, Phase, Taken, TypeOK
  <1>5. ASSUME NEW t \in Threads, Acquire(t)
        PROVE  UNCHANGED Issuer!vars
    BY <1>5, StutterMaps DEF Acquire, Steps, Phase, Taken, TypeOK
  <1>6. ASSUME NEW t \in Threads, AdoptSample(t)
        PROVE  Issuer!Take(t)
    <2>1. succeeded[t] /\ sample[t] \in Key
      BY <1>6 DEF AdoptSample, Locals
    <2>2. Earlier(Latest, sample[t])
      BY <1>6, <2>1, AdoptForward DEF AdoptSample
    <2> QED BY <1>6, <2>1, <2>2, TakeMaps DEF AdoptSample
  <1>7. ASSUME NEW t \in Threads, AdvanceCounter(t), ~Overflows
        PROVE  Issuer!Take(t)
    <2>1. initialized /\ Latest = logical
      BY <1>7 DEF AdvanceCounter, ClockAdvanced, Latest
    <2>2. Earlier(Latest, logical') /\ logical' \in Key
      BY <1>7, <2>1, IncrementForward DEF AdvanceCounter
    <2>3. /\ succeeded'[t] /\ initialized' /\ spent' = spent
          /\ \A u \in Threads \ {t} : succeeded'[u] = succeeded[u]
      BY <1>7, <2>1 DEF AdvanceCounter, TypeOK
    <2> QED BY <1>7, <2>2, <2>3, TakeMaps DEF AdvanceCounter
  <1>8. ASSUME NEW t \in Threads, AdvanceCounter(t), Overflows
        PROVE  Issuer!Exhaust(t)
    <2>1. /\ pc[t] = "advance" /\ pc'[t] = "copy" /\ ~succeeded'[t] /\ spent'
          /\ initialized' /\ logical' \in Key
          /\ \A u \in Threads \ {t} : pc[u] # "copy"
          /\ \A u \in Threads \ {t} : succeeded'[u] = succeeded[u]
      BY <1>8 DEF AdvanceCounter, ClockAdvanced, TypeOK, Locking
    <2>2. \A u \in Threads \ {t} : Phase(u)' = Phase(u) /\ Taken(u)' = Taken(u)
      BY <1>8, <2>1, OthersKeep DEF AdvanceCounter, Steps
    <2>3. Phase(t) = "open" /\ Phase(t)' = "open" /\ Taken(t)' = Taken(t)
      BY <2>1 DEF Phase, Taken
    <2>4. /\ UNCHANGED [u \in Threads |-> Phase(u)]
          /\ UNCHANGED [u \in Threads |-> Taken(u)]
      BY <2>2, <2>3
    <2> QED BY <1>8, <2>1, <2>3, <2>4, SameKeys DEF AdvanceCounter, Issuer!Exhaust
  <1>9. ASSUME NEW t \in Threads, CopyAndRelease(t)
         PROVE  UNCHANGED Issuer!vars
    <2>1. /\ pc[t] = "copy" /\ pc'[t] = "finish" /\ out'[t] = logical
          /\ \A u \in Threads \ {t} : out'[u] = out[u]
      BY <1>9 DEF CopyAndRelease, TypeOK
    <2>2. Phase(t)' = Phase(t) /\ Taken(t)' = Taken(t)
      BY <1>9, <2>1 DEF CopyAndRelease, Phase, Taken
    <2> QED BY <1>9, <2>1, <2>2, StutterMaps DEF CopyAndRelease, Steps
  <1>10. ASSUME NEW t \in Threads, Return(t)
         PROVE  Issuer!Respond(t)
    <2>1. \A u \in Threads \ {t} : Phase(u)' = Phase(u) /\ Taken(u)' = Taken(u)
      BY <1>10, OthersKeep DEF Return, Forget, TypeOK, Steps
    <2>2. /\ Phase(t) = "keyed" /\ Taken(t) = out[t]
          /\ Phase(t)' = "idle" /\ Taken(t)' = Never
      BY <1>10 DEF Return, Phase, Taken, TypeOK
    <2>3. /\ [u \in Threads |-> Phase(u)]'
               = [[u \in Threads |-> Phase(u)] EXCEPT ![t] = "idle"]
          /\ [u \in Threads |-> Taken(u)]'
               = [[u \in Threads |-> Taken(u)] EXCEPT ![t] = Never]
      BY <2>1, <2>2, MapOne
    <2> QED BY <1>10, <2>2, <2>3, SameKeys DEF Return, Forget, Issuer!Respond
  <1>11. ASSUME NEW t \in Threads, ReturnCapacity(t)
         PROVE  Issuer!Fail(t)
    BY <1>11, FailMaps DEF ReturnCapacity, Phase
  <1>12. CASE UNCHANGED vars
    BY <1>12 DEF vars, Issuer!vars, Phase, Taken
  <1> QED BY <1>1, <1>2, <1>3, <1>4, <1>5, <1>6, <1>7, <1>8, <1>9,
             <1>10, <1>11, <1>12 DEF Next, Step, Issuer!Next

(* The generator, threads, stale samples, lock and all, implements the     *)
(* one-instant issuer of MonotonicIssuer.                                  *)
THEOREM Refinement == Spec => ImplementsIssuer
  <1>1. IInv /\ IInv' /\ [Next]_vars => [Issuer!Next]_(Issuer!vars)
    BY StepMaps DEF IInv
  <1> QED BY InitMaps, <1>1, Inductive, PTL DEF Spec, ImplementsIssuer, Issuer!Spec

-----------------------------------------------------------------------------
(* Folds. FoldLeft of the community modules is MapThenFoldSet, a recursive *)
(* function on the sets of places of a sequence. What follows gives it the *)
(* two equations a fold is known by, on the empty sequence and on one with *)
(* an element more, by induction, which starts from this: a set of numbers *)
(* has a least.                                                            *)
LEMMA LeastNatural ==
  ASSUME NEW S \in SUBSET Nat, S # {}
  PROVE  \E m \in S : \A j \in S : m <= j
  <1> DEFINE R == OpToRel(<, Nat)
  <1>1. IsWellFoundedOn(R, Nat)
    BY NatLessThanWellFounded
  <1>2. \A x, y \in Nat : x < y => <<x, y>> \in R
    BY DEF OpToRel
  <1>3. \E x \in S : \A y \in S : <<y, x>> \notin R
    <2> HIDE DEF R
    <2> QED BY <1>1, WFMin
  <1>4. PICK m \in S : \A j \in S : <<j, m>> \notin R
    BY <1>3
  <1>5. \A j \in S : ~(j < m)
    <2> HIDE DEF R
    <2> QED BY <1>2, <1>4
  <1> QED BY <1>5

(* A sequence is one of whatever set all its elements are in.              *)
LEMMA Narrowed ==
  ASSUME NEW X, NEW Y, NEW a \in Seq(X), \A i \in DOMAIN a : a[i] \in Y
  PROVE  a \in Seq(Y)
  <1>1. Len(a) \in Nat /\ DOMAIN a = 1 .. Len(a) /\ a = [i \in 1 .. Len(a) |-> a[i]]
    OBVIOUS
  <1>2. a \in [1 .. Len(a) -> Y]
    BY <1>1
  <1> QED BY <1>1, <1>2

(* Induction, for a set of numbers.                                        *)
LEMMA Induction ==
  ASSUME NEW S, 0 \in S, \A n \in Nat : n \in S => n + 1 \in S
  PROVE  Nat \subseteq S
  <1>1. SUFFICES ASSUME Nat \ S # {} PROVE FALSE
    OBVIOUS
  <1>2. PICK m \in Nat \ S : \A j \in Nat \ S : m <= j
    BY <1>1, LeastNatural
  <1>3. m - 1 \in Nat /\ m - 1 \in S
    BY <1>2
  <1> QED BY <1>2, <1>3

(* Induction, for a set of sequences.                                      *)
LEMMA Growing ==
  ASSUME NEW X, NEW S, << >> \in S, \A s \in Seq(X), x \in X : s \in S => Append(s, x) \in S
  PROVE  Seq(X) \subseteq S
  <1> DEFINE L == {n \in Nat : \A s \in Seq(X) : Len(s) = n => s \in S}
  <1>1. 0 \in L
    OBVIOUS
  <1>2. ASSUME NEW n \in Nat, n \in L PROVE n + 1 \in L
    <2> SUFFICES ASSUME NEW s \in Seq(X), Len(s) = n + 1 PROVE s \in S
      OBVIOUS
    <2> DEFINE r == SubSeq(s, 1, n)
    <2>1. r \in Seq(X) /\ Len(r) = n /\ s[n + 1] \in X
      OBVIOUS
    <2>2. s = Append(r, s[n + 1])
      OBVIOUS
    <2>3. r \in S
      BY <1>2, <2>1
    <2> HIDE DEF r
    <2> QED BY <2>1, <2>2, <2>3
  <1> HIDE DEF L
  <1>3. Nat \subseteq L
    BY <1>1, <1>2, Induction
  <1>4. ASSUME NEW s \in Seq(X) PROVE s \in S
    <2>1. Len(s) \in L
      BY <1>3
    <2> QED BY <2>1 DEF L
  <1> QED BY <1>4

(* MapThenFoldSet takes the greatest of the places left.                   *)
Top(t) == CHOOSE x \in t : \A y \in t : x >= y

LEMMA TopIs ==
  ASSUME NEW n \in Nat, NEW t \in SUBSET (1 .. n + 1), n + 1 \in t
  PROVE  Top(t) = n + 1
  <1>1. \A y \in t : n + 1 >= y
    OBVIOUS
  <1>2. \A x \in t : (\A y \in t : x >= y) => x = n + 1
    <2> SUFFICES ASSUME NEW x \in t, \A y \in t : x >= y PROVE x = n + 1
      OBVIOUS
    <2>1. x >= n + 1
      OBVIOUS
    <2> QED BY <1>1, <2>1
  <1> QED BY <1>1, <1>2, Zenon DEF Top

LEMMA TopIn ==
  ASSUME NEW n \in Nat, NEW t \in SUBSET (1 .. n), t # {}
  PROVE  Top(t) \in t
  <1> DEFINE below == {m \in Nat : \A y \in t : m >= y}
  <1>1. below # {}
    BY n \in below
  <1>2. below \in SUBSET Nat
    OBVIOUS
  <1>3. PICK m \in below : \A j \in below : m <= j
    <2> HIDE DEF below
    <2> QED BY <1>1, <1>2, LeastNatural
  <1>4. m \in t
    <2> SUFFICES ASSUME m \notin t PROVE FALSE
      OBVIOUS
    <2>1. \A y \in t : m - 1 >= y /\ m - 1 \in Nat
      BY <1>3
    <2>2. m - 1 \in below
      BY <2>1
    <2> QED BY <1>3, <2>2
  <1>5. \A y \in t : m >= y
    BY <1>3
  <1> QED BY <1>4, <1>5, Zenon DEF Top

(* A function on sets of places that is the fold of the first n elements,  *)
(* of the function g (curried) from b.                                     *)
Unfolds(g, b, s, n, iter) ==
  iter = [t \in SUBSET (1 .. n) |-> IF t = {} THEN b ELSE g[iter[t \ {Top(t)}]][s[Top(t)]]]

(* There is one: by induction over n.                                      *)
LEMMA Prefixes ==
  ASSUME NEW g, NEW b, NEW s, NEW n \in Nat
  PROVE  \E iter : Unfolds(g, b, s, n, iter)
  <1> DEFINE S == {k \in Nat : \E iter : Unfolds(g, b, s, k, iter)}
  <1>1. 0 \in S
    <2> DEFINE none == [t \in SUBSET (1 .. 0) |-> b]
    <2>1. \A t \in SUBSET (1 .. 0) : t = {}
      OBVIOUS
    <2>2. Unfolds(g, b, s, 0, none)
      BY <2>1 DEF Unfolds
    <2> QED BY <2>2
  <1>2. ASSUME NEW k \in Nat, k \in S
        PROVE  k + 1 \in S
    <2>1. PICK old : Unfolds(g, b, s, k, old)
      BY <1>2
    <2> DEFINE new == [t \in SUBSET (1 .. k + 1) |-> IF k + 1 \in t THEN g[old[t \ {k + 1}]][s[k + 1]] ELSE old[t]]
    <2>2. ASSUME NEW t \in SUBSET (1 .. k + 1)
          PROVE  new[t] = IF t = {} THEN b ELSE g[new[t \ {Top(t)}]][s[Top(t)]]
      <3>1. CASE k + 1 \in t
        <4>1. Top(t) = k + 1
          BY <3>1, TopIs
        <4>2. t \ {k + 1} \in SUBSET (1 .. k)
          OBVIOUS
        <4>3. new[t \ {k + 1}] = old[t \ {k + 1}]
          BY <4>2
        <4> QED BY <3>1, <4>1, <4>3, Zenon
      <3>2. CASE k + 1 \notin t
        <4>1. t \in SUBSET (1 .. k)
          BY <3>2
        <4>4. t \ {Top(t)} \in SUBSET (1 .. k)
          BY <4>1, Zenon
        <4>5. t \ {Top(t)} \in SUBSET (1 .. k + 1) /\ k + 1 \notin t \ {Top(t)}
          BY <3>2, Zenon
        <4>2. new[t] = old[t] /\ new[t \ {Top(t)}] = old[t \ {Top(t)}]
          BY <3>2, <4>1, <4>4, <4>5
        <4>3. old[t] = IF t = {} THEN b ELSE g[old[t \ {Top(t)}]][s[Top(t)]]
          BY <2>1, <4>1, Zenon DEF Unfolds
        <4> QED BY <4>2, <4>3, Zenon
      <3> QED BY <3>1, <3>2
    <2>3. new = [t \in SUBSET (1 .. k + 1) |-> new[t]]
      OBVIOUS
    <2> HIDE DEF new
    <2>4. Unfolds(g, b, s, k + 1, new)
      BY <2>2, <2>3, Zenon DEF Unfolds
    <2> QED BY <2>4
  <1> HIDE DEF S
  <1>3. n \in S
    BY <1>1, <1>2, Induction
  <1> QED BY <1>3 DEF S

(* Induction, for sets of places: those without their last come first.     *)
LEMMA Places ==
  ASSUME NEW n \in Nat, NEW P, {} \in P,
         \A t \in SUBSET (1 .. n) : t # {} /\ t \ {Top(t)} \in P => t \in P
  PROVE  SUBSET (1 .. n) \subseteq P
  <1> DEFINE S == {k \in Nat : k <= n => SUBSET (1 .. k) \subseteq P}
  <1>1. 0 \in S
    <2>1. \A t \in SUBSET (1 .. 0) : t = {}
      OBVIOUS
    <2> QED BY <2>1
  <1>2. ASSUME NEW k \in Nat, k \in S PROVE k + 1 \in S
    <2> SUFFICES ASSUME k + 1 <= n, NEW t \in SUBSET (1 .. k + 1) PROVE t \in P
      OBVIOUS
    <2>1. CASE k + 1 \in t
      <3>1. Top(t) = k + 1
        BY <2>1, TopIs
      <3>2. t \ {k + 1} \in SUBSET (1 .. k) /\ t \in SUBSET (1 .. n) /\ k <= n
        OBVIOUS
      <3>3. t \ {k + 1} \in P
        BY <1>2, <3>2
      <3> QED BY <2>1, <3>1, <3>2, <3>3
    <2>2. CASE k + 1 \notin t
      BY <1>2, <2>2
    <2> QED BY <2>1, <2>2
  <1> HIDE DEF S
  <1>3. n \in S
    BY <1>1, <1>2, Induction
  <1> QED BY <1>3 DEF S

(* The values of the fold stay in A while the elements are from X; a       *)
(* function on sets of places that begins with b and takes a turn at each. *)
Stays(g, A, X) == \A a \in A, x \in X : g[a][x] \in A
Over(s, n, X) == \A k \in 1 .. n : s[k] \in X

Shaped(i, b, n) == i = [t \in SUBSET (1 .. n) |-> i[t]] /\ i[{}] = b

(* A fold by an operator is one by a function that agrees with it where    *)
(* the values stay.                                                        *)
LEMMA Agrees ==
  ASSUME NEW A, NEW X, NEW g, Stays(g, A, X), NEW b \in A, NEW s, NEW n \in Nat, Over(s, n, X), NEW i,
         Shaped(i, b, n),
         \A t \in SUBSET (1 .. n) :
           t # {} /\ i[t \ {Top(t)}] \in A /\ s[Top(t)] \in X =>
             i[t] = g[i[t \ {Top(t)}]][s[Top(t)]]
  PROVE  Unfolds(g, b, s, n, i)
  <1> DEFINE P == {t \in SUBSET (1 .. n) : i[t] \in A}
  <1>1. {} \in P
    BY DEF Shaped
  <1>2. ASSUME NEW t \in SUBSET (1 .. n), t # {} PROVE s[Top(t)] \in X /\ t \ {Top(t)} \in SUBSET (1 .. n)
    <2>1. Top(t) \in 1 .. n
      BY <1>2, TopIn
    <2> QED BY <2>1 DEF Over
  <1>3. SUBSET (1 .. n) \subseteq P
    <2>1. ASSUME NEW t \in SUBSET (1 .. n), t # {}, t \ {Top(t)} \in P PROVE t \in P
      <3>1. i[t \ {Top(t)}] \in A /\ s[Top(t)] \in X
        BY <1>2, <2>1
      <3>2. i[t] \in A
        BY <2>1, <3>1, Zenon DEF Stays
      <3> QED BY <3>2
    <2> HIDE DEF P
    <2> QED BY <1>1, <2>1, Places
  <1>4. \A t \in SUBSET (1 .. n) : i[t] = IF t = {} THEN b ELSE g[i[t \ {Top(t)}]][s[Top(t)]]
    <2> SUFFICES ASSUME NEW t \in SUBSET (1 .. n), t # {} PROVE i[t] = g[i[t \ {Top(t)}]][s[Top(t)]]
      BY Zenon DEF Shaped
    <2>1. i[t \ {Top(t)}] \in A
      BY <1>2, <1>3
    <2> QED BY <1>2, <2>1, Zenon
  <1> QED BY <1>4, Zenon DEF Unfolds, Shaped

Turns(g, A, X, s, n, i) ==
  \A t \in SUBSET (1 .. n) :
    t # {} => s[Top(t)] \in X /\ i[t \ {Top(t)}] \in A /\ i[t] = g[i[t \ {Top(t)}]][s[Top(t)]]

(* A function that takes the turns of g is the one the fold is.            *)
LEMMA Unfolded ==
  ASSUME NEW A, NEW X, NEW g, NEW b \in A, Stays(g, A, X),
         NEW s, NEW n \in Nat, Over(s, n, X), NEW i, Unfolds(g, b, s, n, i)
  PROVE  Shaped(i, b, n) /\ Turns(g, A, X, s, n, i)
  <1> DEFINE P == {t \in SUBSET (1 .. n) : i[t] \in A}
  <1>1. ASSUME NEW t \in SUBSET (1 .. n), t # {}
        PROVE  s[Top(t)] \in X /\ i[t] = g[i[t \ {Top(t)}]][s[Top(t)]] /\ t \ {Top(t)} \in SUBSET (1 .. n)
    <2>1. Top(t) \in 1 .. n
      BY <1>1, TopIn
    <2>2. i[t] = g[i[t \ {Top(t)}]][s[Top(t)]]
      BY <1>1, Zenon DEF Unfolds
    <2> QED BY <2>1, <2>2 DEF Over
  <1>2. Shaped(i, b, n)
    <2>1. {} \in SUBSET (1 .. n)
      OBVIOUS
    <2> QED BY <2>1, Zenon DEF Unfolds, Shaped
  <1>3. SUBSET (1 .. n) \subseteq P
    <2>1. {} \in P
      BY <1>2 DEF Shaped
    <2>2. ASSUME NEW t \in SUBSET (1 .. n), t # {}, t \ {Top(t)} \in P PROVE t \in P
      <3>1. i[t \ {Top(t)}] \in A /\ s[Top(t)] \in X
        BY <1>1, <2>2
      <3>2. i[t] \in A
        BY <1>1, <2>2, <3>1, Zenon DEF Stays
      <3> QED BY <3>2
    <2> HIDE DEF P
    <2> QED BY <2>1, <2>2, Places
  <1> QED BY <1>1, <1>2, <1>3 DEF Turns

(* Two sequences have the same fold as far as they are the same.           *)
LEMMA Same ==
  ASSUME NEW g, NEW b, NEW s, NEW r, NEW n \in Nat, NEW m \in Nat, n <= m, NEW i, NEW j,
         Unfolds(g, b, s, n, i), Unfolds(g, b, r, m, j), \A k \in 1 .. n : s[k] = r[k]
  PROVE  i[1 .. n] = j[1 .. n]
  <1> DEFINE S == {k \in Nat : k <= n => i[1 .. k] = j[1 .. k]}
  <1>1. 0 \in S
    <2>1. 1 .. 0 = {} /\ {} \in SUBSET (1 .. n) /\ {} \in SUBSET (1 .. m)
      OBVIOUS
    <2>2. i[{}] = b /\ j[{}] = b
      BY <2>1, Zenon DEF Unfolds
    <2> QED BY <2>1, <2>2
  <1>2. ASSUME NEW k \in Nat, k \in S
        PROVE  k + 1 \in S
    <2>1. SUFFICES ASSUME k + 1 <= n PROVE i[1 .. k + 1] = j[1 .. k + 1]
      OBVIOUS
    <2> DEFINE t == 1 .. k + 1
    <2>0. t \in SUBSET (1 .. n) /\ t \in SUBSET (1 .. m) /\ k + 1 \in t /\ t \ {k + 1} = 1 .. k
      BY <2>1
    <2>2. t # {} /\ Top(t) = k + 1
      BY <2>0, TopIs
    <2> HIDE DEF t
    <2>3. i[t] = g[i[t \ {Top(t)}]][s[Top(t)]]
      BY <2>0, <2>2, Zenon DEF Unfolds
    <2>4. j[t] = g[j[t \ {Top(t)}]][r[Top(t)]]
      BY <2>0, <2>2, Zenon DEF Unfolds
    <2>5. i[1 .. k] = j[1 .. k] /\ s[k + 1] = r[k + 1]
      BY <1>2, <2>1
    <2>6. i[t] = j[t]
      BY <2>0, <2>2, <2>3, <2>4, <2>5, Zenon
    <2> QED BY <2>6 DEF t
  <1> HIDE DEF S
  <1>3. n \in S
    BY <1>1, <1>2, Induction
  <1> QED BY <1>3 DEF S

(* The fold of a whole sequence, its two equations, where its values are,  *)
(* and the fold of two sequences one after the other.                      *)
Folded(g, b, s) == (CHOOSE iter : Unfolds(g, b, s, Len(s), iter))[1 .. Len(s)]

LEMMA FoldedIs ==
  ASSUME NEW g, NEW b, NEW s, Len(s) \in Nat, NEW i, Unfolds(g, b, s, Len(s), i)
  PROVE  i[1 .. Len(s)] = Folded(g, b, s)
  <1> DEFINE j == CHOOSE iter : Unfolds(g, b, s, Len(s), iter)
             n == Len(s)
  <1>1. Unfolds(g, b, s, n, j)
    BY Zenon
  <1>2. n \in Nat /\ n <= n /\ \A k \in 1 .. n : s[k] = s[k]
    OBVIOUS
  <1>3. Folded(g, b, s) = j[1 .. n] /\ Unfolds(g, b, s, n, i)
    BY DEF Folded
  <1> HIDE DEF n, j
  <1>4. i[1 .. n] = j[1 .. n]
    BY <1>1, <1>2, <1>3, Same
  <1> QED BY <1>3, <1>4 DEF n

LEMMA FoldedEmpty ==
  ASSUME NEW g, NEW b PROVE Folded(g, b, << >>) = b
  <1>1. PICK i : Unfolds(g, b, << >>, 0, i)
    BY Prefixes
  <1>2. Len(<< >>) = 0 /\ << >> \in Seq({}) /\ 1 .. 0 = {} /\ {} \in SUBSET (1 .. 0)
    OBVIOUS
  <1>3. i[{}] = b
    BY <1>1, <1>2, Zenon DEF Unfolds
  <1>4. Folded(g, b, << >>) = i[1 .. 0]
    <2> DEFINE e == << >>
    <2>1. e \in Seq({}) /\ Len(e) = 0 /\ Unfolds(g, b, e, 0, i)
      BY <1>1
    <2> HIDE DEF e
    <2>2. Folded(g, b, e) = i[1 .. 0]
      BY <2>1, FoldedIs
    <2> QED BY <2>2 DEF e
  <1> QED BY <1>2, <1>3, <1>4

LEMMA FoldedAppend ==
  ASSUME NEW g, NEW b, NEW X, NEW s \in Seq(X), NEW x \in X
  PROVE  Folded(g, b, Append(s, x)) = g[Folded(g, b, s)][x]
  <1> DEFINE n == Len(s)
             r == Append(s, x)
  <1>1. /\ n \in Nat /\ n + 1 \in Nat /\ n <= n + 1 /\ r \in Seq(X) /\ Len(r) = n + 1 /\ r[n + 1] = x
        /\ \A k \in 1 .. n : s[k] = r[k]
    OBVIOUS
  <1> HIDE DEF n, r
  <1>2. PICK i : Unfolds(g, b, s, n, i)
    BY <1>1, Prefixes
  <1>3. PICK j : Unfolds(g, b, r, n + 1, j)
    BY <1>1, Prefixes, Zenon
  <1>4. i[1 .. n] = j[1 .. n]
    BY <1>1, <1>2, <1>3, Same
  <1>5. Folded(g, b, s) = i[1 .. n] /\ Folded(g, b, r) = j[1 .. n + 1]
    <2>1. Folded(g, b, s) = i[1 .. n]
      BY <1>2, FoldedIs DEF n
    <2>2. Folded(g, b, r) = j[1 .. n + 1]
      BY <1>1, <1>3, FoldedIs
    <2> QED BY <2>1, <2>2
  <1>6. /\ 1 .. n + 1 # {} /\ 1 .. n + 1 \in SUBSET (1 .. n + 1)
        /\ Top(1 .. n + 1) = n + 1 /\ (1 .. n + 1) \ {n + 1} = 1 .. n
    <2>0. n \in Nat
      BY <1>1
    <2>1. n + 1 \in 1 .. n + 1 /\ (1 .. n + 1) \ {n + 1} = 1 .. n
      BY <2>0
    <2>2. Top(1 .. n + 1) = n + 1
      BY <2>0, TopIs
    <2> QED BY <2>1, <2>2
  <1>7. j[1 .. n + 1] = g[j[(1 .. n + 1) \ {Top(1 .. n + 1)}]][r[Top(1 .. n + 1)]]
    BY <1>3, <1>6, Zenon DEF Unfolds
  <1>8. Folded(g, b, r) = g[Folded(g, b, s)][x]
    BY <1>1, <1>4, <1>5, <1>6, <1>7, Zenon
  <1> QED BY <1>8 DEF r

LEMMA FoldedIn ==
  ASSUME NEW A, NEW X, NEW g \in [A -> [X -> A]], NEW b \in A
  PROVE  \A s \in Seq(X) : Folded(g, b, s) \in A
  <1> DEFINE S == {s \in Seq(X) : Folded(g, b, s) \in A}
  <1>1. << >> \in S
    BY FoldedEmpty
  <1>2. ASSUME NEW s \in Seq(X), NEW x \in X, s \in S PROVE Append(s, x) \in S
    <2>1. Folded(g, b, Append(s, x)) = g[Folded(g, b, s)][x]
      BY FoldedAppend
    <2> QED BY <1>2, <2>1
  <1>3. Seq(X) \subseteq S
    <2> HIDE DEF S
    <2> QED BY <1>1, <1>2, Growing
  <1> QED BY <1>3

LEMMA FoldedConcat ==
  ASSUME NEW g, NEW b, NEW X, NEW s \in Seq(X)
  PROVE  \A t \in Seq(X) : Folded(g, b, s \o t) = Folded(g, Folded(g, b, s), t)
  <1> DEFINE v == Folded(g, b, s)
             S == {t \in Seq(X) : Folded(g, b, s \o t) = Folded(g, v, t)}
  <1> HIDE DEF v
  <1>1. << >> \in S
    <2>1. s \o << >> = s /\ << >> \in Seq(X)
      OBVIOUS
    <2>2. Folded(g, v, << >>) = v
      BY FoldedEmpty
    <2> QED BY <2>1, <2>2 DEF v
  <1>2. ASSUME NEW t \in Seq(X), NEW x \in X, t \in S PROVE Append(t, x) \in S
    <2>1. s \o Append(t, x) = Append(s \o t, x) /\ s \o t \in Seq(X) /\ Append(t, x) \in Seq(X)
      OBVIOUS
    <2>2. Folded(g, b, Append(s \o t, x)) = g[Folded(g, b, s \o t)][x]
      <3> DEFINE r == s \o t
      <3>1. r \in Seq(X)
        BY <2>1
      <3> HIDE DEF r
      <3>2. Folded(g, b, Append(r, x)) = g[Folded(g, b, r)][x]
        BY <3>1, FoldedAppend
      <3> QED BY <3>2 DEF r
    <2>3. Folded(g, v, Append(t, x)) = g[Folded(g, v, t)][x]
      BY FoldedAppend
    <2> QED BY <1>2, <2>1, <2>2, <2>3
  <1>3. Seq(X) \subseteq S
    <2> HIDE DEF S
    <2> QED BY <1>1, <1>2, Growing
  <1> QED BY <1>3 DEF v

-----------------------------------------------------------------------------
(* Numerals, and what a parse answers.                                     *)
NumSeq == Seq(Numeral!Characters)
Answers == {Numeral!Invalid} \union {Numeral!Valid(n) : n \in Nat}

LEMMA ModulusIs == Numeral!Modulus \in Nat \ {0} /\ Numeral!UnsignedMax(NumeralBits) = Numeral!Modulus - 1
  <1>1. Numeral!UnsignedMax(NumeralBits) = Numeral!Modulus - 1
    BY DEF Numeral!UnsignedMax, Numeral!Modulus
  <1>2. Numeral!UnsignedMax(NumeralBits) = 2 * Numeral!SignedMax(NumeralBits) + 1 /\ Numeral!SignedMax(NumeralBits) \in Nat
    BY NumeralsAssumption
  <1> QED BY <1>1, <1>2, NumeralsAssumption

LEMMA AnswersAre ==
  /\ Numeral!Invalid.error # "NONE"
  /\ \A n \in Nat : Numeral!Valid(n).error = "NONE" /\ Numeral!Valid(n).value = n
  BY DEF Numeral!Invalid, Numeral!Valid

LEMMA DigitsAre ==
  /\ Numeral!Decimal \subseteq Numeral!Hexadecimal /\ Numeral!Hexadecimal \subseteq Numeral!Characters
  /\ \A c \in Numeral!Decimal : Numeral!Digit(c) \in 0 .. 9
  /\ \A c \in Numeral!Hexadecimal : Numeral!Digit(c) \in 0 .. 15
  <1> DEFINE F == Numeral!Figures
  <1>1. \A d \in 1 .. 10, e \in 11 .. 16 : F[d] \intersect F[e] = {}
    BY DEF Numeral!Figures
  <1> HIDE DEF F
  <1>2. ASSUME NEW c \in Numeral!Hexadecimal
        PROVE  Numeral!Digit(c) \in 0 .. 15 /\ c \in F[Numeral!Digit(c) + 1]
    <2>1. PICK k \in 1 .. 16 : c \in F[k]
      BY <1>2, Zenon DEF Numeral!Hexadecimal, F
    <2>2. k - 1 \in 0 .. 15 /\ c \in F[(k - 1) + 1]
      BY <2>1
    <2>3. \E d \in 0 .. 15 : c \in F[d + 1]
      BY <2>2, Zenon
    <2> QED BY <2>3, Zenon DEF Numeral!Digit, F
  <1>3. ASSUME NEW c \in Numeral!Decimal PROVE Numeral!Digit(c) \in 0 .. 9
    <2>1. PICK k \in 1 .. 10 : c \in F[k]
      BY <1>3, Zenon DEF Numeral!Decimal, F
    <2>2. c \in Numeral!Hexadecimal
      <3>1. k \in 1 .. 16
        OBVIOUS
      <3> QED BY <2>1, <3>1, Zenon DEF Numeral!Hexadecimal, F
    <2>3. Numeral!Digit(c) \in 0 .. 15 /\ c \in F[Numeral!Digit(c) + 1]
      BY <1>2, <2>2
    <2>4. Numeral!Digit(c) + 1 \notin 11 .. 16
      BY <1>1, <2>1, <2>3
    <2> QED BY <2>3, <2>4
  <1>4. Numeral!Decimal \subseteq Numeral!Hexadecimal
    <2>1. 1 .. 10 \subseteq 1 .. 16
      OBVIOUS
    <2> QED BY <2>1, Zenon DEF Numeral!Decimal, Numeral!Hexadecimal
  <1> QED BY <1>2, <1>3, <1>4 DEF Numeral!Characters

-----------------------------------------------------------------------------
(* The value of a numeral.                                                 *)
Grown(base) == [v \in Nat |-> [c \in Numeral!Hexadecimal |-> v * base + Numeral!Digit(c)]]

(* FoldLeft, as the module instantiates it, is the fold above; one lemma   *)
(* for each of the folds that are proved about.                            *)
ValueUnfolds(base, s, n, iter) ==
  iter = [t \in SUBSET (1 .. n) |-> IF t = {} THEN 0 ELSE iter[t \ {Top(t)}] * base + Numeral!Digit(s[Top(t)])]

LEMMA ValueFolds ==
  ASSUME NEW base \in Nat, NEW s \in Seq(Numeral!Hexadecimal)
  PROVE  Numeral!ValueOf(s, base) = Folded(Grown(base), 0, s)
  <1> DEFINE n == Len(s)
             X == Numeral!Hexadecimal
             g == Grown(base)
             i == CHOOSE iter : ValueUnfolds(base, s, n, iter)
  <1>1. n \in Nat /\ DOMAIN s = 1 .. n /\ Over(s, n, X)
    BY DEF Over
  <1>2. Numeral!ValueOf(s, base) = i[1 .. n]
    BY <1>1, Zenon DEF Numeral!ValueOf, Numeral!FoldLeft, Numeral!MapThenFoldSet, Numeral!Max, Top, ValueUnfolds
  <1>3. (\A v \in Nat, x \in X : g[v][x] = v * base + Numeral!Digit(x)) /\ Stays(g, Nat, X) /\ 0 \in Nat
    BY DigitsAre DEF Grown, Stays
  <1> HIDE DEF n, g, X
  <1>4. ValueUnfolds(base, s, n, i)
    <2>1. PICK j : Unfolds(g, 0, s, n, j)
      BY <1>1, Prefixes
    <2>2. Shaped(j, 0, n) /\ Turns(g, Nat, X, s, n, j)
      BY <1>1, <1>3, <2>1, Unfolded
    <2>3. ValueUnfolds(base, s, n, j)
      BY <1>3, <2>2, Zenon DEF ValueUnfolds, Shaped, Turns
    <2> QED BY <2>3, Zenon
  <1> HIDE DEF i
  <1>5. Unfolds(g, 0, s, n, i)
    <2>1. {} \in SUBSET (1 .. n)
      OBVIOUS
    <2>2. /\ Shaped(i, 0, n)
          /\ \A t \in SUBSET (1 .. n) : t # {} => i[t] = i[t \ {Top(t)}] * base + Numeral!Digit(s[Top(t)])
      BY <1>4, <2>1, Zenon DEF ValueUnfolds, Shaped
    <2>3. \A t \in SUBSET (1 .. n) :
            t # {} /\ i[t \ {Top(t)}] \in Nat /\ s[Top(t)] \in X => i[t] = g[i[t \ {Top(t)}]][s[Top(t)]]
      BY <1>3, <2>2, Zenon
    <2> QED BY <1>1, <1>3, <2>2, <2>3, Agrees
  <1>6. Unfolds(g, 0, s, Len(s), i) /\ Len(s) \in Nat
    BY <1>1, <1>5 DEF n
  <1>7. i[1 .. n] = Folded(g, 0, s)
    BY <1>6, FoldedIs DEF n
  <1> QED BY <1>2, <1>7 DEF g

(* With a digit more, a value grows.                                       *)
LEMMA ValueGrows ==
  ASSUME NEW base \in Nat
  PROVE  /\ Numeral!ValueOf(<< >>, base) = 0
         /\ \A s \in Seq(Numeral!Hexadecimal), c \in Numeral!Hexadecimal :
              /\ Numeral!ValueOf(s, base) \in Nat
              /\ Numeral!ValueOf(Append(s, c), base) = Numeral!ValueOf(s, base) * base + Numeral!Digit(c)
  <1> DEFINE X == Numeral!Hexadecimal
             g == Grown(base)
  <1>1. g \in [Nat -> [X -> Nat]] /\ \A v \in Nat, x \in X : g[v][x] = v * base + Numeral!Digit(x)
    BY DigitsAre DEF Grown
  <1>2. \A s \in Seq(X) : Numeral!ValueOf(s, base) = Folded(g, 0, s)
    BY ValueFolds
  <1>3. << >> \in Seq(X) /\ \A s \in Seq(X), c \in X : Append(s, c) \in Seq(X)
    OBVIOUS
  <1> HIDE DEF g, X
  <1>4. \A s \in Seq(X) : Folded(g, 0, s) \in Nat
    BY <1>1, FoldedIn
  <1>5. \A s \in Seq(X), c \in X : Folded(g, 0, Append(s, c)) = g[Folded(g, 0, s)][c]
    BY FoldedAppend
  <1>6. Folded(g, 0, << >>) = 0
    BY FoldedEmpty
  <1>7. \A s \in Seq(X), c \in X : Folded(g, 0, Append(s, c)) = Folded(g, 0, s) * base + Numeral!Digit(c)
    BY <1>1, <1>4, <1>5
  <1> QED BY <1>2, <1>3, <1>4, <1>6, <1>7 DEF X

-----------------------------------------------------------------------------
(* The parse of a decimal numeral.                                         *)
Bounded(max) == [p \in Answers |-> [c \in Numeral!Characters |-> Numeral!DecimalStep(p, c, max)]]

LEMMA DecimalTurn ==
  ASSUME NEW p \in Answers, NEW c \in Numeral!Characters, NEW max
  PROVE  Numeral!DecimalStep(p, c, max) \in Answers
  <1> DEFINE v == (p.value * 10 + Numeral!Digit(c)) % Numeral!Modulus
  <1>1. CASE p.error # "NONE" \/ c \notin Numeral!Decimal \/ v > max
    BY <1>1, Zenon DEF Numeral!DecimalStep, Answers
  <1>2. CASE ~(p.error # "NONE" \/ c \notin Numeral!Decimal \/ v > max)
    <2>1. p.value \in Nat
      BY <1>2, AnswersAre DEF Answers
    <2>2. Numeral!Digit(c) \in Nat
      BY <1>2, DigitsAre
    <2>3. v \in Nat
      BY <2>1, <2>2, ModulusIs
    <2>4. Numeral!DecimalStep(p, c, max) = Numeral!Valid(v)
      BY <1>2, Zenon DEF Numeral!DecimalStep
    <2> QED BY <2>3, <2>4 DEF Answers
  <1> QED BY <1>1, <1>2, Zenon

DecimalUnfolds(max, s, n, iter) ==
  iter = [t \in SUBSET (1 .. n) |->
            IF t = {} THEN Numeral!Valid(0) ELSE Numeral!DecimalStep(iter[t \ {Top(t)}], s[Top(t)], max)]

LEMMA DecimalFolds ==
  ASSUME NEW max, NEW s \in NumSeq, s # << >>
  PROVE  Numeral!ParseUnsigned(s, max) = Folded(Bounded(max), Numeral!Valid(0), s)
  <1> DEFINE n == Len(s)
             X == Numeral!Characters
             A == Answers
             b == Numeral!Valid(0)
             g == Bounded(max)
             i == CHOOSE iter : DecimalUnfolds(max, s, n, iter)
  <1>1. n \in Nat /\ DOMAIN s = 1 .. n /\ Over(s, n, X)
    BY DEF Over, NumSeq
  <1>2. Numeral!ParseUnsigned(s, max) = i[1 .. n]
    BY <1>1, Zenon DEF Numeral!ParseUnsigned, Numeral!NotEmpty, Numeral!FoldLeft, Numeral!MapThenFoldSet,
                       Numeral!Max, Top, DecimalUnfolds
  <1>3. (\A p \in A, x \in X : g[p][x] = Numeral!DecimalStep(p, x, max)) /\ Stays(g, A, X) /\ b \in A
    BY DecimalTurn DEF Bounded, Stays, Answers
  <1> HIDE DEF n, g, X, A, b
  <1>4. DecimalUnfolds(max, s, n, i)
    <2>1. PICK j : Unfolds(g, b, s, n, j)
      BY <1>1, Prefixes
    <2>2. Shaped(j, b, n) /\ Turns(g, A, X, s, n, j)
      BY <1>1, <1>3, <2>1, Unfolded
    <2>3. DecimalUnfolds(max, s, n, j)
      BY <1>3, <2>2, Zenon DEF DecimalUnfolds, Shaped, Turns, b
    <2> QED BY <2>3, Zenon
  <1> HIDE DEF i
  <1>5. Unfolds(g, b, s, n, i)
    <2>1. {} \in SUBSET (1 .. n)
      OBVIOUS
    <2>2. /\ Shaped(i, b, n)
          /\ \A t \in SUBSET (1 .. n) : t # {} => i[t] = Numeral!DecimalStep(i[t \ {Top(t)}], s[Top(t)], max)
      BY <1>4, <2>1, Zenon DEF DecimalUnfolds, Shaped, b
    <2>3. \A t \in SUBSET (1 .. n) :
            t # {} /\ i[t \ {Top(t)}] \in A /\ s[Top(t)] \in X => i[t] = g[i[t \ {Top(t)}]][s[Top(t)]]
      BY <1>3, <2>2, Zenon
    <2> QED BY <1>1, <1>3, <2>2, <2>3, Agrees
  <1>6. Unfolds(g, b, s, Len(s), i) /\ Len(s) \in Nat
    BY <1>1, <1>5 DEF n
  <1>7. i[1 .. n] = Folded(g, b, s)
    BY <1>6, FoldedIs DEF n
  <1> QED BY <1>2, <1>7 DEF g, b

LEMMA Extends ==
  ASSUME NEW D \in SUBSET Numeral!Characters, NEW s \in NumSeq
  PROVE  /\ Numeral!ToSet(s) \subseteq D <=> s \in Seq(D)
         /\ \A c \in Numeral!Characters : Append(s, c) \in Seq(D) <=> s \in Seq(D) /\ c \in D
  <1>1. s \in Seq(Numeral!Characters)
    BY DEF NumSeq
  <1>2. ASSUME Numeral!ToSet(s) \subseteq D PROVE s \in Seq(D)
    <2>1. \A k \in 1 .. Len(s) : s[k] \in D
      BY <1>1, <1>2 DEF Numeral!ToSet
    <2> QED BY <1>1, <2>1
  <1>3. ASSUME s \in Seq(D) PROVE Numeral!ToSet(s) \subseteq D
    BY <1>3 DEF Numeral!ToSet
  <1>4. ASSUME NEW c \in Numeral!Characters, Append(s, c) \in Seq(D) PROVE s \in Seq(D) /\ c \in D
    <2> DEFINE r == Append(s, c)
    <2>1. Len(r) = Len(s) + 1 /\ r[Len(s) + 1] = c /\ \A k \in 1 .. Len(s) : r[k] = s[k]
      BY <1>1
    <2>2. r \in Seq(D)
      BY <1>4
    <2> HIDE DEF r
    <2>3. \A k \in 1 .. Len(s) + 1 : r[k] \in D
      BY <1>1, <2>1, <2>2
    <2>4. \A k \in 1 .. Len(s) : s[k] \in D
      BY <1>1, <2>1, <2>3
    <2> QED BY <1>1, <2>1, <2>3, <2>4
  <1>5. ASSUME NEW c \in D, s \in Seq(D) PROVE Append(s, c) \in Seq(D)
    BY <1>5
  <1> QED BY <1>2, <1>3, <1>4, <1>5

(* What the parse has read is the value of the digits, while that is in    *)
(* the range: it grows with every digit, so that one out of it stays out.  *)
Read(D, base, max, s) ==
  IF s \in Seq(D) /\ Numeral!ValueOf(s, base) <= max THEN Numeral!Valid(Numeral!ValueOf(s, base)) ELSE Numeral!Invalid

LEMMA DecimalRead ==
  ASSUME NEW max \in Nat, 10 * max + 9 < Numeral!Modulus
  PROVE  \A s \in NumSeq : Folded(Bounded(max), Numeral!Valid(0), s) = Read(Numeral!Decimal, 10, max, s)
  <1> DEFINE X == Numeral!Characters
             D == Numeral!Decimal
             f(s) == Folded(Bounded(max), Numeral!Valid(0), s)
             V(s) == Numeral!ValueOf(s, 10)
             S == {s \in NumSeq : f(s) = Read(D, 10, max, s)}
  <1>1. << >> \in S
    <2>1. << >> \in NumSeq /\ << >> \in Seq(D)
      BY DEF NumSeq
    <2>2. V(<< >>) = 0
      BY ValueGrows
    <2>3. f(<< >>) = Numeral!Valid(0)
      BY FoldedEmpty
    <2> QED BY <2>1, <2>2, <2>3 DEF Read
  <1>2. ASSUME NEW s \in NumSeq, NEW c \in X, s \in S PROVE Append(s, c) \in S
    <2>1. f(Append(s, c)) = Bounded(max)[f(s)][c] /\ Append(s, c) \in NumSeq
      BY FoldedAppend DEF NumSeq
    <2>2. f(s) = Read(D, 10, max, s)
      BY <1>2
    <2>3. s \in Seq(D) => V(s) \in Nat /\ s \in Seq(Numeral!Hexadecimal)
      <3>1. s \in Seq(D) => s \in Seq(Numeral!Hexadecimal)
        BY DigitsAre
      <3> QED BY <3>1, ValueGrows, DigitsAre
    <2>4. f(s) \in Answers
      BY <2>2, <2>3 DEF Read, Answers
    <2>5. f(Append(s, c)) = Numeral!DecimalStep(f(s), c, max)
      BY <2>1, <2>4 DEF Bounded
    <2>6. s \in Seq(D) /\ c \in D => V(Append(s, c)) = V(s) * 10 + Numeral!Digit(c) /\ Numeral!Digit(c) \in 0 .. 9
      BY <2>3, ValueGrows, DigitsAre
    <2>7. Append(s, c) \in Seq(D) <=> s \in Seq(D) /\ c \in D
      BY Extends, DigitsAre
    <2> HIDE DEF V, f, S
    <2>8. CASE s \in Seq(D) /\ c \in D /\ V(s) <= max
      <3> DEFINE w == V(s) * 10 + Numeral!Digit(c)
      <3>1. w \in Nat /\ w < Numeral!Modulus
        BY <2>3, <2>6, <2>8, ModulusIs
      <3>2. w % Numeral!Modulus = w
        BY <3>1, ModulusIs
      <3>3. f(s) = Numeral!Valid(V(s))
        BY <2>2, <2>8 DEF Read, V
      <3>4. f(s).error = "NONE" /\ f(s).value = V(s)
        BY <2>3, <2>8, <3>3, AnswersAre
      <3> HIDE DEF w
      <3>5. f(Append(s, c)) = IF w > max THEN Numeral!Invalid ELSE Numeral!Valid(w)
        BY <2>5, <2>8, <3>2, <3>4 DEF Numeral!DecimalStep, w
      <3>6. V(Append(s, c)) = w
        BY <2>6, <2>8 DEF w
      <3>7. Append(s, c) \in Seq(D)
        BY <2>7, <2>8
      <3>8. f(Append(s, c)) = Read(D, 10, max, Append(s, c))
        BY <3>1, <3>5, <3>6, <3>7 DEF Read, V
      <3> QED BY <2>1, <3>8 DEF S, f
    <2>9. CASE ~(s \in Seq(D) /\ c \in D /\ V(s) <= max)
      <3>1. f(s).error # "NONE" \/ c \notin D
        BY <2>2, <2>9, AnswersAre DEF Read, V
      <3>2. f(Append(s, c)) = Numeral!Invalid
        BY <2>5, <3>1 DEF Numeral!DecimalStep
      <3>3. Append(s, c) \in Seq(D) => V(Append(s, c)) > max
        BY <2>3, <2>6, <2>7, <2>9
      <3>4. f(Append(s, c)) = Read(D, 10, max, Append(s, c))
        BY <2>3, <2>6, <2>7, <3>2, <3>3 DEF Read, V
      <3> QED BY <2>1, <3>4 DEF S, f
    <2> QED BY <2>8, <2>9
  <1>3. Seq(X) \subseteq S
    <2> HIDE DEF S, X
    <2> QED BY <1>1, <1>2, Growing DEF NumSeq, X
  <1> QED BY <1>3 DEF NumSeq

(* A numeral for the word itself is read as long as it fits.               *)
LEMMA WordRead ==
  \A s \in Seq(Numeral!Decimal) :
    Numeral!ValueOf(s, 10) < Numeral!Modulus =>
      Folded(Bounded(Numeral!Modulus - 1), Numeral!Valid(0), s) = Numeral!Valid(Numeral!ValueOf(s, 10))
  <1> DEFINE D == Numeral!Decimal
             m == Numeral!Modulus
             f(s) == Folded(Bounded(m - 1), Numeral!Valid(0), s)
             V(s) == Numeral!ValueOf(s, 10)
             S == {s \in Seq(D) : V(s) < m => f(s) = Numeral!Valid(V(s))}
  <1>1. << >> \in S
    <2>1. V(<< >>) = 0
      BY ValueGrows
    <2>2. f(<< >>) = Numeral!Valid(0)
      BY FoldedEmpty
    <2> QED BY <2>1, <2>2
  <1>2. ASSUME NEW s \in Seq(D), NEW c \in D, s \in S PROVE Append(s, c) \in S
    <2> DEFINE w == V(s) * 10 + Numeral!Digit(c)
    <2>1. s \in Seq(Numeral!Hexadecimal) /\ c \in Numeral!Hexadecimal /\ c \in Numeral!Characters
      BY DigitsAre
    <2>2. V(s) \in Nat /\ V(Append(s, c)) = w /\ Numeral!Digit(c) \in 0 .. 9
      BY <2>1, ValueGrows, DigitsAre
    <2>3. SUFFICES ASSUME w < m PROVE f(Append(s, c)) = Numeral!Valid(w)
      BY <2>2
    <2>4. V(s) < m /\ w \in Nat /\ w % m = w /\ ~(w > m - 1)
      <3>1. m \in Nat \ {0}
        BY ModulusIs
      <3> HIDE DEF V, m
      <3>2. V(s) < m /\ w \in Nat
        BY <2>2, <2>3, <3>1
      <3> HIDE DEF w
      <3> QED BY <2>3, <3>1, <3>2
    <2>5. f(s) = Numeral!Valid(V(s))
      BY <1>2, <2>4
    <2>6. f(Append(s, c)) = Bounded(m - 1)[f(s)][c]
      BY FoldedAppend
    <2>7. f(s) \in Answers /\ f(s).error = "NONE" /\ f(s).value = V(s)
      BY <2>2, <2>5, AnswersAre DEF Answers
    <2>8. f(Append(s, c)) = Numeral!DecimalStep(f(s), c, m - 1)
      BY <2>1, <2>6, <2>7 DEF Bounded
    <2> HIDE DEF w, V, f
    <2>9. (f(s).value * 10 + Numeral!Digit(c)) % Numeral!Modulus = w
      BY <2>4, <2>7 DEF w
    <2> QED BY <2>4, <2>7, <2>8, <2>9, Zenon DEF Numeral!DecimalStep
  <1>3. Seq(D) \subseteq S
    <2> HIDE DEF S, D
    <2> QED BY <1>1, <1>2, Growing
  <1> QED BY <1>3

-----------------------------------------------------------------------------
(* The parse of a hexadecimal numeral.                                     *)
Shifted == [p \in Answers |-> [c \in Numeral!Characters |-> Numeral!HexStep(p, c)]]

HexFold(s) == Numeral!FoldLeft(Numeral!HexStep, Numeral!Valid(0), s)

LEMMA HexTurn ==
  ASSUME NEW p \in Answers, NEW c \in Numeral!Characters
  PROVE  Numeral!HexStep(p, c) \in Answers
  <1> DEFINE stop == p.error # "NONE" \/ c \notin Numeral!Hexadecimal \/ p.value > Numeral!UnsignedMax(NumeralBits) \div 16
  <1>1. CASE stop
    BY <1>1, Zenon DEF Numeral!HexStep, Answers
  <1>2. CASE ~stop
    <2>1. p.value * 16 + Numeral!Digit(c) \in Nat
      BY <1>2, AnswersAre, DigitsAre DEF Answers
    <2>2. Numeral!HexStep(p, c) = Numeral!Valid(p.value * 16 + Numeral!Digit(c))
      BY <1>2, Zenon DEF Numeral!HexStep
    <2> QED BY <2>1, <2>2 DEF Answers
  <1> QED BY <1>1, <1>2, Zenon

HexUnfolds(s, n, iter) ==
  iter = [t \in SUBSET (1 .. n) |->
            IF t = {} THEN Numeral!Valid(0) ELSE Numeral!HexStep(iter[t \ {Top(t)}], s[Top(t)])]

LEMMA HexFolds ==
  ASSUME NEW s \in NumSeq
  PROVE  HexFold(s) = Folded(Shifted, Numeral!Valid(0), s)
  <1> DEFINE n == Len(s)
             X == Numeral!Characters
             A == Answers
             b == Numeral!Valid(0)
             g == Shifted
             i == CHOOSE iter : HexUnfolds(s, n, iter)
  <1>1. n \in Nat /\ DOMAIN s = 1 .. n /\ Over(s, n, X)
    BY DEF Over, NumSeq
  <1>2. HexFold(s) = i[1 .. n]
    BY <1>1, Zenon DEF HexFold, Numeral!FoldLeft, Numeral!MapThenFoldSet, Numeral!Max, Top, HexUnfolds
  <1>3. (\A p \in A, x \in X : g[p][x] = Numeral!HexStep(p, x)) /\ Stays(g, A, X) /\ b \in A
    BY HexTurn DEF Shifted, Stays, Answers
  <1> HIDE DEF n, g, X, A, b
  <1>4. HexUnfolds(s, n, i)
    <2>1. PICK j : Unfolds(g, b, s, n, j)
      BY <1>1, Prefixes
    <2>2. Shaped(j, b, n) /\ Turns(g, A, X, s, n, j)
      BY <1>1, <1>3, <2>1, Unfolded
    <2>3. HexUnfolds(s, n, j)
      BY <1>3, <2>2, Zenon DEF HexUnfolds, Shaped, Turns, b
    <2> QED BY <2>3, Zenon
  <1> HIDE DEF i
  <1>5. Unfolds(g, b, s, n, i)
    <2>1. {} \in SUBSET (1 .. n)
      OBVIOUS
    <2>2. /\ Shaped(i, b, n)
          /\ \A t \in SUBSET (1 .. n) : t # {} => i[t] = Numeral!HexStep(i[t \ {Top(t)}], s[Top(t)])
      BY <1>4, <2>1, Zenon DEF HexUnfolds, Shaped, b
    <2>3. \A t \in SUBSET (1 .. n) :
            t # {} /\ i[t \ {Top(t)}] \in A /\ s[Top(t)] \in X => i[t] = g[i[t \ {Top(t)}]][s[Top(t)]]
      BY <1>3, <2>2, Zenon
    <2> QED BY <1>1, <1>3, <2>2, <2>3, Agrees
  <1>6. Unfolds(g, b, s, Len(s), i) /\ Len(s) \in Nat
    BY <1>1, <1>5 DEF n
  <1>7. i[1 .. n] = Folded(g, b, s)
    BY <1>6, FoldedIs DEF n
  <1> QED BY <1>2, <1>7 DEF g, b

LEMMA HexRead ==
  \A s \in NumSeq :
    Folded(Shifted, Numeral!Valid(0), s) = Read(Numeral!Hexadecimal, 16, Numeral!UnsignedMax(NumeralBits), s)
  <1> DEFINE X == Numeral!Characters
             D == Numeral!Hexadecimal
             max == Numeral!UnsignedMax(NumeralBits)
             f(s) == Folded(Shifted, Numeral!Valid(0), s)
             V(s) == Numeral!ValueOf(s, 16)
             S == {s \in NumSeq : f(s) = Read(D, 16, max, s)}
  <1>0. max \in Nat /\ \A v \in Nat, d \in 0 .. 15 : v > max \div 16 <=> v * 16 + d > max
    <2> DEFINE k == Numeral!Modulus \div 16
    <2>1. k \in Nat /\ Numeral!Modulus = 16 * k /\ max = Numeral!Modulus - 1 /\ Numeral!Modulus > 0
      BY ModulusIs, NumeralsAssumption
    <2> HIDE DEF k
    <2>2. max \div 16 = k - 1
      BY <2>1
    <2> QED BY <2>1, <2>2
  <1>1. << >> \in S
    <2>1. << >> \in NumSeq /\ << >> \in Seq(D)
      BY DEF NumSeq
    <2>2. V(<< >>) = 0
      BY ValueGrows
    <2>3. f(<< >>) = Numeral!Valid(0)
      BY FoldedEmpty
    <2> QED BY <1>0, <2>1, <2>2, <2>3 DEF Read
  <1>2. ASSUME NEW s \in NumSeq, NEW c \in X, s \in S PROVE Append(s, c) \in S
    <2>1. f(Append(s, c)) = Shifted[f(s)][c] /\ Append(s, c) \in NumSeq
      BY FoldedAppend DEF NumSeq
    <2>2. f(s) = Read(D, 16, max, s)
      BY <1>2
    <2>3. s \in Seq(D) => V(s) \in Nat
      BY ValueGrows, DigitsAre
    <2>4. f(s) \in Answers
      BY <2>2, <2>3 DEF Read, Answers
    <2>5. f(Append(s, c)) = Numeral!HexStep(f(s), c)
      BY <2>1, <2>4 DEF Shifted
    <2>6. s \in Seq(D) /\ c \in D => V(Append(s, c)) = V(s) * 16 + Numeral!Digit(c) /\ Numeral!Digit(c) \in 0 .. 15
      BY <2>3, ValueGrows, DigitsAre
    <2>7. Append(s, c) \in Seq(D) <=> s \in Seq(D) /\ c \in D
      BY Extends, DigitsAre
    <2> HIDE DEF V, f, S, max
    <2>8. CASE s \in Seq(D) /\ c \in D /\ V(s) <= max
      <3> DEFINE w == V(s) * 16 + Numeral!Digit(c)
             d == Numeral!Digit(c)
      <3>1. w \in Nat /\ (V(s) > max \div 16 <=> w > max)
        <4>1. V(s) \in Nat /\ d \in 0 .. 15
          BY <2>3, <2>6, <2>8
        <4> HIDE DEF d
        <4>2. V(s) > max \div 16 <=> V(s) * 16 + d > max
          BY <1>0, <4>1
        <4> QED BY <4>1, <4>2 DEF d
      <3>3. f(s) = Numeral!Valid(V(s))
        BY <2>2, <2>8 DEF Read, V
      <3>4. f(s).error = "NONE" /\ f(s).value = V(s)
        BY <2>3, <2>8, <3>3, AnswersAre
      <3> HIDE DEF w
      <3>5. f(Append(s, c)) = IF w > max THEN Numeral!Invalid ELSE Numeral!Valid(w)
        BY <2>5, <2>8, <3>1, <3>4 DEF Numeral!HexStep, w, max
      <3>6. V(Append(s, c)) = w
        BY <2>6, <2>8 DEF w
      <3>7. Append(s, c) \in Seq(D)
        BY <2>7, <2>8
      <3>8. f(Append(s, c)) = Read(D, 16, max, Append(s, c))
        BY <1>0, <3>1, <3>5, <3>6, <3>7 DEF Read, V
      <3> QED BY <2>1, <3>8 DEF S, f
    <2>9. CASE ~(s \in Seq(D) /\ c \in D /\ V(s) <= max)
      <3>1. f(s).error # "NONE" \/ c \notin D
        BY <2>2, <2>9, AnswersAre DEF Read, V
      <3>2. f(Append(s, c)) = Numeral!Invalid
        BY <2>5, <3>1 DEF Numeral!HexStep
      <3>3. ASSUME Append(s, c) \in Seq(D) PROVE ~(V(Append(s, c)) <= max)
        <4>1. s \in Seq(D) /\ c \in D
          BY <2>7, <3>3
        <4>2. max \in Nat /\ V(s) \in Nat /\ V(s) > max
          BY <1>0, <2>3, <2>9, <4>1
        <4>3. V(Append(s, c)) = V(s) * 16 + Numeral!Digit(c) /\ Numeral!Digit(c) \in 0 .. 15
          BY <2>6, <4>1
        <4> DEFINE d == Numeral!Digit(c)
        <4> HIDE DEF d
        <4>4. ~(V(s) * 16 + d <= max)
          BY <4>2, <4>3 DEF d
        <4> QED BY <4>3, <4>4 DEF d
      <3>5. ~(Append(s, c) \in Seq(D) /\ V(Append(s, c)) <= max)
        BY <3>3
      <3>6. f(Append(s, c)) = Read(D, 16, max, Append(s, c))
        BY <3>2, <3>5, Zenon DEF Read, V
      <3> QED BY <2>1, <3>6 DEF S, f
    <2> QED BY <2>8, <2>9
  <1>3. Seq(X) \subseteq S
    <2> HIDE DEF S, X
    <2> QED BY <1>1, <1>2, Growing DEF NumSeq, X
  <1> QED BY <1>3 DEF NumSeq

-----------------------------------------------------------------------------
(* The parses of unsigned, signed and hexadecimal numerals answer what the *)
(* numeral means.                                                          *)
LEMMA UnsignedRead ==
  ASSUME NEW max \in Nat, 10 * max + 9 < Numeral!Modulus, NEW s \in NumSeq
  PROVE  Numeral!ParseUnsigned(s, max) = IF s = << >> THEN Numeral!Invalid ELSE Read(Numeral!Decimal, 10, max, s)
  <1>1. CASE s = << >>
    BY <1>1, Zenon DEF Numeral!ParseUnsigned, Numeral!NotEmpty
  <1>2. CASE s # << >>
    BY <1>2, DecimalFolds, DecimalRead
  <1> QED BY <1>1, <1>2

LEMMA MeantIs ==
  ASSUME NEW D, D \in {Numeral!Decimal, Numeral!Hexadecimal}, NEW base \in Nat, NEW max \in Nat, NEW s \in NumSeq
  PROVE  Numeral!Meant(s, D, base, 1, 0, max) = IF s = << >> THEN Numeral!Invalid ELSE Read(D, base, max, s)
  <1> DEFINE v == Numeral!ValueOf(s, base)
  <1>1. Numeral!IsNumeral(s, D) <=> s # << >> /\ s \in Seq(D)
    BY Extends, DigitsAre DEF Numeral!IsNumeral, Numeral!NotEmpty
  <1>2. s \in Seq(D) => v \in Nat
    <2>1. s \in Seq(D) => s \in Seq(Numeral!Hexadecimal)
      BY DigitsAre
    <2> QED BY <2>1, ValueGrows, DigitsAre
  <1> HIDE DEF v
  <1>3. s \in Seq(D) => 1 * v = v /\ (v \in 0 .. max <=> v <= max)
    BY <1>2
  <1> QED BY <1>1, <1>3 DEF Numeral!Meant, Read, v

LEMMA SignedRead ==
  ASSUME numeral \in NumSeq
  PROVE  Numeral!ParseSigned(numeral, NarrowBits)
           = Numeral!Meant(Numeral!Unsigned, Numeral!Decimal, 10, Numeral!Sign, Numeral!SignedMin(NarrowBits), Numeral!SignedMax(NarrowBits))
  <1> DEFINE D == Numeral!Decimal
             s == Numeral!Unsigned
             Largest == Numeral!SignedMax(NarrowBits)
             v == Numeral!ValueOf(s, 10)
             negative == Numeral!NotEmpty(numeral) /\ Head(numeral) = "-"
             max == IF negative THEN -Numeral!SignedMin(NarrowBits) ELSE Largest
             magnitude == Numeral!ParseUnsigned(s, max)
  <1>1. Largest \in Nat /\ Numeral!SignedMin(NarrowBits) = -Largest - 1 /\ 10 * (Largest + 1) + 9 < Numeral!Modulus
    BY NumeralsAssumption, ModulusIs
  <1>2. s \in NumSeq
    BY DEF Numeral!Unsigned, NumSeq, Numeral!NotEmpty
  <1>3. max \in Nat /\ 10 * max + 9 < Numeral!Modulus /\ max = IF negative THEN Largest + 1 ELSE Largest
    <2> HIDE DEF Largest, negative
    <2> QED BY <1>1, ModulusIs
  <1>4. magnitude = IF s = << >> THEN Numeral!Invalid ELSE Read(D, 10, max, s)
    <2> HIDE DEF max, s
    <2> QED BY <1>2, <1>3, UnsignedRead
  <1>5. Numeral!ParseSigned(numeral, NarrowBits) = IF negative /\ magnitude.error = "NONE" THEN Numeral!Valid(-magnitude.value) ELSE magnitude
    BY Zenon DEF Numeral!ParseSigned, Numeral!Unsigned
  <1>6. Numeral!IsNumeral(s, D) <=> s # << >> /\ s \in Seq(D)
    BY <1>2, Extends, DigitsAre DEF Numeral!IsNumeral, Numeral!NotEmpty
  <1>7. s \in Seq(D) => v \in Nat
    BY ValueGrows, DigitsAre
  <1>8. Numeral!Sign = IF negative THEN -1 ELSE 1
    BY DEF Numeral!Sign
  <1> DEFINE ok == s # << >> /\ s \in Seq(D) /\ v <= max
  <1>9. magnitude = IF ok THEN Numeral!Valid(v) ELSE Numeral!Invalid
    BY <1>4, Zenon DEF Read
  <1>10. s # << >> /\ s \in Seq(D) => (ok <=> Numeral!Sign * v \in Numeral!SignedMin(NarrowBits) .. Largest)
    <2> HIDE DEF v, Largest, max, s, negative
    <2>1. CASE negative
      <3>1. Numeral!Sign = -1 /\ max = Largest + 1
        BY <1>3, <1>8, <2>1
      <3> QED BY <1>1, <1>7, <3>1
    <2>2. CASE ~negative
      <3>1. Numeral!Sign = 1 /\ max = Largest
        BY <1>3, <1>8, <2>2
      <3> QED BY <1>1, <1>7, <3>1
    <2> QED BY <2>1, <2>2
  <1>11. Numeral!Meant(s, D, 10, Numeral!Sign, Numeral!SignedMin(NarrowBits), Largest)
           = IF ok THEN Numeral!Valid(Numeral!Sign * v) ELSE Numeral!Invalid
    <2> HIDE DEF Largest, s
    <2> QED BY <1>6, <1>10 DEF Numeral!Meant
  <1>12. ok => v \in Nat /\ Numeral!Sign * v = IF negative THEN -v ELSE v
    <2> HIDE DEF v, Largest, max, s, negative
    <2> QED BY <1>7, <1>8
  <1> HIDE DEF ok, v, Largest, max, s, D, negative, magnitude
  <1>13. CASE ok
    <2>1. magnitude.error = "NONE" /\ magnitude.value = v
      BY <1>9, <1>12, <1>13, AnswersAre
    <2>2. Numeral!ParseSigned(numeral, NarrowBits) = Numeral!Valid(Numeral!Sign * v)
      BY <1>5, <1>9, <1>12, <1>13, <2>1
    <2> QED BY <1>11, <1>13, <2>2 DEF s, D, Largest
  <1>14. CASE ~ok
    <2>1. magnitude.error # "NONE"
      BY <1>9, <1>14, AnswersAre
    <2>2. Numeral!ParseSigned(numeral, NarrowBits) = Numeral!Invalid
      BY <1>5, <1>9, <1>14, <2>1
    <2> QED BY <1>11, <1>14, <2>2 DEF s, D, Largest
  <1> QED BY <1>13, <1>14

LEMMA HexadecimalRead ==
  ASSUME numeral \in NumSeq, NEW max \in Nat, max <= Numeral!UnsignedMax(NumeralBits)
  PROVE  Numeral!ParseHex(numeral, max) = Numeral!Meant(Numeral!Unprefixed, Numeral!Hexadecimal, 16, 1, 0, max)
  <1> DEFINE D == Numeral!Hexadecimal
             s == Numeral!Unprefixed
             v == Numeral!ValueOf(s, 16)
             top == Numeral!UnsignedMax(NumeralBits)
  <1>1. ASSUME NEW x \in {"x", "X"}
        PROVE  Len(numeral) > 1 /\ numeral[1] = "0" /\ numeral[2] = x <=> Numeral!IsPrefix(<<"0", x>>, numeral)
    <2> DEFINE p == <<"0", x>>
    <2>1. Len(p) = 2 /\ p[1] = "0" /\ p[2] = x /\ SubSeq(p, 1, 2) = p
      <3>1. p \in Seq({"0", x}) /\ Len(p) = 2 /\ p[1] = "0" /\ p[2] = x
        OBVIOUS
      <3> HIDE DEF p
      <3>2. SubSeq(p, 1, 2) = p
        BY <3>1
      <3> QED BY <3>1, <3>2
    <2>2. numeral \in Seq(Numeral!Characters) /\ Len(numeral) \in Nat
      BY DEF NumSeq
    <2>3. ASSUME Len(numeral) > 1
          PROVE  SubSeq(numeral, 1, 2) = p <=> numeral[1] = "0" /\ numeral[2] = x
      <3> DEFINE r == SubSeq(numeral, 1, 2)
      <3>1. r \in Seq(Numeral!Characters) /\ Len(r) = 2 /\ r[1] = numeral[1] /\ r[2] = numeral[2]
        BY <2>2, <2>3
      <3>2. p \in Seq({"0", x})
        OBVIOUS
      <3> HIDE DEF r, p
      <3>3. ASSUME numeral[1] = "0", numeral[2] = x PROVE r = p
        <4>1. Len(r) = Len(p) /\ \A k \in 1 .. 2 : r[k] = p[k]
          BY <2>1, <3>1, <3>3
        <4> QED BY <2>1, <3>1, <3>2, <4>1
      <3> QED BY <2>1, <3>1, <3>3 DEF r
    <2> HIDE DEF p
    <2>4. Numeral!IsPrefix(p, numeral) <=> 2 <= Len(numeral) /\ SubSeq(p, 1, 2) = SubSeq(numeral, 1, 2)
      BY <2>1 DEF Numeral!IsPrefix
    <2> QED BY <2>1, <2>2, <2>3, <2>4 DEF p
  <1>2. s = IF Len(numeral) > 1 /\ numeral[1] = "0" /\ numeral[2] \in {"x", "X"} THEN SubSeq(numeral, 3, Len(numeral)) ELSE numeral
    <2>1. Len(numeral) > 1 /\ numeral[1] = "0" /\ numeral[2] \in {"x", "X"}
            <=> \E x \in {"x", "X"} : Numeral!IsPrefix(<<"0", x>>, numeral)
      BY <1>1
    <2> QED BY <2>1, Zenon DEF Numeral!Unprefixed
  <1>3. s \in NumSeq
    BY <1>2 DEF NumSeq
  <1> DEFINE parsed == HexFold(s)
  <1>4. Numeral!ParseHex(numeral, max) = IF s # << >> /\ parsed.error = "NONE" /\ parsed.value <= max
                                      THEN parsed ELSE Numeral!Invalid
    BY <1>2, Zenon DEF Numeral!ParseHex, HexFold, Numeral!NotEmpty
  <1>5. parsed = Read(D, 16, top, s)
    <2> HIDE DEF s
    <2> QED BY <1>3, HexFolds, HexRead
  <1>6. Numeral!Meant(s, D, 16, 1, 0, max) = IF s = << >> THEN Numeral!Invalid ELSE Read(D, 16, max, s)
    <2> HIDE DEF s
    <2> QED BY <1>3, MeantIs
  <1>7. top \in Nat /\ (s \in Seq(D) => v \in Nat)
    BY ModulusIs, ValueGrows
  <1> HIDE DEF s, parsed, D, top, v
  <1>8. CASE s \in Seq(D) /\ v <= top
    <2>1. parsed = Numeral!Valid(v) /\ parsed.error = "NONE" /\ parsed.value = v
      BY <1>5, <1>7, <1>8, AnswersAre DEF Read, v
    <2>2. Read(D, 16, max, s) = IF v <= max THEN Numeral!Valid(v) ELSE Numeral!Invalid
      BY <1>8, Zenon DEF Read, v
    <2> QED BY <1>4, <1>6, <2>1, <2>2 DEF s, D
  <1>9. CASE ~(s \in Seq(D) /\ v <= top)
    <2>1. parsed.error # "NONE"
      BY <1>5, <1>9, AnswersAre DEF Read, v
    <2>2. Read(D, 16, max, s) = Numeral!Invalid
      BY <1>7, <1>9 DEF Read, v, top
    <2> QED BY <1>4, <1>6, <2>1, <2>2 DEF s, D
  <1> QED BY <1>8, <1>9

LEMMA NumeralRead ==
  ASSUME numeral \in NumSeq
  PROVE  Numeral!NarrowExact
  <1> DEFINE U(b) == Numeral!UnsignedMax(b)
             Largest(b) == Numeral!SignedMax(b)
  <1>1. U(NarrowBits) \in Nat /\ 10 * U(NarrowBits) + 9 < Numeral!Modulus
    BY NumeralsAssumption
  <1>2. U(NumeralBits) \in Nat /\ U(NumeralBits) = Numeral!Modulus - 1
    BY ModulusIs
  <1>3. Numeral!ParseUnsigned(numeral, U(NarrowBits)) = Numeral!Meant(numeral, Numeral!Decimal, 10, 1, 0, U(NarrowBits))
    BY <1>1, UnsignedRead, MeantIs
  <1>4. ASSUME NEW max \in {U(b) : b \in {NarrowBits, NumeralBits}} \union {Largest(b) : b \in {NarrowBits, NumeralBits}}
        PROVE  Numeral!ParseHex(numeral, max) = Numeral!Meant(Numeral!Unprefixed, Numeral!Hexadecimal, 16, 1, 0, max)
    <2>1. max \in Nat /\ max <= U(NumeralBits)
      <3>1. \A b \in {NarrowBits, NumeralBits} : Largest(b) \in Nat /\ U(b) = 2 * Largest(b) + 1
        BY NumeralsAssumption
      <3>2. max \in {U(NarrowBits), U(NumeralBits), Largest(NarrowBits), Largest(NumeralBits)}
        OBVIOUS
      <3>3. Largest(NarrowBits) \in Nat /\ U(NarrowBits) = 2 * Largest(NarrowBits) + 1 /\ Largest(NumeralBits) \in Nat /\ U(NumeralBits) = 2 * Largest(NumeralBits) + 1
        BY <3>1
      <3> HIDE DEF U, Largest
      <3>4. U(NarrowBits) <= U(NumeralBits) /\ Largest(NarrowBits) <= U(NarrowBits) /\ Largest(NumeralBits) <= U(NumeralBits)
        BY <1>1, <1>2, <3>3, ModulusIs
      <3> QED BY <1>1, <1>2, <3>2, <3>3, <3>4
    <2> QED BY <2>1, HexadecimalRead
  <1>5. ASSUME Numeral!IsNumeral(numeral, Numeral!Decimal), Numeral!ValueOf(numeral, 10) < Numeral!Modulus
        PROVE  Numeral!ParseUnsigned(numeral, U(NumeralBits)) = Numeral!Valid(Numeral!ValueOf(numeral, 10))
    <2>1. numeral # << >> /\ numeral \in Seq(Numeral!Decimal)
      BY <1>5, Extends, DigitsAre DEF Numeral!IsNumeral, Numeral!NotEmpty
    <2>2. Numeral!ParseUnsigned(numeral, U(NumeralBits)) = Folded(Bounded(U(NumeralBits)), Numeral!Valid(0), numeral)
      BY <2>1, DecimalFolds
    <2> QED BY <1>2, <1>5, <2>1, <2>2, WordRead
  <1> QED BY <1>3, <1>4, <1>5, SignedRead, Zenon DEF Numeral!NarrowExact

(* NarrowExact: a decimal numeral is read as its value or refused, for the *)
(* types narrower than the word, as is a hexadecimal one for every type,   *)
(* however long it is; so is a decimal one for the word while it fits.     *)
THEOREM NumeralsRead == Numeral!Spec => []Numeral!NarrowExact
  <1> DEFINE Inv == numeral \in NumSeq
  <1>1. Numeral!Init => Inv
    BY DEF Numeral!Init, NumSeq
  <1>2. Inv /\ [Numeral!Next]_numeral => Inv'
    <2>1. NumeralTyped \subseteq Numeral!Characters
      BY NumeralsAssumption
    <2> QED BY <2>1 DEF Numeral!Next, NumSeq
  <1>3. Inv => Numeral!NarrowExact
    BY NumeralRead
  <1> QED BY <1>1, <1>2, <1>3, PTL DEF Numeral!Spec

-----------------------------------------------------------------------------
(* The command line. Texts are arguments, and what is read of them.        *)
Letters == Arguments!Characters
Texts == Seq(Letters)

LEMMA LettersAre ==
  /\ Letters = {"a", Arguments!Blank, Arguments!Slash, Arguments!Quote}
  /\ Arguments!Blank # Arguments!Slash /\ Arguments!Blank # Arguments!Quote /\ Arguments!Slash # Arguments!Quote
  /\ "a" \notin {Arguments!Blank, Arguments!Slash, Arguments!Quote}
  BY DEF Letters, Arguments!Characters, Arguments!Blank, Arguments!Slash, Arguments!Quote

LEMMA SlashesAre ==
  ASSUME NEW n \in Nat
  PROVE  /\ Arguments!Slashes(n) \in Texts /\ Len(Arguments!Slashes(n)) = n
         /\ Arguments!Slashes(n + 1) = Append(Arguments!Slashes(n), Arguments!Slash)
  <1>1. Arguments!Slash \in Letters
    BY LettersAre
  <1> QED BY <1>1 DEF Arguments!Slashes, Texts

(* The states of the parser.                                               *)
Parser == [args : Seq(Texts), argument : Texts, held : Nat, begun : BOOLEAN, quoted : BOOLEAN]

LEMMA ParseIs ==
  ASSUME NEW as \in Seq(Texts), NEW a \in Texts, NEW h \in Nat, NEW b \in BOOLEAN, NEW q \in BOOLEAN
  PROVE  /\ Arguments!Parse(as, a, h, b, q) \in Parser
         /\ Arguments!Parse(as, a, h, b, q).args = as /\ Arguments!Parse(as, a, h, b, q).argument = a
         /\ Arguments!Parse(as, a, h, b, q).held = h /\ Arguments!Parse(as, a, h, b, q).begun = b
         /\ Arguments!Parse(as, a, h, b, q).quoted = q
  BY DEF Arguments!Parse, Parser

LEMMA ParserIs ==
  ASSUME NEW p \in Parser
  PROVE  /\ p.args \in Seq(Texts) /\ p.argument \in Texts /\ p.held \in Nat /\ p.begun \in BOOLEAN /\ p.quoted \in BOOLEAN
         /\ p = Arguments!Parse(p.args, p.argument, p.held, p.begun, p.quoted)
  BY DEF Parser, Arguments!Parse

LEMMA Held ==
  ASSUME NEW p \in Parser
  PROVE  Arguments!ParseStep(p, Arguments!Slash) = Arguments!Parse(p.args, p.argument, p.held + 1, TRUE, p.quoted)
  BY LettersAre DEF Arguments!ParseStep

LEMMA QuoteRead ==
  ASSUME NEW p \in Parser
  PROVE  Arguments!ParseStep(p, Arguments!Quote) =
           IF p.held % 2 = 1
             THEN Arguments!Parse(p.args, Append(p.argument \o Arguments!Slashes(p.held \div 2), Arguments!Quote), 0, TRUE, p.quoted)
             ELSE Arguments!Parse(p.args, p.argument \o Arguments!Slashes(p.held \div 2), 0, TRUE, ~p.quoted)
  BY LettersAre, Zenon DEF Arguments!ParseStep

LEMMA Split ==
  ASSUME NEW p \in Parser, ~p.quoted
  PROVE  Arguments!ParseStep(p, Arguments!Blank) =
           Arguments!Parse(IF p.begun THEN Append(p.args, Arguments!Flushed(p)) ELSE p.args, << >>, 0, FALSE, FALSE)
  BY LettersAre, Zenon DEF Arguments!ParseStep

LEMMA Kept ==
  ASSUME NEW p \in Parser, NEW c, c \notin {Arguments!Slash, Arguments!Quote}, c = Arguments!Blank => p.quoted
  PROVE  Arguments!ParseStep(p, c) = Arguments!Parse(p.args, Append(Arguments!Flushed(p), c), 0, TRUE, p.quoted)
  BY LettersAre, Zenon DEF Arguments!ParseStep

LEMMA FlushedIs ==
  ASSUME NEW p \in Parser
  PROVE  /\ Arguments!Flushed(p) = p.argument \o Arguments!Slashes(p.held)
         /\ Arguments!Flushed(p) \in Texts
  <1>1. p.argument \in Texts /\ p.held \in Nat
    BY ParserIs
  <1>2. Arguments!Slashes(p.held) \in Texts
    BY <1>1, SlashesAre
  <1> QED BY <1>1, <1>2 DEF Texts, Arguments!Flushed

LEMMA ParseTurn ==
  ASSUME NEW p \in Parser, NEW c \in Letters
  PROVE  Arguments!ParseStep(p, c) \in Parser
  <1>0. p.args \in Seq(Texts) /\ p.argument \in Texts /\ p.held \in Nat /\ p.begun \in BOOLEAN /\ p.quoted \in BOOLEAN
    BY ParserIs
  <1>1. CASE c = Arguments!Slash
    <2>1. p.held + 1 \in Nat /\ TRUE \in BOOLEAN
      BY <1>0
    <2>2. Arguments!Parse(p.args, p.argument, p.held + 1, TRUE, p.quoted) \in Parser
      BY <1>0, <2>1, ParseIs
    <2> QED BY <1>1, <2>2, Held
  <1>2. CASE c = Arguments!Quote
    <2> DEFINE t == p.argument \o Arguments!Slashes(p.held \div 2)
    <2>1. p.held \div 2 \in Nat
      BY <1>0
    <2>2. Arguments!Slashes(p.held \div 2) \in Texts
      BY <2>1, SlashesAre
    <2>3. t \in Texts /\ Append(t, Arguments!Quote) \in Texts
      BY <1>0, <2>2, LettersAre DEF Texts
    <2> HIDE DEF t
    <2>4. /\ Arguments!Parse(p.args, Append(t, Arguments!Quote), 0, TRUE, p.quoted) \in Parser
          /\ Arguments!Parse(p.args, t, 0, TRUE, ~p.quoted) \in Parser
      <3>1. (~p.quoted) \in BOOLEAN
        <4> DEFINE q == p.quoted
        <4>1. q \in BOOLEAN
          BY <1>0
        <4> HIDE DEF q
        <4>2. (~q) \in BOOLEAN
          BY <4>1
        <4> QED BY <4>2 DEF q
      <3> QED BY <1>0, <2>3, <3>1, ParseIs
    <2> QED BY <1>2, <2>4, QuoteRead, Zenon DEF t
  <1>3. CASE c = Arguments!Blank /\ ~p.quoted
    <2> DEFINE as == IF p.begun THEN Append(p.args, Arguments!Flushed(p)) ELSE p.args
    <2>0. Arguments!Flushed(p) \in Texts
      BY FlushedIs
    <2>1. as \in Seq(Texts)
      BY <1>0, <2>0
    <2>2. << >> \in Texts
      BY DEF Texts
    <2> HIDE DEF as
    <2>3. Arguments!Parse(as, << >>, 0, FALSE, FALSE) \in Parser
      BY <2>1, <2>2, ParseIs
    <2> QED BY <1>3, <2>3, Split DEF as
  <1>4. CASE c \notin {Arguments!Slash, Arguments!Quote} /\ (c = Arguments!Blank => p.quoted)
    <2>0. Arguments!Flushed(p) \in Texts
      BY FlushedIs
    <2>1. Append(Arguments!Flushed(p), c) \in Texts
      BY <2>0 DEF Texts
    <2>2. Arguments!Parse(p.args, Append(Arguments!Flushed(p), c), 0, TRUE, p.quoted) \in Parser
      BY <1>0, <2>1, ParseIs
    <2> QED BY <1>4, <2>2, Kept
  <1> QED BY <1>1, <1>2, <1>3, <1>4

-----------------------------------------------------------------------------
(* The parser reads a line character by character.                         *)
Start == Arguments!Parse(<< >>, << >>, 0, FALSE, FALSE)
Reads == [p \in Parser |-> [c \in Letters |-> Arguments!ParseStep(p, c)]]
ParseFold(s) == Arguments!FoldLeft(Arguments!ParseStep, Start, s)

LEMMA StartIs == Start \in Parser
  <1>1. << >> \in Seq(Texts) /\ << >> \in Texts /\ 0 \in Nat /\ FALSE \in BOOLEAN
    BY DEF Texts
  <1> QED BY <1>1, ParseIs DEF Start

ParseUnfolds(s, n, iter) ==
  iter = [t \in SUBSET (1 .. n) |-> IF t = {} THEN Start ELSE Arguments!ParseStep(iter[t \ {Top(t)}], s[Top(t)])]

LEMMA ParseFolds ==
  ASSUME NEW s \in Seq(Letters)
  PROVE  ParseFold(s) = Folded(Reads, Start, s)
  <1> DEFINE n == Len(s)
             X == Letters
             A == Parser
             b == Start
             g == Reads
             i == CHOOSE iter : ParseUnfolds(s, n, iter)
  <1>1. n \in Nat /\ DOMAIN s = 1 .. n /\ Over(s, n, X)
    BY DEF Over
  <1>2. ParseFold(s) = i[1 .. n]
    BY <1>1, Zenon DEF ParseFold, Arguments!FoldLeft, Arguments!MapThenFoldSet, Arguments!Max, Top, ParseUnfolds
  <1>3. (\A p \in A, x \in X : g[p][x] = Arguments!ParseStep(p, x)) /\ Stays(g, A, X) /\ b \in A
    BY ParseTurn, StartIs DEF Reads, Stays
  <1> HIDE DEF n, g, X, A, b
  <1>4. ParseUnfolds(s, n, i)
    <2>1. PICK j : Unfolds(g, b, s, n, j)
      BY <1>1, Prefixes
    <2>2. Shaped(j, b, n) /\ Turns(g, A, X, s, n, j)
      BY <1>1, <1>3, <2>1, Unfolded
    <2>3. ParseUnfolds(s, n, j)
      BY <1>3, <2>2, Zenon DEF ParseUnfolds, Shaped, Turns, b
    <2> QED BY <2>3, Zenon
  <1> HIDE DEF i
  <1>5. Unfolds(g, b, s, n, i)
    <2>1. {} \in SUBSET (1 .. n)
      OBVIOUS
    <2>2. /\ Shaped(i, b, n)
          /\ \A t \in SUBSET (1 .. n) : t # {} => i[t] = Arguments!ParseStep(i[t \ {Top(t)}], s[Top(t)])
      BY <1>4, <2>1, Zenon DEF ParseUnfolds, Shaped, b
    <2>3. \A t \in SUBSET (1 .. n) :
            t # {} /\ i[t \ {Top(t)}] \in A /\ s[Top(t)] \in X => i[t] = g[i[t \ {Top(t)}]][s[Top(t)]]
      BY <1>3, <2>2, Zenon
    <2> QED BY <1>1, <1>3, <2>2, <2>3, Agrees
  <1>6. Unfolds(g, b, s, Len(s), i) /\ Len(s) \in Nat
    BY <1>1, <1>5 DEF n
  <1>7. i[1 .. n] = Folded(g, b, s)
    BY <1>6, FoldedIs DEF n
  <1> QED BY <1>2, <1>7 DEF g, b

-----------------------------------------------------------------------------
(* An argument that needs quotes is written character by character.        *)
Escaped == [out : Texts, held : Nat]
Opened == [out |-> <<Arguments!Quote>>, held |-> 0]
Escapes == [l \in Escaped |-> [c \in Letters |-> Arguments!Escape(c, l)]]
EscapeFold(s) == Arguments!FoldLeft(LAMBDA l, c : Arguments!Escape(c, l), Opened, s)

LEMMA OpenedIs == Opened \in Escaped
  <1>1. <<Arguments!Quote>> \in Texts
    BY LettersAre DEF Texts
  <1> QED BY <1>1 DEF Opened, Escaped

LEMMA EscapeIs ==
  ASSUME NEW l \in Escaped, NEW c \in Letters
  PROVE  Arguments!Escape(c, l) =
           IF c = Arguments!Slash THEN [out |-> l.out, held |-> l.held + 1]
           ELSE IF c = Arguments!Quote
             THEN [out |-> l.out \o Arguments!Slashes(2 * l.held + 1) \o <<Arguments!Quote>>, held |-> 0]
             ELSE [out |-> l.out \o Arguments!Slashes(l.held) \o <<c>>, held |-> 0]
  <1>1. CASE c = Arguments!Slash
    BY <1>1, LettersAre DEF Arguments!Escape
  <1>2. CASE c = Arguments!Quote
    BY <1>2, LettersAre DEF Arguments!Escape
  <1>3. CASE c # Arguments!Slash /\ c # Arguments!Quote
    BY <1>3, LettersAre DEF Arguments!Escape
  <1> QED BY <1>1, <1>2, <1>3

LEMMA EscapeTurn ==
  ASSUME NEW l \in Escaped, NEW c \in Letters
  PROVE  Arguments!Escape(c, l) \in Escaped
  <1>0. l.out \in Texts /\ l.held \in Nat /\ l.held + 1 \in Nat /\ 2 * l.held + 1 \in Nat
    BY DEF Escaped
  <1>1. Arguments!Slashes(l.held) \in Texts /\ Arguments!Slashes(2 * l.held + 1) \in Texts
    BY <1>0, SlashesAre
  <1>2. /\ l.out \o Arguments!Slashes(2 * l.held + 1) \o <<Arguments!Quote>> \in Texts
        /\ l.out \o Arguments!Slashes(l.held) \o <<c>> \in Texts
    BY <1>0, <1>1, LettersAre DEF Texts
  <1>3. /\ [out |-> l.out, held |-> l.held + 1] \in Escaped
        /\ [out |-> l.out \o Arguments!Slashes(2 * l.held + 1) \o <<Arguments!Quote>>, held |-> 0] \in Escaped
        /\ [out |-> l.out \o Arguments!Slashes(l.held) \o <<c>>, held |-> 0] \in Escaped
    BY <1>0, <1>2 DEF Escaped
  <1> QED BY <1>3, EscapeIs, Zenon

EscapeUnfolds(s, n, iter) ==
  iter = [t \in SUBSET (1 .. n) |-> IF t = {} THEN Opened ELSE Arguments!Escape(s[Top(t)], iter[t \ {Top(t)}])]

LEMMA EscapeFolds ==
  ASSUME NEW s \in Seq(Letters)
  PROVE  EscapeFold(s) = Folded(Escapes, Opened, s)
  <1> DEFINE n == Len(s)
             X == Letters
             A == Escaped
             b == Opened
             g == Escapes
             i == CHOOSE iter : EscapeUnfolds(s, n, iter)
  <1>1. n \in Nat /\ DOMAIN s = 1 .. n /\ Over(s, n, X)
    BY DEF Over
  <1>2. EscapeFold(s) = i[1 .. n]
    BY <1>1, Zenon DEF EscapeFold, Arguments!FoldLeft, Arguments!MapThenFoldSet, Arguments!Max, Top, EscapeUnfolds
  <1>3. (\A p \in A, x \in X : g[p][x] = Arguments!Escape(x, p)) /\ Stays(g, A, X) /\ b \in A
    BY EscapeTurn, OpenedIs DEF Escapes, Stays
  <1> HIDE DEF n, g, X, A, b
  <1>4. EscapeUnfolds(s, n, i)
    <2>1. PICK j : Unfolds(g, b, s, n, j)
      BY <1>1, Prefixes
    <2>2. Shaped(j, b, n) /\ Turns(g, A, X, s, n, j)
      BY <1>1, <1>3, <2>1, Unfolded
    <2>3. EscapeUnfolds(s, n, j)
      BY <1>3, <2>2, Zenon DEF EscapeUnfolds, Shaped, Turns, b
    <2> QED BY <2>3, Zenon
  <1> HIDE DEF i
  <1>5. Unfolds(g, b, s, n, i)
    <2>1. {} \in SUBSET (1 .. n)
      OBVIOUS
    <2>2. /\ Shaped(i, b, n)
          /\ \A t \in SUBSET (1 .. n) : t # {} => i[t] = Arguments!Escape(s[Top(t)], i[t \ {Top(t)}])
      BY <1>4, <2>1, Zenon DEF EscapeUnfolds, Shaped, b
    <2>3. \A t \in SUBSET (1 .. n) :
            t # {} /\ i[t \ {Top(t)}] \in A /\ s[Top(t)] \in X => i[t] = g[i[t \ {Top(t)}]][s[Top(t)]]
      BY <1>3, <2>2, Zenon
    <2> QED BY <1>1, <1>3, <2>2, <2>3, Agrees
  <1>6. Unfolds(g, b, s, Len(s), i) /\ Len(s) \in Nat
    BY <1>1, <1>5 DEF n
  <1>7. i[1 .. n] = Folded(g, b, s)
    BY <1>6, FoldedIs DEF n
  <1> QED BY <1>2, <1>7 DEF g, b

-----------------------------------------------------------------------------
(* What the parser does with a character, and with backslashes, of which   *)
(* it only counts how many it holds.                                       *)
LEMMA ReadOne ==
  ASSUME NEW p \in Parser, NEW s \in Texts
  PROVE  /\ Folded(Reads, p, << >>) = p
         /\ Folded(Reads, p, s) \in Parser
         /\ \A c \in Letters : Folded(Reads, p, Append(s, c)) = Arguments!ParseStep(Folded(Reads, p, s), c)
         /\ \A t \in Texts : Folded(Reads, p, s \o t) = Folded(Reads, Folded(Reads, p, s), t)
  <1>1. Reads \in [Parser -> [Letters -> Parser]] /\ \A q \in Parser, c \in Letters : Reads[q][c] = Arguments!ParseStep(q, c)
    BY ParseTurn DEF Reads
  <1>2. s \in Seq(Letters)
    BY DEF Texts
  <1>3. Folded(Reads, p, s) \in Parser
    BY <1>1, <1>2, FoldedIn
  <1>4. \A c \in Letters : Folded(Reads, p, Append(s, c)) = Reads[Folded(Reads, p, s)][c]
    BY <1>2, FoldedAppend
  <1>5. \A t \in Texts : Folded(Reads, p, s \o t) = Folded(Reads, Folded(Reads, p, s), t)
    BY <1>2, FoldedConcat DEF Texts
  <1>6. Folded(Reads, p, << >>) = p
    BY FoldedEmpty
  <1> QED BY <1>1, <1>3, <1>4, <1>5, <1>6

LEMMA ReadSlashes ==
  ASSUME NEW p \in Parser, p.begun = TRUE
  PROVE  \A n \in Nat :
           Folded(Reads, p, Arguments!Slashes(n)) = Arguments!Parse(p.args, p.argument, p.held + n, TRUE, p.quoted)
  <1> DEFINE f(n) == Folded(Reads, p, Arguments!Slashes(n))
             q(n) == Arguments!Parse(p.args, p.argument, p.held + n, TRUE, p.quoted)
             S == {n \in Nat : f(n) = q(n)}
  <1>0. /\ p.args \in Seq(Texts) /\ p.argument \in Texts /\ p.held \in Nat /\ p.begun \in BOOLEAN /\ p.quoted \in BOOLEAN
        /\ p = Arguments!Parse(p.args, p.argument, p.held, p.begun, p.quoted)
    BY ParserIs
  <1>1. 0 \in S
    <2>1. Arguments!Slashes(0) = << >>
      BY SlashesAre DEF Arguments!Slashes
    <2>2. << >> \in Texts
      BY DEF Texts
    <2>3. f(0) = p
      BY <2>1, <2>2, ReadOne
    <2>4. p.held + 0 = p.held
      BY <1>0
    <2>5. q(0) = p
      BY <1>0, <2>4
    <2> QED BY <2>3, <2>5
  <1>2. ASSUME NEW n \in Nat, n \in S PROVE n + 1 \in S
    <2>1. Arguments!Slashes(n) \in Texts /\ Arguments!Slashes(n + 1) = Append(Arguments!Slashes(n), Arguments!Slash)
      BY SlashesAre
    <2>2. f(n + 1) = Arguments!ParseStep(f(n), Arguments!Slash)
      <3> DEFINE s == Arguments!Slashes(n)
      <3>1. s \in Texts /\ Arguments!Slash \in Letters
        BY <2>1, LettersAre
      <3> HIDE DEF s
      <3>2. Folded(Reads, p, Append(s, Arguments!Slash)) = Arguments!ParseStep(Folded(Reads, p, s), Arguments!Slash)
        BY <3>1, ReadOne
      <3> QED BY <2>1, <3>2 DEF s
    <2>3. f(n) = q(n)
      BY <1>2
    <2>4. p.held + n \in Nat /\ p.held + n + 1 = p.held + (n + 1) /\ TRUE \in BOOLEAN
      BY <1>0
    <2>5. /\ q(n) \in Parser /\ q(n).args = p.args /\ q(n).argument = p.argument
          /\ q(n).held = p.held + n /\ q(n).quoted = p.quoted
      BY <1>0, <2>4 DEF Arguments!Parse, Parser
    <2>6. Arguments!ParseStep(q(n), Arguments!Slash) = q(n + 1)
      BY <2>4, <2>5, Held
    <2>7. f(n + 1) = q(n + 1)
      BY <2>2, <2>3, <2>6, Zenon
    <2> HIDE DEF f, q
    <2>8. n + 1 \in Nat
      OBVIOUS
    <2> QED BY <2>7, <2>8
  <1>3. Nat \subseteq S
    <2> HIDE DEF S
    <2> QED BY <1>1, <1>2, Induction
  <1> QED BY <1>3

(* Between two arguments.                                                  *)
Between(as) == Arguments!Parse(as, << >>, 0, FALSE, FALSE)

LEMMA BetweenIs ==
  ASSUME NEW as \in Seq(Texts)
  PROVE  /\ Between(as) \in Parser /\ Between(as).args = as /\ Between(as).argument = << >>
         /\ Between(as).held = 0 /\ Between(as).begun = FALSE /\ Between(as).quoted = FALSE
  <1>1. << >> \in Texts /\ 0 \in Nat /\ FALSE \in BOOLEAN
    BY DEF Texts
  <1> QED BY <1>1 DEF Between, Arguments!Parse, Parser

(* An argument that needs no quotes is read as it stands.                  *)
LEMMA Bare ==
  ASSUME NEW as \in Seq(Texts)
  PROVE  \A a \in Seq(Letters \ {Arguments!Blank, Arguments!Quote}) :
           LET p == Folded(Reads, Between(as), a)
           IN  p.args = as /\ p.quoted = FALSE /\ Arguments!Flushed(p) = a /\ (a # << >> => p.begun = TRUE)
  <1> DEFINE X == Letters \ {Arguments!Blank, Arguments!Quote}
             f(a) == Folded(Reads, Between(as), a)
             S == {a \in Seq(X) : /\ f(a).args = as /\ f(a).quoted = FALSE /\ Arguments!Flushed(f(a)) = a
                                  /\ (a # << >> => f(a).begun = TRUE)}
  <1>0. Between(as) \in Parser /\ \A a \in Seq(X) : a \in Texts
    <2>1. \A a \in Seq(X) : a \in Seq(Letters)
      OBVIOUS
    <2> QED BY <2>1, BetweenIs DEF Texts
  <1>1. << >> \in S
    <2>1. << >> \in Texts /\ << >> \in Seq(X) /\ << >> \o << >> = << >>
      BY DEF Texts
    <2>2. f(<< >>) = Between(as)
      BY <1>0, <2>1, ReadOne
    <2>3. Arguments!Slashes(0) = << >>
      BY DEF Arguments!Slashes
    <2>4. Arguments!Flushed(Between(as)) = << >>
      BY <2>1, <2>3, BetweenIs DEF Arguments!Flushed
    <2> HIDE DEF f
    <2> QED BY <2>1, <2>2, <2>4, BetweenIs
  <1>2. ASSUME NEW a \in Seq(X), NEW c \in X, a \in S PROVE Append(a, c) \in S
    <2>1. a \in Texts /\ c \in Letters /\ Append(a, c) \in Seq(X)
      BY <1>0
    <2>2. f(a) \in Parser /\ f(Append(a, c)) = Arguments!ParseStep(f(a), c)
      BY <1>0, <2>1, ReadOne
    <2> HIDE DEF f
    <2>3. /\ f(a).args = as /\ f(a).quoted = FALSE /\ Arguments!Flushed(f(a)) = a
          /\ f(a).argument \in Texts /\ f(a).held \in Nat
      BY <1>2, <2>2, ParserIs
    <2>4. Append(a, c) # << >>
      BY <2>1
    <2>5. CASE c = Arguments!Slash
      <3> DEFINE q == Arguments!Parse(as, f(a).argument, f(a).held + 1, TRUE, FALSE)
      <3>1. f(Append(a, c)) = q
        BY <2>2, <2>3, <2>5, Held
      <3>2. f(a).held + 1 \in Nat /\ TRUE \in BOOLEAN /\ FALSE \in BOOLEAN
        BY <2>3
      <3>3. q.args = as /\ q.quoted = FALSE /\ q.begun = TRUE /\ q.argument = f(a).argument /\ q.held = f(a).held + 1
        BY <2>3, <3>2 DEF Arguments!Parse
      <3> HIDE DEF q
      <3>4. Arguments!Flushed(q) = f(a).argument \o Append(Arguments!Slashes(f(a).held), Arguments!Slash)
        BY <2>3, <3>3, SlashesAre DEF Arguments!Flushed
      <3>5. a = f(a).argument \o Arguments!Slashes(f(a).held)
        BY <2>2, <2>3, FlushedIs
      <3>6. f(a).argument \o Append(Arguments!Slashes(f(a).held), Arguments!Slash) =
              Append(f(a).argument \o Arguments!Slashes(f(a).held), Arguments!Slash)
        <4>1. f(a).argument \in Seq(Letters) /\ Arguments!Slashes(f(a).held) \in Seq(Letters) /\ Arguments!Slash \in Letters
          BY <2>3, SlashesAre, LettersAre DEF Texts
        <4> DEFINE u == f(a).argument
                   w == Arguments!Slashes(f(a).held)
        <4>2. u \in Seq(Letters) /\ w \in Seq(Letters) /\ Arguments!Slash \in Letters
          BY <4>1
        <4> HIDE DEF u, w
        <4>3. u \o Append(w, Arguments!Slash) = Append(u \o w, Arguments!Slash)
          BY <4>2
        <4> QED BY <4>3 DEF u, w
      <3>7. Arguments!Flushed(q) = Append(a, c)
        BY <2>5, <3>4, <3>5, <3>6
      <3> QED BY <2>1, <3>1, <3>3, <3>7
    <2>6. CASE c # Arguments!Slash
      <3> DEFINE q == Arguments!Parse(as, Append(a, c), 0, TRUE, FALSE)
      <3>1. f(Append(a, c)) = q
        BY <2>2, <2>3, <2>6, Kept
      <3>2. 0 \in Nat /\ TRUE \in BOOLEAN /\ FALSE \in BOOLEAN /\ Append(a, c) \in Texts
        BY <1>0, <2>1
      <3>3. q.args = as /\ q.quoted = FALSE /\ q.begun = TRUE /\ q.argument = Append(a, c) /\ q.held = 0
        BY <3>2 DEF Arguments!Parse
      <3> HIDE DEF q
      <3>4. Arguments!Slashes(0) = << >>
        BY DEF Arguments!Slashes
      <3>5. Append(a, c) \o << >> = Append(a, c)
        BY <2>1
      <3>6. Arguments!Flushed(q) = Append(a, c)
        BY <3>3, <3>4, <3>5 DEF Arguments!Flushed
      <3> QED BY <2>1, <3>1, <3>3, <3>6
    <2> QED BY <2>5, <2>6
  <1>3. Seq(X) \subseteq S
    <2> HIDE DEF S, X
    <2> QED BY <1>1, <1>2, Growing
  <1> QED BY <1>3

-----------------------------------------------------------------------------
(* Inside quotes, with what has been read and the backslashes held back.   *)
Inside(as, w, h) == Arguments!Parse(as, w, h, TRUE, TRUE)

LEMMA InsideIs ==
  ASSUME NEW as \in Seq(Texts), NEW w \in Texts, NEW h \in Nat
  PROVE  /\ Inside(as, w, h) \in Parser /\ Inside(as, w, h).args = as /\ Inside(as, w, h).argument = w
         /\ Inside(as, w, h).held = h /\ Inside(as, w, h).begun = TRUE /\ Inside(as, w, h).quoted = TRUE
  BY DEF Inside, Arguments!Parse, Parser

Wrote(s, k, c) == s \o Arguments!Slashes(k) \o <<c>>
ReadTo(p, s, as, w) == Folded(Reads, p, s) = Inside(as, w, 0)

(* Backslashes and a character are read after what the parser has read.    *)
LEMMA ReadEscaped ==
  ASSUME NEW p \in Parser, NEW s \in Texts, NEW as \in Seq(Texts), NEW w \in Texts,
         ReadTo(p, s, as, w), NEW k \in Nat, NEW c \in Letters
  PROVE  /\ Wrote(s, k, c) \in Texts
         /\ Folded(Reads, p, Wrote(s, k, c)) = Arguments!ParseStep(Inside(as, w, k), c)
  <1> DEFINE r == Arguments!Slashes(k)
             q == Inside(as, w, 0)
  <1>1. r \in Texts
    BY SlashesAre
  <1>2. s \o r \in Texts /\ s \o r \o <<c>> \in Texts /\ s \o r \o <<c>> = Append(s \o r, c)
    <2>1. s \in Seq(Letters) /\ r \in Seq(Letters)
      BY <1>1 DEF Texts
    <2> HIDE DEF r
    <2> DEFINE t == s \o r
    <2>2. t \in Seq(Letters)
      BY <2>1
    <2> HIDE DEF t
    <2>3. t \o <<c>> = Append(t, c) /\ t \o <<c>> \in Seq(Letters)
      BY <2>2
    <2> QED BY <2>2, <2>3 DEF t, Texts
  <1>3. q \in Parser /\ q.args = as /\ q.argument = w /\ q.held = 0 /\ q.begun = TRUE /\ q.quoted = TRUE
    BY DEF Inside, Arguments!Parse, Parser
  <1> HIDE DEF q
  <1>4. Folded(Reads, q, r) = Arguments!Parse(as, w, 0 + k, TRUE, TRUE)
    BY <1>3, ReadSlashes
  <1>5. Folded(Reads, q, r) = Inside(as, w, k)
    <2>1. 0 + k = k
      OBVIOUS
    <2> QED BY <1>4, <2>1 DEF Inside
  <1> HIDE DEF r
  <1>6. Folded(Reads, p, s \o r) = Folded(Reads, Folded(Reads, p, s), r)
    BY <1>1, ReadOne
  <1>7. Folded(Reads, p, Append(s \o r, c)) = Arguments!ParseStep(Folded(Reads, p, s \o r), c)
    BY <1>2, ReadOne
  <1> QED BY <1>2, <1>5, <1>6, <1>7 DEF q, r, ReadTo, Wrote

LEMMA Halves ==
  ASSUME NEW h \in Nat
  PROVE  /\ 2 * h \in Nat /\ 2 * h + 1 \in Nat
         /\ (2 * h) \div 2 = h /\ (2 * h) % 2 # 1
         /\ (2 * h + 1) \div 2 = h /\ (2 * h + 1) % 2 = 1
  OBVIOUS

LEMMA ReadBetween ==
  ASSUME NEW s \in Texts, NEW as \in Seq(Texts), NEW w \in Texts, ReadTo(Between(as), s, as, w)
  PROVE  \A k \in Nat, d \in Letters :
           Folded(Reads, Between(as), Wrote(s, k, d)) = Arguments!ParseStep(Inside(as, w, k), d)
  <1>1. Between(as) \in Parser
    BY BetweenIs
  <1> QED BY <1>1, ReadEscaped

(* What the escapes have written is read as what they have taken.          *)
Carried(as, a) ==
  LET l == Folded(Escapes, Opened, a)
  IN  /\ l \in Escaped
      /\ \E w \in Texts : /\ Folded(Reads, Between(as), l.out) = Inside(as, w, 0)
                          /\ w \o Arguments!Slashes(l.held) = a

LEMMA CarriedFirst ==
  ASSUME NEW as \in Seq(Texts)
  PROVE  Carried(as, << >>)
  <1>1. Folded(Escapes, Opened, << >>) = Opened
    BY FoldedEmpty
  <1>2. Between(as) \in Parser /\ << >> \in Texts /\ Arguments!Quote \in Letters
    <2>1. << >> \in Texts
      BY DEF Texts
    <2> QED BY <2>1, BetweenIs, LettersAre
  <1>3. Folded(Reads, Between(as), Append(<< >>, Arguments!Quote))
          = Arguments!ParseStep(Folded(Reads, Between(as), << >>), Arguments!Quote)
    BY <1>2, ReadOne
  <1>4. Folded(Reads, Between(as), << >>) = Between(as)
    BY <1>2, ReadOne
  <1>5. Arguments!ParseStep(Between(as), Arguments!Quote) = Inside(as, << >>, 0)
    <2>1. /\ Between(as).args = as /\ Between(as).argument = << >> /\ Between(as).held = 0
          /\ (~Between(as).quoted) = TRUE
      BY BetweenIs
    <2>2. 0 % 2 # 1 /\ 0 \div 2 = 0
      OBVIOUS
    <2>3. << >> \o Arguments!Slashes(0) = << >>
      <3>1. Arguments!Slashes(0) = << >>
        BY DEF Arguments!Slashes
      <3> QED BY <3>1
    <2> QED BY <1>2, <2>1, <2>2, <2>3, QuoteRead, Zenon DEF Inside
  <1>6. Opened.out = Append(<< >>, Arguments!Quote) /\ Opened.held = 0 /\ Opened \in Escaped
    BY OpenedIs DEF Opened
  <1>7. << >> \o Arguments!Slashes(0) = << >>
    <2>1. Arguments!Slashes(0) = << >>
      BY DEF Arguments!Slashes
    <2> QED BY <2>1
  <1> QED BY <1>1, <1>2, <1>3, <1>4, <1>5, <1>6, <1>7, Zenon DEF Carried

LEMMA EscapeOne ==
  ASSUME NEW a \in Texts, NEW c \in Letters, Folded(Escapes, Opened, a) \in Escaped
  PROVE  Folded(Escapes, Opened, Append(a, c)) = Arguments!Escape(c, Folded(Escapes, Opened, a))
  <1>1. Folded(Escapes, Opened, Append(a, c)) = Escapes[Folded(Escapes, Opened, a)][c]
    BY FoldedAppend DEF Texts
  <1>2. \A l \in Escaped : Escapes[l][c] = Arguments!Escape(c, l)
    BY DEF Escapes
  <1> QED BY <1>1, <1>2

LEMMA CarriedNext ==
  ASSUME NEW as \in Seq(Texts), NEW a \in Texts, Carried(as, a), NEW c \in Letters
  PROVE  Carried(as, Append(a, c))
  <1> DEFINE l == Folded(Escapes, Opened, a)
             r == Folded(Escapes, Opened, Append(a, c))
             f(s) == Folded(Reads, Between(as), s)
  <1>1. PICK w \in Texts : f(l.out) = Inside(as, w, 0) /\ w \o Arguments!Slashes(l.held) = a
    BY Zenon DEF Carried
  <1>2. l \in Escaped
    BY Zenon DEF Carried
  <1>3. l.out \in Texts /\ l.held \in Nat
    BY <1>2 DEF Escaped
  <1>4. r = Arguments!Escape(c, l)
    BY <1>2, EscapeOne
  <1>5. r \in Escaped
    BY <1>2, <1>4, EscapeTurn
  <1>6. Between(as) \in Parser
    BY BetweenIs
  <1> HIDE DEF l, r
  <1>7. \A k \in Nat, d \in Letters :
          f(Wrote(l.out, k, d)) = Arguments!ParseStep(Inside(as, w, k), d)
    <2> DEFINE s == l.out
    <2>1. s \in Texts /\ ReadTo(Between(as), s, as, w)
      BY <1>1, <1>3 DEF ReadTo
    <2> HIDE DEF s
    <2> QED BY <2>1, ReadBetween DEF s
  <1> DEFINE g == \E v \in Texts : f(r.out) = Inside(as, v, 0) /\ v \o Arguments!Slashes(r.held) = Append(a, c)
  <1>8. ASSUME c = Arguments!Slash PROVE g
    <2>1. r.out = l.out /\ r.held = l.held + 1
      <3>1. r = [out |-> l.out, held |-> l.held + 1]
        BY <1>2, <1>4, <1>8, EscapeIs, Zenon
      <3> QED BY <3>1
    <2>2. w \o Arguments!Slashes(l.held + 1) = Append(a, c)
      <3> DEFINE u == Arguments!Slashes(l.held)
      <3>1. u \in Seq(Letters) /\ Arguments!Slashes(l.held + 1) = Append(u, c) /\ w \in Seq(Letters) /\ w \o u = a
        BY <1>1, <1>3, <1>8, SlashesAre DEF Texts
      <3> HIDE DEF u
      <3>2. w \o Append(u, c) = Append(w \o u, c)
        BY <3>1
      <3> QED BY <3>1, <3>2
    <2>3. f(r.out) = Inside(as, w, 0) /\ w \o Arguments!Slashes(r.held) = Append(a, c)
      BY <1>1, <2>1, <2>2
    <2> QED BY <2>3, Zenon
  <1>9. ASSUME c = Arguments!Quote PROVE g
    <2> DEFINE h == l.held
               q == Inside(as, w, 2 * h + 1)
    <2>0. h \in Nat
      BY <1>3
    <2>1. r.out = l.out \o Arguments!Slashes(2 * h + 1) \o <<c>> /\ r.held = 0
      <3>1. r = [out |-> l.out \o Arguments!Slashes(2 * h + 1) \o <<c>>, held |-> 0]
        BY <1>2, <1>4, <1>9, LettersAre, EscapeIs, Zenon
      <3> QED BY <3>1
    <2> HIDE DEF h
    <2>2. 2 * h + 1 \in Nat /\ (2 * h + 1) \div 2 = h /\ (2 * h + 1) % 2 = 1
      BY <2>0, Halves
    <2>3. /\ q \in Parser /\ q.args = as /\ q.argument = w /\ q.held = 2 * h + 1 /\ q.begun = TRUE /\ q.quoted = TRUE
      BY <2>2 DEF Inside, Arguments!Parse, Parser
    <2>4. f(r.out) = Arguments!ParseStep(q, c)
      BY <1>7, <2>1, <2>2 DEF Wrote
    <2> HIDE DEF q, f
    <2>5. Arguments!ParseStep(q, c) = Inside(as, Append(w \o Arguments!Slashes(h), Arguments!Quote), 0)
      BY <1>9, <2>2, <2>3, QuoteRead DEF Inside
    <2>6. w \o Arguments!Slashes(h) = a
      BY <1>1 DEF h
    <2>7. Append(a, c) \in Texts /\ Append(a, c) \o Arguments!Slashes(0) = Append(a, c)
      <3>1. Arguments!Slashes(0) = << >>
        BY DEF Arguments!Slashes
      <3>2. Append(a, c) \in Seq(Letters)
        BY DEF Texts
      <3>3. Append(a, c) \o << >> = Append(a, c)
        BY <3>2
      <3> QED BY <3>1, <3>2, <3>3 DEF Texts
    <2>8. f(r.out) = Inside(as, Append(a, c), 0) /\ Append(a, c) \o Arguments!Slashes(r.held) = Append(a, c)
      BY <1>9, <2>1, <2>4, <2>5, <2>6, <2>7
    <2> QED BY <2>7, <2>8, Zenon
  <1>10. ASSUME c # Arguments!Slash, c # Arguments!Quote PROVE g
    <2> DEFINE h == l.held
               q == Inside(as, w, h)
    <2>0. h \in Nat
      BY <1>3
    <2>1. r.out = l.out \o Arguments!Slashes(h) \o <<c>> /\ r.held = 0
      <3>1. r = [out |-> l.out \o Arguments!Slashes(h) \o <<c>>, held |-> 0]
        BY <1>2, <1>4, <1>10, EscapeIs, Zenon
      <3> QED BY <3>1
    <2> HIDE DEF h
    <2>3. /\ q \in Parser /\ q.args = as /\ q.argument = w /\ q.held = h /\ q.begun = TRUE /\ q.quoted = TRUE
      BY <2>0 DEF Inside, Arguments!Parse, Parser
    <2>4. f(r.out) = Arguments!ParseStep(q, c)
      BY <1>7, <2>0, <2>1 DEF Wrote
    <2> HIDE DEF q, f
    <2>5. Arguments!ParseStep(q, c) = Inside(as, Append(Arguments!Flushed(q), c), 0)
      BY <1>10, <2>3, Kept DEF Inside
    <2>6. Arguments!Flushed(q) = a
      BY <1>1, <2>3 DEF h, Arguments!Flushed
    <2>7. Append(a, c) \in Texts /\ Append(a, c) \o Arguments!Slashes(0) = Append(a, c)
      <3>1. Arguments!Slashes(0) = << >>
        BY DEF Arguments!Slashes
      <3>2. Append(a, c) \in Seq(Letters)
        BY DEF Texts
      <3>3. Append(a, c) \o << >> = Append(a, c)
        BY <3>2
      <3> QED BY <3>1, <3>2, <3>3 DEF Texts
    <2>8. f(r.out) = Inside(as, Append(a, c), 0) /\ Append(a, c) \o Arguments!Slashes(r.held) = Append(a, c)
      BY <2>1, <2>4, <2>5, <2>6, <2>7
    <2> QED BY <2>7, <2>8, Zenon
  <1>11. g
    BY <1>8, <1>9, <1>10
  <1> QED BY <1>5, <1>11, Zenon DEF Carried, r

LEMMA CarriedAll ==
  ASSUME NEW as \in Seq(Texts)
  PROVE  \A a \in Texts : Carried(as, a)
  <1> DEFINE S == {a \in Texts : Carried(as, a)}
  <1>1. << >> \in S
    <2>1. << >> \in Texts
      BY DEF Texts
    <2> QED BY <2>1, CarriedFirst
  <1>2. ASSUME NEW a \in Texts, NEW c \in Letters, a \in S PROVE Append(a, c) \in S
    <2>1. Carried(as, Append(a, c))
      BY <1>2, CarriedNext
    <2> QED BY <2>1 DEF Texts
  <1>3. Seq(Letters) \subseteq S
    <2> HIDE DEF S
    <2> QED BY <1>1, <1>2, Growing DEF Texts
  <1> QED BY <1>3 DEF Texts

-----------------------------------------------------------------------------
(* The blank behind an argument ends it.                                   *)
LEMMA Finish ==
  ASSUME NEW as \in Seq(Texts), NEW a \in Texts, NEW q \in Parser,
         q.args = as, q.begun = TRUE, q.quoted = FALSE, Arguments!Flushed(q) = a
  PROVE  Arguments!ParseStep(q, Arguments!Blank) = Between(Append(as, a))
  <1>1. ~q.quoted /\ q.begun
    OBVIOUS
  <1>2. Arguments!ParseStep(q, Arguments!Blank)
          = Arguments!Parse(IF q.begun THEN Append(q.args, Arguments!Flushed(q)) ELSE q.args, << >>, 0, FALSE, FALSE)
    BY <1>1, Split
  <1> QED BY <1>1, <1>2, Zenon DEF Between

LEMMA ArgumentRead ==
  ASSUME NEW as \in Seq(Texts), NEW a \in Texts
  PROVE  /\ Arguments!Argument(a) \in Texts
         /\ Folded(Reads, Between(as), Append(Arguments!Argument(a), Arguments!Blank)) = Between(Append(as, a))
  <1> DEFINE r == Arguments!Argument(a)
             q == Folded(Reads, Between(as), r)
  <1>1. Between(as) \in Parser /\ Arguments!Blank \in Letters
    BY BetweenIs, LettersAre
  <1>2. SUFFICES r \in Texts /\ q.args = as /\ q.begun = TRUE /\ q.quoted = FALSE /\ Arguments!Flushed(q) = a
    <2> HIDE DEF r
    <2>1. q \in Parser /\ Folded(Reads, Between(as), Append(r, Arguments!Blank)) = Arguments!ParseStep(q, Arguments!Blank)
      BY <1>1, <1>2, ReadOne
    <2> HIDE DEF q
    <2>2. Arguments!ParseStep(q, Arguments!Blank) = Between(Append(as, a))
      BY <1>2, <2>1, Finish
    <2> QED BY <1>2, <2>1, <2>2 DEF r
  <1>3. CASE Arguments!NeedsQuotes(a)
    <2> DEFINE l == Folded(Escapes, Opened, a)
               h == l.held
    <2>1. r = l.out \o Arguments!Slashes(2 * h) \o <<Arguments!Quote>>
      <3>1. EscapeFold(a) = l
        BY EscapeFolds DEF Texts
      <3>2. r = Arguments!Closed(EscapeFold(a))
        BY <1>3, Zenon DEF Arguments!Argument, EscapeFold, Opened
      <3> QED BY <3>1, <3>2, Zenon DEF Arguments!Closed
    <2>2. Carried(as, a)
      BY CarriedAll
    <2>3. PICK w \in Texts : Folded(Reads, Between(as), l.out) = Inside(as, w, 0) /\ w \o Arguments!Slashes(h) = a
      BY <2>2, Zenon DEF Carried
    <2>4. l \in Escaped
      BY <2>2, Zenon DEF Carried
    <2>5. l.out \in Texts /\ h \in Nat
      BY <2>4 DEF Escaped
    <2> HIDE DEF l
    <2>6. ReadTo(Between(as), l.out, as, w)
      BY <2>3 DEF ReadTo
    <2> DEFINE s == l.out
               i == Inside(as, w, 2 * h)
    <2>7. 2 * h \in Nat /\ (2 * h) \div 2 = h /\ (2 * h) % 2 # 1
      BY <2>5, Halves
    <2>8. s \in Texts /\ ReadTo(Between(as), s, as, w) /\ Arguments!Quote \in Letters
      BY <2>5, <2>6, LettersAre
    <2> HIDE DEF s, h
    <2>9. Wrote(s, 2 * h, Arguments!Quote) \in Texts
      BY <1>1, <2>7, <2>8, ReadEscaped
    <2>10. Folded(Reads, Between(as), Wrote(s, 2 * h, Arguments!Quote)) = Arguments!ParseStep(i, Arguments!Quote)
      BY <2>7, <2>8, ReadBetween
    <2>11. r = Wrote(s, 2 * h, Arguments!Quote)
      BY <2>1 DEF Wrote, s
    <2>12. i \in Parser /\ i.args = as /\ i.argument = w /\ i.held = 2 * h /\ i.begun = TRUE /\ i.quoted = TRUE
      BY <2>7 DEF Inside, Arguments!Parse, Parser
    <2> HIDE DEF i
    <2>13. (~i.quoted) = FALSE
      BY <2>12
    <2>14. Arguments!ParseStep(i, Arguments!Quote) = Arguments!Parse(as, a, 0, TRUE, FALSE)
      BY <2>3, <2>7, <2>12, <2>13, QuoteRead, Zenon
    <2>15. q = Arguments!Parse(as, a, 0, TRUE, FALSE)
      BY <2>10, <2>11, <2>14
    <2>16. q.args = as /\ q.begun = TRUE /\ q.quoted = FALSE /\ q.argument = a /\ q.held = 0
      BY <2>15 DEF Arguments!Parse
    <2>17. a \o Arguments!Slashes(0) = a
      <3>1. Arguments!Slashes(0) = << >> /\ a \in Seq(Letters)
        BY DEF Arguments!Slashes, Texts
      <3> QED BY <3>1
    <2> QED BY <2>9, <2>11, <2>16, <2>17 DEF Arguments!Flushed
  <1>4. CASE ~Arguments!NeedsQuotes(a)
    <2>1. r = a
      BY <1>4, Zenon DEF Arguments!Argument
    <2>2. a # << >> /\ a \in Seq(Letters \ {Arguments!Blank, Arguments!Quote})
      <3> DEFINE X == Letters \ {Arguments!Blank, Arguments!Quote}
      <3>1. a # << >> /\ \A i \in DOMAIN a : a[i] \notin {Arguments!Blank, Arguments!Quote}
        BY <1>4, Zenon DEF Arguments!NeedsQuotes
      <3>0. a \in Seq(Letters)
        BY DEF Texts
      <3>2. \A i \in DOMAIN a : a[i] \in X
        BY <3>0, <3>1
      <3> HIDE DEF X
      <3>3. a \in Seq(X)
        BY <3>0, <3>2, Narrowed
      <3> QED BY <3>1, <3>3 DEF X
    <2>3. LET p == Folded(Reads, Between(as), a)
          IN  p.args = as /\ p.quoted = FALSE /\ Arguments!Flushed(p) = a /\ p.begun = TRUE
      BY <2>2, Bare
    <2> QED BY <2>1, <2>3, Zenon
  <1> QED BY <1>3, <1>4

-----------------------------------------------------------------------------
(* The line is built argument by argument, and read so.                    *)
Joins == [l \in Texts |-> [a \in Texts |-> l \o <<Arguments!Blank>> \o Arguments!Argument(a)]]
LineFold(first, s) == Arguments!FoldLeft(LAMBDA l, a : l \o <<Arguments!Blank>> \o Arguments!Argument(a), first, s)

LEMMA AppendConcat ==
  ASSUME NEW X, NEW u \in Seq(X), NEW w \in Seq(X), NEW x \in X
  PROVE  u \o w \in Seq(X) /\ u \o Append(w, x) = Append(u \o w, x)
  OBVIOUS

LEMMA JoinTurn ==
  ASSUME NEW l \in Texts, NEW a \in Texts
  PROVE  /\ l \o <<Arguments!Blank>> \o Arguments!Argument(a) \in Texts
         /\ Append(l \o <<Arguments!Blank>> \o Arguments!Argument(a), Arguments!Blank)
              = Append(l, Arguments!Blank) \o Append(Arguments!Argument(a), Arguments!Blank)
  <1> DEFINE r == Arguments!Argument(a)
  <1>1. r \in Texts
    <2>1. << >> \in Seq(Texts)
      OBVIOUS
    <2> QED BY <2>1, ArgumentRead
  <1>2. l \in Seq(Letters) /\ r \in Seq(Letters) /\ Arguments!Blank \in Letters
    BY <1>1, LettersAre DEF Texts
  <1> HIDE DEF r
  <1> DEFINE m == Append(l, Arguments!Blank)
  <1>3. m \in Seq(Letters) /\ l \o <<Arguments!Blank>> = m
    BY <1>2
  <1> HIDE DEF m
  <1>4. m \o r \in Seq(Letters) /\ Append(m \o r, Arguments!Blank) = m \o Append(r, Arguments!Blank)
    <2> DEFINE x == Arguments!Blank
    <2>1. x \in Letters /\ m \in Seq(Letters) /\ r \in Seq(Letters)
      BY <1>2, <1>3
    <2> HIDE DEF x
    <2>2. m \o r \in Seq(Letters) /\ m \o Append(r, x) = Append(m \o r, x)
      BY <2>1
    <2> QED BY <2>2 DEF x
  <1> QED BY <1>3, <1>4 DEF r, m, Texts

LineUnfolds(first, s, n, iter) ==
  iter = [t \in SUBSET (1 .. n) |->
            IF t = {} THEN first ELSE iter[t \ {Top(t)}] \o <<Arguments!Blank>> \o Arguments!Argument(s[Top(t)])]

LEMMA LineFolds ==
  ASSUME NEW first \in Texts, NEW s \in Seq(Texts)
  PROVE  LineFold(first, s) = Folded(Joins, first, s)
  <1> DEFINE n == Len(s)
             X == Texts
             A == Texts
             b == first
             g == Joins
             i == CHOOSE iter : LineUnfolds(first, s, n, iter)
  <1>1. n \in Nat /\ DOMAIN s = 1 .. n /\ Over(s, n, X)
    BY DEF Over
  <1>2. LineFold(first, s) = i[1 .. n]
    BY <1>1, Zenon DEF LineFold, Arguments!FoldLeft, Arguments!MapThenFoldSet, Arguments!Max, Top, LineUnfolds
  <1>3. (\A p \in A, x \in X : g[p][x] = p \o <<Arguments!Blank>> \o Arguments!Argument(x)) /\ Stays(g, A, X) /\ b \in A
    BY JoinTurn DEF Joins, Stays
  <1> HIDE DEF n, g, X, A, b
  <1>4. LineUnfolds(first, s, n, i)
    <2>1. PICK j : Unfolds(g, b, s, n, j)
      BY <1>1, Prefixes
    <2>2. Shaped(j, b, n) /\ Turns(g, A, X, s, n, j)
      BY <1>1, <1>3, <2>1, Unfolded
    <2>3. LineUnfolds(first, s, n, j)
      BY <1>3, <2>2, Zenon DEF LineUnfolds, Shaped, Turns, b
    <2> QED BY <2>3, Zenon
  <1> HIDE DEF i
  <1>5. Unfolds(g, b, s, n, i)
    <2>1. {} \in SUBSET (1 .. n)
      OBVIOUS
    <2>2. /\ Shaped(i, b, n)
          /\ \A t \in SUBSET (1 .. n) : t # {} => i[t] = i[t \ {Top(t)}] \o <<Arguments!Blank>> \o Arguments!Argument(s[Top(t)])
      BY <1>4, <2>1, Zenon DEF LineUnfolds, Shaped, b
    <2>3. \A t \in SUBSET (1 .. n) :
            t # {} /\ i[t \ {Top(t)}] \in A /\ s[Top(t)] \in X => i[t] = g[i[t \ {Top(t)}]][s[Top(t)]]
      BY <1>3, <2>2, Zenon
    <2> QED BY <1>1, <1>3, <2>2, <2>3, Agrees
  <1>6. Unfolds(g, b, s, Len(s), i) /\ Len(s) \in Nat
    BY <1>1, <1>5 DEF n
  <1>7. i[1 .. n] = Folded(g, b, s)
    BY <1>6, FoldedIs DEF n
  <1> QED BY <1>2, <1>7 DEF g, b

LEMMA LineRead ==
  ASSUME NEW h \in Texts
  PROVE  \A t \in Seq(Texts) :
           /\ LineFold(Arguments!Argument(h), t) \in Texts
           /\ Folded(Reads, Start, Append(LineFold(Arguments!Argument(h), t), Arguments!Blank)) = Between(<<h>> \o t)
  <1> DEFINE first == Arguments!Argument(h)
             f(t) == Folded(Joins, first, t)
             S == {t \in Seq(Texts) : /\ f(t) \in Texts
                                      /\ Folded(Reads, Start, Append(f(t), Arguments!Blank)) = Between(<<h>> \o t)}
  <1>0. Start = Between(<< >>) /\ << >> \in Seq(Texts) /\ Start \in Parser /\ Arguments!Blank \in Letters
    <2>1. Start = Between(<< >>)
      BY DEF Start, Between
    <2>2. << >> \in Seq(Texts)
      OBVIOUS
    <2> QED BY <2>1, <2>2, StartIs, LettersAre
  <1>1. first \in Texts /\ Folded(Reads, Start, Append(first, Arguments!Blank)) = Between(<<h>>)
    <2>1. /\ first \in Texts
          /\ Folded(Reads, Between(<< >>), Append(first, Arguments!Blank)) = Between(Append(<< >>, h))
      BY <1>0, ArgumentRead
    <2>2. Append(<< >>, h) = <<h>>
      OBVIOUS
    <2> QED BY <1>0, <2>1, <2>2
  <1> HIDE DEF first
  <1>2. << >> \in S
    <2>1. f(<< >>) = first
      BY FoldedEmpty
    <2>2. <<h>> \o << >> = <<h>>
      OBVIOUS
    <2> QED BY <1>0, <1>1, <2>1, <2>2
  <1>3. ASSUME NEW t \in Seq(Texts), NEW a \in Texts, t \in S PROVE Append(t, a) \in S
    <2> DEFINE l == f(t)
               r == Arguments!Argument(a)
    <2>1. l \in Texts /\ Folded(Reads, Start, Append(l, Arguments!Blank)) = Between(<<h>> \o t)
      BY <1>3
    <2>2. f(Append(t, a)) = Joins[l][a]
      BY FoldedAppend
    <2> HIDE DEF f, l
    <2>3. f(Append(t, a)) = l \o <<Arguments!Blank>> \o r
      BY <2>1, <2>2 DEF Joins
    <2>4. /\ l \o <<Arguments!Blank>> \o r \in Texts
          /\ Append(l \o <<Arguments!Blank>> \o r, Arguments!Blank) = Append(l, Arguments!Blank) \o Append(r, Arguments!Blank)
      BY <2>1, JoinTurn
    <2> DEFINE as == <<h>> \o t
               u == Append(l, Arguments!Blank)
               v == Append(r, Arguments!Blank)
    <2>5. as \in Seq(Texts) /\ Append(as, a) = <<h>> \o Append(t, a)
      <3>1. <<h>> \in Seq(Texts)
        OBVIOUS
      <3> QED BY <3>1, AppendConcat
    <2> HIDE DEF as
    <2>6. r \in Texts /\ Folded(Reads, Between(as), v) = Between(Append(as, a))
      BY <2>5, ArgumentRead
    <2>7. u \in Texts /\ v \in Texts
      <3>1. l \in Seq(Letters) /\ r \in Seq(Letters)
        BY <2>1, <2>6 DEF Texts
      <3> HIDE DEF r
      <3> QED BY <1>0, <3>1 DEF Texts
    <2> HIDE DEF u, v, r
    <2>8. Folded(Reads, Start, u \o v) = Folded(Reads, Folded(Reads, Start, u), v)
      BY <1>0, <2>7, ReadOne
    <2>9. Folded(Reads, Start, u) = Between(as)
      BY <2>1 DEF u, as
    <2>10. Folded(Reads, Start, u \o v) = Between(<<h>> \o Append(t, a))
      BY <2>5, <2>6, <2>8, <2>9
    <2>11. Folded(Reads, Start, Append(f(Append(t, a)), Arguments!Blank)) = Between(<<h>> \o Append(t, a))
      BY <2>3, <2>4, <2>10 DEF u, v
    <2>12. Append(t, a) \in Seq(Texts)
      OBVIOUS
    <2> QED BY <2>3, <2>4, <2>11, <2>12
  <1>4. Seq(Texts) \subseteq S
    <2> HIDE DEF S
    <2> QED BY <1>2, <1>3, Growing
  <1>5. \A t \in Seq(Texts) : LineFold(first, t) = f(t)
    BY <1>1, LineFolds
  <1> QED BY <1>4, <1>5 DEF first

CmdInv == argv \in Seq(Texts) /\ argv # << >>

LEMMA LineIs ==
  ASSUME CmdInv
  PROVE  Arguments!Line \in Texts /\ Arguments!Parsed(Arguments!Line) = argv
  <1> DEFINE h == Head(argv)
             t == Tail(argv)
             line == Arguments!Line
  <1>1. h \in Texts /\ t \in Seq(Texts) /\ argv = <<h>> \o t
    BY DEF CmdInv
  <1>2. line = LineFold(Arguments!Argument(h), t)
    BY Zenon DEF Arguments!Line, LineFold
  <1> HIDE DEF h, t, line
  <1>3. line \in Texts /\ Folded(Reads, Start, Append(line, Arguments!Blank)) = Between(argv)
    BY <1>1, <1>2, LineRead
  <1>4. Append(line, Arguments!Blank) \in Seq(Letters) /\ line \o <<Arguments!Blank>> = Append(line, Arguments!Blank)
    BY <1>3, LettersAre DEF Texts
  <1>5. Arguments!Parsed(line) = ParseFold(line \o <<Arguments!Blank>>).args
    BY Zenon DEF Arguments!Parsed, ParseFold, Start
  <1>6. ParseFold(Append(line, Arguments!Blank)) = Between(argv)
    BY <1>3, <1>4, ParseFolds
  <1>7. Between(argv).args = argv
    BY DEF Between, Arguments!Parse
  <1> QED BY <1>3, <1>4, <1>5, <1>6, <1>7 DEF line

LEMMA CmdStep ==
  ASSUME CmdInv, [Arguments!Next]_argv
  PROVE  CmdInv'
  <1>1. CASE UNCHANGED argv
    BY <1>1 DEF CmdInv
  <1>2. CASE argv' = Append(argv, << >>)
    BY <1>2 DEF CmdInv, Texts
  <1>3. ASSUME Len(argv) > 1, NEW c \in Letters,
               argv' = Append(Arguments!Front(argv), Append(Arguments!Last(argv), c))
        PROVE  CmdInv'
    <2>1. Arguments!Last(argv) \in Texts /\ Arguments!Front(argv) \in Seq(Texts)
      BY <1>3 DEF CmdInv, Arguments!Last, Arguments!Front
    <2>2. Append(Arguments!Last(argv), c) \in Texts
      BY <2>1 DEF Texts
    <2> QED BY <1>3, <2>1, <2>2 DEF CmdInv
  <1> QED BY <1>1, <1>2, <1>3, Zenon DEF Arguments!Next, Letters

(* RoundTrip: every argument vector, of any length and any characters, is  *)
(* what the program at the other end reads from the command line.          *)
THEOREM ArgumentsSurvive == Arguments!Spec => []Arguments!RoundTrip
  <1>1. Arguments!Init => CmdInv
    BY LettersAre DEF Arguments!Init, CmdInv, Texts
  <1>2. CmdInv /\ [Arguments!Next]_argv => CmdInv'
    BY CmdStep
  <1>3. CmdInv => Arguments!RoundTrip
    <2> SUFFICES ASSUME CmdInv, NEW size \in LineBuffers, Arguments!Build(size).error = "NONE"
                 PROVE  Arguments!Parsed(Arguments!Build(size).line) = argv
      BY DEF Arguments!RoundTrip
    <2>1. Len(Arguments!Line) < size
      BY DEF Arguments!Build
    <2>2. Arguments!Build(size).line = Arguments!Line
      BY <2>1 DEF Arguments!Build
    <2> QED BY <2>2, LineIs
  <1> QED BY <1>1, <1>2, <1>3, PTL DEF Arguments!Spec

-----------------------------------------------------------------------------
(* A number is divided in one way.                                         *)
LEMMA Divided ==
  ASSUME NEW m \in Nat \ {0}, NEW q \in Int, NEW r \in 0 .. m - 1, NEW a \in Int, a = q * m + r
  PROVE  a \div m = q /\ a % m = r
  <1> DEFINE d == a \div m
             e == a % m
  <1>1. d \in Int /\ e \in 0 .. m - 1 /\ a = m * d + e
    OBVIOUS
  <1> HIDE DEF d, e
  <1> DEFINE k == d - q
  <1>2. k \in Int /\ k * m = r - e
    BY <1>1
  <1>3. k = 0
    <2> HIDE DEF k
    <2>1. k >= 1 => k * m >= m
      BY <1>2
    <2>2. k <= -1 => k * m <= -m
      BY <1>2
    <2> QED BY <1>1, <1>2, <2>1, <2>2
  <1>4. d = q /\ e = r
    BY <1>1, <1>2, <1>3
  <1> QED BY <1>4 DEF d, e

Quotient(a, m, q, r) == m \in Nat \ {0} /\ q \in Int /\ r \in 0 .. m - 1 /\ a = q * m + r

LEMMA QuotientIs ==
  ASSUME NEW a, NEW m, NEW q, NEW r, Quotient(a, m, q, r)
  PROVE  a \div m = q /\ a % m = r
  <1>1. /\ m \in Nat \ {0} /\ q \in Int /\ r \in 0 .. m - 1 /\ a = q * m + r
        /\ q * m + r \in Int
    BY DEF Quotient
  <1> QED BY <1>1, Divided

LEMMA Divides ==
  ASSUME NEW m \in Nat \ {0}, NEW a \in Int
  PROVE  a \div m \in Int /\ a % m \in 0 .. m - 1 /\ a = (a \div m) * m + (a % m)
  <1>1. m \in Int /\ m > 0
    OBVIOUS
  <1>2. a % m \in 0 .. m - 1 /\ a \div m \in Int /\ a = m * (a \div m) + (a % m)
    BY <1>1
  <1>3. m * (a \div m) = (a \div m) * m
    BY <1>1, <1>2
  <1> QED BY <1>2, <1>3

LEMMA DividesNatural ==
  ASSUME NEW m \in Nat \ {0}, NEW a \in Nat
  PROVE  a \div m \in Nat /\ a % m \in 0 .. m - 1 /\ a = (a \div m) * m + (a % m)
  <1>1. a \div m \in Int /\ a % m \in 0 .. m - 1 /\ a = (a \div m) * m + (a % m)
    BY Divides
  <1> DEFINE d == a \div m
  <1>2. d < 0 => d * m <= -m
    <2> HIDE DEF d
    <2> QED BY <1>1 DEF d
  <1> QED BY <1>1, <1>2

(* Two digits make one number.                                             *)
LEMMA Digits ==
  ASSUME NEW m \in Nat \ {0}, NEW h \in 0 .. m - 1, NEW l \in 0 .. m - 1
  PROVE  h * m + l \in 0 .. m * m - 1
  <1>1. h * m \in Int /\ h * m >= 0 /\ h * m <= (m - 1) * m
    OBVIOUS
  <1>2. (m - 1) * m = m * m - m
    OBVIOUS
  <1> QED BY <1>1, <1>2

(* A number of two digits and a carry.                                     *)
Carries(a, m, k, h, l) ==
  /\ m \in Nat \ {0} /\ k \in Int /\ h \in 0 .. m - 1 /\ l \in 0 .. m - 1
  /\ a = k * (m * m) + (h * m + l)

LEMMA CarriedOver ==
  ASSUME NEW a, NEW m, NEW k, NEW h, NEW l, Carries(a, m, k, h, l)
  PROVE  a % (m * m) = h * m + l
  <1>0. /\ m \in Nat \ {0} /\ k \in Int /\ h \in 0 .. m - 1 /\ l \in 0 .. m - 1
        /\ a = k * (m * m) + (h * m + l)
    BY DEF Carries
  <1>1. h * m + l \in 0 .. m * m - 1
    BY <1>0, Digits
  <1>2. m * m \in Int /\ m * m >= 1
    <2>1. m \in Int /\ m >= 1
      BY <1>0
    <2>2. m * m >= m
      BY <2>1
    <2> QED BY <2>1, <2>2
  <1> DEFINE n == m * m
             r == h * m + l
  <1>3. n \in Nat \ {0} /\ r \in 0 .. n - 1 /\ a = k * n + r
    BY <1>0, <1>1, <1>2
  <1> HIDE DEF n, r
  <1>4. Quotient(a, n, k, r)
    BY <1>0, <1>3 DEF Quotient
  <1>5. a % n = r
    BY <1>4, QuotientIs
  <1> QED BY <1>5 DEF n, r

(* The powers of two up to the wide word.                                  *)
LEMMA PowersPositive == \A s \in 0 .. 4 * WideHalfBits + 1 : 2 ^ s \in Nat \ {0}
  <1> DEFINE S == {s \in Nat : s <= 4 * WideHalfBits + 1 => 2 ^ s \in Nat \ {0}}
  <1>0. WideHalfBits \in Nat /\ \A s \in 0 .. 4 * WideHalfBits : 2 ^ s \in Nat /\ 2 ^ (s + 1) = 2 * 2 ^ s
    BY PowersAssumption
  <1>1. 0 \in S
    OBVIOUS
  <1>2. ASSUME NEW s \in Nat, s \in S PROVE s + 1 \in S
    <2> SUFFICES ASSUME s + 1 <= 4 * WideHalfBits + 1 PROVE 2 ^ (s + 1) \in Nat \ {0}
      OBVIOUS
    <2>1. s \in 0 .. 4 * WideHalfBits /\ 2 ^ s \in Nat \ {0}
      BY <1>0, <1>2
    <2>2. 2 ^ (s + 1) = 2 * 2 ^ s
      BY <1>0, <2>1
    <2> DEFINE p == 2 ^ s
    <2>3. p \in Nat \ {0} /\ 2 ^ (s + 1) = 2 * p
      BY <2>1, <2>2
    <2> HIDE DEF p
    <2> QED BY <2>3
  <1> HIDE DEF S
  <1>3. Nat \subseteq S
    BY <1>1, <1>2, Induction
  <1>4. \A s \in 0 .. 4 * WideHalfBits + 1 : s \in S
    BY <1>0, <1>3
  <1> QED BY <1>4 DEF S

-----------------------------------------------------------------------------
(* The numbers of a machine word, and pairs of them.                       *)
Word == 0 .. WideNumber!Modulus - 1
WidePair == [hi : Word, lo : Word]

LEMMA WordsAre ==
  /\ WideNumber!Half \in Nat \ {0}
  /\ WideNumber!Modulus = WideNumber!Half * WideNumber!Half
  /\ WideNumber!Modulus \in Nat \ {0}
  <1>1. WideNumber!Half \in Nat \ {0}
    <2>1. WideHalfBits \in 0 .. 4 * WideHalfBits + 1
      BY PowersAssumption
    <2> QED BY <2>1, PowersPositive DEF WideNumber!Half
  <1>2. WideNumber!Half * WideNumber!Half >= WideNumber!Half
    <2> DEFINE b == WideNumber!Half
    <2> HIDE DEF b
    <2>1. b \in Int /\ b >= 1 => b * b >= b
      OBVIOUS
    <2> QED BY <1>1, <2>1 DEF b
  <1>3. WideNumber!Modulus = WideNumber!Half * WideNumber!Half
    BY DEF WideNumber!Modulus
  <1> QED BY <1>1, <1>2, <1>3

(* The sum of two wide numbers.                                            *)
LEMMA Added ==
  ASSUME NEW u \in WidePair, NEW v \in WidePair
  PROVE  /\ WideNumber!Add(u, v) \in WidePair
         /\ WideNumber!Number(WideNumber!Add(u, v))
              = (WideNumber!Number(u) + WideNumber!Number(v)) % (WideNumber!Modulus * WideNumber!Modulus)
  <1> DEFINE m == WideNumber!Modulus
             s == u.lo + v.lo
             lo == s % m
             carry == IF lo < u.lo THEN 1 ELSE 0
             t == u.hi + v.hi + carry
             k == t \div m
             hi == t % m
  <1>1. m \in Nat \ {0}
    BY WordsAre
  <1>2. u.lo \in 0 .. m - 1 /\ v.lo \in 0 .. m - 1 /\ u.hi \in 0 .. m - 1 /\ v.hi \in 0 .. m - 1
    BY DEF WidePair, Word
  <1>3. WideNumber!Add(u, v) = [lo |-> lo, hi |-> hi]
    BY DEF WideNumber!Add
  <1>4. lo \in 0 .. m - 1 /\ s = carry * m + lo /\ carry \in {0, 1}
    <2>1. CASE s < m
      <3>1. s = 0 * m + s /\ s \in 0 .. m - 1
        BY <1>1, <1>2, <2>1
      <3>2. lo = s
        <4> HIDE DEF m, s
        <4> QED BY <1>1, <3>1, Divided
      <3> QED BY <1>1, <1>2, <3>1, <3>2
    <2>2. CASE s >= m
      <3>1. s = 1 * m + (s - m) /\ s - m \in 0 .. m - 1 /\ s \in Int
        BY <1>1, <1>2, <2>2
      <3>2. lo = s - m
        <4> HIDE DEF m, s
        <4> QED BY <1>1, <3>1, Divided
      <3> QED BY <1>1, <1>2, <3>1, <3>2
    <2> QED BY <1>1, <1>2, <2>1, <2>2
  <1> HIDE DEF m, lo, carry
  <1>5. t \in Int
    BY <1>2, <1>4
  <1>6. hi \in 0 .. m - 1 /\ k \in Int /\ t = k * m + hi
    BY <1>1, <1>5, Divides
  <1>7. WideNumber!Add(u, v) \in WidePair
    BY <1>3, <1>4, <1>6 DEF WidePair, Word, m
  <1> HIDE DEF s, k, hi
  <1> DEFINE a == WideNumber!Number(u) + WideNumber!Number(v)
  <1>8. a = (u.hi * m + u.lo) + (v.hi * m + v.lo)
    BY DEF WideNumber!Number, m
  <1>9. a = t * m + lo
    <2>1. (u.hi * m + u.lo) + (v.hi * m + v.lo) = (u.hi + v.hi) * m + (u.lo + v.lo)
      BY <1>1, <1>2
    <2>2. (u.hi + v.hi) * m + (carry * m + lo) = (u.hi + v.hi + carry) * m + lo
      BY <1>1, <1>2, <1>4
    <2> QED BY <1>4, <1>8, <2>1, <2>2 DEF s
  <1>10. (k * m + hi) * m + lo = k * (m * m) + (hi * m + lo)
    BY <1>1, <1>4, <1>6
  <1> HIDE DEF t, a
  <1>11. a = k * (m * m) + (hi * m + lo) /\ a \in Int
    BY <1>1, <1>4, <1>6, <1>9, <1>10
  <1>12. a % (m * m) = hi * m + lo
    <2>1. Carries(a, m, k, hi, lo)
      BY <1>1, <1>4, <1>6, <1>11 DEF Carries
    <2> QED BY <2>1, CarriedOver
  <1>13. WideNumber!Number(WideNumber!Add(u, v)) = hi * m + lo
    BY <1>3 DEF WideNumber!Number, m
  <1> QED BY <1>7, <1>12, <1>13 DEF a, m

(* The product of two words, exactly.                                      *)
LEMMA WordsMultiplied ==
  ASSUME NEW x \in Word, NEW y \in Word
  PROVE  /\ WideNumber!MulWords(x, y) \in WidePair
         /\ WideNumber!Number(WideNumber!MulWords(x, y)) = x * y
  <1> DEFINE b == WideNumber!Half
             m == WideNumber!Modulus
             x0 == x % b
             x1 == x \div b
             y0 == y % b
             y1 == y \div b
             p0 == x0 * y0
             p1 == x0 * y1
             p2 == x1 * y0
             p3 == x1 * y1
             mid == (p0 \div b) + (p1 % b) + (p2 % b)
             lo == (p0 % b) + ((mid * b) % m)
             top == p3 + (p1 \div b) + (p2 \div b) + (mid \div b)
  <1>1. b \in Nat \ {0} /\ m = b * b /\ m \in Nat \ {0}
    BY WordsAre
  <1>2. WideNumber!MulWords(x, y) = [lo |-> lo, hi |-> top % m]
    BY DEF WideNumber!MulWords, WideNumber!LowHalf, WideNumber!HighHalf, WideNumber!Middle
  <1>3. x \in Nat /\ y \in Nat /\ x <= m - 1 /\ y <= m - 1
    BY <1>1 DEF Word
  <1> HIDE DEF b, m
  <1>4. x0 \in 0 .. b - 1 /\ x1 \in Nat /\ x = x1 * b + x0 /\ y0 \in 0 .. b - 1 /\ y1 \in Nat /\ y = y1 * b + y0
    BY <1>1, <1>3, DividesNatural
  <1> HIDE DEF x0, x1, y0, y1
  <1>5. p0 \in Nat /\ p1 \in Nat /\ p2 \in Nat /\ p3 \in Nat
    BY <1>1, <1>4
  <1>6. x * y = p3 * (b * b) + (p1 + p2) * b + p0
    <2>1. (x1 * b + x0) * (y1 * b + y0) = (x1 * y1) * (b * b) + (x0 * y1 + x1 * y0) * b + x0 * y0
      BY <1>1, <1>4
    <2> QED BY <1>4, <2>1
  <1> HIDE DEF p0, p1, p2, p3
  <1> DEFINE d0 == p0 \div b
             e0 == p0 % b
             d1 == p1 \div b
             e1 == p1 % b
             d2 == p2 \div b
             e2 == p2 % b
             d3 == mid \div b
             e3 == mid % b
  <1>7. /\ d0 \in Nat /\ e0 \in 0 .. b - 1 /\ p0 = d0 * b + e0
        /\ d1 \in Nat /\ e1 \in 0 .. b - 1 /\ p1 = d1 * b + e1
        /\ d2 \in Nat /\ e2 \in 0 .. b - 1 /\ p2 = d2 * b + e2
    BY <1>1, <1>5, DividesNatural
  <1>8. mid = d0 + e1 + e2 /\ top = p3 + d1 + d2 + d3 /\ lo = e0 + ((mid * b) % m)
    OBVIOUS
  <1> HIDE DEF d0, e0, d1, e1, d2, e2, mid
  <1>9. mid \in Nat
    BY <1>7, <1>8
  <1>10. d3 \in Nat /\ e3 \in 0 .. b - 1 /\ mid = d3 * b + e3
    BY <1>1, <1>9, DividesNatural
  <1> HIDE DEF d3, e3
  <1>11. (mid * b) % m = e3 * b
    <2>1. mid * b = d3 * m + e3 * b
      <3>1. (d3 * b + e3) * b = d3 * (b * b) + e3 * b
        BY <1>1, <1>10
      <3> QED BY <1>1, <1>10, <3>1
    <2>2. e3 * b + 0 \in 0 .. b * b - 1
      <3>1. 0 \in 0 .. b - 1
        BY <1>1
      <3> QED BY <1>1, <1>10, <3>1, Digits
    <2> DEFINE r == e3 * b
    <2>3. r \in 0 .. m - 1 /\ mid * b \in Int /\ mid * b = d3 * m + r /\ d3 \in Int
      BY <1>1, <1>9, <1>10, <2>1, <2>2
    <2>4. r = e3 * b
      OBVIOUS
    <2> HIDE DEF r
    <2>5. (mid * b) % m = r
      <3>1. Quotient(mid * b, m, d3, r)
        BY <1>1, <2>3 DEF Quotient
      <3> QED BY <3>1, QuotientIs
    <2> QED BY <2>4, <2>5
  <1>12. lo \in 0 .. m - 1 /\ lo = e3 * b + e0
    <2>1. e3 * b + e0 \in 0 .. b * b - 1
      BY <1>1, <1>7, <1>10, Digits
    <2>2. lo = e0 + e3 * b /\ e3 * b \in Int
      BY <1>1, <1>8, <1>10, <1>11
    <2> QED BY <1>1, <1>7, <2>1, <2>2
  <1>13. top \in Nat
    BY <1>5, <1>7, <1>8, <1>10
  <1> HIDE DEF lo, top
  <1>14. x * y = top * m + lo
    <2>1. p3 * (b * b) + ((d1 * b + e1) + (d2 * b + e2)) * b + (d0 * b + e0)
            = (p3 + d1 + d2) * (b * b) + (d0 + e1 + e2) * b + e0
      BY <1>1, <1>5, <1>7
    <2>2. (p3 + d1 + d2) * (b * b) + (d3 * b + e3) * b + e0 = (p3 + d1 + d2 + d3) * (b * b) + (e3 * b + e0)
      BY <1>1, <1>5, <1>7, <1>10
    <2>3. x * y = (p3 + d1 + d2) * (b * b) + mid * b + e0
      BY <1>6, <1>7, <1>8, <2>1
    <2> QED BY <1>1, <1>8, <1>10, <1>12, <2>2, <2>3
  <1>15. top \in 0 .. m - 1
    <2>1. x * y <= (m - 1) * (m - 1)
      <3>1. x * y <= (m - 1) * y
        BY <1>1, <1>3
      <3>2. (m - 1) * y <= (m - 1) * (m - 1)
        BY <1>1, <1>3
      <3> QED BY <1>1, <1>3, <3>1, <3>2
    <2>2. top >= m => top * m >= m * m
      BY <1>1, <1>13
    <2>3. (m - 1) * (m - 1) < m * m
      <3>1. (m - 1) * (m - 1) = m * m - m - m + 1
        BY <1>1
      <3> QED BY <1>1, <3>1
    <2>4. top * m <= x * y /\ top * m \in Int /\ x * y \in Int
      BY <1>1, <1>3, <1>12, <1>13, <1>14
    <2> QED BY <1>1, <1>13, <2>1, <2>2, <2>3, <2>4
  <1>16. top % m = top
    <2>1. top = 0 * m + top
      BY <1>1, <1>13
    <2> QED BY <1>1, <1>13, <1>15, <2>1, Divided
  <1>17. WideNumber!MulWords(x, y) = [lo |-> lo, hi |-> top]
    BY <1>2, <1>16
  <1>18. WideNumber!MulWords(x, y) \in WidePair
    BY <1>12, <1>15, <1>17 DEF WidePair, Word, m
  <1>19. WideNumber!Number(WideNumber!MulWords(x, y)) = top * m + lo
    BY <1>17 DEF WideNumber!Number, m
  <1> QED BY <1>14, <1>18, <1>19

(* The product of two wide numbers.                                        *)
LEMMA Multiplied ==
  ASSUME NEW u \in WidePair, NEW v \in WidePair
  PROVE  WideNumber!Number(WideNumber!Mul(u, v))
           = (WideNumber!Number(u) * WideNumber!Number(v)) % (WideNumber!Modulus * WideNumber!Modulus)
  <1> DEFINE m == WideNumber!Modulus
             low == WideNumber!MulWords(u.lo, v.lo)
             one == WideNumber!MulWords(u.lo, v.hi)
             two == WideNumber!MulWords(u.hi, v.lo)
             t == low.hi + one.lo + two.lo
             k == t \div m
             hi == t % m
             a == WideNumber!Number(u) * WideNumber!Number(v)
             c == u.hi * v.hi + one.hi + two.hi + k
  <1>1. m \in Nat \ {0}
    BY WordsAre
  <1>2. u.lo \in Word /\ v.lo \in Word /\ u.hi \in Word /\ v.hi \in Word
    BY DEF WidePair
  <1>3. /\ low \in WidePair /\ WideNumber!Number(low) = u.lo * v.lo
        /\ one \in WidePair /\ WideNumber!Number(one) = u.lo * v.hi
        /\ two \in WidePair /\ WideNumber!Number(two) = u.hi * v.lo
    BY <1>2, WordsMultiplied
  <1>4. WideNumber!Mul(u, v) = [lo |-> low.lo, hi |-> hi]
    BY DEF WideNumber!Mul
  <1> HIDE DEF low, one, two
  <1>5. /\ u.lo * v.lo = low.hi * m + low.lo
        /\ u.lo * v.hi = one.hi * m + one.lo
        /\ u.hi * v.lo = two.hi * m + two.lo
        /\ a = (u.hi * m + u.lo) * (v.hi * m + v.lo)
    BY <1>3 DEF WideNumber!Number, m
  <1> HIDE DEF a
  <1>6. /\ u.lo \in Int /\ v.lo \in Int /\ u.hi \in Int /\ v.hi \in Int
        /\ low.lo \in 0 .. m - 1 /\ low.hi \in Int /\ one.lo \in Int /\ one.hi \in Int /\ two.lo \in Int /\ two.hi \in Int
    BY <1>2, <1>3 DEF WidePair, Word, m
  <1> HIDE DEF m
  <1>7. t \in Int
    BY <1>6
  <1>8. k \in Int /\ hi \in 0 .. m - 1 /\ t = k * m + hi
    BY <1>1, <1>7, Divides
  <1> HIDE DEF k, hi
  <1>9. a = (u.hi * v.hi) * (m * m) + (u.lo * v.hi + u.hi * v.lo) * m + u.lo * v.lo
    BY <1>1, <1>5, <1>6
  <1>10. a = (u.hi * v.hi + one.hi + two.hi) * (m * m) + t * m + low.lo
    <2>1. (u.hi * v.hi) * (m * m) + ((one.hi * m + one.lo) + (two.hi * m + two.lo)) * m + (low.hi * m + low.lo)
            = (u.hi * v.hi + one.hi + two.hi) * (m * m) + (low.hi + one.lo + two.lo) * m + low.lo
      BY <1>1, <1>6
    <2> QED BY <1>5, <1>9, <2>1
  <1> DEFINE e == u.hi * v.hi + one.hi + two.hi
  <1>11. e \in Int /\ c = e + k
    BY <1>6
  <1> HIDE DEF e, t, c
  <1>12. e * (m * m) + (k * m + hi) * m + low.lo = (e + k) * (m * m) + (hi * m + low.lo)
    BY <1>1, <1>6, <1>8, <1>11
  <1>13. a = c * (m * m) + (hi * m + low.lo)
    BY <1>8, <1>10, <1>11, <1>12 DEF e
  <1>14. Carries(a, m, c, hi, low.lo)
    BY <1>1, <1>6, <1>8, <1>11, <1>13 DEF Carries
  <1>15. a % (m * m) = hi * m + low.lo
    BY <1>14, CarriedOver
  <1>16. WideNumber!Number(WideNumber!Mul(u, v)) = hi * m + low.lo
    BY <1>4 DEF WideNumber!Number, m
  <1> QED BY <1>15, <1>16 DEF a, m

-----------------------------------------------------------------------------
(* Powers of two multiply, up to the wide word; those of a word's bits     *)
(* make its modulus.                                                       *)
LEMMA PowersAdd ==
  ASSUME NEW a \in Nat
  PROVE  \A b \in Nat : a + b <= 4 * WideHalfBits + 1 => 2 ^ (a + b) = 2 ^ a * 2 ^ b
  <1> DEFINE n == 4 * WideHalfBits + 1
             S == {b \in Nat : a + b <= n => 2 ^ (a + b) = 2 ^ a * 2 ^ b}
  <1>0. /\ n \in Nat /\ \A s \in Nat : s < n => 2 ^ (s + 1) = 2 * 2 ^ s
        /\ \A s \in Nat : s <= n => 2 ^ s \in Nat
    <2>1. WideHalfBits \in Nat /\ \A s \in 0 .. 4 * WideHalfBits : 2 ^ (s + 1) = 2 * 2 ^ s
      BY PowersAssumption
    <2>2. \A s \in 0 .. 4 * WideHalfBits + 1 : 2 ^ s \in Nat
      BY PowersPositive
    <2> QED BY <2>1, <2>2
  <1> HIDE DEF n
  <1>1. 0 \in S
    <2>1. a + 0 = a /\ 2 ^ 0 = 1
      OBVIOUS
    <2>2. a <= n => 2 ^ a \in Nat
      BY <1>0
    <2>3. a + 0 <= n => 2 ^ (a + 0) = 2 ^ a * 2 ^ 0
      <3> SUFFICES ASSUME a <= n PROVE 2 ^ a = 2 ^ a * 1
        BY <2>1
      <3> DEFINE p == 2 ^ a
      <3>1. p \in Nat
        BY <2>2
      <3> HIDE DEF p
      <3>2. p = p * 1
        BY <3>1
      <3> QED BY <3>2 DEF p
    <2> QED BY <2>3
  <1>2. ASSUME NEW b \in Nat, b \in S PROVE b + 1 \in S
    <2> SUFFICES ASSUME a + (b + 1) <= n PROVE 2 ^ (a + (b + 1)) = 2 ^ a * 2 ^ (b + 1)
      OBVIOUS
    <2>0. a + b <= n => 2 ^ (a + b) = 2 ^ a * 2 ^ b
      BY <1>2
    <2> DEFINE p == 2 ^ a
               q == 2 ^ b
               r == 2 ^ (a + b)
    <2>1. a + b \in Nat /\ a + b < n /\ a + (b + 1) = (a + b) + 1 /\ b < n /\ a <= n /\ b <= n
      BY <1>0
    <2>2. r = p * q
      BY <1>0, <2>0, <2>1
    <2>3. 2 ^ ((a + b) + 1) = 2 * r /\ 2 ^ (b + 1) = 2 * q
      BY <1>0, <2>1
    <2>4. p \in Nat /\ q \in Nat
      BY <1>0, <2>1
    <2>5. 2 ^ (a + (b + 1)) = 2 * r
      BY <2>1, <2>3
    <2> HIDE DEF p, q, r
    <2>6. 2 * r = p * (2 * q)
      BY <2>2, <2>4
    <2> QED BY <2>3, <2>5, <2>6 DEF p
  <1> HIDE DEF S
  <1>3. Nat \subseteq S
    BY <1>1, <1>2, Induction
  <1>4. ASSUME NEW b \in Nat PROVE a + b <= n => 2 ^ (a + b) = 2 ^ a * 2 ^ b
    <2>1. b \in S
      BY <1>3
    <2> QED BY <2>1 DEF S
  <1> QED BY <1>4 DEF n

LEMMA WordPowers ==
  /\ WideNumber!WordBits \in Nat /\ WideNumber!WordBits > 0 /\ 2 ^ WideNumber!WordBits = WideNumber!Modulus
  /\ \A s \in 0 .. WideNumber!WordBits :
       /\ 2 ^ s \in Nat \ {0} /\ 2 ^ (WideNumber!WordBits - s) \in Nat \ {0}
       /\ 2 ^ s * 2 ^ (WideNumber!WordBits - s) = WideNumber!Modulus
  /\ \A s \in 0 .. WideNumber!WordBits + 1 :
       /\ 2 ^ s \in Nat \ {0}
       /\ 2 ^ (WideNumber!WordBits + s) = WideNumber!Modulus * 2 ^ s
  <1> DEFINE w == WideNumber!WordBits
             h == WideHalfBits
  <1>1. w = h + h /\ h \in Nat \ {0} /\ 4 * h + 1 = w + w + 1
    BY PowersAssumption DEF WideNumber!WordBits
  <1> HIDE DEF w
  <1>2. \A s \in Nat : s <= w + w + 1 => 2 ^ s \in Nat \ {0}
    <2>1. \A s \in 0 .. 4 * h + 1 : 2 ^ s \in Nat \ {0}
      BY PowersPositive
    <2> QED BY <1>1, <2>1
  <1>3. \A a, b \in Nat : a + b <= w + w + 1 => 2 ^ (a + b) = 2 ^ a * 2 ^ b
    BY <1>1, PowersAdd
  <1>4. 2 ^ w = WideNumber!Modulus
    <2>1. 2 ^ (h + h) = 2 ^ h * 2 ^ h
      BY <1>1, <1>3
    <2> QED BY <1>1, <2>1 DEF WideNumber!Modulus, WideNumber!Half
  <1>5. ASSUME NEW s \in 0 .. w
        PROVE  /\ 2 ^ s \in Nat \ {0} /\ 2 ^ (w - s) \in Nat \ {0}
               /\ 2 ^ s * 2 ^ (w - s) = WideNumber!Modulus
    <2>1. s \in Nat /\ w - s \in Nat /\ s + (w - s) = w /\ s <= w + w + 1 /\ w - s <= w + w + 1 /\ w <= w + w + 1
      BY <1>1
    <2>2. 2 ^ (s + (w - s)) = 2 ^ s * 2 ^ (w - s)
      BY <1>3, <2>1
    <2> QED BY <1>2, <1>4, <2>1, <2>2
  <1>6. ASSUME NEW s \in 0 .. w + 1
        PROVE  2 ^ s \in Nat \ {0} /\ 2 ^ (w + s) = WideNumber!Modulus * 2 ^ s
    <2>1. s \in Nat /\ w \in Nat /\ s <= w + w + 1 /\ w + s <= w + w + 1
      BY <1>1
    <2>2. 2 ^ (w + s) = 2 ^ w * 2 ^ s
      BY <1>3, <2>1
    <2> QED BY <1>2, <1>4, <2>1, <2>2
  <1> QED BY <1>1, <1>4, <1>5, <1>6 DEF w

-----------------------------------------------------------------------------
(* A shift of a wide number by the bits of one of its words, by more, and  *)
(* by all of them.                                                         *)
Shares(m, q, r, hi, lo) ==
  /\ m \in Nat \ {0} /\ q \in Nat \ {0} /\ r \in Nat \ {0} /\ q * r = m
  /\ hi \in 0 .. m - 1 /\ lo \in 0 .. m - 1

LEMMA ShiftedLow ==
  ASSUME NEW m, NEW q, NEW r, NEW hi, NEW lo, Shares(m, q, r, hi, lo)
  PROVE  (hi * m + lo) \div q = (hi \div q) * m + ((lo \div q) + ((hi * r) % m))
  <1> DEFINE h == hi \div q
             t == hi % q
             l == lo \div q
             u == lo % q
  <1>0. /\ m \in Nat \ {0} /\ q \in Nat \ {0} /\ r \in Nat \ {0} /\ q * r = m
        /\ hi \in 0 .. m - 1 /\ lo \in 0 .. m - 1 /\ hi \in Nat /\ lo \in Nat
    BY DEF Shares
  <1>1. h \in Nat /\ t \in 0 .. q - 1 /\ hi = h * q + t /\ l \in Nat /\ u \in 0 .. q - 1 /\ lo = l * q + u
    BY <1>0, DividesNatural
  <1> HIDE DEF h, t, l, u
  <1>2. (hi * r) % m = t * r
    <2>1. hi * r = h * m + t * r
      <3>1. (h * q + t) * r = h * (q * r) + t * r
        BY <1>0, <1>1
      <3> QED BY <1>0, <1>1, <3>1
    <2>2. t * r >= 0 /\ t * r <= (q - 1) * r
      BY <1>0, <1>1
    <2>3. (q - 1) * r = m - r
      <3>1. (q - 1) * r = q * r - r
        BY <1>0
      <3> QED BY <1>0, <3>1
    <2> DEFINE e == t * r
    <2>4. e \in Int
      BY <1>0, <1>1
    <2>5. e = t * r
      OBVIOUS
    <2> HIDE DEF e
    <2>6. e \in 0 .. m - 1
      BY <1>0, <2>2, <2>3, <2>4, <2>5
    <2>7. Quotient(hi * r, m, h, e)
      BY <1>0, <1>1, <2>1, <2>5, <2>6 DEF Quotient
    <2> QED BY <2>5, <2>7, QuotientIs
  <1>3. hi * m + lo = (hi * r + l) * q + u
    <2>1. hi * (q * r) + (l * q + u) = (hi * r + l) * q + u
      BY <1>0, <1>1
    <2> QED BY <1>0, <1>1, <2>1
  <1>4. hi * r + l = h * m + (l + t * r)
    <2>1. (h * q + t) * r + l = h * (q * r) + (l + t * r)
      BY <1>0, <1>1
    <2> QED BY <1>0, <1>1, <2>1
  <1>5. Quotient(hi * m + lo, q, hi * r + l, u)
    BY <1>0, <1>1, <1>3 DEF Quotient
  <1>6. (hi * m + lo) \div q = hi * r + l
    BY <1>5, QuotientIs
  <1> QED BY <1>2, <1>4, <1>6 DEF h, l

LEMMA ShiftedHigh ==
  ASSUME NEW m \in Nat \ {0}, NEW q \in Nat \ {0}, NEW hi \in 0 .. m - 1, NEW lo \in 0 .. m - 1
  PROVE  (hi * m + lo) \div (m * q) = hi \div q
  <1> DEFINE h == hi \div q
             t == hi % q
  <1>0. hi \in Nat
    OBVIOUS
  <1>1. h \in Nat /\ t \in 0 .. q - 1 /\ hi = h * q + t
    BY <1>0, DividesNatural
  <1> HIDE DEF h, t
  <1> DEFINE d == m * q
             e == t * m + lo
  <1>2. hi * m + lo = h * d + e
    <2>1. (h * q + t) * m + lo = h * (m * q) + (t * m + lo)
      BY <1>1
    <2> QED BY <1>1, <2>1
  <1>3. e \in Int /\ e >= 0 /\ e <= d - 1
    <2>1. t * m >= 0 /\ t * m <= (q - 1) * m /\ t * m \in Int
      BY <1>1
    <2>2. (q - 1) * m = m * q - m
      OBVIOUS
    <2> QED BY <2>1, <2>2
  <1>4. d \in Int
    OBVIOUS
  <1> HIDE DEF d, e
  <1>5. d \in Nat \ {0} /\ e \in 0 .. d - 1
    BY <1>3, <1>4
  <1>6. Quotient(hi * m + lo, d, h, e)
    BY <1>1, <1>2, <1>5 DEF Quotient
  <1>7. (hi * m + lo) \div d = h
    BY <1>6, QuotientIs
  <1> QED BY <1>7 DEF d, h

LEMMA ShiftedRight ==
  ASSUME NEW v \in WidePair, NEW shift \in 0 .. 2 * WideNumber!WordBits + 1
  PROVE  WideNumber!Number(WideNumber!ShiftRight(v, shift)) = WideNumber!Number(v) \div 2 ^ shift
  <1> DEFINE m == WideNumber!Modulus
             w == WideNumber!WordBits
             x == WideNumber!ShiftRight(v, shift)
  <1>1. m \in Nat \ {0} /\ w \in Nat /\ w > 0
    BY WordsAre, WordPowers
  <1>2. v.hi \in 0 .. m - 1 /\ v.lo \in 0 .. m - 1 /\ WideNumber!Number(v) = v.hi * m + v.lo
    BY DEF WidePair, Word, WideNumber!Number
  <1>3. \A p : WideNumber!Number(p) = p.hi * m + p.lo
    BY DEF WideNumber!Number
  <1>4. CASE shift = 0
    <2>0. shift \notin 1 .. w - 1 /\ shift \notin w .. 2 * w - 1
      BY <1>1, <1>4
    <2>1. x = v
      BY <1>4, <2>0, Zenon DEF WideNumber!ShiftRight
    <2>2. v.hi * m + v.lo \in Int
      BY <1>1, <1>2
    <2> DEFINE n == v.hi * m + v.lo
    <2>3. n \in Int
      BY <2>2
    <2> HIDE DEF n
    <2>4. Quotient(n, 1, n, 0)
      BY <2>3 DEF Quotient
    <2>5. n \div 1 = n
      BY <2>4, QuotientIs
    <2>6. 2 ^ shift = 1
      BY <1>4
    <2> QED BY <1>2, <2>1, <2>5, <2>6 DEF n
  <1>5. CASE shift \in 1 .. w - 1
    <2> DEFINE q == 2 ^ shift
               r == 2 ^ (w - shift)
    <2>1. shift \in 0 .. w
      BY <1>1, <1>5
    <2>2. q \in Nat \ {0} /\ r \in Nat \ {0} /\ q * r = m
      BY <2>1, WordPowers
    <2>3. shift # 0 /\ shift \notin w .. 2 * w - 1
      BY <1>1, <1>5
    <2>4. x = [lo |-> (v.lo \div q) + ((v.hi * r) % m), hi |-> v.hi \div q]
      BY <1>5, <2>3, Zenon DEF WideNumber!ShiftRight
    <2>5. WideNumber!Number(x) = (v.hi \div q) * m + ((v.lo \div q) + ((v.hi * r) % m))
      BY <1>3, <2>4
    <2> HIDE DEF q, r, m, x
    <2>6. (v.hi * m + v.lo) \div q = (v.hi \div q) * m + ((v.lo \div q) + ((v.hi * r) % m))
      <3>1. Shares(m, q, r, v.hi, v.lo)
        BY <1>1, <1>2, <2>2 DEF Shares
      <3> QED BY <3>1, ShiftedLow
    <2> QED BY <1>2, <2>5, <2>6 DEF q, x
  <1>6. CASE shift \in w .. 2 * w - 1
    <2> DEFINE s == shift - w
               q == 2 ^ s
    <2>1. s \in 0 .. w + 1 /\ shift = w + s
      BY <1>1, <1>6
    <2>2. q \in Nat \ {0} /\ 2 ^ shift = m * q
      BY <2>1, WordPowers
    <2>3. shift # 0 /\ shift \notin 1 .. w - 1
      BY <1>1, <1>6
    <2>4. x = [lo |-> v.hi \div q, hi |-> 0]
      BY <1>6, <2>3, Zenon DEF WideNumber!ShiftRight
    <2> HIDE DEF q, m
    <2>5. v.hi \div q \in Int
      BY <1>2, <2>2, Divides
    <2>6. WideNumber!Number(x) = v.hi \div q
      <3>1. WideNumber!Number(x) = 0 * m + (v.hi \div q)
        BY <1>3, <2>4
      <3> QED BY <1>1, <2>5, <3>1
    <2>7. (v.hi * m + v.lo) \div (m * q) = v.hi \div q
      BY <1>1, <1>2, <2>2, ShiftedHigh
    <2> QED BY <1>2, <2>2, <2>6, <2>7
  <1>7. CASE shift \in {2 * w, 2 * w + 1}
    <2> DEFINE s == shift - w
               q == 2 ^ s
               n == v.hi * m + v.lo
    <2>1. s \in 0 .. w + 1 /\ shift = w + s /\ s \in {w, w + 1}
      BY <1>1, <1>7
    <2>2. q \in Nat \ {0} /\ 2 ^ shift = m * q
      BY <2>1, WordPowers
    <2>3. shift # 0 /\ shift \notin 1 .. w - 1 /\ shift \notin w .. 2 * w - 1
      BY <1>1, <1>7
    <2>4. x = [lo |-> 0, hi |-> 0]
      BY <2>3, Zenon DEF WideNumber!ShiftRight
    <2>5. q >= m
      <3>1. CASE s = w
        BY <1>1, <3>1, WordPowers
      <3>2. CASE s = w + 1
        <4>1. 1 \in 0 .. w + 1 /\ 2 ^ 1 \in Nat \ {0}
          BY <1>1, WordPowers
        <4>2. q = m * 2 ^ 1
          BY <3>2, <4>1, WordPowers
        <4> DEFINE z == 2 ^ 1
        <4>3. z \in Nat /\ z >= 1 /\ q = m * z
          BY <4>1, <4>2
        <4> HIDE DEF z, q, m
        <4>4. m * z >= m
          BY <1>1, <4>3
        <4> QED BY <4>3, <4>4
      <3> QED BY <2>1, <3>1, <3>2
    <2> HIDE DEF q, m
    <2>6. n \in 0 .. m * m - 1
      BY <1>1, <1>2, Digits
    <2>7. m * q >= m * m /\ m * q \in Int /\ m * m \in Int
      BY <1>1, <2>2, <2>5
    <2> DEFINE d == m * q
    <2>8. d \in Nat \ {0} /\ n \in 0 .. d - 1
      BY <2>6, <2>7
    <2> HIDE DEF d, n
    <2>9. Quotient(n, d, 0, n)
      BY <2>8 DEF Quotient
    <2>10. n \div d = 0
      BY <2>9, QuotientIs
    <2>11. WideNumber!Number(x) = 0
      BY <1>1, <1>3, <2>4
    <2> QED BY <1>2, <2>2, <2>10, <2>11 DEF d, n
  <1>8. shift = 0 \/ shift \in 1 .. w - 1 \/ shift \in w .. 2 * w - 1 \/ shift \in {2 * w, 2 * w + 1}
    BY <1>1
  <1> QED BY <1>4, <1>5, <1>6, <1>7, <1>8

-----------------------------------------------------------------------------
(* The remainder of a number that is out of a word's range by one modulus. *)
LEMMA Wraps ==
  ASSUME NEW m \in Nat \ {0}, NEW n \in Int
  PROVE  /\ n \in 0 .. m - 1 => n % m = n
         /\ n \in m .. 2 * m - 1 => n % m = n - m
  <1>1. ASSUME n \in 0 .. m - 1 PROVE n % m = n
    <2>1. Quotient(n, m, 0, n)
      BY <1>1 DEF Quotient
    <2> QED BY <2>1, QuotientIs
  <1>2. ASSUME n \in m .. 2 * m - 1 PROVE n % m = n - m
    <2>1. Quotient(n, m, 1, n - m)
      BY <1>2 DEF Quotient
    <2> QED BY <2>1, QuotientIs
  <1> QED BY <1>1, <1>2

LEMMA HalvesAre ==
  /\ WideNumber!Modulus \div 2 \in Nat /\ WideNumber!Modulus = 2 * (WideNumber!Modulus \div 2)
  /\ WideNumber!Modulus \div 2 > 0
  <1> DEFINE w == WideNumber!WordBits
             h == 2 ^ (w - 1)
  <1>1. w \in Nat /\ w > 0 /\ 1 \in 0 .. w
    BY WordPowers
  <1>2. h \in Nat \ {0} /\ 2 ^ 1 * h = WideNumber!Modulus
    BY <1>1, WordPowers
  <1>3. 2 ^ 1 = 2
    OBVIOUS
  <1> DEFINE m == WideNumber!Modulus
  <1>4. m = h * 2 + 0
    BY <1>2, <1>3
  <1> HIDE DEF h, m
  <1>5. Quotient(m, 2, h, 0)
    BY <1>2, <1>4 DEF Quotient
  <1>6. m \div 2 = h
    BY <1>5, QuotientIs
  <1> QED BY <1>2, <1>4, <1>6 DEF m

(* A time and a duration: the sum, held at the ends of the range.          *)
LEMMA DurationAdded ==
  ASSUME NEW time \in Word,
         NEW span \in -(WideNumber!Modulus \div 2) .. WideNumber!Modulus \div 2 - 1
  PROVE  WideNumber!AddDuration(time, span) = WideNumber!Clamp(time + span)
  <1> DEFINE m == WideNumber!Modulus
             h == m \div 2
             s == span % m
             n == (time + s) % m
             a == WideNumber!AddDuration(time, span)
             c == WideNumber!Clamp(time + span)
  <1>1. m \in Nat \ {0} /\ h \in Nat /\ m = 2 * h /\ time \in 0 .. m - 1 /\ span \in -h .. h - 1
    BY WordsAre, HalvesAre DEF Word
  <1>2. /\ (span > 0 /\ n < time) /\ ~(span < 0 /\ n > time) => a = m - 1
        /\ ~(span > 0 /\ n < time) /\ (span < 0 /\ n > time) => a = 0
        /\ ~(span > 0 /\ n < time) /\ ~(span < 0 /\ n > time) => a = n
    BY Zenon DEF WideNumber!AddDuration
  <1>3. /\ (time + span < 0) /\ ~(time + span >= m) => c = 0
        /\ ~(time + span < 0) /\ (time + span >= m) => c = m - 1
        /\ ~(time + span < 0) /\ ~(time + span >= m) => c = time + span
    BY Zenon DEF WideNumber!Clamp
  <1>0. SUFFICES a = c
    OBVIOUS
  <1> HIDE DEF m, h, a, c
  <1>4. CASE span >= 0
    <2>1. s = span
      BY <1>1, <1>4, Wraps
    <2> HIDE DEF s
    <2>2. CASE time + span < m
      <3>1. n = time + span
        <4>1. time + s \in 0 .. m - 1
          BY <1>1, <1>4, <2>1, <2>2
        <4>2. n = time + s
          BY <1>1, <4>1, Wraps
        <4> HIDE DEF n
        <4> QED BY <2>1, <4>2
      <3> HIDE DEF n
      <3> QED BY <1>1, <1>2, <1>3, <1>4, <2>2, <3>1
    <2>3. CASE time + span >= m
      <3>1. n = time + span - m
        <4>1. time + s \in m .. 2 * m - 1
          BY <1>1, <1>4, <2>1, <2>3
        <4>2. n = (time + s) - m
          BY <1>1, <4>1, Wraps
        <4> HIDE DEF n
        <4> QED BY <1>1, <2>1, <4>2
      <3> HIDE DEF n
      <3> QED BY <1>1, <1>2, <1>3, <1>4, <2>3, <3>1
    <2> QED BY <1>1, <2>2, <2>3
  <1>5. CASE span < 0
    <2>1. s = span + m
      <3>1. span = (-1) * m + (span + m) /\ span + m \in 0 .. m - 1
        BY <1>1, <1>5
      <3>2. Quotient(span, m, -1, span + m)
        BY <1>1, <3>1 DEF Quotient
      <3> QED BY <3>2, QuotientIs
    <2> HIDE DEF s
    <2>2. CASE time + span >= 0
      <3>1. n = time + span
        <4>1. time + s \in m .. 2 * m - 1
          BY <1>1, <1>5, <2>1, <2>2
        <4>2. n = (time + s) - m
          BY <1>1, <4>1, Wraps
        <4> HIDE DEF n
        <4> QED BY <1>1, <2>1, <4>2
      <3> HIDE DEF n
      <3> QED BY <1>1, <1>2, <1>3, <1>5, <2>2, <3>1
    <2>3. CASE time + span < 0
      <3>1. n = time + span + m
        <4>1. time + s \in 0 .. m - 1
          BY <1>1, <1>5, <2>1, <2>3
        <4>2. n = time + s
          BY <1>1, <4>1, Wraps
        <4> HIDE DEF n
        <4> QED BY <1>1, <2>1, <4>2
      <3> HIDE DEF n
      <3> QED BY <1>1, <1>2, <1>3, <1>5, <2>3, <3>1
    <2> QED BY <1>1, <2>2, <2>3
  <1> QED BY <1>1, <1>4, <1>5 DEF a, c

LEMMA SignedIs ==
  ASSUME NEW x \in Word
  PROVE  /\ WideNumber!Signed(x) \in -(WideNumber!Modulus \div 2) .. WideNumber!Modulus \div 2 - 1
         /\ x < WideNumber!Modulus \div 2 => WideNumber!Signed(x) = x
  <1> DEFINE m == WideNumber!Modulus
             h == m \div 2
  <1>1. m \in Nat \ {0} /\ h \in Nat /\ m = 2 * h /\ x \in 0 .. m - 1
    BY WordsAre, HalvesAre DEF Word
  <1>2. WideNumber!Signed(x) = IF x < h THEN x ELSE x - m
    BY DEF WideNumber!Signed
  <1> HIDE DEF m, h
  <1>3. WideNumber!Signed(x) \in -h .. h - 1 /\ (x < h => WideNumber!Signed(x) = x)
    BY <1>1, <1>2
  <1> QED BY <1>3 DEF m, h

LEMMA DurationKept ==
  ASSUME NEW time \in Word, NEW end \in Word,
         end - time \in -(WideNumber!Modulus \div 2 - 1) .. WideNumber!Modulus \div 2 - 1
  PROVE  WideNumber!AddDuration(time, WideNumber!DurationBetween(time, end)) = end
  <1> DEFINE m == WideNumber!Modulus
             h == m \div 2
             d == WideNumber!DurationBetween(time, end)
  <1>1. /\ m \in Nat \ {0} /\ h \in Nat /\ m = 2 * h /\ time \in 0 .. m - 1 /\ end \in 0 .. m - 1
        /\ end - time \in -(h - 1) .. h - 1
    BY WordsAre, HalvesAre DEF Word
  <1>2. d = IF end >= time THEN WideNumber!Signed(end - time) ELSE -WideNumber!Signed(time - end)
    BY DEF WideNumber!DurationBetween
  <1>3. end >= time => WideNumber!Signed(end - time) = end - time
    <2> SUFFICES ASSUME end >= time PROVE WideNumber!Signed(end - time) = end - time
      OBVIOUS
    <2> HIDE DEF m, h
    <2>1. end - time \in 0 .. m - 1 /\ end - time < h
      BY <1>1
    <2> QED BY <2>1, SignedIs DEF Word, m, h
  <1>4. ~(end >= time) => WideNumber!Signed(time - end) = time - end
    <2> SUFFICES ASSUME ~(end >= time) PROVE WideNumber!Signed(time - end) = time - end
      OBVIOUS
    <2> HIDE DEF m, h
    <2>1. time - end \in 0 .. m - 1 /\ time - end < h
      BY <1>1
    <2> QED BY <2>1, SignedIs DEF Word, m, h
  <1> HIDE DEF d, m, h
  <1>5. d = end - time
    BY <1>1, <1>2, <1>3, <1>4
  <1>6. d \in -h .. h - 1 /\ time + d = end
    BY <1>1, <1>5
  <1>7. WideNumber!AddDuration(time, d) = WideNumber!Clamp(end)
    BY <1>6, DurationAdded DEF m, h
  <1>8. WideNumber!Clamp(end) = end
    <2>1. ~(end < 0) /\ ~(end >= WideNumber!Modulus)
      BY <1>1 DEF m
    <2> QED BY <2>1, Zenon DEF WideNumber!Clamp
  <1> QED BY <1>7, <1>8 DEF d

LEMMA WideExact ==
  ASSUME wide \in WidePair
  PROVE  WideNumber!Exact
  <1> DEFINE m == WideNumber!Modulus
             h == m \div 2
             span == WideNumber!Signed(wide.hi)
  <1>1. ASSUME NEW hi \in 0 .. m - 1, NEW lo \in 0 .. m - 1
        PROVE  LET right == [hi |-> hi, lo |-> lo] IN
               /\ WideNumber!Number(WideNumber!Add(wide, right)) = (WideNumber!Number(wide) + WideNumber!Number(right)) % (m * m)
               /\ WideNumber!Number(WideNumber!Mul(wide, right)) = (WideNumber!Number(wide) * WideNumber!Number(right)) % (m * m)
    <2> DEFINE right == [hi |-> hi, lo |-> lo]
    <2>1. right \in WidePair
      BY DEF WidePair, Word
    <2> HIDE DEF right
    <2>2. /\ WideNumber!Number(WideNumber!Add(wide, right)) = (WideNumber!Number(wide) + WideNumber!Number(right)) % (m * m)
          /\ WideNumber!Number(WideNumber!Mul(wide, right)) = (WideNumber!Number(wide) * WideNumber!Number(right)) % (m * m)
      BY <2>1, Added, Multiplied
    <2> QED BY <2>2 DEF right
  <1>2. \A shift \in 0 .. 2 * WideNumber!WordBits + 1 :
          WideNumber!Number(WideNumber!ShiftRight(wide, shift)) = WideNumber!Number(wide) \div 2 ^ shift
    BY ShiftedRight
  <1>3. wide.lo \in Word /\ wide.hi \in Word
    BY DEF WidePair
  <1>4. h \in Nat /\ span \in -h .. h - 1
    BY <1>3, SignedIs, HalvesAre
  <1>5. WideNumber!AddDuration(wide.lo, span) = WideNumber!Clamp(wide.lo + span)
    BY <1>3, <1>4, DurationAdded
  <1>6. span # -h => WideNumber!SubDuration(wide.lo, span) = WideNumber!Clamp(wide.lo - span)
    <2> SUFFICES ASSUME span # -h
                 PROVE  WideNumber!SubDuration(wide.lo, span) = WideNumber!Clamp(wide.lo - span)
      OBVIOUS
    <2> HIDE DEF span, h
    <2> DEFINE back == -span
    <2>1. back \in -h .. h - 1
      BY <1>4
    <2>2. wide.lo + back = wide.lo - span
      BY <1>3, <1>4, WordsAre DEF Word
    <2>3. WideNumber!SubDuration(wide.lo, span) = WideNumber!AddDuration(wide.lo, back)
      BY DEF WideNumber!SubDuration
    <2> HIDE DEF back
    <2>4. WideNumber!AddDuration(wide.lo, back) = WideNumber!Clamp(wide.lo + back)
      BY <1>3, <2>1, DurationAdded DEF h
    <2> QED BY <2>2, <2>3, <2>4
  <1>7. ASSUME NEW end \in 0 .. m - 1, end - wide.lo \in -(h - 1) .. h - 1
        PROVE  WideNumber!AddDuration(wide.lo, WideNumber!DurationBetween(wide.lo, end)) = end
    <2>1. end \in Word
      BY DEF Word
    <2> QED BY <1>3, <1>7, <2>1, DurationKept
  <1> QED BY <1>1, <1>2, <1>5, <1>6, <1>7, Zenon DEF WideNumber!Exact

(* Exact: sums, products and shifts of wide numbers are those of the       *)
(* numbers they stand for, and times saturate, for words of any even       *)
(* number of bits.                                                         *)
THEOREM WideNumbersExact == WideNumber!Spec => []WideNumber!Exact
  <1> DEFINE Inv == wide \in WidePair
  <1>1. WideNumber!Init => Inv
    <2>1. 0 \in Word
      BY WordsAre DEF Word
    <2> QED BY <2>1 DEF WideNumber!Init, WidePair
  <1>2. Inv /\ [WideNumber!Next]_wide => Inv'
    <2> SUFFICES ASSUME wide \in WidePair, WideNumber!Next PROVE wide' \in WidePair
      BY DEF WidePair
    <2>1. 0 \in Word /\ 1 \in Word
      <3> DEFINE m == WideNumber!Modulus
                 h == m \div 2
      <3>1. h \in Nat /\ h > 0 /\ m = 2 * h
        BY HalvesAre
      <3> HIDE DEF h, m
      <3>2. 0 \in 0 .. m - 1 /\ 1 \in 0 .. m - 1
        BY <3>1
      <3> QED BY <3>2 DEF Word, m
    <2>2. [hi |-> 0, lo |-> 1] \in WidePair
      BY <2>1 DEF WidePair
    <2> QED BY <2>2, Added DEF WideNumber!Next
  <1>3. Inv => WideNumber!Exact
    BY WideExact
  <1> QED BY <1>1, <1>2, <1>3, PTL DEF WideNumber!Spec

-----------------------------------------------------------------------------
(* The blocks of a digest.                                                 *)
Blocks(n) == \E k \in Nat : n = k * DigestBlock

(* One more block.                                                         *)
LEMMA BlocksGrow ==
  ASSUME NEW n \in Nat, Blocks(n)
  PROVE  Blocks(n + DigestBlock)
  <1>1. PICK k \in Nat : n = k * DigestBlock
    BY DEF Blocks
  <1>2. DigestBlock \in Nat
    BY DigestAssumption
  <1>3. n + DigestBlock = (k + 1) * DigestBlock
    BY <1>1, <1>2
  <1> QED BY <1>3 DEF Blocks

(* What a number of whole blocks leaves of one.                            *)
LEMMA BlocksAre ==
  ASSUME NEW n \in Nat, Blocks(n)
  PROVE  n % DigestBlock = 0
  <1>1. PICK k \in Nat : n = k * DigestBlock
    BY DEF Blocks
  <1>2. DigestBlock \in Nat \ {0} /\ 0 \in 0 .. DigestBlock - 1
    BY DigestAssumption
  <1>3. Quotient(n, DigestBlock, k, 0)
    BY <1>1, <1>2 DEF Quotient
  <1> QED BY <1>3, QuotientIs

(* Sequences one behind the other.                                         *)
LEMMA EndToEnd ==
  ASSUME NEW X, NEW a \in Seq(X), NEW b \in Seq(X)
  PROVE  /\ a \o b \in Seq(X) /\ Len(a \o b) = Len(a) + Len(b) /\ Len(a) \in Nat /\ Len(b) \in Nat
         /\ \A i \in 1 .. Len(a) : (a \o b)[i] = a[i]
         /\ \A i \in 1 .. Len(b) : (a \o b)[Len(a) + i] = b[i]
  OBVIOUS

(* ... and what is left of it without their places.                        *)
LEMMA Joined ==
  ASSUME NEW X, NEW a \in Seq(X), NEW b \in Seq(X)
  PROVE  a \o b \in Seq(X) /\ Len(a \o b) = Len(a) + Len(b)
  BY EndToEnd

(* Sequences alike in their length and their places are the same.          *)
LEMMA Alike ==
  ASSUME NEW X, NEW a \in Seq(X), NEW b \in Seq(X), Len(a) = Len(b), \A i \in 1 .. Len(a) : a[i] = b[i]
  PROVE  a = b
  OBVIOUS

(* The pieces of a sequence make it up again.                              *)
LEMMA Parts ==
  ASSUME NEW X, NEW s \in Seq(X), NEW n \in Nat, n <= Len(s)
  PROVE  /\ SubSeq(s, 1, n) \in Seq(X) /\ Len(SubSeq(s, 1, n)) = n
         /\ SubSeq(s, n + 1, Len(s)) \in Seq(X) /\ Len(SubSeq(s, n + 1, Len(s))) = Len(s) - n
         /\ SubSeq(s, 1, n) \o SubSeq(s, n + 1, Len(s)) = s
  <1> DEFINE a == SubSeq(s, 1, n)
             b == SubSeq(s, n + 1, Len(s))
  <1>1. a \in Seq(X) /\ Len(a) = n /\ \A i \in 1 .. n : a[i] = s[i]
    OBVIOUS
  <1>2. b \in Seq(X) /\ Len(b) = Len(s) - n /\ \A i \in 1 .. Len(s) - n : b[i] = s[n + i]
    OBVIOUS
  <1>3. Len(s) \in Nat
    OBVIOUS
  <1> HIDE DEF a, b
  <1>4. /\ a \o b \in Seq(X) /\ Len(a \o b) = Len(s)
        /\ \A i \in 1 .. n : (a \o b)[i] = a[i]
        /\ \A i \in 1 .. Len(s) - n : (a \o b)[n + i] = b[i]
    BY <1>1, <1>2, <1>3, EndToEnd
  <1>5. ASSUME NEW i \in 1 .. Len(s) PROVE (a \o b)[i] = s[i]
    <2>1. CASE i <= n
      BY <1>1, <1>4, <2>1
    <2>2. CASE i > n
      <3>1. PICK j \in 1 .. Len(s) - n : i = n + j
        <4>1. i - n \in 1 .. Len(s) - n /\ i = n + (i - n)
          BY <1>3, <2>2
        <4> QED BY <4>1
      <3>2. (a \o b)[n + j] = b[j]
        BY <1>4
      <3>3. b[j] = s[n + j]
        BY <1>2
      <3>4. (a \o b)[n + j] = s[n + j]
        BY <3>2, <3>3, Zenon
      <3> QED BY <3>1, <3>4, Zenon
    <2>3. i <= n \/ i > n
      BY <1>3
    <2> QED BY <2>1, <2>2, <2>3, Zenon
  <1>6. a \o b = s
    BY <1>4, <1>5, Alike
  <1> QED BY <1>1, <1>2, <1>6 DEF a, b

(* The bytes of a message.                                                 *)
LEMMA MessageIs ==
  ASSUME NEW count \in Nat
  PROVE  Digest!Message(count) \in Seq(Nat) /\ Len(Digest!Message(count)) = count
  BY DEF Digest!Message

(* A longer message goes on where the shorter one ends.                    *)
LEMMA MessageGrows ==
  ASSUME NEW c \in Nat, NEW d \in Nat
  PROVE  LET more == SubSeq(Digest!Message(c + d), c + 1, c + d)
         IN  more \in Seq(Nat) /\ Digest!Message(c) \o more = Digest!Message(c + d)
  <1> DEFINE m == Digest!Message(c + d)
  <1>1. m \in Seq(Nat) /\ Len(m) = c + d /\ c + d \in Nat /\ c <= Len(m)
    BY MessageIs
  <1>2. SubSeq(m, 1, c) = Digest!Message(c)
    <2>1. /\ SubSeq(m, 1, c) \in Seq(Nat) /\ Len(SubSeq(m, 1, c)) = c
          /\ \A i \in 1 .. c : SubSeq(m, 1, c)[i] = m[i]
      <3> HIDE DEF m
      <3> QED BY <1>1
    <2>2. Digest!Message(c) \in Seq(Nat) /\ Len(Digest!Message(c)) = c
      BY MessageIs
    <2>3. \A i \in 1 .. c : m[i] = 255 + i /\ Digest!Message(c)[i] = 255 + i
      BY DEF Digest!Message
    <2> HIDE DEF m
    <2> QED BY <2>1, <2>2, <2>3
  <1> HIDE DEF m
  <1>3. SubSeq(m, 1, c) \o SubSeq(m, c + 1, Len(m)) = m /\ SubSeq(m, c + 1, Len(m)) \in Seq(Nat)
    BY <1>1, Parts
  <1> QED BY <1>1, <1>2, <1>3 DEF m

(* Zeros behind zeros are zeros.                                           *)
LEMMA ZerosAre ==
  ASSUME NEW m \in Nat, NEW n \in Nat
  PROVE  /\ Digest!Zeros(m) \in Seq(Nat) /\ Len(Digest!Zeros(m)) = m
         /\ Digest!Zeros(m) \o Digest!Zeros(n) = Digest!Zeros(m + n)
  <1>1. \A k \in Nat : /\ Digest!Zeros(k) \in Seq(Nat) /\ Len(Digest!Zeros(k)) = k
                       /\ \A i \in 1 .. k : Digest!Zeros(k)[i] = 0
    BY DEF Digest!Zeros
  <1> DEFINE a == Digest!Zeros(m)
             b == Digest!Zeros(n)
             c == Digest!Zeros(m + n)
  <1>2. /\ a \in Seq(Nat) /\ Len(a) = m /\ \A i \in 1 .. m : a[i] = 0
        /\ b \in Seq(Nat) /\ Len(b) = n /\ \A i \in 1 .. n : b[i] = 0
        /\ c \in Seq(Nat) /\ Len(c) = m + n /\ \A i \in 1 .. m + n : c[i] = 0
    BY <1>1
  <1> HIDE DEF a, b, c
  <1>3. /\ a \o b \in Seq(Nat) /\ Len(a \o b) = m + n
        /\ \A i \in 1 .. m : (a \o b)[i] = a[i]
        /\ \A i \in 1 .. n : (a \o b)[m + i] = b[i]
    BY <1>2, EndToEnd
  <1>4. ASSUME NEW i \in 1 .. m + n PROVE (a \o b)[i] = c[i]
    <2>1. CASE i <= m
      BY <1>2, <1>3, <2>1
    <2>2. CASE i > m
      <3>1. PICK j \in 1 .. n : i = m + j
        <4>1. i - m \in 1 .. n /\ i = m + (i - m)
          BY <2>2
        <4> QED BY <4>1
      <3>2. (a \o b)[m + j] = b[j] /\ b[j] = 0
        BY <1>2, <1>3
      <3>3. (a \o b)[m + j] = 0
        BY <3>2, Zenon
      <3>4. (a \o b)[i] = 0
        BY <3>1, <3>3, Zenon
      <3>5. c[i] = 0
        BY <1>2
      <3> QED BY <3>4, <3>5, Zenon
    <2>3. i <= m \/ i > m
      OBVIOUS
    <2> QED BY <2>1, <2>2, <2>3, Zenon
  <1>5. a \o b = c
    BY <1>2, <1>3, <1>4, Alike
  <1> QED BY <1>2, <1>5 DEF a, b, c

(* What the loop has gone through and what it has not are the message; the *)
(* blocks processed are full ones.                                         *)
ShaInv ==
  /\ shaTotal \in Nat
  /\ shaBlock \in Seq(Nat) /\ Len(shaBlock) < DigestBlock
  /\ shaRest \in Seq(Nat)
  /\ IF shaEnded THEN shaRest = << >> /\ Digest!Blocked
     ELSE /\ shaProcessed \in Seq(Nat) /\ Blocks(Len(shaProcessed))
          /\ shaProcessed \o shaBlock \o shaRest = Digest!Message(shaTotal)

(* nexus_hash_sha1_begin establishes the invariant ...                     *)
LEMMA ShaBegins == Digest!Begin => ShaInv
  <1> SUFFICES ASSUME Digest!Begin PROVE ShaInv
    OBVIOUS
  <1>1. DigestBlock \in Nat /\ 0 < DigestBlock /\ 0 * DigestBlock = 0
    BY DigestAssumption
  <1>2. /\ shaTotal = 0 /\ shaBlock = << >> /\ shaProcessed = << >> /\ shaRest = << >> /\ ~shaEnded
    BY DEF Digest!Begin
  <1>3. Digest!Message(0) = << >>
    <2>1. Digest!Message(0) \in Seq(Nat) /\ Len(Digest!Message(0)) = 0
      BY MessageIs
    <2> QED BY <2>1
  <1>4. Blocks(0)
    BY <1>1 DEF Blocks
  <1>5. << >> \in Seq(Nat) /\ Len(<< >>) = 0 /\ << >> \o << >> \o << >> = << >>
    OBVIOUS
  <1> QED BY <1>1, <1>2, <1>3, <1>4, <1>5 DEF ShaInv

(* ... a piece is what the message goes on with ...                        *)
LEMMA PieceKeeps ==
  ASSUME ShaInv, NEW count \in DigestPieces, Digest!BytesGiven(count)
  PROVE  ShaInv'
  <1>1. /\ ~shaEnded /\ shaRest = << >> /\ shaTotal' = shaTotal + count
        /\ shaRest' = SubSeq(Digest!Message(shaTotal + count), shaTotal + 1, shaTotal + count)
        /\ shaBlock' = shaBlock /\ shaProcessed' = shaProcessed /\ shaEnded' = shaEnded
    BY DEF Digest!BytesGiven
  <1>2. /\ shaTotal \in Nat /\ shaBlock \in Seq(Nat) /\ Len(shaBlock) < DigestBlock
        /\ shaProcessed \in Seq(Nat) /\ Blocks(Len(shaProcessed))
        /\ shaProcessed \o shaBlock \o << >> = Digest!Message(shaTotal)
    BY <1>1 DEF ShaInv
  <1>3. count \in Nat /\ shaTotal + count \in Nat
    BY <1>2, DigestAssumption
  <1>4. shaRest' \in Seq(Nat) /\ Digest!Message(shaTotal) \o shaRest' = Digest!Message(shaTotal + count)
    BY <1>1, <1>2, <1>3, MessageGrows
  <1>5. shaProcessed \o shaBlock \o << >> = shaProcessed \o shaBlock
    BY <1>2
  <1> QED BY <1>1, <1>2, <1>3, <1>4, <1>5 DEF ShaInv

(* ... a turn of the loop only moves bytes from the piece to the blocks    *)
(* ...                                                                     *)
LEMMA TurnKeeps ==
  ASSUME ShaInv, Digest!Turn
  PROVE  ShaInv'
  <1> DEFINE n == Digest!CopyCount(Len(shaBlock), Len(shaRest))
             head == SubSeq(shaRest, 1, n)
             tail == SubSeq(shaRest, n + 1, Len(shaRest))
             full == shaBlock \o head
  <1>1. ~shaEnded
    BY DEF ShaInv, Digest!Turn
  <1>2. /\ shaTotal \in Nat /\ shaBlock \in Seq(Nat) /\ Len(shaBlock) < DigestBlock /\ shaRest \in Seq(Nat)
        /\ shaProcessed \in Seq(Nat) /\ Blocks(Len(shaProcessed))
        /\ shaProcessed \o shaBlock \o shaRest = Digest!Message(shaTotal)
    BY <1>1 DEF ShaInv
  <1>3. DigestBlock \in Nat /\ Len(shaBlock) \in Nat /\ Len(shaRest) \in Nat /\ Len(shaProcessed) \in Nat
    BY <1>2, DigestAssumption
  <1>4. n \in Nat /\ n <= Len(shaRest) /\ n <= DigestBlock - Len(shaBlock)
    <2> DEFINE a == DigestBlock - Len(shaBlock)
               b == Len(shaRest)
    <2>1. a \in Nat /\ b \in Nat
      BY <1>2, <1>3
    <2> HIDE DEF a, b
    <2>2. \E x \in {a, b} : \A y \in {a, b} : x <= y
      <3>1. CASE a <= b
        BY <2>1, <3>1
      <3>2. CASE b <= a
        BY <2>1, <3>2
      <3> QED BY <2>1, <3>1, <3>2
    <2>3. Digest!Min({a, b}) \in {a, b} /\ \A y \in {a, b} : Digest!Min({a, b}) <= y
      BY <2>2 DEF Digest!Min
    <2>4. n = Digest!Min({a, b})
      BY DEF Digest!CopyCount, a, b
    <2> HIDE DEF n
    <2> QED BY <2>1, <2>3, <2>4 DEF a, b
  <1>5. /\ shaRest' = tail /\ shaTotal' = shaTotal /\ shaEnded' = shaEnded
        /\ IF Len(full) = DigestBlock THEN shaBlock' = << >> /\ shaProcessed' = shaProcessed \o full
                                      ELSE shaBlock' = full /\ shaProcessed' = shaProcessed
    BY DEF Digest!Turn, Digest!block_byte_count
  <1> HIDE DEF n
  <1>6. /\ head \in Seq(Nat) /\ Len(head) = n /\ tail \in Seq(Nat) /\ head \o tail = shaRest
    BY <1>2, <1>4, Parts
  <1> HIDE DEF head, tail
  <1>7. full \in Seq(Nat) /\ Len(full) = Len(shaBlock) + n /\ Len(full) \in Nat
    BY <1>2, <1>4, <1>6, EndToEnd
  <1>8. shaProcessed \o full \o tail = Digest!Message(shaTotal)
    <2>1. shaProcessed \o full = (shaProcessed \o shaBlock) \o head
      <3>1. shaProcessed \in Seq(Nat) /\ shaBlock \in Seq(Nat) /\ head \in Seq(Nat)
        BY <1>2, <1>6
      <3>2. shaProcessed \o (shaBlock \o head) = (shaProcessed \o shaBlock) \o head
        <4> DEFINE u == shaProcessed
                   v == shaBlock
        <4>1. u \in Seq(Nat) /\ v \in Seq(Nat) /\ head \in Seq(Nat)
          BY <3>1
        <4> HIDE DEF u, v
        <4>2. (u \o v) \o head = u \o (v \o head)
          BY <4>1
        <4> QED BY <4>2 DEF u, v
      <3> QED BY <3>2
    <2>2. shaProcessed \o shaBlock \in Seq(Nat)
      BY <1>2
    <2>3. ((shaProcessed \o shaBlock) \o head) \o tail = (shaProcessed \o shaBlock) \o (head \o tail)
      <3> DEFINE u == shaProcessed \o shaBlock
      <3>1. u \in Seq(Nat) /\ head \in Seq(Nat) /\ tail \in Seq(Nat)
        BY <1>6, <2>2
      <3> HIDE DEF u
      <3>2. (u \o head) \o tail = u \o (head \o tail)
        BY <3>1
      <3> QED BY <3>2 DEF u
    <2> QED BY <1>2, <1>6, <2>1, <2>3
  <1> HIDE DEF full
  <1>9. CASE Len(full) = DigestBlock
    <2>1. shaBlock' = << >> /\ shaProcessed' = shaProcessed \o full
      BY <1>5, <1>9
    <2>2. shaProcessed \o full \in Seq(Nat) /\ Len(shaProcessed \o full) = Len(shaProcessed) + DigestBlock
      BY <1>2, <1>7, <1>9, EndToEnd
    <2>3. Blocks(Len(shaProcessed \o full))
      BY <1>2, <1>3, <2>2, BlocksGrow
    <2>4. shaProcessed \o full \o << >> = shaProcessed \o full
      BY <2>2
    <2>5. << >> \in Seq(Nat) /\ Len(<< >>) < DigestBlock
      BY <1>2, <1>3
    <2> QED BY <1>1, <1>2, <1>5, <1>6, <1>8, <2>1, <2>2, <2>3, <2>4, <2>5 DEF ShaInv
  <1>10. CASE Len(full) # DigestBlock
    <2>1. shaBlock' = full /\ shaProcessed' = shaProcessed
      BY <1>5, <1>10
    <2>2. Len(full) < DigestBlock
      BY <1>3, <1>4, <1>7, <1>10
    <2> QED BY <1>1, <1>2, <1>5, <1>6, <1>7, <1>8, <2>1, <2>2 DEF ShaInv
  <1> QED BY <1>9, <1>10

(* ... and the last block: marker, zeros and length fill it, or it and one *)
(* more.                                                                   *)
LEMMA EndKeeps ==
  ASSUME ShaInv, Digest!End
  PROVE  ShaInv'
  <1> DEFINE p == shaProcessed
             b == shaBlock
             mark == <<128>>
             L == Digest!LengthOf(shaTotal)
             X == Nat \union {L[i] : i \in 1 .. DigestLength}
             at == DigestBlock - DigestLength
             message == Digest!Message(shaTotal)
  <1>1. /\ ~shaEnded /\ shaRest = << >> /\ shaEnded' = TRUE
        /\ shaTotal' = shaTotal /\ shaBlock' = shaBlock /\ shaRest' = shaRest
    BY DEF Digest!End
  <1>2. /\ shaTotal \in Nat /\ b \in Seq(Nat) /\ Len(b) < DigestBlock /\ shaRest \in Seq(Nat)
        /\ p \in Seq(Nat) /\ Blocks(Len(p)) /\ p \o b \o << >> = message
    BY <1>1 DEF ShaInv
  <1>3. /\ DigestBlock \in Nat /\ DigestLength \in Nat /\ at \in Nat /\ at + DigestLength = DigestBlock /\ at > 0
        /\ Len(b) \in Nat /\ Len(p) \in Nat /\ Digest!LengthAt = at
    BY <1>2, DigestAssumption DEF Digest!LengthAt
  <1>4. L \in Seq(X) /\ Len(L) = DigestLength
    <2>1. DOMAIN L = 1 .. DigestLength /\ L = [i \in 1 .. DigestLength |-> L[i]]
      BY Zenon DEF Digest!LengthOf
    <2> HIDE DEF L
    <2>2. \A i \in 1 .. DigestLength : L[i] \in X
      OBVIOUS
    <2> HIDE DEF X
    <2> QED BY <1>3, <2>1, <2>2
  <1>5. p \in Seq(X) /\ b \in Seq(X) /\ mark \in Seq(X) /\ \A z \in Nat : Digest!Zeros(z) \in Seq(X)
    <2>1. Nat \subseteq X /\ mark \in Seq(Nat)
      OBVIOUS
    <2>2. \A z \in Nat : Digest!Zeros(z) \in Seq(Nat)
      BY ZerosAre
    <2> HIDE DEF X, p, b, mark
    <2>3. Seq(Nat) \subseteq Seq(X)
      BY <2>1
    <2> QED BY <1>2, <2>1, <2>2, <2>3 DEF p, b
  <1>6. message = p \o b
    BY <1>2
  <1> DEFINE marked == Append(b, 128)
  <1>7. marked = b \o mark /\ marked \in Seq(X) /\ Len(marked) = Len(b) + 1
    <2>1. 128 \in X
      OBVIOUS
    <2> HIDE DEF X, b
    <2>2. b \in Seq(X)
      BY <1>5
    <2>3. Append(b, 128) \in Seq(X) /\ Len(Append(b, 128)) = Len(b) + 1 /\ Append(b, 128) = b \o <<128>>
      BY <2>1, <2>2
    <2> QED BY <2>3
  <1> DEFINE padded == IF Digest!Overflows(marked)
                         THEN marked \o Digest!Zeros(DigestBlock - Len(marked)) \o Digest!Zeros(at)
                         ELSE marked \o Digest!Zeros(at - Len(marked))
  <1>8. shaProcessed' = p \o padded \o L
    BY <1>3, Zenon DEF Digest!End
  <1> HIDE DEF L, X, message, mark, p, b
  (* However many zeros there are, the text is the message with its tail.  *)
  <1>9. ASSUME NEW z \in Nat, padded = marked \o Digest!Zeros(z), z < DigestBlock,
               Len(b) + 1 + z + DigestLength \in {DigestBlock, DigestBlock + DigestBlock}
        PROVE  ShaInv'
    <2> DEFINE Z == Digest!Zeros(z)
    <2>1. Z \in Seq(X) /\ Len(Z) = z /\ Len(mark) = 1
      BY <1>5, ZerosAre DEF mark
    <2> HIDE DEF Z
    <2>2. padded = marked \o Z
      BY <1>9 DEF Z
    <2> HIDE DEF padded
    <2>3. p \o padded = message \o mark \o Z
      <3>1. p \o (marked \o Z) = (p \o marked) \o Z
        <4>1. p \in Seq(X) /\ marked \in Seq(X) /\ Z \in Seq(X)
          BY <1>5, <1>7, <2>1
        <4> HIDE DEF marked
        <4> QED BY <4>1
      <3>2. p \o marked = (p \o b) \o mark
        <4>1. p \in Seq(X) /\ b \in Seq(X) /\ mark \in Seq(X) /\ marked = b \o mark
          BY <1>5, <1>7
        <4> HIDE DEF marked
        <4>2. p \o (b \o mark) = (p \o b) \o mark
          BY <4>1
        <4> QED BY <4>1, <4>2
      <3> QED BY <1>6, <2>2, <3>1, <3>2
    <2>4. shaProcessed' = message \o mark \o Z \o L
      BY <1>8, <2>3
    <2>5. Len(shaProcessed') = Len(p) + (Len(b) + 1 + z + DigestLength)
      <3>1. p \o b \in Seq(X) /\ Len(p \o b) = Len(p) + Len(b)
        BY <1>5, EndToEnd
      <3> DEFINE u == p \o b
                 v == u \o mark
                 w == v \o Z
      <3>2. v \in Seq(X) /\ Len(v) = Len(u) + 1
        <4>1. u \in Seq(X) /\ mark \in Seq(X) /\ Len(mark) = 1
          BY <1>5, <2>1, <3>1
        <4> HIDE DEF u, X, mark
        <4>2. u \o mark \in Seq(X) /\ Len(u \o mark) = Len(u) + Len(mark)
          BY <4>1, Joined
        <4> QED BY <4>1, <4>2
      <3>3. w \in Seq(X) /\ Len(w) = Len(v) + z
        <4> HIDE DEF u, v
        <4> QED BY <2>1, <3>2, Joined
      <3>4. Len(w \o L) = Len(w) + DigestLength
        <4> HIDE DEF u, v, w
        <4> QED BY <1>4, <3>3, Joined
      <3>5. shaProcessed' = w \o L
        BY <1>6, <2>4
      <3> HIDE DEF v, w
      <3> QED BY <1>3, <3>1, <3>2, <3>3, <3>4, <3>5
    <2>6. Blocks(Len(shaProcessed')) /\ Len(shaProcessed') \in Nat
      <3>1. Blocks(Len(p) + DigestBlock) /\ Len(p) + DigestBlock \in Nat
        BY <1>2, <1>3, BlocksGrow DEF p
      <3>2. Blocks((Len(p) + DigestBlock) + DigestBlock)
        BY <3>1, BlocksGrow
      <3>3. (Len(p) + DigestBlock) + DigestBlock = Len(p) + (DigestBlock + DigestBlock)
        BY <1>3
      <3>4. Len(p) + (DigestBlock + DigestBlock) \in Nat
        BY <1>3
      <3> DEFINE last == Len(b) + 1 + z + DigestLength
                 all == Len(shaProcessed')
      <3>5. all = Len(p) + last /\ last \in {DigestBlock, DigestBlock + DigestBlock}
        BY <1>9, <2>5
      <3> HIDE DEF last, all
      <3>6. all = Len(p) + DigestBlock \/ all = (Len(p) + DigestBlock) + DigestBlock
        BY <1>3, <3>3, <3>5
      <3>7. (Len(p) + DigestBlock) + DigestBlock \in Nat
        BY <3>3, <3>4
      <3>8. Blocks(all) /\ all \in Nat
        BY <3>1, <3>2, <3>6, <3>7, Zenon
      <3> QED BY <3>8 DEF all
    <2>7. Len(shaProcessed') % DigestBlock = 0
      BY <2>6, BlocksAre
    <2>8. z \in 0 .. DigestBlock - 1
      BY <1>3, <1>9
    <2>9. Digest!Blocked'
      BY <1>1, <2>4, <2>7, <2>8, Zenon DEF Digest!Blocked, L, Z, mark, message
    <2> QED BY <1>1, <1>2, <2>9 DEF ShaInv, b
  <1>10. CASE Len(marked) > at
    <2> DEFINE m == DigestBlock - Len(marked)
    <2>1. m \in Nat /\ m + at \in Nat /\ m + at < DigestBlock
          /\ Len(b) + 1 + (m + at) + DigestLength = DigestBlock + DigestBlock
      BY <1>2, <1>3, <1>7, <1>10 DEF b
    <2>2. padded = marked \o Digest!Zeros(m) \o Digest!Zeros(at)
      BY <1>3, <1>10 DEF Digest!Overflows
    <2> HIDE DEF m, padded, marked
    <2>3. marked \o Digest!Zeros(m) \o Digest!Zeros(at) = marked \o (Digest!Zeros(m) \o Digest!Zeros(at))
      <3> DEFINE u == Digest!Zeros(m)
                 v == Digest!Zeros(at)
      <3>1. marked \in Seq(X) /\ u \in Seq(X) /\ v \in Seq(X)
        BY <1>3, <1>5, <1>7, <2>1 DEF marked
      <3> HIDE DEF u, v
      <3>2. (marked \o u) \o v = marked \o (u \o v)
        BY <3>1
      <3> QED BY <3>2 DEF u, v
    <2>4. Digest!Zeros(m) \o Digest!Zeros(at) = Digest!Zeros(m + at)
      BY <1>3, <2>1, ZerosAre
    <2> QED BY <1>9, <2>1, <2>2, <2>3, <2>4
  <1>11. CASE ~(Len(marked) > at)
    <2> DEFINE m == at - Len(marked)
    <2>1. m \in Nat /\ m < DigestBlock /\ Len(b) + 1 + m + DigestLength = DigestBlock
      BY <1>3, <1>7, <1>11
    <2>2. padded = marked \o Digest!Zeros(m)
      BY <1>3, <1>11 DEF Digest!Overflows
    <2> HIDE DEF m, padded
    <2> QED BY <1>9, <2>1, <2>2
  <1> QED BY <1>10, <1>11

(* Blocked: a message of any length, given in any pieces, is processed in  *)
(* its own blocks, the last of them padded, for blocks of any size.        *)
THEOREM MessagesBlocked == Digest!Spec => []Digest!Blocked
  <1>1. ShaInv /\ [Digest!Next]_shaVars => ShaInv'
    <2> SUFFICES ASSUME ShaInv, [Digest!Next]_shaVars PROVE ShaInv'
      OBVIOUS
    <2>1. CASE Digest!Turn
      BY <2>1, TurnKeeps
    <2>2. CASE Digest!End
      BY <2>2, EndKeeps
    <2>3. CASE \E count \in DigestPieces : Digest!BytesGiven(count)
      BY <2>3, PieceKeeps
    <2>4. CASE UNCHANGED shaVars
      <3>1. /\ shaTotal' = shaTotal /\ shaBlock' = shaBlock /\ shaProcessed' = shaProcessed
            /\ shaRest' = shaRest /\ shaEnded' = shaEnded
        BY <2>4 DEF shaVars
      <3>2. Digest!Blocked' <=> Digest!Blocked
        BY <3>1 DEF Digest!Blocked, Digest!block_byte_count
      <3> QED BY <3>1, <3>2 DEF ShaInv
    <2> QED BY <2>1, <2>2, <2>3, <2>4 DEF Digest!Next
  <1>2. ShaInv => Digest!Blocked
    <2> SUFFICES ASSUME ShaInv, ~shaEnded PROVE Digest!Blocked
      BY DEF ShaInv
    <2>1. Len(shaProcessed) \in Nat /\ Blocks(Len(shaProcessed))
      BY DEF ShaInv
    <2>2. Len(shaProcessed) % DigestBlock = 0
      BY <2>1, BlocksAre
    <2> QED BY <2>2 DEF ShaInv, Digest!Blocked, Digest!block_byte_count
  <1> QED BY <1>1, <1>2, ShaBegins, PTL DEF Digest!Spec, Digest!vars, shaVars

(* ValuesExact: the four together, as the run checks them.                 *)
THEOREM ValuesAlways ==
  Numeral!Spec /\ WideNumber!Spec /\ Arguments!Spec /\ Digest!Spec => []ValuesExact
  <1>1. Numeral!NarrowExact /\ WideNumber!Exact /\ Arguments!RoundTrip /\ Digest!Blocked => ValuesExact
    BY DEF ValuesExact
  <1> QED BY <1>1, NumeralsRead, WideNumbersExact, ArgumentsSurvive, MessagesBlocked, PTL
=============================================================================

-------------------------- MODULE WaitGroupProofs --------------------------
(***************************************************************************)
(* The wait group keeps its safety properties for every number of threads  *)
(* and of units of work.                                                   *)
(***************************************************************************)
EXTENDS WaitGroup, FiniteSetTheorems, TLAPS

(* An add that has been called and not yet applied to the counter.         *)
Pending(t) == pc[t] \in {"add", "update"}

(* The counter counts the open units.                                      *)
Counts == counter = Cardinality(open)

(* The mutex is held by exactly the thread inside a critical section.      *)
Holding ==
  \A t \in Threads :
    owner = t <=> pc[t] \in {"update", "broadcast", "unlock", "test", "peek"}

(* Pending adds open units that are not open, close units that are, and    *)
(* no two of them deal with the same unit.                                 *)
Owed ==
  \A t \in Threads :
    /\ pc[t] \notin AddSteps => adding[t] = {} /\ closing[t] = {}
    /\ Pending(t) =>
         /\ adding[t] = {} <=> closing[t] # {}
         /\ adding[t] \cap open = {}
         /\ closing[t] \subseteq open
         /\ \A u \in Threads \ {t} : Pending(u) =>
              /\ adding[t] \cap adding[u] = {}
              /\ closing[t] \cap closing[u] = {}

(* What a wait must still outlast is still open.                           *)
Outlasting ==
  \A t \in Threads :
    /\ before[t] \subseteq open
    /\ pc[t] \notin WaitSteps => before[t] = {}

(* Once a thread has seen zero, and until the next add, every add has left *)
(* the group.                                                              *)
Finished ==
  cleared # {} => open = {} /\ \A t \in Threads : pc[t] \notin AddSteps

(* Nothing is left in a group that is gone.                                *)
Gone ==
  ~alive => open = {} /\ \A t \in Threads : pc[t] = "idle"

IInv == TypeOK /\ Counts /\ Holding /\ Owed /\ Outlasting /\ Finished /\ Gone

-----------------------------------------------------------------------------
(* Arithmetic of the counter.                                              *)

(* A set of units is finite, and has no more elements than there are units.*)
LEMMA UnitsCount ==
  ASSUME NEW S \in SUBSET Units
  PROVE  /\ IsFiniteSet(S)
         /\ Cardinality(S) \in 0..Cardinality(Units)
         /\ Cardinality(S) <= 0 => S = {}
  <1>1. IsFiniteSet(S) /\ Cardinality(S) <= Cardinality(Units)
    BY FS_Subset, GroupAssumption
  <1>2. Cardinality(S) \in Nat /\ Cardinality(Units) \in Nat
    BY <1>1, FS_CardinalityType, GroupAssumption
  <1>3. Cardinality(S) = 0 => S = {}
    BY <1>1, FS_EmptySet
  <1> QED BY <1>1, <1>2, <1>3

(* The delta of a pending add is what it changes in the number of open     *)
(* units.                                                                  *)
LEMMA DeltaCounts ==
  ASSUME TypeOK, Owed, NEW t \in Threads, Pending(t)
  PROVE  Cardinality((open \cup adding[t]) \ closing[t])
           = Cardinality(open) + Delta(t)
  <1>1. /\ open \in SUBSET Units /\ adding[t] \in SUBSET Units
        /\ closing[t] \in SUBSET Units
    BY DEF TypeOK
  <1>2. /\ IsFiniteSet(open) /\ IsFiniteSet(adding[t]) /\ IsFiniteSet(closing[t])
        /\ Cardinality(open) \in Int /\ Cardinality(adding[t]) \in Int
        /\ Cardinality(closing[t]) \in Int
    BY <1>1, UnitsCount
  <1>3. CASE closing[t] = {}
    <2>1. open \cap adding[t] = {}
      BY DEF Owed
    <2>2. Cardinality(open \cup adding[t])
            = Cardinality(open) + Cardinality(adding[t])
      <3>1. Cardinality(open \cup adding[t])
              = Cardinality(open) + Cardinality(adding[t])
                  - Cardinality(open \cap adding[t])
        BY <1>2, FS_Union
      <3>2. Cardinality(open \cap adding[t]) = 0
        BY <2>1, FS_EmptySet
      <3> QED BY <1>2, <3>1, <3>2
    <2>3. (open \cup adding[t]) \ closing[t] = open \cup adding[t]
      BY <1>3
    <2> QED BY <1>2, <1>3, <2>2, <2>3, FS_EmptySet DEF Delta
  <1>4. CASE closing[t] # {}
    <2>1. adding[t] = {} /\ open \cap closing[t] = closing[t]
      BY <1>4 DEF Owed
    <2>2. Cardinality(open \ closing[t])
            = Cardinality(open) - Cardinality(closing[t])
      <3>1. Cardinality(open \ closing[t])
              = Cardinality(open) - Cardinality(open \cap closing[t])
        BY <1>2, FS_Difference
      <3> QED BY <2>1, <3>1
    <2>3. (open \cup adding[t]) \ closing[t] = open \ closing[t]
      BY <2>1
    <2> QED BY <1>2, <2>1, <2>2, <2>3, FS_EmptySet DEF Delta
  <1> QED BY <1>3, <1>4

(* A counter of zero means that no unit is open.                           *)
LEMMA ZeroMeansClosed ==
  ASSUME TypeOK, Counts, counter <= 0
  PROVE  open = {}
  BY UnitsCount DEF TypeOK, Counts

-----------------------------------------------------------------------------
(* Preservation.                                                           *)

(* A thread that sees zero may tell that the group is finished.            *)
LEMMA SeenZeroFinished ==
  ASSUME TypeOK, Counts, Holding, Owed, Finished, counter <= 0,
         NEW t \in Threads, owner = t, pc[t] \in {"test", "peek"}, SeenZero(t)
  PROVE  cleared' # {} => open = {} /\ \A u \in Threads : pc[u] \notin AddSteps
  <1>1. open = {}
    BY ZeroMeansClosed
  <1>2. CASE \A u \in Threads : adding[u] = {}
    <2>1. \A u \in Threads : ~Pending(u)
      BY <1>1, <1>2 DEF Owed
    <2>2. \A u \in Threads : pc[u] \notin {"broadcast", "unlock"}
      BY DEF Holding
    <2> QED BY <1>1, <2>1, <2>2 DEF Pending, AddSteps
  <1>3. CASE ~ \A u \in Threads : adding[u] = {}
    BY <1>3 DEF SeenZero, Finished
  <1> QED BY <1>2, <1>3

(* Every step of every thread keeps the invariant.                         *)
LEMMA StepHolds ==
  ASSUME IInv, [Next]_vars
  PROVE  IInv'
  <1> USE GroupAssumption
      DEF Goto, Lock, Unlock, Steps, AddSteps, WaitSteps, TrySteps, work
  <1>1. CASE Create
    <2>1. TypeOK'
      BY <1>1, UnitsCount DEF Create, IInv, TypeOK
    <2>2. Counts'
      BY <1>1, FS_EmptySet DEF Create, IInv, Counts, Gone
    <2> QED BY <1>1, <2>1, <2>2
          DEF Create, IInv, Holding, Owed, Pending, Outlasting, Finished, Gone
  <1>2. ASSUME NEW t \in Threads, CallAdd(t)
        PROVE  IInv'
    <2>1. PICK units \in (SUBSET Fresh) \ {{}} :
            adding' = [adding EXCEPT ![t] = units]
      BY <1>2 DEF CallAdd
    <2>2. /\ units # {} /\ units \in SUBSET Units /\ units \cap open = {}
          /\ \A u \in Threads : units \cap adding[u] = {}
      BY <2>1 DEF Fresh
    <2>3. TypeOK'
      BY <1>2, <2>1, <2>2 DEF CallAdd, IInv, TypeOK
    <2>4. Owed'
      BY <1>2, <2>1, <2>2 DEF CallAdd, IInv, TypeOK, Owed, Pending
    <2> QED BY <1>2, <2>1, <2>3, <2>4
          DEF CallAdd, IInv, TypeOK, Counts, Holding, Outlasting, Finished, Gone
  <1>3. ASSUME NEW t \in Threads, CallDone(t)
        PROVE  IInv'
    <2>1. PICK units \in (SUBSET Closable) \ {{}} :
            closing' = [closing EXCEPT ![t] = units]
      BY <1>3 DEF CallDone
    <2>2. /\ units # {} /\ units \subseteq open
          /\ \A u \in Threads : units \cap closing[u] = {}
      BY <2>1 DEF Closable
    <2>3. TypeOK'
      BY <1>3, <2>1, <2>2 DEF CallDone, IInv, TypeOK
    <2>4. Owed'
      BY <1>3, <2>1, <2>2 DEF CallDone, IInv, TypeOK, Owed, Pending
    <2>5. cleared = {}
      BY <2>2 DEF IInv, Finished
    <2> QED BY <1>3, <2>1, <2>3, <2>4, <2>5
          DEF CallDone, IInv, TypeOK, Counts, Holding, Outlasting, Finished, Gone
  <1>4. ASSUME NEW t \in Threads, AddLock(t)
        PROVE  IInv'
    BY <1>4 DEF AddLock, IInv, TypeOK, Counts, Holding, Owed, Pending,
                Outlasting, Finished, Gone
  <1>5. ASSUME NEW t \in Threads, AddUpdate(t)
        PROVE  IInv'
    <2>1. /\ pc[t] = "update" /\ Pending(t) /\ alive /\ cleared = {}
          /\ pc' \in [Threads -> Steps]
          /\ pc'[t] \in {"broadcast", "unlock"}
          /\ \A u \in Threads \ {t} : pc'[u] = pc[u]
          /\ open' = (open \cup adding[t]) \ closing[t]
          /\ \A u \in Threads : before'[u] = before[u] \ closing[t]
          /\ UNCHANGED <<alive, owner, adding, closing, cleared>>
      BY <1>5 DEF AddUpdate, IInv, TypeOK, Pending, Finished, Gone
    <2>2. open' \in SUBSET Units
      BY <2>1 DEF IInv, TypeOK
    <2>3. counter' = Cardinality(open')
      BY <1>5, <2>1, DeltaCounts DEF AddUpdate, IInv, Counts
    <2>4. TypeOK'
      <3>1. counter' \in 0..Cardinality(Units)
        BY <2>2, <2>3, UnitsCount
      <3>2. before' \in [Threads -> SUBSET Units] /\ freed' \in SUBSET Threads
        BY <1>5 DEF AddUpdate, Waiting, IInv, TypeOK
      <3> QED BY <2>1, <2>2, <3>1, <3>2 DEF IInv, TypeOK
    <2>5. Holding'
      BY <2>1 DEF IInv, Holding
    <2>6. \A u \in Threads \ {t} : ~Pending(u) \/
            (closing[u] \cap closing[t] = {} /\ adding[u] \cap adding[t] = {})
      BY <2>1 DEF IInv, Owed
    <2>7. Owed'
      BY <2>1, <2>6 DEF IInv, Owed, Pending
    <2>8. Outlasting'
      BY <2>1 DEF IInv, Outlasting
    <2> QED BY <2>1, <2>3, <2>4, <2>5, <2>7, <2>8
          DEF IInv, Counts, Finished, Gone
  <1>6. ASSUME NEW t \in Threads, AddBroadcast(t)
        PROVE  IInv'
    <2>1. /\ pc[t] = "broadcast" /\ alive /\ cleared = {}
          /\ pc' \in [Threads -> Steps]
          /\ pc'[t] = "unlock"
          /\ \A u \in Threads \ {t} :
               pc'[u] = pc[u] \/ (pc[u] = "asleep" /\ pc'[u] = "awake")
          /\ UNCHANGED <<alive, counter, owner, work, before, cleared, freed>>
      BY <1>6 DEF AddBroadcast, IInv, TypeOK, Finished, Gone
    <2> QED BY <2>1 DEF IInv, TypeOK, Counts, Holding, Owed, Pending,
                        Outlasting, Finished, Gone
  <1>7. ASSUME NEW t \in Threads, AddUnlock(t)
        PROVE  IInv'
    BY <1>7 DEF AddUnlock, IInv, TypeOK, Counts, Holding, Owed, Pending,
                Outlasting, Finished, Gone
  <1>8. ASSUME NEW t \in Threads, CallWait(t)
        PROVE  IInv'
    BY <1>8 DEF CallWait, IInv, TypeOK, Counts, Holding, Owed, Pending,
                Outlasting, Finished, Gone
  <1>9. ASSUME NEW t \in Threads, WaitLock(t)
        PROVE  IInv'
    BY <1>9 DEF WaitLock, IInv, TypeOK, Counts, Holding, Owed, Pending,
                Outlasting, Finished, Gone
  <1>10. ASSUME NEW t \in Threads, Sleep(t)
         PROVE  IInv'
    BY <1>10 DEF Sleep, IInv, TypeOK, Counts, Holding, Owed, Pending,
                 Outlasting, Finished, Gone
  <1>11. ASSUME NEW t \in Threads, WakeSpuriously(t)
         PROVE  IInv'
    BY <1>11 DEF WakeSpuriously, IInv, TypeOK, Counts, Holding, Owed, Pending,
                 Outlasting, Finished, Gone
  <1>12. ASSUME NEW t \in Threads, Relock(t)
         PROVE  IInv'
    BY <1>12 DEF Relock, IInv, TypeOK, Counts, Holding, Owed, Pending,
                 Outlasting, Finished, Gone
  <1>13. ASSUME NEW t \in Threads, WaitReturn(t)
         PROVE  IInv'
    <2>1. owner = t /\ open = {}
      BY <1>13, ZeroMeansClosed DEF WaitReturn, IInv, Holding
    <2>2. Finished'
      BY <1>13, <2>1, SeenZeroFinished DEF WaitReturn, IInv, TypeOK, Finished
    <2>3. TypeOK'
      BY <1>13 DEF WaitReturn, SeenZero, IInv, TypeOK
    <2> QED BY <1>13, <2>1, <2>2, <2>3
          DEF WaitReturn, IInv, TypeOK, Counts, Holding, Owed, Pending,
              Outlasting, Gone
  <1>14. ASSUME NEW t \in Threads, CallTry(t)
         PROVE  IInv'
    BY <1>14 DEF CallTry, IInv, TypeOK, Counts, Holding, Owed, Pending,
                 Outlasting, Finished, Gone
  <1>15. ASSUME NEW t \in Threads, TryLock(t)
         PROVE  IInv'
    BY <1>15 DEF TryLock, IInv, TypeOK, Counts, Holding, Owed, Pending,
                 Outlasting, Finished, Gone
  <1>16. ASSUME NEW t \in Threads, TryReturn(t)
         PROVE  IInv'
    <2>1. owner = t
      BY <1>16 DEF TryReturn, IInv, Holding
    <2>2. Finished'
      BY <1>16, <2>1, SeenZeroFinished DEF TryReturn, IInv, TypeOK, Finished
    <2>3. TypeOK'
      BY <1>16 DEF TryReturn, SeenZero, IInv, TypeOK
    <2> QED BY <1>16, <2>2, <2>3
          DEF TryReturn, IInv, TypeOK, Counts, Holding, Owed, Pending,
              Outlasting, Gone
  <1>17. ASSUME NEW t \in Threads, Destroy(t)
         PROVE  IInv'
    <2>1. open = {} /\ \A u \in Threads : pc[u] = "idle"
      BY <1>17 DEF Destroy, IInv, TypeOK, Finished
    <2> QED BY <1>17, <2>1
          DEF Destroy, IInv, TypeOK, Counts, Holding, Owed, Pending,
              Outlasting, Finished, Gone
  <1>18. CASE UNCHANGED vars
    BY <1>18 DEF vars, IInv, TypeOK, Counts, Holding, Owed, Pending,
                 Outlasting, Finished, Gone
  <1> QED BY <1>1, <1>2, <1>3, <1>4, <1>5, <1>6, <1>7, <1>8, <1>9, <1>10,
             <1>11, <1>12, <1>13, <1>14, <1>15, <1>16, <1>17, <1>18
          DEF Next, Begin, Continue

(* So the invariant always holds.                                          *)
LEMMA Inductive == Spec => []IInv
  <1>1. Init => IInv
    <2> SUFFICES ASSUME Init
                 PROVE  IInv
      OBVIOUS
    <2>1. Counts
      BY FS_EmptySet DEF Init, Counts
    <2>2. counter \in 0..Cardinality(Units)
      BY FS_CardinalityType, GroupAssumption DEF Init
    <2>3. TypeOK
      BY <2>2 DEF Init, TypeOK, Steps
    <2> QED BY <2>1, <2>3, GroupAssumption
          DEF Init, IInv, Holding, Owed, Pending, Outlasting, Finished, Gone
  <1>2. IInv /\ [Next]_vars => IInv'
    BY StepHolds
  <1> QED BY <1>1, <1>2, PTL DEF Spec

-----------------------------------------------------------------------------
(* Type correctness: in particular the counter is never negative, and      *)
(* never counts more units than there are, when callers keep the contract. *)
THEOREM TypeCorrect == Spec => []TypeOK
  <1>1. IInv => TypeOK
    BY DEF IInv
  <1> QED BY <1>1, Inductive, PTL

(* The group may be destroyed by the thread that saw it finish: nobody is  *)
(* inside a call any more.                                                 *)
THEOREM NoUseAfterDestroyAlways == Spec => []NoUseAfterDestroy
  <1>1. IInv => NoUseAfterDestroy
    BY DEF IInv, Gone, NoUseAfterDestroy
  <1> QED BY <1>1, Inductive, PTL

(* A wait outlasts every unit that was open when it was called.            *)
THEOREM WaitOutlastsWorkAlways == Spec => WaitOutlastsWork
  <1> DEFINE A == \A t \in Threads :
                    pc[t] \in WaitSteps /\ pc'[t] = "idle" => before[t] = {}
  <1>1. IInv /\ [Next]_vars => [A]_vars
    <2> SUFFICES ASSUME IInv, Next, NEW t \in Threads,
                        pc[t] \in WaitSteps, pc'[t] = "idle"
                 PROVE  before[t] = {}
      OBVIOUS
    <2>1. WaitReturn(t)
      BY DEF Next, Begin, Continue, IInv, TypeOK, WaitSteps, Goto, Create,
             CallAdd, CallDone, AddLock, AddUpdate, AddBroadcast, AddUnlock,
             CallWait, WaitLock, Sleep, WakeSpuriously, Relock, WaitReturn,
             CallTry, TryLock, TryReturn, Destroy
    <2> QED BY <2>1, ZeroMeansClosed DEF WaitReturn, IInv, Outlasting
  <1> QED BY <1>1, Inductive, PTL DEF Spec, WaitOutlastsWork
=============================================================================

--------------------------- MODULE HashMapProofs ---------------------------
(***************************************************************************)
(* The hash map is a map for every number of keys, every hash function,    *)
(* every group size and load limit, and every capacity.                    *)
(***************************************************************************)
EXTENDS HashMap, FiniteSetTheorems, WellFoundedInduction, TLAPS

Cells == Keys \cup {Empty, Deleted}

HashType == hash \in [Keys -> Hashes]

(* No empty slot lies on the way to a key, and no key is stored twice.     *)
Sound(n, c) ==
  /\ \A i \in Slots(n) : c[i] \in Keys => Reached(n, c, c[i], i)
  /\ \A i, j \in Slots(n) : c[i] \in Keys /\ c[i] = c[j] => i = j

-----------------------------------------------------------------------------
(* Choosing a slot.                                                        *)

(* A set of naturals has a least element.                                  *)
LEMMA LeastNatural ==
  ASSUME NEW S \in SUBSET Nat, S # {}
  PROVE  \E m \in S : \A j \in S : m <= j
  <1> DEFINE R == OpToRel(<, Nat)
  <1>1. IsWellFoundedOn(R, Nat)
    BY NatLessThanWellFounded
  <1>2. \A x, y \in Nat : x < y => <<x, y>> \in R
    BY DEF OpToRel
  <1>3. \E x \in S : \A y \in S : <<y, x>> \notin R
    <2> HIDE DEF R
    <2> QED BY <1>1, WFMin
  <1>4. PICK m \in S : \A j \in S : <<j, m>> \notin R
    BY <1>3
  <1>5. \A j \in S : ~(j < m)
    <2> HIDE DEF R
    <2> QED BY <1>2, <1>4
  <1>6. \A j \in S : m <= j
    BY <1>5
  <1> QED BY <1>6

(* A slot is a natural number and the rank of a slot is one too.           *)
LEMMA SlotTypes ==
  ASSUME NEW n \in Nat \ {0}, NEW k \in Keys, NEW i \in Slots(n), HashType
  PROVE  i \in Nat /\ Rank(n, k, i) \in Nat
  <1>1. i \in Nat
    BY TableAssumption DEF Slots
  <1>2. hash[k] \in Nat
    BY TableAssumption DEF HashType
  <1>3. Home(n, k) \in Int /\ i \div SlotCount \in Int
    BY <1>1, <1>2, TableAssumption DEF Home
  <1>4. Rank(n, k, i) \in Nat
    BY <1>3 DEF Rank
  <1> QED BY <1>1, <1>4

(* The slots of least rank among some slots.                               *)
LEMMA LeastRank ==
  ASSUME NEW n \in Nat \ {0}, NEW k \in Keys, HashType,
         NEW S \in SUBSET Slots(n), S # {}
  PROVE  \E i \in S : \A j \in S : Rank(n, k, i) <= Rank(n, k, j)
  <1> DEFINE R == {Rank(n, k, i) : i \in S}
  <1>1. R \in SUBSET Nat /\ R # {}
    BY SlotTypes
  <1>2. \E m \in R : \A r \in R : m <= r
    <2> HIDE DEF R
    <2> QED BY <1>1, LeastNatural
  <1> QED BY <1>2

(* First picks one of the slots it is given.                               *)
LEMMA FirstIn ==
  ASSUME NEW n \in Nat \ {0}, NEW k \in Keys, HashType,
         NEW S \in SUBSET Slots(n), S # {}
  PROVE  First(n, k, S) \in S
  <1>1. PICK r \in S : \A j \in S : Rank(n, k, r) <= Rank(n, k, j)
    BY LeastRank
  <1> DEFINE T == {i \in S : Rank(n, k, i) = Rank(n, k, r)}
  <1>2. T \in SUBSET Nat /\ T # {}
    BY SlotTypes
  <1>3. PICK i \in T : \A j \in T : i <= j
    <2> HIDE DEF T
    <2> QED BY <1>2, LeastNatural
  <1>4. \A j \in S : \/ Rank(n, k, i) < Rank(n, k, j)
                     \/ Rank(n, k, i) = Rank(n, k, j) /\ i <= j
    BY <1>1, <1>3, SlotTypes
  <1> QED BY <1>3, <1>4 DEF First

(* The iteration's next entry is the least one ahead.                      *)
LEMMA NextEntryIn ==
  ASSUME NEW n \in Nat \ {0}, NEW c, NEW from, Ahead(n, c, from) # {}
  PROVE  /\ NextEntry(n, c, from) \in Ahead(n, c, from)
         /\ \A j \in Ahead(n, c, from) : NextEntry(n, c, from) <= j
  <1>1. Ahead(n, c, from) \in SUBSET Nat
    BY TableAssumption DEF Ahead, Slots
  <1> QED BY <1>1, LeastNatural DEF NextEntry

-----------------------------------------------------------------------------
(* Probing a sound table.                                                  *)

(* A table with an empty slot has a slot for every key.                    *)
LEMMA RoomForAll ==
  ASSUME NEW n \in Nat \ {0}, NEW c \in [Slots(n) -> Cells], HashType,
         NEW k \in Keys, NEW e \in Slots(n), c[e] = Empty
  PROVE  Candidates(n, c, k) # {}
  <1> DEFINE E == {i \in Slots(n) : c[i] = Empty}
  <1>1. PICK i \in E : \A j \in E : Rank(n, k, i) <= Rank(n, k, j)
    BY LeastRank
  <1>2. i \in Holding(n, c, k, Empty)
    BY <1>1 DEF Holding, Reached
  <1> QED BY <1>2 DEF Candidates, Insertable

(* Where an insertion writes: on the way, over the key itself, or, if the  *)
(* key is nowhere, over a tombstone or an empty slot.                      *)
LEMMA PlaceIs ==
  ASSUME NEW n \in Nat \ {0}, NEW c \in [Slots(n) -> Cells], HashType,
         NEW k \in Keys, Sound(n, c), Candidates(n, c, k) # {},
         NEW i, i = Place(n, c, k)
  PROVE  /\ i \in Slots(n)
         /\ Reached(n, c, k, i)
         /\ \/ c[i] = k
            \/ /\ c[i] \in {Deleted, Empty}
               /\ \A j \in Slots(n) : c[j] # k
  <1>1. Candidates(n, c, k) \in SUBSET Slots(n)
    BY DEF Candidates, Insertable, Found, Holding
  <1>2. i \in Candidates(n, c, k)
    BY <1>1, FirstIn DEF Place
  <1>3. i \in Slots(n) /\ Reached(n, c, k, i)
    BY <1>2 DEF Candidates, Insertable, Found, Holding
  <1>4. CASE Found(n, c, k) # {}
    BY <1>2, <1>3, <1>4 DEF Candidates, Found, Holding
  <1>5. CASE Found(n, c, k) = {}
    <2>1. \A j \in Slots(n) : c[j] # k
      BY <1>5 DEF Found, Holding, Sound
    <2>2. c[i] \in {Deleted, Empty}
      BY <1>2, <1>5 DEF Candidates, Insertable, Holding
    <2> QED BY <1>3, <2>1, <2>2
  <1> QED BY <1>3, <1>4, <1>5

(* Writing the key there keeps the table sound ...                         *)
LEMMA StoreSound ==
  ASSUME NEW n \in Nat \ {0}, NEW c \in [Slots(n) -> Cells], HashType,
         NEW k \in Keys, Sound(n, c), Candidates(n, c, k) # {},
         NEW i, i = Place(n, c, k)
  PROVE  /\ [c EXCEPT ![i] = k] \in [Slots(n) -> Cells]
         /\ Sound(n, [c EXCEPT ![i] = k])
  <1> DEFINE d == [c EXCEPT ![i] = k]
  <1>1. /\ i \in Slots(n) /\ Reached(n, c, k, i)
        /\ c[i] = k \/ (c[i] \in {Deleted, Empty} /\ \A j \in Slots(n) : c[j] # k)
    BY PlaceIs
  <1>2. /\ d \in [Slots(n) -> Cells]
        /\ \A j \in Slots(n) : d[j] = IF j = i THEN k ELSE c[j]
    BY <1>1 DEF Cells
  <1>3. \A j \in Slots(n) : d[j] = Empty => c[j] = Empty
    BY <1>2, TableAssumption
  <1> HIDE DEF d
  <1>4. ASSUME NEW j \in Slots(n), d[j] \in Keys
        PROVE  Reached(n, d, d[j], j)
    BY <1>1, <1>2, <1>3, <1>4 DEF Sound, Reached
  <1>5. \A j, m \in Slots(n) : d[j] \in Keys /\ d[j] = d[m] => j = m
    BY <1>1, <1>2 DEF Sound
  <1> QED BY <1>2, <1>4, <1>5 DEF d, Sound

(* ... and so does burying one.                                            *)
LEMMA BurySound ==
  ASSUME NEW n \in Nat \ {0}, NEW c \in [Slots(n) -> Cells],
         Sound(n, c), NEW i \in Slots(n), c[i] \in Keys
  PROVE  /\ [c EXCEPT ![i] = Deleted] \in [Slots(n) -> Cells]
         /\ Sound(n, [c EXCEPT ![i] = Deleted])
  <1> DEFINE d == [c EXCEPT ![i] = Deleted]
  <1>1. /\ d \in [Slots(n) -> Cells]
        /\ \A j \in Slots(n) : d[j] = IF j = i THEN Deleted ELSE c[j]
    BY DEF Cells
  <1>2. \A j \in Slots(n) : d[j] = Empty => c[j] = Empty
    BY <1>1, TableAssumption
  <1> HIDE DEF d
  <1>3. \A j \in Slots(n) : d[j] \in Keys => j # i /\ d[j] = c[j]
    BY <1>1, TableAssumption
  <1>4. ASSUME NEW j \in Slots(n), d[j] \in Keys
        PROVE  Reached(n, d, d[j], j)
    BY <1>2, <1>3, <1>4 DEF Sound, Reached
  <1>5. \A j, m \in Slots(n) : d[j] \in Keys /\ d[j] = d[m] => j = m
    BY <1>3 DEF Sound
  <1> QED BY <1>1, <1>4, <1>5 DEF d, Sound

(* A table of empty slots is sound.                                        *)
LEMMA BlankSound ==
  ASSUME NEW n \in Nat \ {0}
  PROVE  /\ [i \in Slots(n) |-> Empty] \in [Slots(n) -> Cells]
         /\ Sound(n, [i \in Slots(n) |-> Empty])
  BY TableAssumption DEF Cells, Sound

(* A lookup finds the key wherever it is ...                               *)
LEMMA LookupPresent ==
  ASSUME NEW n \in Nat \ {0}, NEW c \in [Slots(n) -> Cells], NEW s, HashType,
         Sound(n, c), NEW k \in Keys, NEW i \in Slots(n), c[i] = k
  PROVE  /\ Lookup(n, c, s, k) = s[i]
         /\ Found(n, c, k) = {i}
         /\ First(n, k, Found(n, c, k)) = i
  <1>1. Found(n, c, k) = {i}
    BY DEF Found, Holding, Sound
  <1>2. First(n, k, {i}) = i
    BY FirstIn
  <1> QED BY <1>1, <1>2 DEF Lookup

(* ... and nothing when it is nowhere.                                     *)
LEMMA LookupAbsent ==
  ASSUME NEW n \in Nat \ {0}, NEW c, NEW s, NEW k \in Keys,
         \A i \in Slots(n) : c[i] # k
  PROVE  Lookup(n, c, s, k) = Nothing /\ Found(n, c, k) = {}
  BY DEF Lookup, Found, Holding

-----------------------------------------------------------------------------
(* Counting.                                                               *)

(* The slots of a table are as many as its groups hold.                    *)
LEMMA SlotsCount ==
  ASSUME NEW n \in Nat \ {0}
  PROVE  /\ IsFiniteSet(Slots(n))
         /\ Cardinality(Slots(n)) = n * SlotCount
         /\ n * LoadLimit \in Nat /\ n * SlotCount \in Nat
         /\ n * LoadLimit < n * SlotCount
  <1>1. n * SlotCount \in Nat /\ n * LoadLimit \in Nat
    BY TableAssumption
  <1>2. n * LoadLimit < n * SlotCount
    BY TableAssumption
  <1>3. IsFiniteSet(Slots(n)) /\ Cardinality(Slots(n)) = n * SlotCount
    <2> DEFINE m == n * SlotCount
    <2>1. m \in Nat
      BY <1>1
    <2> HIDE DEF m
    <2>2. /\ IsFiniteSet(0..(m - 1))
          /\ Cardinality(0..(m - 1)) = IF 0 > m - 1 THEN 0 ELSE m - 1 - 0 + 1
      BY <2>1, FS_Interval
    <2>3. Cardinality(0..(m - 1)) = m
      BY <2>1, <2>2
    <2> QED BY <2>2, <2>3 DEF m, Slots
  <1> QED BY <1>1, <1>2, <1>3

(* A set of slots is finite.                                               *)
LEMMA PartsFinite ==
  ASSUME NEW n \in Nat \ {0}, NEW T \in SUBSET Slots(n)
  PROVE  IsFiniteSet(T) /\ Cardinality(T) \in Nat
  BY SlotsCount, FS_Subset, FS_CardinalityType

(* A table that is not loaded beyond its limit has an empty slot.          *)
LEMMA EmptyLeft ==
  ASSUME NEW n \in Nat \ {0}, NEW c \in [Slots(n) -> Cells],
         Cardinality(Entries(n, c)) + Cardinality(Tombs(n, c)) <= n * LoadLimit
  PROVE  \E e \in Slots(n) : c[e] = Empty
  <1> SUFFICES ASSUME \A e \in Slots(n) : c[e] # Empty
               PROVE  FALSE
    OBVIOUS
  <1>1. /\ Entries(n, c) \in SUBSET Slots(n) /\ Tombs(n, c) \in SUBSET Slots(n)
        /\ Slots(n) = Entries(n, c) \cup Tombs(n, c)
        /\ Entries(n, c) \cap Tombs(n, c) = {}
    BY TableAssumption DEF Entries, Tombs, Cells
  <1>2. /\ IsFiniteSet(Entries(n, c)) /\ IsFiniteSet(Tombs(n, c))
        /\ Cardinality(Entries(n, c)) \in Nat /\ Cardinality(Tombs(n, c)) \in Nat
    BY <1>1, PartsFinite
  <1>3. Cardinality(Entries(n, c) \cup Tombs(n, c))
          = Cardinality(Entries(n, c)) + Cardinality(Tombs(n, c))
              - Cardinality(Entries(n, c) \cap Tombs(n, c))
    BY <1>2, FS_Union
  <1>4. Cardinality(Entries(n, c) \cap Tombs(n, c)) = 0
    BY <1>1, FS_EmptySet
  <1>5. n * SlotCount = Cardinality(Entries(n, c)) + Cardinality(Tombs(n, c))
    <2>1. Cardinality(Slots(n)) = Cardinality(Entries(n, c) \cup Tombs(n, c))
      BY <1>1
    <2>2. Cardinality(Entries(n, c) \cup Tombs(n, c))
            = Cardinality(Entries(n, c)) + Cardinality(Tombs(n, c))
      BY <1>2, <1>3, <1>4
    <2>3. Cardinality(Slots(n)) = n * SlotCount
      BY SlotsCount
    <2> QED BY <2>1, <2>2, <2>3
  <1>6. n * SlotCount <= n * LoadLimit
    BY <1>5
  <1>7. n * LoadLimit \in Nat /\ n * SlotCount \in Nat /\ n * LoadLimit < n * SlotCount
    BY SlotsCount
  <1> DEFINE a == n * SlotCount
             b == n * LoadLimit
  <1>8. a <= b /\ a \in Nat /\ b \in Nat /\ b < a
    BY <1>6, <1>7
  <1> HIDE DEF a, b
  <1> QED BY <1>8

(* Writing a new key into a slot: one entry more, and one tombstone less   *)
(* if it was one.                                                          *)
LEMMA StoreCounts ==
  ASSUME NEW n \in Nat \ {0},
         NEW c \in [Slots(n) -> Cells], NEW d \in [Slots(n) -> Cells],
         NEW i \in Slots(n), d[i] \in Keys,
         \A j \in Slots(n) : j # i => d[j] = c[j]
  PROVE  /\ Cardinality(Entries(n, d))
              = IF c[i] \in Keys THEN Cardinality(Entries(n, c))
                                 ELSE Cardinality(Entries(n, c)) + 1
         /\ Cardinality(Tombs(n, d))
              = IF c[i] = Deleted THEN Cardinality(Tombs(n, c)) - 1
                                  ELSE Cardinality(Tombs(n, c))
         /\ c[i] = Deleted => Cardinality(Tombs(n, c)) > 0
  <1>2. Entries(n, d) = Entries(n, c) \cup {i}
    BY DEF Entries
  <1>3. Tombs(n, d) = Tombs(n, c) \ {i}
    BY TableAssumption DEF Tombs
  <1>4. /\ i \in Entries(n, c) <=> c[i] \in Keys
        /\ i \in Tombs(n, c) <=> c[i] = Deleted
    BY DEF Entries, Tombs
  <1>5. /\ IsFiniteSet(Entries(n, c)) /\ IsFiniteSet(Tombs(n, c))
        /\ Cardinality(Tombs(n, c)) \in Nat
    BY PartsFinite DEF Entries, Tombs
  <1>6. Cardinality(Entries(n, d))
          = IF i \in Entries(n, c) THEN Cardinality(Entries(n, c))
                                   ELSE Cardinality(Entries(n, c)) + 1
    BY <1>2, <1>5, FS_AddElement
  <1>7. Cardinality(Tombs(n, d))
          = IF i \in Tombs(n, c) THEN Cardinality(Tombs(n, c)) - 1
                                 ELSE Cardinality(Tombs(n, c))
    BY <1>3, <1>5, FS_RemoveElement
  <1>8. i \in Tombs(n, c) => Cardinality(Tombs(n, c)) # 0
    BY <1>5, FS_EmptySet
  <1> QED BY <1>4, <1>5, <1>6, <1>7, <1>8

(* Burying an entry: one entry less, one tombstone more.                   *)
LEMMA BuryCounts ==
  ASSUME NEW n \in Nat \ {0},
         NEW c \in [Slots(n) -> Cells], NEW d \in [Slots(n) -> Cells],
         NEW i \in Slots(n), c[i] \in Keys, d[i] = Deleted,
         \A j \in Slots(n) : j # i => d[j] = c[j]
  PROVE  /\ Cardinality(Entries(n, d)) = Cardinality(Entries(n, c)) - 1
         /\ Cardinality(Tombs(n, d)) = Cardinality(Tombs(n, c)) + 1
         /\ Cardinality(Entries(n, c)) > 0
  <1>2. Entries(n, d) = Entries(n, c) \ {i} /\ i \in Entries(n, c)
    BY TableAssumption DEF Entries
  <1>3. Tombs(n, d) = Tombs(n, c) \cup {i} /\ i \notin Tombs(n, c)
    BY TableAssumption DEF Tombs
  <1>4. /\ IsFiniteSet(Entries(n, c)) /\ IsFiniteSet(Tombs(n, c))
        /\ Cardinality(Entries(n, c)) \in Nat
    BY PartsFinite DEF Entries, Tombs
  <1>5. Cardinality(Entries(n, d)) = Cardinality(Entries(n, c)) - 1
    BY <1>2, <1>4, FS_RemoveElement
  <1>6. Cardinality(Tombs(n, d)) = Cardinality(Tombs(n, c)) + 1
    BY <1>3, <1>4, FS_AddElement
  <1>7. Cardinality(Entries(n, c)) # 0
    BY <1>2, <1>4, FS_EmptySet
  <1> QED BY <1>4, <1>5, <1>6, <1>7

(* A table of empty slots holds nothing.                                   *)
LEMMA BlankCounts ==
  ASSUME NEW n \in Nat \ {0}, NEW c, c = [i \in Slots(n) |-> Empty]
  PROVE  /\ Cardinality(Entries(n, c)) = 0
         /\ Cardinality(Tombs(n, c)) = 0
         /\ Tombs(n, c) = {}
  <1>1. Entries(n, c) = {} /\ Tombs(n, c) = {}
    BY TableAssumption DEF Entries, Tombs
  <1> QED BY <1>1, FS_EmptySet

-----------------------------------------------------------------------------
(* The inductive invariant.                                                *)

(* The table stays below its load limit, and strictly below it when an     *)
(* insertion is about to happen.                                           *)
Loaded ==
  /\ elements + deleted <= groups * LoadLimit
  /\ pc = "insert" => ~Full

(* A resize has copied exactly the entries before its cursor.              *)
Copied ==
  pc = "rehash" =>
    /\ Sound(NewGroups, newCell)
    /\ Tombs(NewGroups, newCell) = {}
    /\ newElements = Cardinality(Entries(NewGroups, newCell))
    /\ newElements = Cardinality({i \in Entries(groups, cell) : i < cursor})
    /\ \A i \in Entries(groups, cell) : i < cursor =>
         \E j \in Slots(NewGroups) :
           newCell[j] = cell[i] /\ newStored[j] = stored[i]
    /\ \A j \in Entries(NewGroups, newCell) :
         \E i \in Entries(groups, cell) : i < cursor /\ newCell[j] = cell[i]

(* An enumerator has passed the keys it has returned, and only those that  *)
(* were not there from the start.                                          *)
Walked ==
  /\ \A k \in due : \E i \in Slots(groups) : cell[i] = k /\ at <= i
  /\ \A k \in seen : \E i \in Slots(groups) : cell[i] = k /\ i < at

IInv ==
  TypeOK /\ Sound(groups, cell) /\ CountsExact /\ Loaded /\ Copied /\ Walked

(* Soundness of a table in the next state is that of its next cells: the   *)
(* hash never changes.                                                     *)
LEMMA SoundNext ==
  ASSUME hash' = hash, Sound(groups', cell')
  PROVE  Sound(groups, cell)'
  BY DEF Sound, Reached, Rank, Home, Slots

(* The same for the table a resize fills.                                  *)
LEMMA SoundNewNext ==
  ASSUME hash' = hash, groups' = groups, Sound(NewGroups, newCell')
  PROVE  Sound(NewGroups, newCell)'
  BY DEF Sound, Reached, Rank, Home, Slots, NewGroups

(* An insertion into a table with room.                                    *)
LEMMA InsertHolds ==
  ASSUME TypeOK, Sound(groups, cell), CountsExact, Loaded, Walked,
         ~Full, NEW k \in Keys, NEW v \in Values, Insert(k, v),
         UNCHANGED <<hash, walk>>
  PROVE  /\ groups' = groups
         /\ cell' \in [Slots(groups) -> Cells]
         /\ stored' \in [Slots(groups) -> Values \cup {Nothing}]
         /\ elements' \in Nat /\ deleted' \in Nat
         /\ Sound(groups, cell)'
         /\ CountsExact'
         /\ elements' + deleted' <= groups * LoadLimit
         /\ Walked'
         /\ \E i \in Slots(groups) :
              /\ cell' = [cell EXCEPT ![i] = k]
              /\ stored' = [stored EXCEPT ![i] = v]
              /\ cell[i] = k \/ (cell[i] \in {Deleted, Empty}
                                  /\ \A j \in Slots(groups) : cell[j] # k)
  <1>1. /\ groups \in Nat \ {0} /\ cell \in [Slots(groups) -> Cells] /\ HashType
        /\ stored \in [Slots(groups) -> Values \cup {Nothing}]
        /\ elements \in Nat /\ deleted \in Nat /\ groups * LoadLimit \in Nat
        /\ elements + deleted < groups * LoadLimit
    BY SlotsCount DEF TypeOK, Cells, HashType, Full
  <1>2. PICK e \in Slots(groups) : cell[e] = Empty
    BY <1>1, EmptyLeft DEF CountsExact
  <1>3. Candidates(groups, cell, k) # {}
    BY <1>1, <1>2, RoomForAll
  <1> DEFINE i == Place(groups, cell, k)
  <1>4. /\ i \in Slots(groups)
        /\ cell[i] = k \/ (cell[i] \in {Deleted, Empty}
                            /\ \A j \in Slots(groups) : cell[j] # k)
    BY <1>1, <1>3, PlaceIs
  <1>5. /\ groups' = groups
        /\ cell' = [cell EXCEPT ![i] = k]
        /\ stored' = [stored EXCEPT ![i] = v]
        /\ elements' = IF cell[i] = k THEN elements ELSE elements + 1
        /\ deleted' = IF cell[i] = Deleted THEN deleted - 1 ELSE deleted
    BY <1>3 DEF Insert
  <1>6. cell' \in [Slots(groups) -> Cells] /\ Sound(groups, cell')
    BY <1>1, <1>3, <1>5, StoreSound
  <1>7. Sound(groups, cell)'
    BY <1>5, <1>6, SoundNext
  <1> HIDE DEF i
  <1>8. /\ Cardinality(Entries(groups, cell')) = elements'
        /\ Cardinality(Tombs(groups, cell')) = deleted'
        /\ cell[i] = Deleted => deleted > 0
    <2>1. /\ Cardinality(Entries(groups, cell'))
               = IF cell[i] \in Keys THEN Cardinality(Entries(groups, cell))
                                     ELSE Cardinality(Entries(groups, cell)) + 1
          /\ Cardinality(Tombs(groups, cell'))
               = IF cell[i] = Deleted THEN Cardinality(Tombs(groups, cell)) - 1
                                      ELSE Cardinality(Tombs(groups, cell))
          /\ cell[i] = Deleted => Cardinality(Tombs(groups, cell)) > 0
      <3>1. /\ groups \in Nat \ {0} /\ cell \in [Slots(groups) -> Cells]
            /\ cell' \in [Slots(groups) -> Cells]
            /\ i \in Slots(groups) /\ cell'[i] \in Keys
            /\ \A j \in Slots(groups) : j # i => cell'[j] = cell[j]
        BY <1>1, <1>4, <1>5, <1>6
      <3> QED BY <3>1, StoreCounts
    <2>2. /\ Cardinality(Entries(groups, cell)) = elements
          /\ Cardinality(Tombs(groups, cell)) = deleted
      BY DEF CountsExact
    <2>3. cell[i] \in Keys <=> cell[i] = k
      BY <1>4, TableAssumption
    <2> QED BY <1>5, <2>1, <2>2, <2>3
  <1>9. CountsExact'
    BY <1>5, <1>8 DEF CountsExact, Entries, Tombs, Slots
  <1>10. elements' \in Nat /\ deleted' \in Nat
    BY <1>1, <1>5, <1>8
  <1>11. elements' + deleted' <= groups * LoadLimit
    BY <1>1, <1>5
  <1>12. \A j \in Slots(groups) : cell'[j] = IF j = i THEN k ELSE cell[j]
    BY <1>1, <1>5
  <1>13. \A j \in Slots(groups) : cell[j] \in Keys => cell'[j] = cell[j]
    BY <1>4, <1>12, TableAssumption
  <1>14. Walked'
    BY <1>5, <1>13 DEF Walked, walk, TypeOK
  <1>15. stored' \in [Slots(groups) -> Values \cup {Nothing}]
    BY <1>1, <1>4, <1>5
  <1> QED BY <1>4, <1>5, <1>6, <1>7, <1>9, <1>10, <1>11, <1>14, <1>15

(* The same for lookups.                                                   *)
LEMMA LookupNext ==
  ASSUME hash' = hash, NEW k
  PROVE  Lookup(groups, cell, stored, k)' = Lookup(groups', cell', stored', k)
  <1>1. \A i : Rank(groups, k, i)' = Rank(groups', k, i)
    BY DEF Rank, Home
  <1>2. Found(groups, cell, k)' = Found(groups', cell', k)
    BY <1>1 DEF Found, Holding, Reached, Slots
  <1>3. First(groups, k, Found(groups, cell, k))' = First(groups', k, Found(groups', cell', k))
    BY <1>1, <1>2 DEF First
  <1> QED BY <1>2, <1>3 DEF Lookup

(* The table a resize fills stays within its load limit.                   *)
LEMMA CopyFits ==
  ASSUME IInv, pc = "rehash"
  PROVE  Cardinality(Entries(NewGroups, newCell)) + Cardinality(Tombs(NewGroups, newCell))
           <= NewGroups * LoadLimit
  <1>1. /\ groups \in Nat \ {0} /\ NewGroups \in Nat \ {0}
        /\ Tombs(NewGroups, newCell) = {}
    BY DEF IInv, Copied, TypeOK, NewGroups
  <1>2. Cardinality(Entries(NewGroups, newCell)) <= elements
    <2>1. IsFiniteSet(Entries(groups, cell))
      BY <1>1, PartsFinite DEF Entries
    <2>2. {m \in Entries(groups, cell) : m < cursor} \in SUBSET Entries(groups, cell)
      OBVIOUS
    <2>3. Cardinality({m \in Entries(groups, cell) : m < cursor})
            <= Cardinality(Entries(groups, cell))
      BY <2>1, <2>2, FS_Subset
    <2> QED BY <2>3 DEF IInv, Copied, CountsExact
  <1>3. /\ Cardinality(Tombs(NewGroups, newCell)) = 0
        /\ Cardinality(Entries(NewGroups, newCell)) \in Nat
    BY <1>1, FS_EmptySet, PartsFinite DEF Entries
  <1>4. /\ elements \in Nat /\ deleted \in Nat
        /\ elements + deleted <= groups * LoadLimit
    BY DEF IInv, TypeOK, Loaded
  <1>5. groups * LoadLimit <= NewGroups * LoadLimit
    BY <1>1, TableAssumption DEF NewGroups
  <1>6. groups * LoadLimit \in Nat /\ NewGroups * LoadLimit \in Nat
    BY <1>1, SlotsCount
  <1> QED BY <1>2, <1>3, <1>4, <1>5, <1>6

(* One turn of a resize: there is room in the new table, the entry is not  *)
(* there yet, and it takes an empty slot.                                  *)
LEMMA MoveIs ==
  ASSUME IInv, Rehash, NEW from, from = NextEntry(groups, cell, cursor),
         NEW i, i = Place(NewGroups, newCell, cell[from])
  PROVE  /\ from \in Entries(groups, cell) /\ cursor <= from
         /\ \A j \in Entries(groups, cell) : cursor <= j => from <= j
         /\ Candidates(NewGroups, newCell, cell[from]) # {}
         /\ i \in Slots(NewGroups)
         /\ newCell[i] = Empty
         /\ \A j \in Slots(NewGroups) : newCell[j] # cell[from]
  <1>1. /\ groups \in Nat \ {0} /\ NewGroups \in Nat \ {0} /\ HashType
        /\ newCell \in [Slots(NewGroups) -> Cells]
        /\ Sound(NewGroups, newCell) /\ Sound(groups, cell)
        /\ Tombs(NewGroups, newCell) = {} /\ cursor \in Nat
    BY DEF IInv, Copied, Rehash, TypeOK, HashType, Cells, NewGroups
  <1>2. /\ from \in Ahead(groups, cell, cursor)
        /\ \A j \in Ahead(groups, cell, cursor) : from <= j
    BY <1>1, NextEntryIn DEF Rehash
  <1>3. /\ from \in Entries(groups, cell) /\ cursor <= from /\ from \in Slots(groups)
        /\ \A j \in Entries(groups, cell) : cursor <= j => from <= j
        /\ cell[from] \in Keys
    BY <1>2 DEF Ahead, Entries
  <1>4. \A j \in Slots(groups) : j \in Nat
    BY <1>1, TableAssumption DEF Slots
  <1>5. \A j \in Slots(NewGroups) : newCell[j] # cell[from]
    <2>1. SUFFICES ASSUME NEW j \in Slots(NewGroups), newCell[j] = cell[from]
                   PROVE  FALSE
      OBVIOUS
    <2>2. j \in Entries(NewGroups, newCell)
      BY <1>3, <2>1 DEF Entries
    <2>3. PICK m \in Entries(groups, cell) : m < cursor /\ newCell[j] = cell[m]
      BY <2>2 DEF IInv, Copied, Rehash
    <2>4. m = from
      BY <1>1, <1>3, <2>1, <2>3 DEF Sound, Entries
    <2> QED BY <1>1, <1>3, <1>4, <2>3, <2>4
  <1>7. Cardinality(Entries(NewGroups, newCell)) + Cardinality(Tombs(NewGroups, newCell))
          <= NewGroups * LoadLimit
    BY CopyFits DEF Rehash
  <1>8. PICK e \in Slots(NewGroups) : newCell[e] = Empty
    BY <1>1, <1>7, EmptyLeft
  <1>9. Candidates(NewGroups, newCell, cell[from]) # {}
    BY <1>1, <1>3, <1>8, RoomForAll
  <1>10. i \in Slots(NewGroups) /\ newCell[i] \in {Deleted, Empty}
    BY <1>1, <1>3, <1>5, <1>9, PlaceIs
  <1>11. newCell[i] = Empty
    BY <1>1, <1>10 DEF Tombs
  <1> QED BY <1>3, <1>5, <1>9, <1>10, <1>11

(* One turn of a resize keeps the invariant: the new table stays sound and *)
(* holds exactly the entries before the cursor.                            *)
LEMMA RehashHolds ==
  ASSUME IInv, Rehash
  PROVE  IInv'
  <1> DEFINE from == NextEntry(groups, cell, cursor)
             k    == cell[from]
             i    == Place(NewGroups, newCell, k)
  <1>1. /\ from \in Entries(groups, cell) /\ cursor <= from
        /\ \A j \in Entries(groups, cell) : cursor <= j => from <= j
        /\ Candidates(NewGroups, newCell, k) # {}
        /\ i \in Slots(NewGroups)
        /\ newCell[i] = Empty
        /\ \A j \in Slots(NewGroups) : newCell[j] # k
    BY MoveIs
  <1>2. /\ newCell' = [newCell EXCEPT ![i] = k]
        /\ newStored' = [newStored EXCEPT ![i] = stored[from]]
        /\ newElements' = newElements + 1
        /\ cursor' = from + 1
        /\ pc = "rehash"
        /\ UNCHANGED <<pc, request, hash, table, walk>>
    BY <1>1 DEF Rehash
  <1>3. /\ groups \in Nat \ {0} /\ NewGroups \in Nat \ {0} /\ HashType
        /\ newCell \in [Slots(NewGroups) -> Cells]
        /\ newStored \in [Slots(NewGroups) -> Values \cup {Nothing}]
        /\ stored \in [Slots(groups) -> Values \cup {Nothing}]
        /\ Sound(NewGroups, newCell) /\ Sound(groups, cell)
        /\ Tombs(NewGroups, newCell) = {} /\ cursor \in Nat
    BY <1>2 DEF IInv, Copied, TypeOK, HashType, Cells, NewGroups
  <1>4. k \in Keys /\ from \in Slots(groups) /\ from \in Nat
    BY <1>1, <1>3, TableAssumption DEF Entries, Slots
  <1>5. newCell' \in [Slots(NewGroups) -> Cells] /\ Sound(NewGroups, newCell')
    BY <1>1, <1>2, <1>3, <1>4, StoreSound
  <1> HIDE DEF i, from
  <1>6. \A j \in Slots(NewGroups) :
          /\ newCell'[j] = IF j = i THEN k ELSE newCell[j]
          /\ newStored'[j] = IF j = i THEN stored[from] ELSE newStored[j]
    BY <1>2, <1>3
  <1>7. TypeOK'
    BY <1>1, <1>2, <1>3, <1>4, <1>5
       DEF IInv, TypeOK, table, walk, NewGroups, Slots, Cells
  <1>8. newElements' = Cardinality(Entries(NewGroups, newCell'))
    <2>1. Cardinality(Entries(NewGroups, newCell'))
            = Cardinality(Entries(NewGroups, newCell)) + 1
      <3>1. /\ NewGroups \in Nat \ {0} /\ newCell \in [Slots(NewGroups) -> Cells]
            /\ newCell' \in [Slots(NewGroups) -> Cells]
            /\ i \in Slots(NewGroups) /\ newCell'[i] \in Keys
            /\ \A j \in Slots(NewGroups) : j # i => newCell'[j] = newCell[j]
        BY <1>1, <1>2, <1>3, <1>4, <1>5
      <3>2. newCell[i] \notin Keys
        BY <1>1, TableAssumption
      <3> QED BY <3>1, <3>2, StoreCounts
    <2> QED BY <1>2, <2>1 DEF IInv, Copied
  <1>9. newElements' = Cardinality({j \in Entries(groups, cell) : j < from + 1})
    <2> DEFINE S == {j \in Entries(groups, cell) : j < cursor}
    <2>1. \A j \in Entries(groups, cell) : j \in Nat
      BY <1>3, TableAssumption DEF Entries, Slots
    <2>2. {j \in Entries(groups, cell) : j < from + 1} = S \cup {from}
      BY <1>1, <1>3, <1>4, <2>1
    <2>3. from \notin S
      BY <1>1, <1>3, <1>4
    <2>4. IsFiniteSet(S)
      BY <1>3, PartsFinite DEF Entries
    <2>5. Cardinality(S \cup {from}) = Cardinality(S) + 1
      <3> HIDE DEF S
      <3> QED BY <2>3, <2>4, FS_AddElement
    <2> QED BY <1>2, <2>2, <2>5 DEF IInv, Copied
  <1>10. Tombs(NewGroups, newCell') = {}
    BY <1>3, <1>4, <1>6, TableAssumption DEF Tombs
  <1>11. ASSUME NEW m \in Entries(groups, cell), m < from + 1
         PROVE  \E j \in Slots(NewGroups) :
                  newCell'[j] = cell[m] /\ newStored'[j] = stored[m]
    <2>1. m \in Nat
      BY <1>3, TableAssumption DEF Entries, Slots
    <2>2. CASE m = from
      BY <1>1, <1>6, <2>2
    <2>3. CASE m # from
      <3>1. m < cursor
        BY <1>1, <1>3, <1>4, <1>11, <2>1, <2>3
      <3>2. PICK j \in Slots(NewGroups) : newCell[j] = cell[m] /\ newStored[j] = stored[m]
        BY <1>2, <3>1 DEF IInv, Copied
      <3>3. j # i
        BY <1>1, <3>2, TableAssumption DEF Entries
      <3> QED BY <1>6, <3>2, <3>3
    <2> QED BY <2>2, <2>3
  <1>12. ASSUME NEW j \in Entries(NewGroups, newCell')
         PROVE  \E m \in Entries(groups, cell) : m < from + 1 /\ newCell'[j] = cell[m]
    <2>1. CASE j = i
      <3>1. newCell'[j] = cell[from]
        BY <1>1, <1>6, <2>1
      <3>2. from < from + 1
        BY <1>4
      <3> QED BY <1>1, <3>1, <3>2
    <2>2. CASE j # i
      <3>1. j \in Slots(NewGroups) /\ newCell'[j] = newCell[j] /\ newCell[j] \in Keys
        BY <1>6, <2>2 DEF Entries
      <3>2. PICK m \in Entries(groups, cell) : m < cursor /\ newCell[j] = cell[m]
        BY <1>2, <3>1 DEF IInv, Copied, Entries
      <3>3. m \in Nat
        BY <1>3, TableAssumption DEF Entries, Slots
      <3> QED BY <1>1, <1>3, <1>4, <3>1, <3>2, <3>3
    <2> QED BY <2>1, <2>2
  <1>13. Copied'
    <2>1. Sound(NewGroups, newCell)'
      BY <1>2, <1>5, SoundNewNext DEF table
    <2>2. /\ groups' = groups /\ cell' = cell /\ stored' = stored
          /\ NewGroups' = NewGroups
      BY <1>2 DEF table, NewGroups
    <2>3. /\ Entries(groups, cell)' = Entries(groups, cell)
          /\ Entries(NewGroups, newCell)' = Entries(NewGroups, newCell')
          /\ Tombs(NewGroups, newCell)' = Tombs(NewGroups, newCell')
          /\ Slots(NewGroups)' = Slots(NewGroups)
      BY <2>2 DEF Entries, Tombs, Slots
    <2>4. cursor' = from + 1
      BY <1>2
    <2> QED BY <1>8, <1>9, <1>10, <1>11, <1>12, <2>1, <2>2, <2>3, <2>4 DEF Copied
  <1>14. /\ Sound(groups, cell)' /\ CountsExact' /\ Loaded' /\ Walked'
    BY <1>2, <1>3, SoundNext
       DEF IInv, table, walk, CountsExact, Entries, Tombs, Slots, Loaded, Full, Walked
  <1> QED BY <1>7, <1>13, <1>14 DEF IInv

(* The old table gives way to the new one, which has as many entries and   *)
(* twice the room.                                                         *)
LEMMA SwapHolds ==
  ASSUME IInv, Swap
  PROVE  IInv'
  <1>1. /\ groups' = NewGroups /\ cell' = newCell /\ stored' = newStored
        /\ elements' = newElements /\ deleted' = 0
        /\ newElements' = 0 /\ cursor' = 0 /\ pc = "rehash" /\ pc' = "insert"
        /\ due' = {} /\ seen' = {}
        /\ UNCHANGED <<hash, request, walking, at>>
    BY DEF Swap, FreeNew
  <1>2. /\ groups \in Nat \ {0} /\ NewGroups \in Nat \ {0}
        /\ newElements \in Nat /\ elements \in Nat /\ deleted \in Nat
        /\ groups * LoadLimit \in Nat \ {0}
        /\ NewGroups * LoadLimit = groups * LoadLimit + groups * LoadLimit
    BY TableAssumption DEF IInv, TypeOK, NewGroups
  <1>3. TypeOK'
    BY <1>1, <1>2 DEF IInv, TypeOK, Slots
  <1>4. Sound(groups, cell)'
    BY <1>1, SoundNext DEF IInv, Copied
  <1>5. newElements <= elements
    <2>1. IsFiniteSet(Entries(groups, cell))
      BY <1>2, PartsFinite DEF Entries
    <2>2. {m \in Entries(groups, cell) : m < cursor} \in SUBSET Entries(groups, cell)
      OBVIOUS
    <2>3. Cardinality({m \in Entries(groups, cell) : m < cursor})
            <= Cardinality(Entries(groups, cell))
      BY <2>1, <2>2, FS_Subset
    <2> QED BY <1>1, <2>3 DEF IInv, Copied, CountsExact
  <1>6. Loaded'
    <2> DEFINE L == groups * LoadLimit
    <2>1. elements + deleted <= L
      BY DEF IInv, Loaded
    <2>2. NewGroups * LoadLimit = L + L /\ L \in Nat \ {0}
      BY <1>2
    <2> HIDE DEF L
    <2>3. newElements + 0 < NewGroups * LoadLimit
      BY <1>2, <1>5, <2>1, <2>2
    <2>4. newElements + 0 <= NewGroups * LoadLimit
      BY <1>2, <2>2, <2>3
    <2>5. ~(newElements + 0 >= NewGroups * LoadLimit)
      BY <1>2, <2>2, <2>3
    <2> QED BY <1>1, <2>4, <2>5 DEF Loaded, Full
  <1>7. CountsExact'
    <2>1. Cardinality(Tombs(NewGroups, newCell)) = 0
      BY <1>1, FS_EmptySet DEF IInv, Copied
    <2> QED BY <1>1, <2>1 DEF IInv, Copied, CountsExact, Entries, Tombs, Slots
  <1>8. Copied' /\ Walked'
    BY <1>1 DEF Copied, Walked
  <1> QED BY <1>3, <1>4, <1>6, <1>7, <1>8 DEF IInv

(* A deletion turns the key's slot into a tombstone: the two counters      *)
(* exchange one unit and their sum stays within the load limit.            *)
LEMMA DeleteHolds ==
  ASSUME IInv, NEW k \in Keys, Delete(k)
  PROVE  /\ IInv'
         /\ \E i \in Slots(groups) :
              cell[i] = k /\ cell' = [cell EXCEPT ![i] = Deleted]
  <1> DEFINE i == First(groups, k, Found(groups, cell, k))
  <1>1. /\ groups \in Nat \ {0} /\ cell \in [Slots(groups) -> Cells] /\ HashType
        /\ elements \in Nat /\ deleted \in Nat /\ Sound(groups, cell)
    BY DEF IInv, TypeOK, Cells, HashType
  <1>2. i \in Slots(groups) /\ cell[i] = k
    <2>1. Found(groups, cell, k) \in SUBSET Slots(groups) /\ Found(groups, cell, k) # {}
      BY DEF Delete, Found, Holding
    <2>2. i \in Found(groups, cell, k)
      BY <1>1, <2>1, FirstIn
    <2> QED BY <2>2 DEF Found, Holding
  <1>3. /\ cell' = [cell EXCEPT ![i] = Deleted]
        /\ elements' = elements - 1 /\ deleted' = deleted + 1
        /\ due' = due \ {k} /\ seen' = seen \ {k}
        /\ pc = "idle"
        /\ UNCHANGED <<hash, groups, stored, pc, request, new, walking, at>>
    BY DEF Delete
  <1> HIDE DEF i
  <1>4. cell' \in [Slots(groups) -> Cells] /\ Sound(groups, cell')
    BY <1>1, <1>2, <1>3, BurySound
  <1>5. \A j \in Slots(groups) : cell'[j] = IF j = i THEN Deleted ELSE cell[j]
    BY <1>1, <1>3
  <1>6. /\ Cardinality(Entries(groups, cell')) = Cardinality(Entries(groups, cell)) - 1
        /\ Cardinality(Tombs(groups, cell')) = Cardinality(Tombs(groups, cell)) + 1
        /\ Cardinality(Entries(groups, cell)) > 0
    <2>1. /\ i \in Slots(groups) /\ cell[i] \in Keys /\ cell'[i] = Deleted
          /\ \A j \in Slots(groups) : j # i => cell'[j] = cell[j]
      BY <1>2, <1>5
    <2> QED BY <1>1, <1>4, <2>1, BuryCounts
  <1>7. elements > 0
    BY <1>6 DEF IInv, CountsExact
  <1>8. TypeOK'
    BY <1>1, <1>3, <1>4, <1>7 DEF IInv, TypeOK, Slots, Cells, new
  <1>9. CountsExact'
    <2>1. /\ Cardinality(Entries(groups, cell')) = elements'
          /\ Cardinality(Tombs(groups, cell')) = deleted'
      BY <1>3, <1>6 DEF IInv, CountsExact
    <2> QED BY <1>3, <2>1 DEF CountsExact, Entries, Tombs, Slots
  <1>10. Loaded'
    <2>1. elements' + deleted' = elements + deleted
      BY <1>1, <1>3
    <2> QED BY <1>3, <2>1 DEF IInv, Loaded
  <1>11. Walked'
    <2>1. \A j \in Slots(groups) : cell[j] # k => cell'[j] = cell[j]
      BY <1>2, <1>5
    <2> QED BY <1>3, <2>1 DEF IInv, Walked
  <1>12. Sound(groups, cell)' /\ Copied'
    BY <1>3, <1>4, SoundNext DEF Copied
  <1> QED BY <1>2, <1>3, <1>8, <1>9, <1>10, <1>11, <1>12 DEF IInv

(* Steps that leave the table alone keep what the invariant says of it.    *)
LEMMA TableKeeps ==
  ASSUME IInv, UNCHANGED <<hash, table>>
  PROVE  Sound(groups, cell)' /\ CountsExact'
  BY SoundNext DEF IInv, table, CountsExact, Entries, Tombs, Slots

(* Every step of the map keeps the invariant.                              *)
LEMMA StepHolds ==
  ASSUME IInv, [Next]_vars
  PROVE  IInv'
  <1>1. ASSUME NEW k \in Keys, NEW v \in Values, Put(k, v)
        PROVE  IInv'
    <2>1. /\ pc = "idle" /\ ~Full /\ Insert(k, v)
          /\ UNCHANGED <<hash, pc, request, new, walk>>
      BY <1>1 DEF Put
    <2>2. /\ groups' = groups
          /\ cell' \in [Slots(groups) -> Cells]
          /\ stored' \in [Slots(groups) -> Values \cup {Nothing}]
          /\ elements' \in Nat /\ deleted' \in Nat
          /\ Sound(groups, cell)' /\ CountsExact' /\ Walked'
          /\ elements' + deleted' <= groups * LoadLimit
      BY <2>1, InsertHolds DEF IInv
    <2>3. TypeOK' /\ Copied' /\ Loaded'
      BY <2>1, <2>2 DEF IInv, TypeOK, Copied, Loaded, Cells, Slots, new, walk
    <2> QED BY <2>2, <2>3 DEF IInv
  <1>2. ASSUME NEW k \in Keys, NEW v \in Values, PutResizes(k, v)
        PROVE  IInv'
    <2>1. /\ pc = "idle" /\ Full /\ pc' = "rehash"
          /\ request' = [key |-> k, value |-> v]
          /\ newCell' = [i \in Slots(NewGroups) |-> Empty]
          /\ newStored' = [i \in Slots(NewGroups) |-> Nothing]
          /\ newElements' = 0 /\ cursor' = 0
          /\ UNCHANGED <<hash, table, walk>>
      BY <1>2 DEF PutResizes
    <2>2. groups \in Nat \ {0} /\ NewGroups \in Nat \ {0} /\ NewGroups' = NewGroups
      BY <2>1 DEF IInv, TypeOK, NewGroups, table
    <2>3. TypeOK'
      BY <2>1, <2>2 DEF IInv, TypeOK, table, walk, Slots
    <2>4. Copied'
      <3>1. Sound(NewGroups, newCell)'
        BY <2>1, <2>2, BlankSound, SoundNewNext DEF table
      <3>2. /\ Cardinality(Entries(NewGroups, newCell')) = 0
            /\ Tombs(NewGroups, newCell') = {}
        BY <2>1, <2>2, BlankCounts
      <3>3. /\ Entries(NewGroups, newCell)' = Entries(NewGroups, newCell')
            /\ Tombs(NewGroups, newCell)' = Tombs(NewGroups, newCell')
            /\ Entries(groups, cell)' = Entries(groups, cell)
        BY <2>1, <2>2 DEF Entries, Tombs, Slots, table
      <3>4. \A i \in Entries(groups, cell) : ~(i < 0)
        BY <2>2, TableAssumption DEF Entries, Slots
      <3>5. {i \in Entries(groups, cell) : i < 0} = {}
        BY <3>4
      <3>6. Entries(NewGroups, newCell') = {}
        BY <2>1, TableAssumption DEF Entries
      <3> QED BY <2>1, <3>1, <3>2, <3>3, <3>4, <3>5, <3>6, FS_EmptySet DEF Copied
    <2>5. Loaded' /\ Walked'
      BY <2>1 DEF IInv, Loaded, Walked, table, walk, Slots
    <2> QED BY <2>1, <2>3, <2>4, <2>5, TableKeeps DEF IInv
  <1>3. ASSUME NEW k \in Keys, Delete(k)
        PROVE  IInv'
    BY <1>3, DeleteHolds
  <1>4. CASE Rehash
    BY <1>4, RehashHolds
  <1>5. CASE Swap
    BY <1>5, SwapHolds
  <1>6. CASE PutAfterResize
    <2> DEFINE k == request.key
               v == request.value
    <2>1. /\ pc = "insert" /\ Insert(k, v) /\ pc' = "idle" /\ request' = NoRequest
          /\ UNCHANGED <<hash, new, walk>>
      BY <1>6 DEF PutAfterResize
    <2>2. k \in Keys /\ v \in Values /\ ~Full
      BY <2>1 DEF IInv, TypeOK, Loaded
    <2> HIDE DEF k, v
    <2>3. /\ groups' = groups
          /\ cell' \in [Slots(groups) -> Cells]
          /\ stored' \in [Slots(groups) -> Values \cup {Nothing}]
          /\ elements' \in Nat /\ deleted' \in Nat
          /\ Sound(groups, cell)' /\ CountsExact' /\ Walked'
          /\ elements' + deleted' <= groups * LoadLimit
      BY <2>1, <2>2, InsertHolds DEF IInv
    <2>4. TypeOK' /\ Copied' /\ Loaded'
      BY <2>1, <2>3 DEF IInv, TypeOK, Copied, Loaded, Cells, Slots, new, walk
    <2> QED BY <2>3, <2>4 DEF IInv
  <1>7. CASE EnumeratorInit
    <2>1. /\ pc = "idle" /\ walking' = TRUE /\ at' = 0 /\ seen' = {}
          /\ due' = Present(groups, cell)
          /\ UNCHANGED <<hash, table, pc, request, new>>
      BY <1>7 DEF EnumeratorInit
    <2>2. TypeOK' /\ Copied' /\ Loaded'
      BY <2>1 DEF IInv, TypeOK, Copied, Loaded, Present, Entries, table, new, Slots
    <2>3. Walked'
      BY <2>1, TableAssumption
         DEF IInv, TypeOK, Walked, Present, Entries, table, Slots
    <2> QED BY <2>1, <2>2, <2>3, TableKeeps DEF IInv
  <1>8. CASE EnumeratorNext
    <2> DEFINE i == NextEntry(groups, cell, at)
    <2>1. /\ pc = "idle" /\ at' = i + 1
          /\ due' = due \ {cell[i]} /\ seen' = seen \cup {cell[i]}
          /\ UNCHANGED <<hash, table, pc, request, new, walking>>
      BY <1>8 DEF EnumeratorNext
    <2>2. /\ i \in Ahead(groups, cell, at)
          /\ \A j \in Ahead(groups, cell, at) : i <= j
      BY <1>8, NextEntryIn DEF EnumeratorNext, IInv, TypeOK
    <2> HIDE DEF i
    <2>3. /\ i \in Slots(groups) /\ at <= i /\ cell[i] \in Keys /\ i \in Nat
          /\ \A j \in Slots(groups) : j \in Nat
          /\ at \in Nat /\ due \subseteq Keys
      BY <2>2, TableAssumption DEF Ahead, Slots, IInv, TypeOK
    <2>4. TypeOK' /\ Copied' /\ Loaded'
      BY <2>1, <2>3 DEF IInv, TypeOK, Copied, Loaded, table, new, Slots
    <2>5. ASSUME NEW k \in due \ {cell[i]}
          PROVE  \E j \in Slots(groups) : cell[j] = k /\ i + 1 <= j
      <3>1. PICK j \in Slots(groups) : cell[j] = k /\ at <= j
        BY <2>5 DEF IInv, Walked
      <3>2. i <= j /\ i # j
        BY <2>2, <2>3, <2>5, <3>1 DEF Ahead
      <3> QED BY <2>3, <3>1, <3>2
    <2>6. ASSUME NEW k \in seen \cup {cell[i]}
          PROVE  \E j \in Slots(groups) : cell[j] = k /\ j < i + 1
      <3>1. CASE k = cell[i]
        BY <2>3, <3>1
      <3>2. CASE k \in seen
        <4>1. PICK j \in Slots(groups) : cell[j] = k /\ j < at
          BY <3>2 DEF IInv, Walked
        <4> QED BY <2>3, <4>1
      <3> QED BY <2>6, <3>1, <3>2
    <2>7. Walked'
      <3>1. groups' = groups /\ cell' = cell
        BY <2>1 DEF table
      <3> QED BY <2>1, <2>5, <2>6, <3>1 DEF Walked, Slots
    <2> QED BY <2>1, <2>4, <2>7, TableKeeps DEF IInv
  <1>9. CASE EnumeratorEnd
    <2>1. /\ pc = "idle" /\ walking' = FALSE /\ at' = 0 /\ due' = {} /\ seen' = {}
          /\ UNCHANGED <<hash, table, pc, request, new>>
      BY <1>9 DEF EnumeratorEnd
    <2>2. TypeOK' /\ Copied' /\ Loaded' /\ Walked'
      BY <2>1 DEF IInv, TypeOK, Copied, Loaded, Walked, table, new, Slots
    <2> QED BY <2>1, <2>2, TableKeeps DEF IInv
  <1>10. CASE UNCHANGED vars
    <2>1. UNCHANGED <<hash, table>>
      BY <1>10 DEF vars, table
    <2>2. TypeOK' /\ Loaded' /\ Walked'
      BY <1>10 DEF vars, IInv, TypeOK, Loaded, Full, Walked, Slots, NewGroups
    <2>3. Copied'
      <3>1. pc = "rehash" => Sound(NewGroups, newCell)'
        BY <1>10, SoundNewNext DEF vars, IInv, Copied
      <3> QED BY <1>10, <3>1 DEF vars, IInv, Copied, Entries, Tombs, Slots, NewGroups
    <2> QED BY <2>1, <2>2, <2>3, TableKeeps DEF IInv
  <1>11. ASSUME NEW k \in Keys, NEW v \in Values, PutFails(k, v)
         PROVE  UNCHANGED vars
    BY <1>11 DEF PutFails
  <1> QED BY <1>1, <1>2, <1>3, <1>4, <1>5, <1>6, <1>7, <1>8, <1>9, <1>10, <1>11
          DEF Next

(* A new map satisfies the invariant.                                      *)
LEMMA InitHolds ==
  ASSUME Init
  PROVE  IInv
  <1>1. /\ groups = InitialGroups /\ InitialGroups \in Nat \ {0}
        /\ cell = [i \in Slots(groups) |-> Empty]
        /\ elements = 0 /\ deleted = 0 /\ pc = "idle" /\ due = {} /\ seen = {}
    BY TableAssumption DEF Init
  <1>2. TypeOK
    <2>1. /\ cell \in [Slots(groups) -> Keys \cup {Empty, Deleted}]
          /\ stored \in [Slots(groups) -> Values \cup {Nothing}]
          /\ request \in IF pc = "idle" THEN {NoRequest} ELSE [key : Keys, value : Values]
      BY <1>1 DEF Init
    <2>2. /\ hash \in [Keys -> Hashes] /\ groups \in Nat \ {0}
          /\ elements \in Nat /\ deleted \in Nat /\ newElements \in Nat /\ cursor \in Nat
          /\ pc = "idle" /\ walking = FALSE /\ at = 0 /\ due = {} /\ seen = {}
      BY <1>1 DEF Init
    <2>3. pc # "rehash"
      BY <2>2
    <2> QED BY <2>1, <2>2, <2>3 DEF TypeOK
  <1>3. Sound(groups, cell)
    BY <1>1, BlankSound
  <1>4. CountsExact
    BY <1>1, BlankCounts DEF CountsExact
  <1>5. Loaded /\ Copied /\ Walked
    BY <1>1, SlotsCount DEF Loaded, Copied, Walked
  <1> QED BY <1>2, <1>3, <1>4, <1>5 DEF IInv

(* So the invariant always holds.                                          *)
LEMMA Inductive == Spec => []IInv
  <1>1. Init => IInv
    BY InitHolds
  <1>2. IInv /\ [Next]_vars => IInv'
    BY StepHolds
  <1> QED BY <1>1, <1>2, PTL DEF Spec

-----------------------------------------------------------------------------
(* What it gives.                                                          *)

(* Every variable keeps its type, the counters natural and the table with  *)
(* a cell for every slot, through insertions, deletions and resizes.       *)
THEOREM TypeCorrect == Spec => []TypeOK
  <1>1. IInv => TypeOK
    BY DEF IInv
  <1> QED BY <1>1, Inductive, PTL

(* element_count and deleted_count count the entries and the tombstones:   *)
(* what sizes the collectors' buffers, and what decides on a resize.       *)
THEOREM CountsExactAlways == Spec => []CountsExact
  <1>1. IInv => CountsExact
    BY DEF IInv
  <1> QED BY <1>1, Inductive, PTL

(* No insertion ever fails for want of a slot, in the table or in the one  *)
(* nexus_data_hashmap_resize is filling, for every group size and load     *)
(* limit.                                                                  *)
THEOREM InsertableAlwaysHolds == Spec => []InsertableAlways
  <1>1. ASSUME IInv
        PROVE  InsertableAlways
    <2>1. ASSUME NEW k \in Keys, pc = "insert" \/ ~Full
          PROVE  Candidates(groups, cell, k) # {}
      <3>1. /\ groups \in Nat \ {0} /\ cell \in [Slots(groups) -> Cells] /\ HashType
            /\ elements + deleted <= groups * LoadLimit
        BY <1>1 DEF IInv, TypeOK, Cells, HashType, Loaded
      <3>2. PICK e \in Slots(groups) : cell[e] = Empty
        BY <1>1, <3>1, EmptyLeft DEF IInv, CountsExact
      <3> QED BY <3>1, <3>2, RoomForAll
    <2>2. ASSUME NEW k \in Keys, pc = "rehash"
          PROVE  Candidates(NewGroups, newCell, k) # {}
      <3>1. /\ NewGroups \in Nat \ {0} /\ newCell \in [Slots(NewGroups) -> Cells]
            /\ HashType
        BY <1>1, <2>2 DEF IInv, TypeOK, Cells, HashType, NewGroups
      <3>2. PICK e \in Slots(NewGroups) : newCell[e] = Empty
        BY <1>1, <2>2, <3>1, CopyFits, EmptyLeft
      <3> QED BY <3>1, <3>2, RoomForAll
    <2> QED BY <2>1, <2>2 DEF InsertableAlways
  <1> QED BY <1>1, Inductive, PTL

(* An enumerator returns every key that stayed, and none twice, whatever   *)
(* puts that do not resize and deletions come between its steps.           *)
THEOREM EnumerationExactAlways == Spec => []EnumerationExact
  <1>1. ASSUME IInv
        PROVE  EnumerationExact
    <2>1. /\ groups \in Nat \ {0} /\ at \in Nat /\ due \subseteq Keys
          /\ \A i \in Slots(groups) : i \in Nat
      BY <1>1, TableAssumption DEF IInv, TypeOK, Slots
    <2>2. ASSUME Ahead(groups, cell, at) = {}
          PROVE  due = {}
      <3>1. SUFFICES ASSUME NEW k \in due
                     PROVE  FALSE
        OBVIOUS
      <3>2. PICK i \in Slots(groups) : cell[i] = k /\ at <= i
        BY <1>1 DEF IInv, Walked
      <3>3. i \in Ahead(groups, cell, at)
        BY <2>1, <3>2 DEF Ahead
      <3> QED BY <2>2, <3>3
    <2>3. ASSUME NEW i \in Ahead(groups, cell, at), cell[i] \in seen
          PROVE  FALSE
      <3>1. PICK j \in Slots(groups) : cell[j] = cell[i] /\ j < at
        BY <1>1, <2>3 DEF IInv, Walked
      <3>2. i \in Slots(groups) /\ at <= i /\ cell[i] \in Keys
        BY DEF Ahead
      <3>3. i = j
        BY <1>1, <3>1, <3>2 DEF IInv, Sound
      <3> QED BY <2>1, <3>1, <3>2, <3>3
    <2> QED BY <2>2, <2>3 DEF EnumerationExact
  <1> QED BY <1>1, Inductive, PTL

-----------------------------------------------------------------------------
(* The table is a map.                                                     *)

Held(m) == Lookup(groups, cell, stored, m)

(* The table's next content, in terms of its next cells.                   *)
LEMMA SoundThen ==
  ASSUME hash' = hash, Sound(groups, cell)'
  PROVE  Sound(groups', cell')
  BY DEF Sound, Reached, Rank, Home, Slots

(* Storing k's value shows at k and nowhere else.                          *)
LEMMA StoreShows ==
  ASSUME NEW n \in Nat \ {0}, HashType,
         NEW c \in [Slots(n) -> Cells], NEW d \in [Slots(n) -> Cells],
         NEW s, NEW t, NEW k \in Keys, NEW v, NEW i \in Slots(n),
         Sound(n, c), Sound(n, d), d[i] = k, t[i] = v,
         c[i] = k \/ c[i] \notin Keys,
         \A j \in Slots(n) : j # i => d[j] = c[j] /\ t[j] = s[j],
         NEW m \in Keys
  PROVE  Lookup(n, d, t, m) = IF m = k THEN v ELSE Lookup(n, c, s, m)
  <1>1. CASE m = k
    BY <1>1, LookupPresent
  <1>2. CASE m # k /\ \E j \in Slots(n) : c[j] = m
    <2>1. PICK j \in Slots(n) : c[j] = m
      BY <1>2
    <2>2. j # i
      BY <1>2, <2>1
    <2>3. d[j] = m /\ t[j] = s[j]
      BY <2>1, <2>2
    <2>4. Lookup(n, c, s, m) = s[j]
      BY <2>1, LookupPresent
    <2>5. Lookup(n, d, t, m) = t[j]
      BY <2>3, LookupPresent
    <2> QED BY <1>2, <2>3, <2>4, <2>5
  <1>3. CASE m # k /\ \A j \in Slots(n) : c[j] # m
    <2>1. \A j \in Slots(n) : d[j] # m
      BY <1>3
    <2>2. Lookup(n, d, t, m) = Nothing
      BY <2>1, LookupAbsent
    <2>3. Lookup(n, c, s, m) = Nothing
      BY <1>3, LookupAbsent
    <2> QED BY <1>3, <2>2, <2>3
  <1> QED BY <1>1, <1>2, <1>3

(* Burying k's slot hides k and nothing else.                              *)
LEMMA BuryShows ==
  ASSUME NEW n \in Nat \ {0}, HashType,
         NEW c \in [Slots(n) -> Cells], NEW d \in [Slots(n) -> Cells],
         NEW s, NEW k \in Keys, NEW i \in Slots(n),
         Sound(n, c), Sound(n, d), c[i] = k, d[i] = Deleted,
         \A j \in Slots(n) : j # i => d[j] = c[j],
         NEW m \in Keys
  PROVE  Lookup(n, d, s, m) = IF m = k THEN Nothing ELSE Lookup(n, c, s, m)
  <1>1. CASE m = k
    <2>1. \A j \in Slots(n) : d[j] # k
      BY TableAssumption DEF Sound
    <2> QED BY <1>1, <2>1, LookupAbsent
  <1>2. CASE m # k /\ \E j \in Slots(n) : c[j] = m
    <2>1. PICK j \in Slots(n) : c[j] = m
      BY <1>2
    <2>2. d[j] = m
      BY <1>2, <2>1
    <2>3. Lookup(n, c, s, m) = s[j]
      BY <2>1, LookupPresent
    <2>4. Lookup(n, d, s, m) = s[j]
      BY <2>2, LookupPresent
    <2> QED BY <1>2, <2>3, <2>4
  <1>3. CASE m # k /\ \A j \in Slots(n) : c[j] # m
    <2>1. \A j \in Slots(n) : d[j] # m
      BY <1>3, TableAssumption
    <2>2. Lookup(n, d, s, m) = Nothing
      BY <2>1, LookupAbsent
    <2>3. Lookup(n, c, s, m) = Nothing
      BY <1>3, LookupAbsent
    <2> QED BY <1>3, <2>2, <2>3
  <1> QED BY <1>1, <1>2, <1>3

(* An insertion, before or after a resize, is the contract's Put.          *)
LEMMA InsertMaps ==
  ASSUME IInv, ~Full, NEW k \in Keys, NEW v \in Values, Insert(k, v),
         UNCHANGED <<hash, walk>>
  PROVE  \A m \in Keys : Held(m)' = IF m = k THEN v ELSE Held(m)
  <1>1. /\ groups' = groups
        /\ cell' \in [Slots(groups) -> Cells]
        /\ Sound(groups, cell)'
        /\ \E i \in Slots(groups) :
              /\ cell' = [cell EXCEPT ![i] = k]
              /\ stored' = [stored EXCEPT ![i] = v]
              /\ cell[i] = k \/ (cell[i] \in {Deleted, Empty}
                                  /\ \A j \in Slots(groups) : cell[j] # k)
    BY InsertHolds DEF IInv
  <1>2. /\ groups \in Nat \ {0} /\ cell \in [Slots(groups) -> Cells] /\ HashType
        /\ stored \in [Slots(groups) -> Values \cup {Nothing}]
        /\ Sound(groups, cell) /\ Sound(groups, cell')
    BY <1>1, SoundThen DEF IInv, TypeOK, Cells, HashType
  <1>3. PICK i \in Slots(groups) :
          /\ cell' = [cell EXCEPT ![i] = k]
          /\ stored' = [stored EXCEPT ![i] = v]
          /\ cell[i] = k \/ cell[i] \in {Deleted, Empty}
    BY <1>1
  <1>4. /\ cell'[i] = k /\ stored'[i] = v
        /\ cell[i] = k \/ cell[i] \notin Keys
        /\ \A j \in Slots(groups) : j # i => cell'[j] = cell[j] /\ stored'[j] = stored[j]
    BY <1>2, <1>3, TableAssumption
  <1>5. ASSUME NEW m \in Keys
        PROVE  Lookup(groups, cell', stored', m)
                 = IF m = k THEN v ELSE Lookup(groups, cell, stored, m)
    <2>1. /\ groups \in Nat \ {0} /\ HashType
          /\ cell \in [Slots(groups) -> Cells] /\ cell' \in [Slots(groups) -> Cells]
          /\ i \in Slots(groups) /\ Sound(groups, cell) /\ Sound(groups, cell')
          /\ cell'[i] = k /\ stored'[i] = v
          /\ cell[i] = k \/ cell[i] \notin Keys
          /\ \A j \in Slots(groups) :
               j # i => cell'[j] = cell[j] /\ stored'[j] = stored[j]
      BY <1>1, <1>2, <1>4
    <2> QED BY <2>1, StoreShows
  <1> QED BY <1>1, <1>5, LookupNext DEF Held

(* A deletion is the contract's Delete.                                    *)
LEMMA DeleteMaps ==
  ASSUME IInv, NEW k \in Keys, Delete(k)
  PROVE  \A m \in Keys : Held(m)' = IF m = k THEN Nothing ELSE Held(m)
  <1>1. IInv' /\ UNCHANGED <<hash, groups, stored>>
    BY DeleteHolds DEF Delete
  <1>2. PICK i \in Slots(groups) : cell[i] = k /\ cell' = [cell EXCEPT ![i] = Deleted]
    BY DeleteHolds
  <1>3. /\ groups \in Nat \ {0} /\ cell \in [Slots(groups) -> Cells] /\ HashType
        /\ Sound(groups, cell) /\ Sound(groups, cell')
    BY <1>1, SoundThen DEF IInv, TypeOK, Cells, HashType
  <1>4. /\ cell' \in [Slots(groups) -> Cells] /\ cell'[i] = Deleted
        /\ \A j \in Slots(groups) : j # i => cell'[j] = cell[j]
    BY <1>2, <1>3 DEF Cells
  <1>5. ASSUME NEW m \in Keys
        PROVE  Lookup(groups, cell', stored, m)
                 = IF m = k THEN Nothing ELSE Lookup(groups, cell, stored, m)
    <2>1. /\ groups \in Nat \ {0} /\ HashType
          /\ cell \in [Slots(groups) -> Cells] /\ cell' \in [Slots(groups) -> Cells]
          /\ i \in Slots(groups) /\ Sound(groups, cell) /\ Sound(groups, cell')
          /\ cell[i] = k /\ cell'[i] = Deleted
          /\ \A j \in Slots(groups) : j # i => cell'[j] = cell[j]
      BY <1>2, <1>3, <1>4
    <2> QED BY <2>1, BuryShows
  <1> QED BY <1>1, <1>5, LookupNext DEF Held

(* The end of a resize changes the slots and not the content.              *)
LEMMA SwapMaps ==
  ASSUME IInv, Swap
  PROVE  \A m \in Keys : Held(m)' = Held(m)
  <1>1. /\ groups' = NewGroups /\ cell' = newCell /\ stored' = newStored
        /\ hash' = hash /\ pc = "rehash" /\ Ahead(groups, cell, cursor) = {}
    BY DEF Swap
  <1>2. /\ groups \in Nat \ {0} /\ cell \in [Slots(groups) -> Cells] /\ HashType
        /\ NewGroups \in Nat \ {0} /\ newCell \in [Slots(NewGroups) -> Cells]
        /\ Sound(groups, cell) /\ Sound(NewGroups, newCell) /\ cursor \in Nat
        /\ \A i \in Slots(groups) : i \in Nat
    BY <1>1, TableAssumption DEF IInv, TypeOK, Copied, Cells, HashType, NewGroups, Slots
  <1>3. ASSUME NEW m \in Keys
        PROVE  Lookup(NewGroups, newCell, newStored, m) = Lookup(groups, cell, stored, m)
    <2>1. CASE \E i \in Slots(groups) : cell[i] = m
      <3>1. PICK i \in Slots(groups) : cell[i] = m
        BY <2>1
      <3>2. i \in Entries(groups, cell) /\ i < cursor
        BY <1>1, <1>2, <3>1 DEF Ahead, Entries
      <3>3. PICK j \in Slots(NewGroups) : newCell[j] = m /\ newStored[j] = stored[i]
        BY <1>1, <3>1, <3>2 DEF IInv, Copied
      <3>4. Lookup(NewGroups, newCell, newStored, m) = newStored[j]
        BY <1>2, <3>3, LookupPresent
      <3>5. Lookup(groups, cell, stored, m) = stored[i]
        BY <1>2, <3>1, LookupPresent
      <3> QED BY <3>3, <3>4, <3>5
    <2>2. CASE \A i \in Slots(groups) : cell[i] # m
      <3>1. \A j \in Slots(NewGroups) : newCell[j] # m
        BY <1>1, <2>2 DEF IInv, Copied, Entries
      <3>2. Lookup(NewGroups, newCell, newStored, m) = Nothing
        BY <1>2, <3>1, LookupAbsent
      <3>3. Lookup(groups, cell, stored, m) = Nothing
        BY <1>2, <2>2, LookupAbsent
      <3> QED BY <3>2, <3>3
    <2> QED BY <2>1, <2>2
  <1> QED BY <1>1, <1>3, LookupNext DEF Held

(* Every other step leaves the content alone.                              *)
LEMMA OtherMaps ==
  ASSUME UNCHANGED <<hash, table>>
  PROVE  \A m \in Keys : Held(m)' = Held(m)
  BY LookupNext DEF Held, table

(* An empty table maps nothing.                                            *)
LEMMA InitMaps ==
  ASSUME Init
  PROVE  Contract!Init
  <1>1. /\ groups \in Nat \ {0}
        /\ \A m \in Keys : \A i \in Slots(groups) : cell[i] # m
    BY TableAssumption DEF Init
  <1>2. \A m \in Keys : Held(m) = Nothing
    BY <1>1, LookupAbsent DEF Held
  <1> QED BY <1>2 DEF Contract!Init, Held

(* Every step is a step of the contract or shows nothing.                  *)
LEMMA StepMaps ==
  ASSUME IInv, [Next]_vars
  PROVE  [Contract!Next]_([k \in Keys |-> Held(k)])
  <1> DEFINE Content == [k \in Keys |-> Held(k)]
  <1>1. ASSUME NEW k \in Keys, NEW v \in Values,
               \A m \in Keys : Held(m)' = IF m = k THEN v ELSE Held(m)
        PROVE  Contract!Put(k, v)
    <2>1. Content' = [Content EXCEPT ![k] = v]
      BY <1>1
    <2> QED BY <2>1 DEF Contract!Put, Held
  <1>2. ASSUME NEW k \in Keys, NEW v \in Values, Put(k, v)
        PROVE  Contract!Next
    BY <1>1, <1>2, InsertMaps DEF Put, Contract!Next
  <1>3. CASE PutAfterResize
    <2>1. /\ request.key \in Keys /\ request.value \in Values /\ ~Full
          /\ Insert(request.key, request.value)
          /\ UNCHANGED <<hash, walk>>
      BY <1>3 DEF PutAfterResize, IInv, TypeOK, Loaded
    <2>2. Contract!Put(request.key, request.value)
      BY <1>1, <2>1, InsertMaps
    <2> QED BY <2>1, <2>2 DEF Contract!Next
  <1>4. ASSUME NEW k \in Keys, Delete(k)
        PROVE  Contract!Next
    <2>1. \A m \in Keys : Held(m)' = IF m = k THEN Nothing ELSE Held(m)
      BY <1>4, DeleteMaps
    <2>2. Content' = [Content EXCEPT ![k] = Nothing]
      BY <2>1
    <2> QED BY <2>2 DEF Contract!Delete, Contract!Next, Held
  <1>5. CASE Swap
    BY <1>5, SwapMaps
  <1>6. ASSUME NEW k \in Keys, NEW v \in Values, PutFails(k, v) \/ PutResizes(k, v)
        PROVE  UNCHANGED <<hash, table>>
    BY <1>6 DEF PutFails, PutResizes, vars, table
  <1>7. ASSUME Rehash \/ EnumeratorInit \/ EnumeratorNext \/ EnumeratorEnd
        PROVE  UNCHANGED <<hash, table>>
    BY <1>7 DEF Rehash, EnumeratorInit, EnumeratorNext, EnumeratorEnd
  <1>8. ASSUME UNCHANGED vars
        PROVE  UNCHANGED <<hash, table>>
    BY <1>8 DEF vars, table
  <1>9. ASSUME UNCHANGED <<hash, table>>
        PROVE  UNCHANGED Content
    BY <1>9, OtherMaps
  <1> QED BY <1>2, <1>3, <1>4, <1>5, <1>6, <1>7, <1>8, <1>9 DEF Next

(* The table implements a finite map, for every hash function and every    *)
(* capacity: collisions, tombstones and resizes never show.                *)
THEOREM Refinement == Spec => ImplementsMap
  <1>1. Init => Contract!Init
    BY InitMaps
  <1>2. IInv /\ [Next]_vars => [Contract!Next]_([k \in Keys |-> Held(k)])
    BY StepMaps
  <1>3. IInv /\ [Next]_vars
          => [Contract!Next]_([k \in Keys |-> Lookup(groups, cell, stored, k)])
    BY <1>2 DEF Held
  <1> QED BY <1>1, <1>3, Inductive, PTL DEF Spec, ImplementsMap, Contract!Spec
=============================================================================

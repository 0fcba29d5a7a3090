------------------------------ MODULE HashMap ------------------------------
(***************************************************************************)
(* NexusHashMap (n_data.c): an open-addressing table of groups of slots,   *)
(* each slot empty, deleted (a tombstone) or holding a key and its value.  *)
(* The table is single-threaded.  What makes it hard is history: a lookup  *)
(* stops at the first group with an empty slot, so every insertion, every  *)
(* deletion and every resize must leave no empty slot on the way to a key. *)
(*                                                                         *)
(* A slot's control byte holds seven bits of the hash, which only spare    *)
(* key comparisons; the slot is modelled by what it holds.                 *)
(***************************************************************************)
EXTENDS Integers, FiniteSets

CONSTANTS Keys, Values,
          Empty,          \* NEXUS_SWISS_EMPTY
          Deleted,        \* NEXUS_SWISS_DELETED
          Nothing,        \* no value: NULL to callers, unwritten storage
          SlotCount,      \* NEXUS_HASHMAP_GROUP_SLOT_COUNT (8)
          LoadLimit,      \* NEXUS_HASHMAP_GROUP_LOAD_LIMIT (7)
          InitialGroups,  \* initial_capacity_groups
          MaxGroups,      \* allocations beyond this many groups fail
          Hashes          \* the values of a hash, without its low 7 bits

ASSUME TableAssumption ==
  /\ Empty # Deleted /\ Empty \notin Keys /\ Deleted \notin Keys
  /\ Nothing \notin Values
  /\ LoadLimit \in Nat \ {0} /\ SlotCount \in Nat /\ LoadLimit < SlotCount
  /\ InitialGroups \in Nat \ {0}
  /\ MaxGroups \in Nat /\ Hashes \subseteq Nat

VARIABLES
  hash,      \* the hash of every key, under the seed the map was made with
  groups,    \* capacity_groups
  cell,      \* what every slot holds
  stored,    \* the value beside it
  elements,  \* element_count
  deleted,   \* deleted_count
  pc,        \* "idle", or where an insert that resizes is
  request,   \* the key and value that insert is for
  newCell, newStored, newElements,  \* new_hashmap: the table a resize fills
  cursor,    \* group_idx and slot_idx of the resize, as one slot number
  walking,   \* an enumerator is in use
  at,        \* its group_idx and slot_idx, as one slot number
  due,       \* history: keys it has still to return
  seen       \* history: keys it has returned

table == <<groups, cell, stored, elements, deleted>>
new   == <<newCell, newStored, newElements, cursor>>
walk  == <<walking, at, due, seen>>
vars  == <<hash, groups, cell, stored, elements, deleted, pc, request,
           newCell, newStored, newElements, cursor, walking, at, due, seen>>

NewGroups == groups * 2

Slots(n) == 0..(n * SlotCount - 1)

-----------------------------------------------------------------------------
(* Probing a table of n groups whose slots hold c.                         *)

Home(n, k) == hash[k] % n

(* How many groups are looked at before the one slot i belongs to.         *)
Rank(n, k, i) == (i \div SlotCount - Home(n, k)) % n

(* The probe ends at the first group that has an empty slot.               *)
Reached(n, c, k, i) ==
  \A j \in Slots(n) : c[j] = Empty => Rank(n, k, i) <= Rank(n, k, j)

First(n, k, S) ==
  CHOOSE i \in S :
    \A j \in S : \/ Rank(n, k, i) < Rank(n, k, j)
                 \/ Rank(n, k, i) = Rank(n, k, j) /\ i <= j

Holding(n, c, k, what) ==
  {i \in {j \in Slots(n) : c[j] = what} : Reached(n, c, k, i)}

Found(n, c, k) == Holding(n, c, k, k)

(* A tombstone is reused before an empty slot is claimed.                  *)
Insertable(n, c, k) ==
  LET tombs == Holding(n, c, k, Deleted)
  IN  IF tombs # {} THEN tombs ELSE Holding(n, c, k, Empty)

(* Where an insertion may write: over the key, or into a claimable slot.  *)
Candidates(n, c, k) ==
  LET found == Found(n, c, k)
  IN  IF found # {} THEN found ELSE Insertable(n, c, k)

Place(n, c, k) == First(n, k, Candidates(n, c, k))

Lookup(n, c, s, k) ==
  LET found == Found(n, c, k)
  IN  IF found = {} THEN Nothing ELSE s[First(n, k, found)]

(* The entries at or after a slot, in the order of                         *)
(* nexus_data_hashmap_active_entry_next.                                   *)
Ahead(n, c, from) == {i \in Slots(n) : from <= i /\ c[i] \in Keys}

NextEntry(n, c, from) ==
  CHOOSE i \in Ahead(n, c, from) : \A j \in Ahead(n, c, from) : i <= j

Entries(n, c) == {i \in Slots(n) : c[i] \in Keys}
Tombs(n, c)   == {i \in Slots(n) : c[i] = Deleted}
Present(n, c) == {c[i] : i \in Entries(n, c)}

-----------------------------------------------------------------------------
NoRequest == [key |-> Deleted, value |-> Nothing]

(* nexus_data_hashmap_create, with any seed.                               *)
Init ==
  /\ hash \in [Keys -> Hashes]
  /\ groups = InitialGroups
  /\ cell = [i \in Slots(InitialGroups) |-> Empty]
  /\ stored = [i \in Slots(InitialGroups) |-> Nothing]
  /\ elements = 0
  /\ deleted = 0
  /\ pc = "idle"
  /\ request = NoRequest
  /\ newCell = <<>> /\ newStored = <<>> /\ newElements = 0 /\ cursor = 0
  /\ walking = FALSE /\ at = 0 /\ due = {} /\ seen = {}

(* Mutant: the limit is the number of slots, and tested one too late. *)
FullTooLate == elements > groups * SlotCount

(* The test that makes an insert resize first, whether or not the key is   *)
(* already there.                                                          *)
Full == elements + deleted >= groups * LoadLimit

(* Mutant: reusing a tombstone leaves deleted_count alone. *)
InsertKeepsDeleted(k, v) ==
  LET i == Place(groups, cell, k) IN
  IF Candidates(groups, cell, k) = {} THEN UNCHANGED table
  ELSE /\ cell' = [cell EXCEPT ![i] = k]
       /\ stored' = [stored EXCEPT ![i] = v]
       /\ elements' = IF cell[i] = k THEN elements ELSE elements + 1
       /\ UNCHANGED <<groups, deleted>>

(* nexus_data_hashmap_insert_without_resize, and put's copy of the value.  *)
Insert(k, v) ==
  LET i == Place(groups, cell, k) IN
  IF Candidates(groups, cell, k) = {} THEN UNCHANGED table
  ELSE /\ cell' = [cell EXCEPT ![i] = k]
       /\ stored' = [stored EXCEPT ![i] = v]
       /\ elements' = IF cell[i] = k THEN elements ELSE elements + 1
       /\ deleted' = IF cell[i] = Deleted THEN deleted - 1 ELSE deleted
       /\ UNCHANGED groups

Put(k, v) ==
  /\ pc = "idle"
  /\ ~Full
  /\ Insert(k, v)
  /\ UNCHANGED <<hash, pc, request, new, walk>>

(* The allocation of the new table fails: the put is dropped.              *)
PutFails(k, v) ==
  /\ pc = "idle"
  /\ Full
  /\ UNCHANGED vars

PutResizes(k, v) ==
  /\ pc = "idle"
  /\ Full
  /\ NewGroups <= MaxGroups
  /\ pc' = "rehash"
  /\ request' = [key |-> k, value |-> v]
  /\ newCell' = [i \in Slots(NewGroups) |-> Empty]
  /\ newStored' = [i \in Slots(NewGroups) |-> Nothing]
  /\ newElements' = 0
  /\ cursor' = 0
  /\ UNCHANGED <<hash, table, walk>>

FreeNew == newCell' = <<>> /\ newStored' = <<>> /\ newElements' = 0 /\ cursor' = 0

(* One turn of the loop of nexus_data_hashmap_resize: the next entry of    *)
(* the old table goes into the new one.                                    *)
Rehash ==
  /\ pc = "rehash"
  /\ Ahead(groups, cell, cursor) # {}
  /\ LET from == NextEntry(groups, cell, cursor)
         k    == cell[from]
         i    == Place(NewGroups, newCell, k)
     IN
     IF Candidates(NewGroups, newCell, k) = {}
     THEN pc' = "idle" /\ request' = NoRequest /\ FreeNew
     ELSE /\ newCell' = [newCell EXCEPT ![i] = k]
          /\ newStored' = [newStored EXCEPT ![i] = stored[from]]
          /\ newElements' = IF newCell[i] = k THEN newElements ELSE newElements + 1
          /\ cursor' = from + 1
          /\ UNCHANGED <<pc, request>>
  /\ UNCHANGED <<hash, table, walk>>

(* Mutant: the new storage is installed and capacity_groups is not. *)
SwapKeepsCapacity ==
  /\ pc = "rehash"
  /\ Ahead(groups, cell, cursor) = {}
  /\ groups' = groups
  /\ cell' = newCell
  /\ stored' = newStored
  /\ elements' = newElements
  /\ deleted' = 0
  /\ FreeNew
  /\ pc' = "insert"
  /\ due' = {} /\ seen' = {}
  /\ UNCHANGED <<hash, request, walking, at>>

(* The loop's end.  Slots get new numbers, so an enumerator under way has  *)
(* nothing to promise any more.                                            *)
Swap ==
  /\ pc = "rehash"
  /\ Ahead(groups, cell, cursor) = {}
  /\ groups' = NewGroups
  /\ cell' = newCell
  /\ stored' = newStored
  /\ elements' = newElements
  /\ deleted' = 0
  /\ FreeNew
  /\ pc' = "insert"
  /\ due' = {} /\ seen' = {}
  /\ UNCHANGED <<hash, request, walking, at>>

PutAfterResize ==
  /\ pc = "insert"
  /\ Insert(request.key, request.value)
  /\ pc' = "idle"
  /\ request' = NoRequest
  /\ UNCHANGED <<hash, new, walk>>

(* Mutant: the slot is emptied, not buried. *)
DeleteEmpties(k) ==
  /\ pc = "idle"
  /\ Found(groups, cell, k) # {}
  /\ cell' = [cell EXCEPT ![First(groups, k, Found(groups, cell, k))] = Empty]
  /\ elements' = elements - 1
  /\ due' = due \ {k} /\ seen' = seen \ {k}
  /\ UNCHANGED <<hash, groups, stored, deleted, pc, request, new, walking, at>>

(* The value's bytes are left behind. *)
Delete(k) ==
  /\ pc = "idle"
  /\ Found(groups, cell, k) # {}
  /\ cell' = [cell EXCEPT ![First(groups, k, Found(groups, cell, k))] = Deleted]
  /\ elements' = elements - 1
  /\ deleted' = deleted + 1
  /\ due' = due \ {k} /\ seen' = seen \ {k}
  /\ UNCHANGED <<hash, groups, stored, pc, request, new, walking, at>>

EnumeratorInit ==
  /\ pc = "idle"
  /\ walking' = TRUE
  /\ at' = 0
  /\ due' = Present(groups, cell)
  /\ seen' = {}
  /\ UNCHANGED <<hash, table, pc, request, new>>

(* Mutant: the slot index is not reset when the next group is entered. *)
EnumeratorSkips ==
  /\ pc = "idle"
  /\ walking
  /\ Ahead(groups, cell, at) # {}
  /\ LET i == NextEntry(groups, cell, at) IN
       /\ at' = IF i \div SlotCount # at \div SlotCount THEN i + 2 ELSE i + 1
       /\ due' = due \ {cell[i]}
       /\ seen' = seen \cup {cell[i]}
  /\ UNCHANGED <<hash, table, pc, request, new, walking>>

EnumeratorNext ==
  /\ pc = "idle"
  /\ walking
  /\ Ahead(groups, cell, at) # {}
  /\ LET i == NextEntry(groups, cell, at) IN
       /\ at' = i + 1
       /\ due' = due \ {cell[i]}
       /\ seen' = seen \cup {cell[i]}
  /\ UNCHANGED <<hash, table, pc, request, new, walking>>

EnumeratorEnd ==
  /\ pc = "idle"
  /\ walking
  /\ Ahead(groups, cell, at) = {}
  /\ walking' = FALSE
  /\ at' = 0 /\ due' = {} /\ seen' = {}
  /\ UNCHANGED <<hash, table, pc, request, new>>

Next ==
  \/ \E k \in Keys :
       \/ \E v \in Values : Put(k, v) \/ PutFails(k, v) \/ PutResizes(k, v)
       \/ Delete(k)
  \/ Rehash \/ Swap \/ PutAfterResize
  \/ EnumeratorInit \/ EnumeratorNext \/ EnumeratorEnd

Spec == Init /\ [][Next]_vars
-----------------------------------------------------------------------------
(* Every variable has its type; the table has a cell for every slot.       *)
TypeOK ==
  /\ hash \in [Keys -> Hashes]
  /\ groups \in Nat \ {0}
  /\ cell \in [Slots(groups) -> Keys \cup {Empty, Deleted}]
  /\ stored \in [Slots(groups) -> Values \cup {Nothing}]
  /\ elements \in Nat
  /\ deleted \in Nat
  /\ pc \in {"idle", "rehash", "insert"}
  /\ request \in IF pc = "idle" THEN {NoRequest} ELSE [key : Keys, value : Values]
  /\ newElements \in Nat
  /\ cursor \in Nat
  /\ pc = "rehash" =>
       /\ newCell \in [Slots(NewGroups) -> Keys \cup {Empty, Deleted}]
       /\ newStored \in [Slots(NewGroups) -> Values \cup {Nothing}]
  /\ walking \in BOOLEAN
  /\ at \in Nat
  /\ due \in SUBSET Keys
  /\ seen \in SUBSET Keys

(* The two counters count the entries and the tombstones.  The collectors  *)
(* size their buffers by element_count and fill them entry by entry, and   *)
(* deleted_count is unsigned and decremented.                              *)
CountsExact ==
  /\ elements = Cardinality(Entries(groups, cell))
  /\ deleted = Cardinality(Tombs(groups, cell))

(* "Hashmap has no available insertion slot." never fires: whatever was    *)
(* put and deleted before, any key finds a slot, in the table and in the   *)
(* one a resize is filling.                                                *)
InsertableAlways ==
  \A k \in Keys :
    /\ pc = "insert" \/ ~Full => Candidates(groups, cell, k) # {}
    /\ pc = "rehash" => Candidates(NewGroups, newCell, k) # {}

(* An enumerator returns every key that stayed in the map since it was     *)
(* initialised, and no key twice, whatever was put and deleted meanwhile,  *)
(* as long as no put resized the table.                                    *)
EnumerationExact ==
  walking =>
    /\ Ahead(groups, cell, at) = {} => due = {}
    /\ \A i \in Ahead(groups, cell, at) : cell[i] \notin seen

(* The table implements a finite map: a key is found, with the value last  *)
(* put, until it is deleted; puts and deletes of other keys, tombstones,   *)
(* collisions and resizes do not show.                                     *)
Contract == INSTANCE MapContract WITH
  content <- [k \in Keys |-> Lookup(groups, cell, stored, k)]

ImplementsMap == Contract!Spec
=============================================================================

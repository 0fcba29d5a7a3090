--------------------------- MODULE PagedAllocator ---------------------------
(***************************************************************************)
(* NexusPagedAllocator (n_memory.c).  A page is cut into regions, each a   *)
(* header followed by byte_size bytes; the headers of a page form a list.  *)
(* A payload starts behind the header, after a back-pointer to it and      *)
(* whatever padding its alignment asks for.                                *)
(*                                                                         *)
(* Addresses are numbers, Null is 0.  One caller: the allocator takes no   *)
(* lock.  calloc is malloc followed by a fill of the payload.              *)
(***************************************************************************)
EXTENDS Integers, Sequences, Functions

CONSTANTS
  Word,        \* NEXUS_SIZEOF(void *)
  Header,      \* NEXUS_SIZEOF(NexusRegion)
  MinSplit,    \* the 32 bytes a region split off must exceed
  PageSize,    \* page_size
  Bases,       \* the memory_base of every page libc can give out
  Sizes,       \* sizes the caller asks for
  Alignments,  \* alignments the caller asks for
  MaxInitial   \* the most pages an allocator is created with

Null == 0

\* A page holds a header and something behind it; pages libc hands out do
\* not overlap; a size of zero returns at once and is not listed.
ASSUME PagedAssumption ==
  /\ Word \in Nat \ {0} /\ Header \in Nat \ {0} /\ MinSplit \in Nat
  /\ PageSize \in Nat /\ PageSize > Header
  /\ Bases \subseteq Nat \ {0}
  /\ \A b, c \in Bases : b = c \/ b + PageSize <= c \/ c + PageSize <= b
  /\ Sizes \subseteq Nat \ {0}
  /\ Alignments \subseteq Nat
  /\ MaxInitial \in Nat

VARIABLES
  alive,    \* the allocator has been created and not destroyed
  pages,    \* the bases of its pages, from page_head on
  region,   \* the headers reachable from a page, by address
  back,     \* the word in front of each payload handed out
  held,     \* the payloads the caller holds, with what it asked for
  pending   \* the request that waits for the search after a new page

vars == <<alive, pages, region, back, held, pending>>

Region == [byte_size : Nat, available : BOOLEAN, next : Nat, prev : Nat]
Request == [size : Nat \ {0}, alignment : Nat]
NoRequest == [size |-> 0, alignment |-> 0]

PageSet == Range(pages)

\* The empty function: no header, no payload.
Nowhere == [p \in {} |-> Null]

\* A page that is one free region.
Whole == [byte_size |-> PageSize - Header, available |-> TRUE,
          next |-> Null, prev |-> Null]

Start(r) == r + Header
End(R, r) == r + Header + R[r].byte_size

\* The least multiple of a not below n; an a of zero asks for nothing.
RoundUp(n, a) == IF a = 0 \/ (n % a) = 0 THEN n ELSE n + (a - (n % a))

\* Mutant: forgets the back-pointer in front of the payload.
AlignedPtrBare(r, alignment) == RoundUp(r + Header, alignment)

\* Where the payload starts in the region at r.
AlignedPtr(r, alignment) == RoundUp(r + Header + Word, alignment)

\* Mutant: counts the payload without its padding.
RequiredUnpadded(r, q) == q.size

Required(r, q) == AlignedPtr(r, q.alignment) - Start(r) + q.size

Fitting(q) == {r \in DOMAIN region : /\ region[r].available
                                     /\ region[r].byte_size >= Required(r, q)}

\* The position in the page list of the page that holds r.
PageNumber(r) == CHOOSE i \in DOMAIN pages : pages[i] <= r /\ r < pages[i] + PageSize

\* First fit: pages in list order, and in a page by address.
Before(r, s) == \/ PageNumber(r) < PageNumber(s)
                \/ PageNumber(r) = PageNumber(s) /\ r < s

FirstFit(q) == CHOOSE r \in Fitting(q) : \A s \in Fitting(q) \ {r} : Before(r, s)

\* Mutant: the right neighbour keeps pointing at the region that was split.
SplitOneWay(R, r, used) ==
  LET new == Start(r) + used IN
  [s \in DOMAIN R \cup {new} |->
     IF s = new THEN [byte_size |-> R[r].byte_size - used - Header,
                      available |-> TRUE, next |-> R[r].next, prev |-> r]
     ELSE IF s = r THEN [R[r] EXCEPT !.byte_size = used, !.next = new]
     ELSE R[s]]

\* The region at r cut off behind its first `used` bytes; the rest becomes
\* a free region of its own.
Split(R, r, used) ==
  LET new == Start(r) + used IN
  [s \in DOMAIN R \cup {new} |->
     IF s = new THEN [byte_size |-> R[r].byte_size - used - Header,
                      available |-> TRUE, next |-> R[r].next, prev |-> r]
     ELSE IF s = r THEN [R[r] EXCEPT !.byte_size = used, !.next = new]
     ELSE IF s = R[r].next THEN [R[s] EXCEPT !.prev = new]
     ELSE R[s]]

\* Mutant: splits whatever is left, however little.
SplitsAlways(R, r, used) == R[r].byte_size # used

\* Whether what is left behind `used` bytes is worth a region.
Splits(R, r, used) == R[r].byte_size - used > Header + MinSplit

Taken(R, r) == [R EXCEPT ![r].available = FALSE]

Carved(r, q) ==
  LET used == Required(r, q) IN
  Taken(IF Splits(region, r, used) THEN Split(region, r, used) ELSE region, r)

\* The region at r is cut to size and its payload handed out.
Serve(r, q) ==
  LET ptr == AlignedPtr(r, q.alignment) IN
  /\ region' = Carved(r, q)
  /\ back' = [p \in DOMAIN back \cup {ptr} |-> IF p = ptr THEN r ELSE back[p]]
  /\ held' = [p \in DOMAIN held \cup {ptr} |-> IF p = ptr THEN q ELSE held[p]]
  /\ pending' = NoRequest
  /\ UNCHANGED <<alive, pages>>

\* Mutant: compares the bare size with the page.
TooLargeBare(q) == q.size > PageSize

\* Line 174: a request for which a page of its own would be too small.
TooLarge(q) == q.size + Word + q.alignment + Header > PageSize

NewPage(b, q) ==
  /\ b \in Bases \ PageSet
  /\ pages' = Append(pages, b)
  /\ region' = [r \in DOMAIN region \cup {b} |-> IF r = b THEN Whole ELSE region[r]]
  /\ pending' = q
  /\ UNCHANGED <<alive, back, held>>

NullReturned == pending' = NoRequest /\ UNCHANGED <<alive, pages, region, back, held>>

\* From retry_allocation to a return, or to a new page and the goto.
Search(q) ==
  IF Fitting(q) # {} THEN Serve(FirstFit(q), q)
  ELSE \/ NullReturned   \* too large, or libc has no memory
       \/ ~TooLarge(q) /\ \E b \in Bases : NewPage(b, q)

Malloc(size, alignment) ==
  /\ alive /\ pending = NoRequest
  /\ Search([size |-> RoundUp(size, Word), alignment |-> alignment])

Retry == pending # NoRequest /\ Search(pending)

\* Mutant: the bytes of the absorbed header are lost.
AbsorbLossy(R, r, n) ==
  [s \in DOMAIN R \ {n} |->
     IF s = r THEN [R[r] EXCEPT !.byte_size = @ + R[n].byte_size, !.next = R[n].next]
     ELSE IF s = R[n].next THEN [R[s] EXCEPT !.prev = r]
     ELSE R[s]]

\* r takes in its right neighbour n.
Absorb(R, r, n) ==
  [s \in DOMAIN R \ {n} |->
     IF s = r THEN [R[r] EXCEPT !.byte_size = @ + Header + R[n].byte_size,
                                !.next = R[n].next]
     ELSE IF s = R[n].next THEN [R[s] EXCEPT !.prev = r]
     ELSE R[s]]

Released(R, r) == [R EXCEPT ![r].available = TRUE]

MergedRight(R, r) ==
  IF R[r].next # Null /\ R[R[r].next].available THEN Absorb(R, r, R[r].next) ELSE R

\* Mutant: free looks to the right only.
MergedLeftNot(R, r) == R

MergedLeft(R, r) ==
  IF R[r].prev # Null /\ R[R[r].prev].available THEN Absorb(R, R[r].prev, r) ELSE R

Free(ptr) ==
  LET r == back[ptr] IN
  /\ alive /\ pending = NoRequest
  /\ region' = MergedLeft(MergedRight(Released(region, r), r), r)
  /\ back' = [p \in DOMAIN back \ {ptr} |-> back[p]]
  /\ held' = [p \in DOMAIN held \ {ptr} |-> held[p]]
  /\ UNCHANGED <<alive, pages, pending>>

\* Every page becomes one free region; what the caller held is gone.
Reset ==
  /\ alive /\ pending = NoRequest
  /\ region' = [b \in PageSet |-> Whole]
  /\ back' = Nowhere /\ held' = Nowhere
  /\ UNCHANGED <<alive, pages, pending>>

\* When libc fails before the last page, what there is is freed and NULL
\* returned: nothing has changed.
Create(initial) ==
  /\ ~alive
  /\ \A i, j \in DOMAIN initial : initial[i] = initial[j] => i = j
  /\ alive' = TRUE
  /\ pages' = initial
  /\ region' = [b \in Range(initial) |-> Whole]
  /\ UNCHANGED <<back, held, pending>>

Destroy ==
  /\ alive /\ pending = NoRequest
  /\ alive' = FALSE
  /\ pages' = <<>> /\ region' = Nowhere /\ back' = Nowhere /\ held' = Nowhere
  /\ UNCHANGED pending

Init ==
  /\ alive = FALSE
  /\ pages = <<>> /\ region = Nowhere /\ back = Nowhere /\ held = Nowhere
  /\ pending = NoRequest

Next ==
  \/ \E size \in Sizes, alignment \in Alignments : Malloc(size, alignment)
  \/ Retry
  \/ \E ptr \in DOMAIN held : Free(ptr)
  \/ Reset
  \/ \E n \in 0 .. MaxInitial : \E initial \in [1 .. n -> Bases] : Create(initial)
  \/ Destroy

Spec == Init /\ [][Next]_vars

-----------------------------------------------------------------------------
\* Every variable keeps its type: headers are records of the C struct, the
\* caller holds exactly the payloads that have a back-pointer.
TypeOK ==
  /\ alive \in BOOLEAN
  /\ pages \in Seq(Bases)
  /\ DOMAIN region \subseteq Nat \ {0}
  /\ region \in [DOMAIN region -> Region]
  /\ DOMAIN held \subseteq Nat \ {0}
  /\ held \in [DOMAIN held -> Request]
  /\ DOMAIN back = DOMAIN held
  /\ back \in [DOMAIN back -> Nat]
  /\ pending \in Request \cup {NoRequest}

\* The list through the headers of page b is at r as it should be: r ends
\* where its successor starts, or at the end of the page, and the two point
\* at each other; only the header at the base has no predecessor.
Linked(R, r, b) ==
  /\ b <= r /\ End(R, r) <= b + PageSize
  /\ IF R[r].next = Null THEN End(R, r) = b + PageSize
     ELSE /\ R[r].next = End(R, r)
          /\ R[r].next \in DOMAIN R
          /\ R[R[r].next].prev = r
  /\ IF R[r].prev = Null THEN r = b
     ELSE /\ r # b
          /\ R[r].prev \in DOMAIN R
          /\ R[R[r].prev].next = r

\* Two regions share no byte.
RegionsApart(R) ==
  \A r, s \in DOMAIN R : r = s \/ End(R, r) <= s \/ End(R, s) <= r

Tiles(R, P) ==
  /\ P \subseteq DOMAIN R
  /\ \A r \in DOMAIN R : \E b \in P : Linked(R, r, b)
  /\ RegionsApart(R)

\* Through splits, merges to either side and resets the regions of a page
\* tile it: no gap, no overlap, and the list runs through all of them in
\* both directions.
Tiled == Tiles(region, PageSet)

\* A payload the caller holds lies behind its back-pointer in a region that
\* is taken, one payload a region, and every taken region belongs to a
\* payload: free finds the right header, and no region is lost.
Held ==
  /\ \A p \in DOMAIN held :
       /\ back[p] \in DOMAIN region
       /\ ~region[back[p]].available
       /\ Start(back[p]) + Word <= p
       /\ p + held[p].size <= End(region, back[p])
  /\ \A p, q \in DOMAIN held : back[p] = back[q] => p = q
  /\ \A r \in DOMAIN region : ~region[r].available => \E p \in DOMAIN held : back[p] = r

\* Free regions never lie side by side: free merges both ways and malloc
\* splits only what lies between taken ones.
Coalesced ==
  \A r \in DOMAIN region :
    (region[r].available /\ region[r].next # Null) => ~region[region[r].next].available

\* When the caller has given everything back, in whatever order, every page
\* is one free region again: nothing is lost to fragmentation.
Reclaimed ==
  DOMAIN held = {} => region = [b \in PageSet |-> Whole]

\* The search that follows a new page succeeds: the test of line 174 lets
\* no request through for which the loop would add page after page.
FreshPageServes == pending # NoRequest => Fitting(pending) # {}

Contract == INSTANCE Allocator WITH out <-
  {[at |-> p, size |-> held[p].size, alignment |-> held[p].alignment] : p \in DOMAIN held}

\* Whatever the order of calls, blocks are aligned as asked and no byte is
\* in two blocks at once.
ImplementsAllocator == Contract!Spec
=============================================================================

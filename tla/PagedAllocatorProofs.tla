------------------------ MODULE PagedAllocatorProofs ------------------------
(***************************************************************************)
(* The paged allocator keeps its pages tiled and its blocks apart for      *)
(* every page size, header size, split threshold, number of pages, size    *)
(* and alignment.                                                          *)
(***************************************************************************)
EXTENDS PagedAllocator, WellFoundedInduction, TLAPS

Headers(R) ==
  /\ DOMAIN R \subseteq Nat \ {0}
  /\ \A r \in DOMAIN R : R[r] \in Region

(* Free regions of R never lie side by side.                               *)
NoFreePair(R) ==
  \A r \in DOMAIN R :
    (R[r].available /\ R[r].next # Null) => ~R[R[r].next].available

-----------------------------------------------------------------------------
(* A set of naturals has a least element.                                  *)
LEMMA LeastNatural ==
  ASSUME NEW S \in SUBSET Nat, S # {}
  PROVE  \E m \in S : \A j \in S : m <= j
  <1> DEFINE R == OpToRel(<, Nat)
  <1>1. IsWellFoundedOn(R, Nat)
    BY NatLessThanWellFounded
  <1>2. \A x, y \in Nat : x < y => <<x, y>> \in R
    BY DEF OpToRel
  <1>3. \E x \in S : \A y \in S : <<y, x>> \notin R
    <2> HIDE DEF R
    <2> QED BY <1>1, WFMin
  <1>4. PICK m \in S : \A j \in S : <<j, m>> \notin R
    BY <1>3
  <1>5. \A j \in S : ~(j < m)
    <2> HIDE DEF R
    <2> QED BY <1>2, <1>4
  <1>6. \A j \in S : m <= j
    BY <1>5
  <1> QED BY <1>6

(* Rounding up.                                                            *)

LEMMA RoundUpBounds ==
  ASSUME NEW n \in Nat, NEW a \in Nat
  PROVE  /\ RoundUp(n, a) \in Nat
         /\ n <= RoundUp(n, a)
         /\ RoundUp(n, a) <= n + a
  <1>1. CASE a = 0
    BY <1>1 DEF RoundUp
  <1>2. CASE a > 0
    <2>1. (n % a) \in 0 .. (a - 1)
      BY <1>2
    <2> QED BY <2>1, <1>2 DEF RoundUp
  <1> QED BY <1>1, <1>2

LEMMA RoundUpAligns ==
  ASSUME NEW n \in Nat, NEW a \in Nat \ {0}
  PROVE  (RoundUp(n, a) % a) = 0
  <1>1. (n % a) \in 0 .. (a - 1) /\ n \div a \in Int
    OBVIOUS
  <1>2. n = a * (n \div a) + (n % a)
    OBVIOUS
  <1>3. CASE (n % a) # 0
    <2> DEFINE q == (n \div a) + 1
    <2>1. RoundUp(n, a) = a * q
      BY <1>1, <1>2, <1>3 DEF RoundUp
    <2>2. q \in Int
      BY <1>1
    <2>3. \A k \in Int : (a * k) % a = 0
      OBVIOUS
    <2> QED BY <2>1, <2>2, <2>3
  <1> QED BY <1>3 DEF RoundUp

(* Where a payload lies in its region.                                     *)
LEMMA PayloadPlace ==
  ASSUME NEW r \in Nat, NEW q \in Request
  PROVE  /\ AlignedPtr(r, q.alignment) \in Nat
         /\ Start(r) + Word <= AlignedPtr(r, q.alignment)
         /\ AlignedPtr(r, q.alignment) <= Start(r) + Word + q.alignment
         /\ Required(r, q) \in Nat
         /\ AlignedPtr(r, q.alignment) + q.size = Start(r) + Required(r, q)
         /\ q.alignment # 0 => (AlignedPtr(r, q.alignment) % q.alignment) = 0
  <1> DEFINE n == r + Header + Word
             a == q.alignment
  <1>1. n \in Nat /\ a \in Nat /\ q.size \in Nat
    BY PagedAssumption DEF Request
  <1>2. RoundUp(n, a) \in Nat /\ n <= RoundUp(n, a) /\ RoundUp(n, a) <= n + a
    <2> HIDE DEF n, a
    <2> QED BY <1>1, RoundUpBounds
  <1>3. a # 0 => (RoundUp(n, a) % a) = 0
    <2> HIDE DEF n, a
    <2> QED BY <1>1, RoundUpAligns
  <1>4. AlignedPtr(r, a) = RoundUp(n, a)
    BY DEF AlignedPtr
  <1>5. Word \in Nat /\ Header \in Nat
    BY PagedAssumption
  <1> HIDE DEF n
  <1>6. n = r + Header + Word
    BY DEF n
  <1> QED BY <1>1, <1>2, <1>3, <1>4, <1>5, <1>6 DEF Required, Start

-----------------------------------------------------------------------------
(* Lists of regions.                                                       *)

(* A region and the one behind it in the list are two different regions,   *)
(* and no header lies inside a region.                                     *)
LEMMA Neighbours ==
  ASSUME NEW R, NEW P, Headers(R), Tiles(R, P), NEW r \in DOMAIN R
  PROVE  /\ r \in Nat /\ End(R, r) \in Nat /\ End(R, r) > r /\ Null \notin DOMAIN R
         /\ \A s \in DOMAIN R : ~(r < s /\ s < End(R, r))
         /\ R[r].next # Null => /\ R[r].next \in DOMAIN R
                                /\ R[r].next = End(R, r)
                                /\ R[R[r].next].prev = r
         /\ R[r].prev # Null => /\ R[r].prev \in DOMAIN R
                                /\ R[R[r].prev].next = r
  <1>1. r \in Nat /\ R[r].byte_size \in Nat /\ Null \notin DOMAIN R
    BY DEF Headers, Null, Region
  <1>2. Header \in Nat \ {0}
    BY PagedAssumption
  <1>3. End(R, r) \in Nat /\ End(R, r) > r
    BY <1>1, <1>2 DEF End
  <1>4. ASSUME NEW s \in DOMAIN R, r < s, s < End(R, r)
        PROVE  FALSE
    <2>1. s \in Nat /\ R[s].byte_size \in Nat
      BY DEF Headers, Region
    <2>2. End(R, s) \in Nat /\ End(R, s) > s
      BY <2>1, <1>2 DEF End
    <2>3. r = s \/ End(R, r) <= s \/ End(R, s) <= r
      BY DEF Tiles, RegionsApart
    <2> QED BY <1>1, <1>3, <1>4, <2>1, <2>2, <2>3
  <1>5. PICK b \in P : Linked(R, r, b)
    BY DEF Tiles
  <1> QED BY <1>1, <1>3, <1>4, <1>5 DEF Linked

(* S is R with another flag at r.                                          *)
FlagFacts(R, r, f, S) ==
  /\ DOMAIN S = DOMAIN R
  /\ S[r].available = f
  /\ \A s \in DOMAIN R : /\ S[s].next = R[s].next /\ S[s].prev = R[s].prev
                         /\ End(S, s) = End(R, s)
                         /\ s # r => S[s].available = R[s].available

(* A header that changes its flag only changes no list.                    *)
LEMMA FlagTiles ==
  ASSUME NEW R, NEW P, Headers(R), Tiles(R, P), NEW r \in DOMAIN R, NEW f \in BOOLEAN
  PROVE  /\ Headers([R EXCEPT ![r].available = f])
         /\ Tiles([R EXCEPT ![r].available = f], P)
         /\ FlagFacts(R, r, f, [R EXCEPT ![r].available = f])
  <1> DEFINE S == [R EXCEPT ![r].available = f]
  <1>1. DOMAIN S = DOMAIN R
    OBVIOUS
  <1>2. /\ R[r] \in Region
        /\ S[r] = [R[r] EXCEPT !.available = f]
        /\ \A s \in DOMAIN R : s # r => S[s] = R[s]
    BY DEF Headers
  <1> HIDE DEF S
  <1>3. /\ S[r] \in Region /\ S[r].available = f
        /\ S[r].byte_size = R[r].byte_size
        /\ S[r].next = R[r].next /\ S[r].prev = R[r].prev
    BY <1>2 DEF Region
  <1>4. \A s \in DOMAIN R : /\ S[s].byte_size = R[s].byte_size
                            /\ S[s].next = R[s].next /\ S[s].prev = R[s].prev
                            /\ s # r => S[s].available = R[s].available
    BY <1>2, <1>3
  <1>5. Headers(S)
    BY <1>1, <1>2, <1>3 DEF Headers
  <1>6. \A s \in DOMAIN R : End(S, s) = End(R, s)
    BY <1>4 DEF End
  <1>7. RegionsApart(S)
    BY <1>1, <1>6 DEF Tiles, RegionsApart
  <1>8. ASSUME NEW s \in DOMAIN R, NEW b \in P, Linked(R, s, b)
        PROVE  Linked(S, s, b)
    BY <1>1, <1>4, <1>6, <1>8 DEF Linked
  <1>9. Tiles(S, P)
    BY <1>1, <1>7, <1>8 DEF Tiles
  <1>10. FlagFacts(R, r, f, S)
    BY <1>1, <1>3, <1>4, <1>6 DEF FlagFacts
  <1> QED BY <1>5, <1>9, <1>10 DEF S

(* S is R with the region at r split at new; nx is what followed r.        *)
SplitFacts(R, r, used, new, S, nx) ==
  /\ new \in Nat \ {0} /\ new \notin DOMAIN R /\ nx # r /\ nx # new
  /\ DOMAIN S = DOMAIN R \cup {new}
  /\ S[new] = [byte_size |-> R[r].byte_size - used - Header,
               available |-> TRUE, next |-> nx, prev |-> r]
  /\ S[r] \in Region /\ S[r].byte_size = used /\ S[r].next = new
  /\ S[r].prev = R[r].prev /\ S[r].available = R[r].available
  /\ nx # Null => /\ S[nx] \in Region /\ S[nx].prev = new
                  /\ S[nx].byte_size = R[nx].byte_size
                  /\ S[nx].next = R[nx].next
                  /\ S[nx].available = R[nx].available
  /\ \A s \in DOMAIN R : s # r /\ s # nx => S[s] = R[s]

(* The fields of a list in which the region at r has been split.           *)
LEMMA SplitFields ==
  ASSUME NEW R, NEW P, Headers(R), Tiles(R, P), NEW r \in DOMAIN R,
         NEW used \in Nat, R[r].byte_size >= used + Header
  PROVE  SplitFacts(R, r, used, Start(r) + used, Split(R, r, used), R[r].next)
  <1> DEFINE new == Start(r) + used
             S == Split(R, r, used)
             nx == R[r].next
  <1>1. /\ r \in Nat /\ End(R, r) \in Nat /\ Null \notin DOMAIN R
        /\ \A s \in DOMAIN R : ~(r < s /\ s < End(R, r))
        /\ nx # Null => nx \in DOMAIN R /\ nx = End(R, r)
    BY Neighbours
  <1>2. Header \in Nat \ {0} /\ R[r] \in Region
    BY PagedAssumption DEF Headers
  <1>3. R[r].byte_size \in Nat
    BY <1>2 DEF Region
  <1>4. new \in Nat /\ r < new /\ new < End(R, r)
    BY <1>1, <1>2, <1>3 DEF Start, End
  <1>5. new \notin DOMAIN R /\ nx # r /\ nx # new
    <2> HIDE DEF new, nx
    <2> QED BY <1>1, <1>4 DEF Null
  <1>6. new \in Nat \ {0}
    BY <1>1, <1>4
  <1>7. DOMAIN S = DOMAIN R \cup {new}
    BY DEF Split
  <1>8. S[new] = [byte_size |-> R[r].byte_size - used - Header,
                  available |-> TRUE, next |-> nx, prev |-> r]
    BY DEF Split
  <1>9. S[r] = [R[r] EXCEPT !.byte_size = used, !.next = new]
    BY <1>5 DEF Split
  <1>10. /\ S[r] \in Region /\ S[r].byte_size = used /\ S[r].next = new
         /\ S[r].prev = R[r].prev /\ S[r].available = R[r].available
    <2> HIDE DEF S, new
    <2> QED BY <1>2, <1>6, <1>9 DEF Region
  <1>11. ASSUME nx # Null
         PROVE  /\ S[nx] \in Region /\ S[nx].prev = new
                /\ S[nx].byte_size = R[nx].byte_size
                /\ S[nx].next = R[nx].next
                /\ S[nx].available = R[nx].available
    <2>1. S[nx] = [R[nx] EXCEPT !.prev = new]
      BY <1>1, <1>5, <1>11 DEF Split
    <2>2. R[nx] \in Region
      BY <1>1, <1>11 DEF Headers
    <2> HIDE DEF S, new, nx
    <2> QED BY <2>1, <2>2, <1>6 DEF Region
  <1>12. \A s \in DOMAIN R : s # r /\ s # nx => S[s] = R[s]
    BY <1>5 DEF Split
  <1> QED BY <1>5, <1>6, <1>7, <1>8, <1>10, <1>11, <1>12 DEF SplitFacts

(* Splitting a region keeps the page tiled.                                *)
LEMMA SplitTiles ==
  ASSUME NEW R, NEW P, Headers(R), Tiles(R, P), NEW r \in DOMAIN R,
         NEW used \in Nat, R[r].byte_size >= used + Header
  PROVE  Headers(Split(R, r, used)) /\ Tiles(Split(R, r, used), P)
  <1> DEFINE new == Start(r) + used
             S == Split(R, r, used)
             nx == R[r].next
  <1>0. SplitFacts(R, r, used, new, S, nx)
    BY SplitFields
  <1>a. new = r + Header + used /\ nx = R[r].next
    BY DEF Start
  <1>b. S = Split(R, r, used)
    OBVIOUS
  <1> HIDE DEF new, S, nx
  <1>1. /\ new \in Nat \ {0} /\ new \notin DOMAIN R /\ nx # r /\ nx # new
        /\ DOMAIN S = DOMAIN R \cup {new}
        /\ S[new] = [byte_size |-> R[r].byte_size - used - Header,
                     available |-> TRUE, next |-> nx, prev |-> r]
        /\ S[r] \in Region /\ S[r].byte_size = used /\ S[r].next = new
        /\ S[r].prev = R[r].prev /\ S[r].available = R[r].available
        /\ nx # Null => /\ S[nx] \in Region /\ S[nx].prev = new
                        /\ S[nx].byte_size = R[nx].byte_size
                        /\ S[nx].next = R[nx].next
                        /\ S[nx].available = R[nx].available
        /\ \A s \in DOMAIN R : s # r /\ s # nx => S[s] = R[s]
    BY <1>0 DEF SplitFacts
  <1>2. new = r + Header + used
    BY <1>a
  <1>3. Header \in Nat \ {0} /\ R[r] \in Region
    BY PagedAssumption DEF Headers
  <1>4. R[r].byte_size \in Nat /\ nx \in Nat
    BY <1>a, <1>3 DEF Region
  <1>5. /\ r \in Nat /\ Null \notin DOMAIN R /\ r # Null
        /\ nx # Null => nx \in DOMAIN R /\ nx = End(R, r)
    BY <1>a, Neighbours
  <1>6. S[new] \in Region
    BY <1>1, <1>3, <1>4, <1>5 DEF Region
  <1>7. \A s \in DOMAIN R : S[s] \in Region
    BY <1>1, <1>5 DEF Headers
  <1>8. Headers(S)
    BY <1>1, <1>6, <1>7 DEF Headers
  <1>9. End(S, r) = new /\ End(S, new) = End(R, r)
    BY <1>1, <1>2, <1>3, <1>4, <1>5 DEF End
  <1>10. \A s \in DOMAIN R : s # r => End(S, s) = End(R, s)
    <2>1. \A s \in DOMAIN R : s # r => S[s].byte_size = R[s].byte_size
      BY <1>1, <1>5
    <2> QED BY <2>1 DEF End
  <1>11. RegionsApart(S)
    <2>1. \A s \in DOMAIN R : s \in Nat /\ End(R, s) \in Nat /\ End(R, s) > s
      BY Neighbours
    <2>2. r < new /\ new < End(R, r)
      BY <1>2, <1>3, <1>4, <1>5 DEF End
    <2>3. \A s \in DOMAIN R : s = r \/ End(R, s) <= r \/ End(R, r) <= s
      BY DEF Tiles, RegionsApart
    <2>4. \A s, u \in DOMAIN R : s = u \/ End(R, s) <= u \/ End(R, u) <= s
      BY DEF Tiles, RegionsApart
    <2>5. ASSUME NEW s \in DOMAIN R, s # r
          PROVE  /\ End(S, s) <= r \/ new <= s
                 /\ End(S, s) <= new \/ End(S, new) <= s
      BY <1>1, <1>9, <1>10, <2>1, <2>2, <2>3, <2>5
    <2>6. ASSUME NEW s \in DOMAIN S, NEW u \in DOMAIN S, s # u
          PROVE  End(S, s) <= u \/ End(S, u) <= s
      <3>1. CASE s \in DOMAIN R \ {r} /\ u \in DOMAIN R \ {r}
        BY <3>1, <1>10, <2>4, <2>6
      <3>2. CASE s = r
        BY <3>2, <1>1, <1>9, <2>1, <2>2, <2>5, <2>6
      <3>3. CASE s = new
        BY <3>3, <1>1, <1>9, <2>1, <2>2, <2>5, <2>6
      <3>4. CASE s \in DOMAIN R \ {r} /\ u \in {r, new}
        BY <3>4, <1>1, <1>9, <2>1, <2>2, <2>5, <2>6
      <3> QED BY <3>1, <3>2, <3>3, <3>4, <1>1
    <2> QED BY <2>6 DEF RegionsApart
  <1>12. \A s \in DOMAIN S : \E b \in P : Linked(S, s, b)
    <2>1. PICK b \in P : Linked(R, r, b)
      BY DEF Tiles
    <2>2. b \in DOMAIN R /\ b \in Nat
      BY DEF Tiles, Headers
    <2>3. Linked(S, r, b)
      <3>1. r < new /\ new <= End(R, r) /\ End(R, r) \in Nat
        BY <1>2, <1>3, <1>4, <1>5 DEF End
      <3>2. b <= r /\ End(S, r) <= b + PageSize
        <4>1. b <= r /\ End(R, r) <= b + PageSize /\ PageSize \in Nat
          BY <2>1, PagedAssumption DEF Linked
        <4> QED BY <4>1, <2>2, <3>1, <1>1, <1>5, <1>9
      <3>3. /\ S[r].next # Null /\ S[r].next = End(S, r) /\ S[r].next \in DOMAIN S
            /\ S[S[r].next].prev = r
        BY <1>1, <1>9 DEF Null
      <3>4. IF S[r].prev = Null THEN r = b
            ELSE /\ r # b
                 /\ S[r].prev \in DOMAIN S
                 /\ S[S[r].prev].next = r
        <4>1. CASE R[r].prev = Null
          BY <4>1, <1>1, <2>1 DEF Linked
        <4>2. CASE R[r].prev # Null
          <5>1. r # b /\ R[r].prev \in DOMAIN R /\ R[R[r].prev].next = r
            BY <4>2, <2>1 DEF Linked
          <5>2. R[r].prev # r
            BY <5>1, <1>1, <1>a
          <5>3. CASE R[r].prev = nx
            BY <5>1, <5>3, <1>1, <1>5, <4>2
          <5>4. CASE R[r].prev # nx
            BY <5>1, <5>2, <5>4, <1>1, <4>2
          <5> QED BY <5>3, <5>4
        <4> QED BY <4>1, <4>2
      <3> QED BY <3>2, <3>3, <3>4 DEF Linked
    <2>4. Linked(S, new, b)
      <3>1. b <= new /\ End(S, new) <= b + PageSize
        BY <2>1, <2>2, <1>1, <1>2, <1>3, <1>5, <1>9 DEF Linked
      <3>2. IF S[new].next = Null THEN End(S, new) = b + PageSize
            ELSE /\ S[new].next = End(S, new)
                 /\ S[new].next \in DOMAIN S
                 /\ S[S[new].next].prev = new
        BY <2>1, <1>1, <1>a, <1>5, <1>9 DEF Linked
      <3>3. S[new].prev # Null /\ new # b /\ S[new].prev \in DOMAIN S
            /\ S[S[new].prev].next = new
        BY <1>1, <1>5, <2>2
      <3> QED BY <3>1, <3>2, <3>3 DEF Linked
    <2>5. ASSUME NEW s \in DOMAIN R, s # r
          PROVE  \E c \in P : Linked(S, s, c)
      <3>1. PICK c \in P : Linked(R, s, c)
        BY DEF Tiles
      <3>2. /\ S[s].byte_size = R[s].byte_size
            /\ S[s].next = R[s].next
            /\ S[s].prev = IF s = nx THEN new ELSE R[s].prev
        BY <2>5, <1>1, <1>5
      <3>3. c <= s /\ End(S, s) <= c + PageSize
        BY <3>1, <2>5, <1>10 DEF Linked
      <3>4. IF S[s].next = Null THEN End(S, s) = c + PageSize
            ELSE /\ S[s].next = End(S, s)
                 /\ S[s].next \in DOMAIN S
                 /\ S[S[s].next].prev = s
        <4>1. CASE R[s].next = Null
          BY <4>1, <3>1, <3>2, <2>5, <1>10 DEF Linked
        <4>2. CASE R[s].next # Null
          <5>1. R[s].next = End(R, s) /\ R[s].next \in DOMAIN R /\ R[R[s].next].prev = s
            BY <4>2, <3>1 DEF Linked
          <5>2. R[s].next # nx
            <6>1. nx # Null => R[nx].prev = r
              BY <1>a, Neighbours
            <6> QED BY <6>1, <5>1, <4>2, <2>5
          <5>3. S[R[s].next].prev = s
            BY <5>1, <5>2, <1>1
          <5> QED BY <5>1, <5>3, <3>2, <4>2, <2>5, <1>1, <1>10
        <4> QED BY <4>1, <4>2
      <3>5. IF S[s].prev = Null THEN s = c
            ELSE /\ s # c
                 /\ S[s].prev \in DOMAIN S
                 /\ S[S[s].prev].next = s
        <4>1. CASE s = nx
          <5>1. R[nx].prev = r /\ nx # Null
            BY <4>1, <1>a, <1>5, Neighbours
          <5>2. s # c
            BY <5>1, <4>1, <3>1, <1>5 DEF Linked
          <5> QED BY <5>2, <4>1, <3>2, <1>1, <1>5 DEF Null
        <4>2. CASE s # nx /\ R[s].prev = Null
          BY <4>2, <3>1, <3>2 DEF Linked
        <4>3. CASE s # nx /\ R[s].prev # Null
          <5>1. s # c /\ R[s].prev \in DOMAIN R /\ R[R[s].prev].next = s
            BY <4>3, <3>1 DEF Linked
          <5>2. R[s].prev # r
            BY <5>1, <4>3, <1>a
          <5>3. S[R[s].prev].next = R[R[s].prev].next
            BY <5>1, <5>2, <1>1, <1>5
          <5> QED BY <5>1, <5>3, <4>3, <3>2, <1>1
        <4> QED BY <4>1, <4>2, <4>3
      <3> QED BY <3>3, <3>4, <3>5 DEF Linked
    <2> QED BY <2>3, <2>4, <2>5, <1>1
  <1>13. P \subseteq DOMAIN S
    BY <1>1 DEF Tiles
  <1> QED BY <1>b, <1>8, <1>11, <1>12, <1>13 DEF Tiles

(* S is R with the region at n taken in by the one at r in front of it; nn *)
(* is what followed n.                                                     *)
AbsorbFacts(R, r, n, S, nn) ==
  /\ n \in DOMAIN R /\ n # r /\ nn # r /\ nn # n
  /\ DOMAIN S = DOMAIN R \ {n}
  /\ S[r] \in Region /\ S[r].byte_size = R[r].byte_size + Header + R[n].byte_size
  /\ S[r].next = nn /\ S[r].prev = R[r].prev /\ S[r].available = R[r].available
  /\ nn # Null => /\ nn \in DOMAIN R /\ S[nn] \in Region /\ S[nn].prev = r
                  /\ S[nn].byte_size = R[nn].byte_size
                  /\ S[nn].next = R[nn].next
                  /\ S[nn].available = R[nn].available
  /\ \A s \in DOMAIN R : s # r /\ s # n /\ s # nn => S[s] = R[s]

(* The fields of a list in which the region at r has taken in the next.    *)
LEMMA AbsorbFields ==
  ASSUME NEW R, NEW P, Headers(R), Tiles(R, P), NEW r \in DOMAIN R,
         R[r].next # Null
  PROVE  AbsorbFacts(R, r, R[r].next, Absorb(R, r, R[r].next), R[R[r].next].next)
  <1> DEFINE n == R[r].next
             S == Absorb(R, r, n)
             nn == R[n].next
  <1>1. /\ r \in Nat /\ End(R, r) > r
        /\ n \in DOMAIN R /\ n = End(R, r) /\ Null \notin DOMAIN R
    BY Neighbours
  <1>2. /\ n \in Nat /\ End(R, n) \in Nat /\ End(R, n) > n
        /\ nn # Null => nn \in DOMAIN R /\ nn = End(R, n)
    BY <1>1, Neighbours
  <1>3. n # r /\ nn # r /\ nn # n
    <2> HIDE DEF n, nn
    <2> QED BY <1>1, <1>2
  <1>4. DOMAIN S = DOMAIN R \ {n}
    BY DEF Absorb
  <1>5. S[r] = [R[r] EXCEPT !.byte_size = @ + Header + R[n].byte_size, !.next = nn]
    BY <1>1, <1>3 DEF Absorb
  <1>6. R[r] \in Region /\ R[n] \in Region /\ Header \in Nat
    BY <1>1, PagedAssumption DEF Headers
  <1>7. /\ S[r] \in Region /\ S[r].byte_size = R[r].byte_size + Header + R[n].byte_size
        /\ S[r].next = nn /\ S[r].prev = R[r].prev /\ S[r].available = R[r].available
    <2> DEFINE m == R[r].byte_size + Header + R[n].byte_size
    <2>1. R[r].byte_size \in Nat /\ R[n].byte_size \in Nat /\ nn \in Nat
      BY <1>6 DEF Region
    <2>2. m \in Nat
      <3> HIDE DEF n
      <3> QED BY <2>1, <1>6
    <2>3. S[r] = [R[r] EXCEPT !.byte_size = m, !.next = nn]
      BY <1>5
    <2>4. m = R[r].byte_size + Header + R[n].byte_size
      OBVIOUS
    <2> HIDE DEF S, m, n, nn
    <2> QED BY <2>1, <2>2, <2>3, <2>4, <1>6 DEF Region
  <1>8. ASSUME nn # Null
        PROVE  /\ nn \in DOMAIN R /\ S[nn] \in Region /\ S[nn].prev = r
               /\ S[nn].byte_size = R[nn].byte_size
               /\ S[nn].next = R[nn].next
               /\ S[nn].available = R[nn].available
    <2>1. S[nn] = [R[nn] EXCEPT !.prev = r]
      BY <1>2, <1>3, <1>8 DEF Absorb
    <2>2. R[nn] \in Region /\ nn \in DOMAIN R
      BY <1>2, <1>8 DEF Headers
    <2> HIDE DEF S, n, nn
    <2> QED BY <1>1, <2>1, <2>2 DEF Region
  <1>9. \A s \in DOMAIN R : s # r /\ s # n /\ s # nn => S[s] = R[s]
    BY <1>3 DEF Absorb
  <1> QED BY <1>1, <1>3, <1>4, <1>7, <1>8, <1>9 DEF AbsorbFacts

(* Taking in the next region keeps the page tiled.                         *)
LEMMA AbsorbTiles ==
  ASSUME NEW R, NEW P \in SUBSET Bases, Headers(R), Tiles(R, P), NEW r \in DOMAIN R,
         R[r].next # Null
  PROVE  /\ Headers(Absorb(R, r, R[r].next))
         /\ Tiles(Absorb(R, r, R[r].next), P)
  <1> DEFINE n == R[r].next
             S == Absorb(R, r, n)
             nn == R[n].next
  <1>0. AbsorbFacts(R, r, n, S, nn)
    BY AbsorbFields
  <1>a. n = R[r].next /\ nn = R[n].next /\ n # Null
    OBVIOUS
  <1>b. S = Absorb(R, r, R[r].next)
    OBVIOUS
  <1> HIDE DEF S, n, nn
  <1>1. /\ n \in DOMAIN R /\ n # r /\ nn # r /\ nn # n
        /\ DOMAIN S = DOMAIN R \ {n}
        /\ S[r] \in Region /\ S[r].byte_size = R[r].byte_size + Header + R[n].byte_size
        /\ S[r].next = nn /\ S[r].prev = R[r].prev /\ S[r].available = R[r].available
        /\ nn # Null => /\ nn \in DOMAIN R /\ S[nn] \in Region /\ S[nn].prev = r
                        /\ S[nn].byte_size = R[nn].byte_size
                        /\ S[nn].next = R[nn].next
                        /\ S[nn].available = R[nn].available
        /\ \A s \in DOMAIN R : s # r /\ s # n /\ s # nn => S[s] = R[s]
    BY <1>0 DEF AbsorbFacts
  <1>2. /\ r \in Nat /\ Null \notin DOMAIN R /\ r # Null
        /\ n = End(R, r) /\ R[n].prev = r /\ End(R, r) > r
    BY <1>a, Neighbours
  <1>3. /\ n \in Nat /\ End(R, n) \in Nat /\ End(R, n) > n
        /\ nn # Null => nn = End(R, n) /\ R[nn].prev = n
    BY <1>a, <1>1, Neighbours
  <1>4. Headers(S)
    <2>1. \A s \in DOMAIN S : S[s] \in Region
      BY <1>1, <1>2 DEF Headers
    <2> QED BY <2>1, <1>1 DEF Headers
  <1>5. End(S, r) = End(R, n)
    <2>1. R[r].byte_size \in Nat /\ R[n].byte_size \in Nat /\ Header \in Nat
      BY <1>1, PagedAssumption DEF Headers, Region
    <2> QED BY <2>1, <1>1, <1>2, <1>3 DEF End
  <1>6. \A s \in DOMAIN S : s # r => S[s].byte_size = R[s].byte_size
    BY <1>1, <1>2
  <1>7. \A s \in DOMAIN S : s # r => End(S, s) = End(R, s)
    BY <1>6 DEF End
  <1>8. RegionsApart(S)
    <2>1. \A s \in DOMAIN R : s \in Nat /\ End(R, s) \in Nat /\ End(R, s) > s
      BY Neighbours
    <2>2. \A s, u \in DOMAIN R : s = u \/ End(R, s) <= u \/ End(R, u) <= s
      BY DEF Tiles, RegionsApart
    <2>3. ASSUME NEW s \in DOMAIN S, s # r
          PROVE  End(S, s) <= r \/ End(S, r) <= s
      <3>1. End(R, s) <= r \/ n <= s
        BY <2>2, <2>3, <1>1, <1>2
      <3>2. End(R, s) <= n \/ End(R, n) <= s
        BY <2>2, <2>3, <1>1
      <3> QED BY <3>1, <3>2, <2>1, <2>3, <1>1, <1>2, <1>3, <1>5, <1>7
    <2>4. \A s, u \in DOMAIN S : s = u \/ End(S, s) <= u \/ End(S, u) <= s
      BY <2>2, <2>3, <1>1, <1>7
    <2> QED BY <2>4 DEF RegionsApart
  <1>9. \A b, c \in P : b \in Nat /\ (b = c \/ b + PageSize <= c \/ c + PageSize <= b)
    BY PagedAssumption
  <1>10. PageSize \in Nat
    BY PagedAssumption
  <1>11. PICK d \in P : Linked(R, n, d)
    BY <1>1 DEF Tiles
  <1>12. d < n /\ End(R, n) <= d + PageSize
    <2>1. d <= n /\ End(R, n) <= d + PageSize /\ (n = d <=> R[n].prev = Null)
      BY <1>11 DEF Linked
    <2> QED BY <2>1, <1>2, <1>3, <1>9
  <1>13. n \notin P
    BY <1>3, <1>9, <1>10, <1>12
  <1>14. \A c \in P : Linked(R, r, c) => c = d
    <2>1. ASSUME NEW c \in P, Linked(R, r, c)
          PROVE  c = d
      <3>1. c <= r /\ n <= c + PageSize
        BY <2>1, <1>2 DEF Linked
      <3> QED BY <3>1, <1>2, <1>3, <1>9, <1>10, <1>12
    <2> QED BY <2>1
  <1>15. Linked(S, r, d)
    <2>1. Linked(R, r, d)
      BY <1>14 DEF Tiles
    <2>2. d <= r /\ End(S, r) <= d + PageSize
      BY <2>1, <1>5, <1>12 DEF Linked
    <2>3. IF S[r].next = Null THEN End(S, r) = d + PageSize
          ELSE /\ S[r].next = End(S, r)
               /\ S[r].next \in DOMAIN S
               /\ S[S[r].next].prev = r
      BY <1>11, <1>a, <1>1, <1>3, <1>5 DEF Linked
    <2>4. IF S[r].prev = Null THEN r = d
          ELSE /\ r # d
               /\ S[r].prev \in DOMAIN S
               /\ S[S[r].prev].next = r
      <3>1. CASE R[r].prev = Null
        BY <3>1, <2>1, <1>1 DEF Linked
      <3>2. CASE R[r].prev # Null
        <4>1. r # d /\ R[r].prev \in DOMAIN R /\ R[R[r].prev].next = r
          BY <3>2, <2>1 DEF Linked
        <4>2. R[r].prev # r /\ R[r].prev # n
          BY <4>1, <1>a, <1>1
        <4>3. S[R[r].prev].next = r
          BY <4>1, <4>2, <1>1, <3>2
        <4> QED BY <4>1, <4>2, <4>3, <3>2, <1>1
      <3> QED BY <3>1, <3>2
    <2> QED BY <2>2, <2>3, <2>4 DEF Linked
  <1>16. ASSUME NEW s \in DOMAIN S, s # r
         PROVE  \E c \in P : Linked(S, s, c)
    <2>1. PICK c \in P : Linked(R, s, c)
      BY <1>1 DEF Tiles
    <2>2. /\ s # n /\ s \in DOMAIN R
          /\ S[s].byte_size = R[s].byte_size /\ S[s].next = R[s].next
          /\ S[s].prev = IF s = nn THEN r ELSE R[s].prev
      BY <1>16, <1>1, <1>2
    <2>3. c <= s /\ End(S, s) <= c + PageSize
      BY <2>1, <1>16, <1>7 DEF Linked
    <2>4. IF S[s].next = Null THEN End(S, s) = c + PageSize
          ELSE /\ S[s].next = End(S, s)
               /\ S[s].next \in DOMAIN S
               /\ S[S[s].next].prev = s
      <3>1. CASE R[s].next = Null
        BY <3>1, <2>1, <2>2, <1>16, <1>7 DEF Linked
      <3>2. CASE R[s].next # Null
        <4>1. R[s].next = End(R, s) /\ R[s].next \in DOMAIN R /\ R[R[s].next].prev = s
          BY <3>2, <2>1 DEF Linked
        <4>2. R[s].next # n
          BY <4>1, <1>2, <1>16
        <4>3. R[s].next # nn
          BY <4>1, <1>3, <2>2, <3>2
        <4>4. S[R[s].next].prev = s
          BY <4>1, <4>2, <4>3, <1>1
        <4> QED BY <4>1, <4>2, <4>4, <2>2, <3>2, <1>16, <1>1, <1>7
      <3> QED BY <3>1, <3>2
    <2>5. IF S[s].prev = Null THEN s = c
          ELSE /\ s # c
               /\ S[s].prev \in DOMAIN S
               /\ S[S[s].prev].next = s
      <3>1. CASE s = nn
        <4>1. R[nn].prev = n /\ nn # Null
          BY <3>1, <1>2, <1>3, <2>2
        <4>2. n # Null
          BY <1>1, <1>2
        <4>3. s # c
          BY <4>1, <4>2, <3>1, <2>1 DEF Linked
        <4> QED BY <4>3, <3>1, <2>2, <1>1, <1>2
      <3>2. CASE s # nn /\ R[s].prev = Null
        BY <3>2, <2>1, <2>2 DEF Linked
      <3>3. CASE s # nn /\ R[s].prev # Null
        <4>1. s # c /\ R[s].prev \in DOMAIN R /\ R[R[s].prev].next = s
          BY <3>3, <2>1 DEF Linked
        <4>2. R[s].prev # r /\ R[s].prev # n
          BY <4>1, <3>3, <1>a, <2>2
        <4>3. S[R[s].prev].next = R[R[s].prev].next
          BY <4>1, <4>2, <1>1, <1>2
        <4> QED BY <4>1, <4>2, <4>3, <3>3, <2>2, <1>1
      <3> QED BY <3>1, <3>2, <3>3
    <2> QED BY <2>3, <2>4, <2>5 DEF Linked
  <1>17. P \subseteq DOMAIN S
    BY <1>1, <1>13 DEF Tiles
  <1>18. \A s \in DOMAIN S : \E c \in P : Linked(S, s, c)
    BY <1>15, <1>16
  <1> QED BY <1>b, <1>4, <1>8, <1>17, <1>18 DEF Tiles

AbsorbKept(R, r, n, S) ==
  /\ n \in DOMAIN R /\ n # r /\ DOMAIN S = DOMAIN R \ {n}
  /\ S[r].available = R[r].available /\ S[r].prev = R[r].prev
  /\ S[r].next = R[n].next
  /\ \A s \in DOMAIN S \ {r} : /\ S[s].available = R[s].available
                               /\ S[s].next = R[s].next
                               /\ S[s].byte_size = R[s].byte_size

(* What the neighbours of two merged regions keep.                         *)
LEMMA AbsorbKeeps ==
  ASSUME NEW R, NEW P \in SUBSET Bases, Headers(R), Tiles(R, P), NEW r \in DOMAIN R,
         R[r].next # Null
  PROVE  AbsorbKept(R, r, R[r].next, Absorb(R, r, R[r].next))
  <1> DEFINE S == Absorb(R, r, R[r].next)
             n == R[r].next
             nn == R[n].next
  <1>1. AbsorbFacts(R, r, n, S, nn)
    BY AbsorbFields
  <1>a. nn = R[n].next
    OBVIOUS
  <1> HIDE DEF S, n, nn
  <1>2. /\ n \in DOMAIN R /\ n # r
        /\ DOMAIN S = DOMAIN R \ {n}
        /\ S[r].available = R[r].available /\ S[r].prev = R[r].prev
        /\ S[r].next = nn
    BY <1>1 DEF AbsorbFacts
  <1>3. ASSUME NEW s \in DOMAIN S \ {r}
        PROVE  /\ S[s].available = R[s].available /\ S[s].next = R[s].next
               /\ S[s].byte_size = R[s].byte_size
    <2>1. CASE s = nn
      <3>1. nn # Null
        BY <2>1, <1>2, <1>3 DEF Headers, Null
      <3> QED BY <2>1, <3>1, <1>1 DEF AbsorbFacts
    <2>2. CASE s # nn
      <3>1. S[s] = R[s]
        BY <2>2, <1>1, <1>2, <1>3 DEF AbsorbFacts
      <3> QED BY <3>1
    <2> QED BY <2>1, <2>2
  <1>4. AbsorbKept(R, r, n, S)
    BY <1>a, <1>2, <1>3 DEF AbsorbKept
  <1> QED BY <1>4 DEF S, n

(* What a free does to the list: R becomes F.                              *)
FreeFacts(R, r, F) ==
  /\ \A s \in DOMAIN R : (s # r /\ ~R[s].available) =>
       /\ s \in DOMAIN F /\ ~F[s].available /\ F[s].byte_size = R[s].byte_size
  /\ \A s \in DOMAIN F : ~F[s].available => s \in DOMAIN R /\ s # r /\ ~R[s].available

(* No two free regions side by side, save for what lies before or behind r. *)
NoFreePairBut(R, r) ==
  \A s \in DOMAIN R : (/\ R[s].available /\ R[s].next # Null
                       /\ s # r /\ R[s].next # r) => ~R[R[s].next].available

(* Freeing a region and merging it both ways.                              *)
LEMMA FreeTiles ==
  ASSUME NEW R, NEW P \in SUBSET Bases, Headers(R), Tiles(R, P), NoFreePair(R),
         NEW r \in DOMAIN R, ~R[r].available,
         NEW F, F = MergedLeft(MergedRight(Released(R, r), r), r)
  PROVE  Headers(F) /\ Tiles(F, P) /\ NoFreePair(F) /\ FreeFacts(R, r, F)
  <1> DEFINE R0 == Released(R, r)
             R1 == MergedRight(R0, r)
  <1>1. Headers(R0) /\ Tiles(R0, P) /\ FlagFacts(R, r, TRUE, R0)
    BY FlagTiles DEF Released
  <1>2. R1 = MergedRight(R0, r) /\ F = MergedLeft(R1, r)
    OBVIOUS
  <1> HIDE DEF R0, R1
  <1>3. /\ DOMAIN R0 = DOMAIN R /\ R0[r].available = TRUE
        /\ \A s \in DOMAIN R : /\ R0[s].next = R[s].next /\ R0[s].prev = R[s].prev
                               /\ s # r => R0[s].available = R[s].available
    BY <1>1 DEF FlagFacts
  <1>4. \A s \in DOMAIN R : R0[s].byte_size = R[s].byte_size
    <2>1. ASSUME NEW s \in DOMAIN R
          PROVE  R0[s].byte_size = R[s].byte_size
      <3>1. End(R0, s) = End(R, s)
        BY <1>1 DEF FlagFacts
      <3>2. s \in Nat /\ R0[s].byte_size \in Nat /\ R[s].byte_size \in Nat /\ Header \in Nat
        BY <1>1, <1>3, PagedAssumption DEF Headers, Region
      <3> QED BY <3>1, <3>2 DEF End
    <2> QED BY <2>1
  <1>5. NoFreePairBut(R0, r)
    <2>1. ASSUME NEW s \in DOMAIN R0, R0[s].available, R0[s].next # Null, s # r,
                 R0[s].next # r
          PROVE  ~R0[R0[s].next].available
      <3>1. R[s].available /\ R[s].next # Null /\ R0[s].next = R[s].next
        BY <2>1, <1>3
      <3>2. R[s].next \in DOMAIN R
        BY <3>1, <2>1, <1>3, Neighbours
      <3>3. ~R[R[s].next].available
        BY <3>1, <2>1, <1>3 DEF NoFreePair
      <3> QED BY <3>1, <3>2, <3>3, <2>1, <1>3
    <2> QED BY <2>1 DEF NoFreePairBut
  <1>6. /\ Headers(R1) /\ Tiles(R1, P) /\ r \in DOMAIN R1
        /\ R1[r].available = TRUE
        /\ NoFreePairBut(R1, r)
        /\ R1[r].next # Null => ~R1[R1[r].next].available
        /\ FreeFacts(R, r, R1)
    <2>1. CASE R0[r].next # Null /\ R0[R0[r].next].available
      <3> DEFINE n == R0[r].next
      <3>1. R1 = Absorb(R0, r, n)
        BY <2>1, <1>2 DEF MergedRight
      <3>2. /\ Headers(R1) /\ Tiles(R1, P)
        BY <3>1, <2>1, <1>1, <1>3, AbsorbTiles
      <3>3. /\ n \in DOMAIN R0 /\ n # r /\ DOMAIN R1 = DOMAIN R0 \ {n}
            /\ R1[r].available = R0[r].available /\ R1[r].prev = R0[r].prev
            /\ R1[r].next = R0[n].next
            /\ \A s \in DOMAIN R1 \ {r} : /\ R1[s].available = R0[s].available
                                          /\ R1[s].next = R0[s].next
                                          /\ R1[s].byte_size = R0[s].byte_size
        <4>1. AbsorbKept(R0, r, n, R1)
          BY <3>1, <2>1, <1>1, <1>3, AbsorbKeeps
        <4> QED BY <4>1 DEF AbsorbKept
      <3>4. R0[n].available
        BY <2>1
      <3> HIDE DEF n
      <3>5. R1[r].next # Null => /\ R1[r].next \in DOMAIN R1
                                 /\ R1[r].next # r /\ ~R1[R1[r].next].available
        <4>1. ASSUME R1[r].next # Null
              PROVE  R1[r].next \in DOMAIN R1 /\ R1[r].next # r
          <5>1. r \in DOMAIN R1
            BY <3>3, <1>3
          <5>2. R1[r].next \in DOMAIN R1 /\ R1[r].next = End(R1, r) /\ End(R1, r) > r /\ r \in Nat
            BY <5>1, <4>1, <3>2, Neighbours
          <5> QED BY <5>2
        <4>2. ASSUME R1[r].next # Null
              PROVE  ~R1[R1[r].next].available
          <5>1. R0[n].next # Null /\ R0[n].next # r
            BY <4>1, <4>2, <3>3
          <5>2. ~R0[R0[n].next].available
            BY <5>1, <3>3, <3>4, <1>5 DEF NoFreePairBut
          <5> QED BY <5>2, <4>1, <4>2, <3>3
        <4> QED BY <4>1, <4>2
      <3>6. NoFreePairBut(R1, r)
        <4>1. ASSUME NEW s \in DOMAIN R1, R1[s].available, R1[s].next # Null,
                     s # r, R1[s].next # r
              PROVE  ~R1[R1[s].next].available
          <5>1. R1[s].next \in DOMAIN R1
            BY <4>1, <3>2, Neighbours
          <5>2. ~R0[R0[s].next].available
            BY <4>1, <3>3, <1>5 DEF NoFreePairBut
          <5> QED BY <5>1, <5>2, <4>1, <3>3
        <4> QED BY <4>1 DEF NoFreePairBut
      <3>7. FreeFacts(R, r, R1)
        <4>1. \A s \in DOMAIN R : (s # r /\ ~R[s].available) =>
                /\ s \in DOMAIN R1 /\ ~R1[s].available /\ R1[s].byte_size = R[s].byte_size
          BY <3>3, <3>4, <1>3, <1>4
        <4>2. \A s \in DOMAIN R1 : ~R1[s].available => s \in DOMAIN R /\ s # r /\ ~R[s].available
          BY <3>3, <1>3
        <4> QED BY <4>1, <4>2 DEF FreeFacts
      <3> QED BY <3>2, <3>3, <3>5, <3>6, <3>7, <1>3
    <2>2. CASE ~(R0[r].next # Null /\ R0[R0[r].next].available)
      <3>1. R1 = R0
        BY <2>2, <1>2 DEF MergedRight
      <3>2. FreeFacts(R, r, R0)
        BY <1>3, <1>4 DEF FreeFacts
      <3> QED BY <3>1, <3>2, <2>2, <1>1, <1>3, <1>5
    <2> QED BY <2>1, <2>2
  <1>7. R1[r].prev # Null => R1[r].prev \in DOMAIN R1 /\ R1[R1[r].prev].next = r
    BY <1>6, Neighbours
  <1>8. CASE R1[r].prev # Null /\ R1[R1[r].prev].available
    <2> DEFINE q == R1[r].prev
    <2>1. q \in DOMAIN R1 /\ R1[q].next = r /\ R1[q].available
      BY <1>7, <1>8
    <2>2. F = Absorb(R1, q, R1[q].next)
      BY <2>1, <1>8, <1>2 DEF MergedLeft
    <2> HIDE DEF q
    <2>3. r # Null
      BY <1>6 DEF Headers, Null
    <2>4. Headers(F) /\ Tiles(F, P)
      BY <2>1, <2>2, <2>3, <1>6, AbsorbTiles
    <2>5. /\ r # q /\ DOMAIN F = DOMAIN R1 \ {r}
          /\ F[q].available = R1[q].available
          /\ F[q].next = R1[r].next
          /\ \A s \in DOMAIN F \ {q} : /\ F[s].available = R1[s].available
                                       /\ F[s].next = R1[s].next
                                       /\ F[s].byte_size = R1[s].byte_size
      <3>1. AbsorbKept(R1, q, R1[q].next, F)
        BY <2>1, <2>2, <2>3, <1>6, AbsorbKeeps
      <3> QED BY <3>1, <2>1 DEF AbsorbKept
    <2>6. NoFreePair(F)
      <3>1. ASSUME NEW s \in DOMAIN F, F[s].available, F[s].next # Null
            PROVE  ~F[F[s].next].available
        <4>1. F[s].next \in DOMAIN F /\ F[s].next # s
          <5>1. F[s].next \in DOMAIN F /\ F[s].next = End(F, s) /\ End(F, s) > s /\ s \in Nat
            BY <3>1, <2>4, Neighbours
          <5> QED BY <5>1
        <4>2. CASE s = q
          BY <4>1, <4>2, <3>1, <2>5, <1>6
        <4>3. CASE s # q
          <5>1. ~R1[R1[s].next].available /\ F[s].next = R1[s].next
            BY <4>1, <4>3, <3>1, <2>5, <1>6 DEF NoFreePairBut
          <5> QED BY <5>1, <4>1, <2>1, <2>5
        <4> QED BY <4>2, <4>3
      <3> QED BY <3>1 DEF NoFreePair
    <2>7. FreeFacts(R, r, F)
      <3>1. \A s \in DOMAIN R : (s # r /\ ~R[s].available) =>
              /\ s \in DOMAIN F /\ ~F[s].available /\ F[s].byte_size = R[s].byte_size
        <4>1. \A s \in DOMAIN R : (s # r /\ ~R[s].available) =>
                /\ s \in DOMAIN R1 /\ ~R1[s].available /\ R1[s].byte_size = R[s].byte_size
          BY <1>6 DEF FreeFacts
        <4> QED BY <4>1, <2>1, <2>5
      <3>2. \A s \in DOMAIN F : ~F[s].available => s \in DOMAIN R /\ s # r /\ ~R[s].available
        <4>1. \A s \in DOMAIN R1 : ~R1[s].available => s \in DOMAIN R /\ s # r /\ ~R[s].available
          BY <1>6 DEF FreeFacts
        <4> QED BY <4>1, <2>1, <2>5
      <3> QED BY <3>1, <3>2 DEF FreeFacts
    <2> QED BY <2>4, <2>6, <2>7
  <1>9. CASE ~(R1[r].prev # Null /\ R1[R1[r].prev].available)
    <2>1. F = R1
      BY <1>9, <1>2 DEF MergedLeft
    <2>2. NoFreePair(R1)
      <3>1. ASSUME NEW s \in DOMAIN R1, R1[s].available, R1[s].next # Null
            PROVE  ~R1[R1[s].next].available
        <4>1. CASE s = r
          BY <4>1, <3>1, <1>6
        <4>2. CASE R1[s].next = r
          <5>1. R1[r].prev = s
            BY <4>2, <3>1, <1>6, Neighbours
          <5>2. s # Null
            BY <3>1, <1>6 DEF Headers, Null
          <5> QED BY <5>1, <5>2, <3>1, <1>9
        <4>3. CASE s # r /\ R1[s].next # r
          BY <4>3, <3>1, <1>6 DEF NoFreePairBut
        <4> QED BY <4>1, <4>2, <4>3
      <3> QED BY <3>1 DEF NoFreePair
    <2> QED BY <2>1, <2>2, <1>6
  <1> QED BY <1>8, <1>9

(* C is R with the region at r taken, and perhaps cut behind `used` bytes. *)
CarveFacts(R, r, used, C) ==
  /\ r \in DOMAIN C /\ ~C[r].available /\ C[r].byte_size >= used
  /\ \A s \in DOMAIN R \ {r} : /\ s \in DOMAIN C /\ C[s].available = R[s].available
                               /\ C[s].byte_size = R[s].byte_size
  /\ \A s \in DOMAIN C : s \notin DOMAIN R => C[s].available

(* Handing out a free region, split or whole.                              *)
LEMMA CarveTiles ==
  ASSUME NEW P \in SUBSET Bases, Headers(region), Tiles(region, P), NoFreePair(region),
         NEW r \in DOMAIN region, region[r].available,
         NEW q \in Request, region[r].byte_size >= Required(r, q)
  PROVE  /\ Headers(Carved(r, q)) /\ Tiles(Carved(r, q), P) /\ NoFreePair(Carved(r, q))
         /\ CarveFacts(region, r, Required(r, q), Carved(r, q))
  <1> DEFINE used == Required(r, q)
             R1 == IF Splits(region, r, used) THEN Split(region, r, used) ELSE region
             C == Taken(R1, r)
  <1>1. Carved(r, q) = C
    BY DEF Carved
  <1>2. used \in Nat /\ r \in Nat
    BY PayloadPlace DEF Headers
  <1>3. region[r].byte_size \in Nat /\ Header \in Nat /\ MinSplit \in Nat
    BY PagedAssumption DEF Headers, Region
  <1>4. region[r].byte_size >= used
    OBVIOUS
  <1>5. R1 = IF Splits(region, r, used) THEN Split(region, r, used) ELSE region
    OBVIOUS
  <1>6. C = [R1 EXCEPT ![r].available = FALSE]
    BY DEF Taken
  <1> HIDE DEF used, R1, C
  <1>7. /\ Headers(R1) /\ Tiles(R1, P)
        /\ r \in DOMAIN R1 /\ R1[r].byte_size >= used
        /\ \A s \in DOMAIN region \ {r} : /\ s \in DOMAIN R1
                                          /\ R1[s].available = region[s].available
                                          /\ R1[s].byte_size = region[s].byte_size
        /\ \A s \in DOMAIN R1 : s \notin DOMAIN region => R1[s].available
        /\ \A s \in DOMAIN R1 \ {r} :
             (R1[s].available /\ R1[s].next # Null /\ R1[s].next # r)
                => ~R1[R1[s].next].available
    <2>1. CASE Splits(region, r, used)
      <3>1. region[r].byte_size >= used + Header
        BY <2>1, <1>2, <1>3 DEF Splits
      <3> DEFINE new == Start(r) + used
                 nx == region[r].next
      <3>2. R1 = Split(region, r, used)
        BY <2>1, <1>5
      <3>3. SplitFacts(region, r, used, new, R1, nx)
        BY <3>1, <3>2, <1>2, SplitFields
      <3>4. Headers(R1) /\ Tiles(R1, P)
        BY <3>1, <3>2, <1>2, SplitTiles
      <3>5. nx # Null => nx \in DOMAIN region /\ ~region[nx].available
        BY Neighbours DEF NoFreePair
      <3> HIDE DEF new
      <3>6. /\ new \notin DOMAIN region /\ DOMAIN R1 = DOMAIN region \cup {new}
            /\ R1[new].available /\ R1[new].next = nx /\ R1[r].byte_size = used
            /\ nx # r /\ nx # new
            /\ nx # Null => /\ R1[nx].available = region[nx].available
                            /\ R1[nx].byte_size = region[nx].byte_size
                            /\ R1[nx].next = region[nx].next
            /\ \A s \in DOMAIN region : s # r /\ s # nx => R1[s] = region[s]
        BY <3>3 DEF SplitFacts
      <3>7. Null \notin DOMAIN region
        BY DEF Headers, Null
      <3> HIDE DEF nx
      <3>8. \A s \in DOMAIN region \ {r} : /\ R1[s].available = region[s].available
                                           /\ R1[s].byte_size = region[s].byte_size
                                           /\ R1[s].next = region[s].next
        BY <3>6, <3>7
      <3>9. ASSUME NEW s \in DOMAIN R1 \ {r}, R1[s].available, R1[s].next # Null,
                   R1[s].next # r
            PROVE  ~R1[R1[s].next].available
        <4>1. CASE s = new
          BY <4>1, <3>5, <3>6, <3>8, <3>9
        <4>2. CASE s # new
          <5>1. /\ s \in DOMAIN region /\ region[s].available
                /\ R1[s].next = region[s].next
            BY <4>2, <3>6, <3>8, <3>9
          <5>2. region[s].next \in DOMAIN region /\ ~region[region[s].next].available
            BY <5>1, <3>9, Neighbours DEF NoFreePair
          <5> QED BY <5>1, <5>2, <3>8, <3>9
        <4> QED BY <4>1, <4>2
      <3> QED BY <3>4, <3>6, <3>8, <3>9, <1>2
    <2>2. CASE ~Splits(region, r, used)
      <3>1. R1 = region
        BY <2>2, <1>5
      <3> QED BY <3>1, <1>4 DEF NoFreePair
    <2> QED BY <2>1, <2>2
  <1>8. Headers(C) /\ Tiles(C, P) /\ FlagFacts(R1, r, FALSE, C)
    BY <1>6, <1>7, FlagTiles
  <1>9. \A s \in DOMAIN R1 : C[s].byte_size = R1[s].byte_size
    <2>1. ASSUME NEW s \in DOMAIN R1
          PROVE  C[s].byte_size = R1[s].byte_size
      <3>1. End(C, s) = End(R1, s) /\ s \in DOMAIN C
        BY <1>8 DEF FlagFacts
      <3>2. s \in Nat /\ C[s].byte_size \in Nat /\ R1[s].byte_size \in Nat
        BY <3>1, <1>7, <1>8 DEF Headers, Region
      <3> QED BY <3>1, <3>2, <1>3 DEF End
    <2> QED BY <2>1
  <1>10. /\ DOMAIN C = DOMAIN R1 /\ C[r].available = FALSE
         /\ \A s \in DOMAIN R1 : C[s].next = R1[s].next
         /\ \A s \in DOMAIN R1 \ {r} : C[s].available = R1[s].available
    BY <1>8 DEF FlagFacts
  <1>11. CarveFacts(region, r, used, C)
    BY <1>7, <1>9, <1>10 DEF CarveFacts
  <1>12. NoFreePair(C)
    <2>1. ASSUME NEW s \in DOMAIN C, C[s].available, C[s].next # Null
          PROVE  ~C[C[s].next].available
      <3>1. C[s].next \in DOMAIN C
        BY <2>1, <1>8, Neighbours
      <3>2. s # r
        BY <2>1, <1>10
      <3> QED BY <3>1, <3>2, <2>1, <1>7, <1>10
    <2> QED BY <2>1 DEF NoFreePair
  <1> QED BY <1>1, <1>8, <1>11, <1>12 DEF used

-----------------------------------------------------------------------------
(* The inductive invariant.                                                *)

(* A block lies on the alignment it was asked for.                         *)
BlocksAligned ==
  \A p \in DOMAIN held : held[p].alignment = 0 \/ (p % held[p].alignment) = 0

(* Without an allocator there is nothing; a request waits only in one.     *)
Dormant ==
  ~alive => DOMAIN held = {} /\ pending = NoRequest /\ pages = <<>> /\ DOMAIN region = {}

IInv == TypeOK /\ Tiled /\ Held /\ Coalesced /\ FreshPageServes /\ BlocksAligned /\ Dormant

LEMMA TypeFacts ==
  ASSUME TypeOK
  PROVE  /\ Headers(region) /\ PageSet \in SUBSET Bases
         /\ Coalesced <=> NoFreePair(region)
  <1>1. Headers(region)
    BY DEF TypeOK, Headers
  <1>2. PageSet \in SUBSET Bases
    BY DEF TypeOK, PageSet, Range
  <1> QED BY <1>1, <1>2 DEF Coalesced, NoFreePair

(* First fit finds a region whenever one fits.                             *)
LEMMA FirstFitFits ==
  ASSUME TypeOK, Tiled, NEW q \in Request, Fitting(q) # {}
  PROVE  FirstFit(q) \in Fitting(q)
  <1> DEFINE F == Fitting(q)
             N == {PageNumber(r) : r \in F}
  <1>1. \A r \in F : r \in Nat /\ r \in DOMAIN region
    BY TypeFacts DEF Fitting, Headers
  <1>2. \A r \in F : PageNumber(r) \in Nat
    <2>1. ASSUME NEW r \in F
          PROVE  \E i \in DOMAIN pages : pages[i] <= r /\ r < pages[i] + PageSize
      <3>1. PICK b \in PageSet : Linked(region, r, b)
        BY <1>1 DEF Tiled, Tiles
      <3>2. b <= r /\ End(region, r) <= b + PageSize
        BY <3>1 DEF Linked
      <3>3. End(region, r) \in Nat /\ r < End(region, r) /\ r \in Nat
        BY <1>1, TypeFacts, Neighbours DEF Tiled
      <3>4. b \in Nat /\ PageSize \in Nat
        BY TypeFacts, PagedAssumption
      <3>5. PICK i \in DOMAIN pages : pages[i] = b
        BY DEF PageSet, Range
      <3>6. pages[i] <= r /\ r < pages[i] + PageSize
        BY <3>2, <3>3, <3>4, <3>5
      <3> QED BY <3>6
    <2>2. \A r \in F : PageNumber(r) \in DOMAIN pages
      BY <2>1 DEF PageNumber
    <2>3. DOMAIN pages \subseteq Nat
      BY DEF TypeOK
    <2> QED BY <2>2, <2>3
  <1>3. N \in SUBSET Nat /\ N # {}
    BY <1>2
  <1>4. PICK m \in N : \A n \in N : m <= n
    BY <1>3, LeastNatural
  <1> DEFINE G == {r \in F : PageNumber(r) = m}
  <1>5. G \in SUBSET Nat /\ G # {}
    BY <1>1
  <1>6. PICK r \in G : \A s \in G : r <= s
    BY <1>5, LeastNatural
  <1>7. \A s \in F \ {r} : Before(r, s)
    <2>1. ASSUME NEW s \in F \ {r}
          PROVE  Before(r, s)
      <3>1. PageNumber(r) = m /\ PageNumber(s) \in N /\ m <= PageNumber(s)
        BY <1>4, <1>6, <2>1
      <3>2. m \in Nat /\ PageNumber(s) \in Nat /\ r \in Nat /\ s \in Nat
        BY <1>1, <1>2, <1>3, <1>6, <2>1
      <3>3. CASE PageNumber(s) = m
        <4>1. r <= s
          BY <3>3, <1>6, <2>1
        <4>2. r # s
          BY <2>1
        <4>3. r < s
          BY <4>1, <4>2, <3>2
        <4> QED BY <4>3, <3>1, <3>3 DEF Before
      <3>4. CASE PageNumber(s) # m
        <4>1. PageNumber(r) < PageNumber(s)
          BY <3>1, <3>2, <3>4
        <4> QED BY <4>1 DEF Before
      <3> QED BY <3>3, <3>4
    <2> QED BY <2>1
  <1>8. \E x \in F : \A s \in F \ {x} : Before(x, s)
    BY <1>6, <1>7
  <1> QED BY <1>8 DEF FirstFit

-----------------------------------------------------------------------------
(* The actions.                                                            *)

(* A list of headers is a function from addresses to headers.              *)
LEMMA ListsAreFunctions ==
  ASSUME NEW R, NEW r, NEW n
  PROVE  /\ Absorb(R, r, n) = [s \in DOMAIN Absorb(R, r, n) |-> Absorb(R, r, n)[s]]
         /\ Released(R, r) = [s \in DOMAIN Released(R, r) |-> Released(R, r)[s]]
         /\ Taken(R, r) = [s \in DOMAIN Taken(R, r) |-> Taken(R, r)[s]]
  <1>1. Absorb(R, r, n) = [s \in DOMAIN Absorb(R, r, n) |-> Absorb(R, r, n)[s]]
    BY DEF Absorb
  <1>2. Released(R, r) = [s \in DOMAIN Released(R, r) |-> Released(R, r)[s]]
    BY DEF Released
  <1>3. Taken(R, r) = [s \in DOMAIN Taken(R, r) |-> Taken(R, r)[s]]
    BY DEF Taken
  <1> QED BY <1>1, <1>2, <1>3

(* Where a payload newly handed out lies.                                  *)
LEMMA PayloadApart ==
  ASSUME IInv, NEW q \in Request, NEW r \in Fitting(q)
  PROVE  LET ptr == AlignedPtr(r, q.alignment) IN
         /\ ptr \in Nat \ {0} /\ ptr \notin DOMAIN held
         /\ Start(r) + Word <= ptr
         /\ ptr + q.size <= Start(r) + Required(r, q)
         /\ q.alignment = 0 \/ (ptr % q.alignment) = 0
         /\ \A p \in DOMAIN held : ptr + q.size <= p \/ p + held[p].size <= ptr
  <1> DEFINE ptr == AlignedPtr(r, q.alignment)
             used == Required(r, q)
  <1>1. /\ r \in DOMAIN region /\ region[r].available
        /\ region[r].byte_size >= used /\ r \in Nat /\ r # Null
    BY TypeFacts DEF IInv, Fitting, Headers, Null
  <1>2. /\ ptr \in Nat /\ Start(r) + Word <= ptr /\ used \in Nat
        /\ ptr + q.size = Start(r) + used
        /\ q.alignment # 0 => (ptr % q.alignment) = 0
    BY <1>1, PayloadPlace
  <1> HIDE DEF ptr, used
  <1>3. Word \in Nat /\ Header \in Nat \ {0}
    BY PagedAssumption
  <1>4. Headers(region) /\ Tiles(region, PageSet)
    BY TypeFacts DEF IInv, Tiled
  <1>5. region[r].byte_size \in Nat
    BY <1>1, <1>4 DEF Headers, Region
  <1>6. ptr + q.size <= End(region, r) /\ r < ptr /\ End(region, r) \in Nat
    BY <1>1, <1>2, <1>3, <1>5 DEF Start, End
  <1>7. q.size \in Nat \ {0}
    BY DEF Request
  <1>8. ASSUME NEW p \in DOMAIN held
        PROVE  ptr # p /\ (ptr + q.size <= p \/ p + held[p].size <= ptr)
    <2> DEFINE x == back[p]
    <2>1. /\ x \in DOMAIN region /\ ~region[x].available
          /\ Start(x) + Word <= p /\ p + held[p].size <= End(region, x)
      BY DEF IInv, Held
    <2>2. x # r
      BY <2>1, <1>1
    <2>3. End(region, r) <= x \/ End(region, x) <= r
      BY <2>1, <2>2, <1>1, <1>4 DEF Tiles, RegionsApart
    <2>4. x \in Nat /\ End(region, x) \in Nat
      BY <2>1, <1>4, Neighbours
    <2>5. p \in Nat /\ held[p] \in Request
      BY DEF IInv, TypeOK
    <2>6. held[p].size \in Nat \ {0}
      BY <2>5 DEF Request
    <2>7. x + Header + Word <= p
      BY <2>1 DEF Start
    <2> HIDE DEF x
    <2>8. CASE End(region, r) <= x
      BY <2>8, <2>4, <2>5, <2>6, <2>7, <1>1, <1>2, <1>3, <1>6, <1>7
    <2>9. CASE End(region, x) <= r
      BY <2>9, <2>1, <2>4, <2>5, <2>6, <1>1, <1>2, <1>3, <1>6, <1>7
    <2> QED BY <2>3, <2>8, <2>9
  <1>9. ptr \notin DOMAIN held
    BY <1>8
  <1>10. ptr # 0
    BY <1>1, <1>2, <1>3, <1>6
  <1>11. ptr + q.size <= Start(r) + used
    BY <1>1, <1>2, <1>3, <1>7 DEF Start
  <1> QED BY <1>2, <1>8, <1>9, <1>10, <1>11 DEF ptr, used

LEMMA ServeHolds ==
  ASSUME IInv, alive, NEW q \in Request, NEW r \in Fitting(q), Serve(r, q)
  PROVE  IInv'
  <1> DEFINE ptr == AlignedPtr(r, q.alignment)
             used == Required(r, q)
             C == Carved(r, q)
  <1>1. /\ ptr \in Nat \ {0} /\ ptr \notin DOMAIN held
        /\ Start(r) + Word <= ptr /\ ptr + q.size <= Start(r) + used
        /\ q.alignment = 0 \/ (ptr % q.alignment) = 0
    BY PayloadApart
  <1>2. /\ r \in DOMAIN region /\ region[r].available
        /\ region[r].byte_size >= used
    BY DEF Fitting
  <1>3. /\ region' = C /\ alive' = alive /\ pages' = pages /\ pending' = NoRequest
        /\ back' = [p \in DOMAIN back \cup {ptr} |-> IF p = ptr THEN r ELSE back[p]]
        /\ held' = [p \in DOMAIN held \cup {ptr} |-> IF p = ptr THEN q ELSE held[p]]
    BY DEF Serve
  <1>4. Headers(C) /\ Tiles(C, PageSet) /\ NoFreePair(C) /\ CarveFacts(region, r, used, C)
    <2>1. /\ Headers(region) /\ Tiles(region, PageSet) /\ NoFreePair(region)
          /\ PageSet \in SUBSET Bases
      BY TypeFacts DEF IInv, Tiled
    <2> QED BY <2>1, <1>2, CarveTiles
  <1>5. C = [s \in DOMAIN C |-> C[s]]
    BY ListsAreFunctions DEF Carved
  <1>6. r \in Nat /\ DOMAIN back = DOMAIN held
    BY <1>2, TypeFacts DEF IInv, Headers, TypeOK
  <1> HIDE DEF ptr, used, C
  <1>7. TypeOK'
    <2>1. held' \in [DOMAIN held' -> Request] /\ DOMAIN held' \subseteq Nat \ {0}
      BY <1>1, <1>3 DEF IInv, TypeOK
    <2>2. DOMAIN back' = DOMAIN held' /\ back' \in [DOMAIN back' -> Nat]
      BY <1>1, <1>3, <1>6 DEF IInv, TypeOK
    <2>3. DOMAIN region' \subseteq Nat \ {0} /\ region' \in [DOMAIN region' -> Region]
      BY <1>3, <1>4, <1>5 DEF Headers
    <2>4. alive' \in BOOLEAN /\ pages' \in Seq(Bases)
      BY <1>3 DEF IInv, TypeOK
    <2> QED BY <2>1, <2>2, <2>3, <2>4, <1>3 DEF TypeOK
  <1>8. Tiled' /\ Coalesced' /\ FreshPageServes' /\ Dormant'
    <2>1. PageSet' = PageSet
      BY <1>3 DEF PageSet
    <2>2. Tiled'
      BY <2>1, <1>3, <1>4 DEF Tiled
    <2>3. Coalesced'
      BY <1>3, <1>4 DEF Coalesced, NoFreePair
    <2> QED BY <2>2, <2>3, <1>3 DEF FreshPageServes, Dormant
  <1>9. BlocksAligned'
    <2>1. ASSUME NEW p \in DOMAIN held'
          PROVE  held'[p].alignment = 0 \/ (p % held'[p].alignment) = 0
      <3>1. CASE p = ptr
        BY <3>1, <2>1, <1>1, <1>3
      <3>2. CASE p # ptr
        BY <3>2, <2>1, <1>3 DEF IInv, BlocksAligned
      <3> QED BY <3>1, <3>2
    <2> QED BY <2>1 DEF BlocksAligned
  <1>10. Held'
    <2>1. \A p \in DOMAIN held : back'[p] = back[p] /\ held'[p] = held[p] /\ p \in DOMAIN held'
      BY <1>1, <1>3, <1>6
    <2>2. back'[ptr] = r /\ held'[ptr] = q /\ DOMAIN held' = DOMAIN held \cup {ptr}
      BY <1>3
    <2>3. /\ r \in DOMAIN C /\ ~C[r].available /\ C[r].byte_size >= used
          /\ \A s \in DOMAIN region \ {r} : /\ s \in DOMAIN C
                                            /\ C[s].available = region[s].available
                                            /\ C[s].byte_size = region[s].byte_size
          /\ \A s \in DOMAIN C : s \notin DOMAIN region => C[s].available
      BY <1>4 DEF CarveFacts
    <2>4. \A p \in DOMAIN held : /\ back[p] \in DOMAIN region /\ back[p] # r
                                 /\ ~region[back[p]].available
                                 /\ Start(back[p]) + Word <= p
                                 /\ p + held[p].size <= End(region, back[p])
      BY <1>2 DEF IInv, Held
    <2>5. /\ back'[ptr] \in DOMAIN region' /\ ~region'[back'[ptr]].available
          /\ Start(back'[ptr]) + Word <= ptr
          /\ ptr + held'[ptr].size <= End(region', back'[ptr])
      <3>1. C[r].byte_size \in Nat /\ Header \in Nat /\ q.size \in Nat
        BY <2>3, <1>4, PagedAssumption DEF Headers, Region, Request
      <3>2. used \in Nat
        BY <1>6, PayloadPlace DEF used
      <3>3. ptr + q.size <= End(C, r)
        BY <3>1, <3>2, <2>3, <1>1, <1>6 DEF Start, End
      <3> QED BY <3>3, <2>2, <2>3, <1>1, <1>3
    <2>6. ASSUME NEW p \in DOMAIN held
          PROVE  /\ back'[p] \in DOMAIN region' /\ ~region'[back'[p]].available
                 /\ Start(back'[p]) + Word <= p
                 /\ p + held'[p].size <= End(region', back'[p])
      <3>1. End(C, back[p]) = End(region, back[p])
        BY <2>3, <2>4 DEF End
      <3> QED BY <3>1, <2>1, <2>3, <2>4, <1>3
    <2>7. \A p, u \in DOMAIN held' : back'[p] = back'[u] => p = u
      <3>1. \A p, u \in DOMAIN held : back[p] = back[u] => p = u
        BY DEF IInv, Held
      <3> QED BY <3>1, <2>1, <2>2, <2>4
    <2>8. ASSUME NEW s \in DOMAIN region', ~region'[s].available
          PROVE  \E p \in DOMAIN held' : back'[p] = s
      <3>1. CASE s = r
        BY <3>1, <2>2
      <3>2. CASE s # r
        <4>1. s \in DOMAIN region /\ ~region[s].available
          BY <3>2, <2>3, <2>8, <1>3
        <4>2. PICK p \in DOMAIN held : back[p] = s
          BY <4>1 DEF IInv, Held
        <4> QED BY <4>2, <2>1
      <3> QED BY <3>1, <3>2
    <2> QED BY <2>2, <2>5, <2>6, <2>7, <2>8 DEF Held
  <1> QED BY <1>7, <1>8, <1>9, <1>10 DEF IInv

LEMMA FreeHolds ==
  ASSUME IInv, NEW ptr \in DOMAIN held, Free(ptr)
  PROVE  IInv'
  <1> DEFINE r == back[ptr]
             F == MergedLeft(MergedRight(Released(region, r), r), r)
  <1>1. /\ region' = F /\ alive /\ alive' = alive /\ pages' = pages
        /\ pending = NoRequest /\ pending' = pending
        /\ back' = [p \in DOMAIN back \ {ptr} |-> back[p]]
        /\ held' = [p \in DOMAIN held \ {ptr} |-> held[p]]
    BY DEF Free
  <1>2. r \in DOMAIN region /\ ~region[r].available /\ DOMAIN back = DOMAIN held
    BY DEF IInv, Held, TypeOK
  <1>3. Headers(F) /\ Tiles(F, PageSet) /\ NoFreePair(F) /\ FreeFacts(region, r, F)
    <2>1. /\ Headers(region) /\ Tiles(region, PageSet) /\ NoFreePair(region)
          /\ PageSet \in SUBSET Bases
      BY TypeFacts DEF IInv, Tiled
    <2> HIDE DEF r
    <2>2. F = MergedLeft(MergedRight(Released(region, r), r), r)
      OBVIOUS
    <2> HIDE DEF F
    <2> QED BY <2>1, <2>2, <1>2, FreeTiles
  <1>4. F = [s \in DOMAIN F |-> F[s]]
    <2> DEFINE R0 == Released(region, r)
               R1 == MergedRight(R0, r)
    <2>1. R0 = [s \in DOMAIN R0 |-> R0[s]]
      BY ListsAreFunctions
    <2>2. R1 = R0 \/ R1 = Absorb(R0, r, R0[r].next)
      BY DEF MergedRight
    <2>3. F = R1 \/ F = Absorb(R1, R1[r].prev, r)
      BY DEF MergedLeft
    <2> HIDE DEF F, R1, R0
    <2>4. R1 = [s \in DOMAIN R1 |-> R1[s]]
      BY <2>1, <2>2, ListsAreFunctions
    <2> QED BY <2>3, <2>4, ListsAreFunctions
  <1>5. back[ptr] = r
    OBVIOUS
  <1> HIDE DEF r, F
  <1>6. TypeOK'
    <2>1. held' \in [DOMAIN held' -> Request] /\ DOMAIN held' \subseteq Nat \ {0}
      BY <1>1 DEF IInv, TypeOK
    <2>2. DOMAIN back' = DOMAIN held' /\ back' \in [DOMAIN back' -> Nat]
      BY <1>1, <1>2 DEF IInv, TypeOK
    <2>3. DOMAIN region' \subseteq Nat \ {0} /\ region' \in [DOMAIN region' -> Region]
      BY <1>1, <1>3, <1>4 DEF Headers
    <2>4. alive' \in BOOLEAN /\ pages' \in Seq(Bases)
      BY <1>1 DEF IInv, TypeOK
    <2> QED BY <2>1, <2>2, <2>3, <2>4, <1>1 DEF TypeOK
  <1>7. Tiled' /\ Coalesced' /\ FreshPageServes' /\ Dormant' /\ BlocksAligned'
    <2>1. PageSet' = PageSet
      BY <1>1 DEF PageSet
    <2>2. Tiled'
      BY <2>1, <1>1, <1>3 DEF Tiled
    <2>3. Coalesced'
      BY <1>1, <1>3 DEF Coalesced, NoFreePair
    <2>4. BlocksAligned'
      BY <1>1 DEF IInv, BlocksAligned
    <2> QED BY <2>2, <2>3, <2>4, <1>1 DEF FreshPageServes, Dormant
  <1>8. Held'
    <2>1. /\ DOMAIN held' = DOMAIN held \ {ptr}
          /\ \A p \in DOMAIN held' : back'[p] = back[p] /\ held'[p] = held[p]
      BY <1>1, <1>2
    <2>2. \A p, u \in DOMAIN held : back[p] = back[u] => p = u
      BY DEF IInv, Held
    <2>3. /\ \A s \in DOMAIN region : (s # r /\ ~region[s].available) =>
               /\ s \in DOMAIN F /\ ~F[s].available
               /\ F[s].byte_size = region[s].byte_size
          /\ \A s \in DOMAIN F : ~F[s].available =>
               s \in DOMAIN region /\ s # r /\ ~region[s].available
      BY <1>3 DEF FreeFacts
    <2>4. ASSUME NEW p \in DOMAIN held'
          PROVE  /\ back'[p] \in DOMAIN region' /\ ~region'[back'[p]].available
                 /\ Start(back'[p]) + Word <= p
                 /\ p + held'[p].size <= End(region', back'[p])
      <3>1. /\ back[p] \in DOMAIN region /\ ~region[back[p]].available
            /\ Start(back[p]) + Word <= p
            /\ p + held[p].size <= End(region, back[p])
        BY <2>1, <2>4 DEF IInv, Held
      <3>2. back[p] # r
        BY <2>1, <2>2, <2>4, <1>5
      <3>3. End(F, back[p]) = End(region, back[p])
        BY <2>3, <3>1, <3>2 DEF End
      <3> QED BY <3>1, <3>2, <3>3, <2>1, <2>3, <2>4, <1>1
    <2>5. ASSUME NEW s \in DOMAIN region', ~region'[s].available
          PROVE  \E p \in DOMAIN held' : back'[p] = s
      <3>1. s \in DOMAIN region /\ s # r /\ ~region[s].available
        BY <2>3, <2>5, <1>1
      <3>2. PICK p \in DOMAIN held : back[p] = s
        BY <3>1 DEF IInv, Held
      <3>3. p \in DOMAIN held'
        BY <3>1, <3>2, <2>1, <1>5
      <3> QED BY <3>2, <3>3, <2>1
    <2>6. \A p, u \in DOMAIN held' : back'[p] = back'[u] => p = u
      BY <2>1, <2>2
    <2> QED BY <2>4, <2>5, <2>6 DEF Held
  <1> QED BY <1>6, <1>7, <1>8 DEF IInv

(* Pages that are one free region each.                                    *)
LEMMA WholeTiles ==
  ASSUME NEW P \in SUBSET Bases, NEW R, R = [b \in P |-> Whole]
  PROVE  Headers(R) /\ Tiles(R, P) /\ NoFreePair(R)
         /\ \A b \in P : R[b].available
  <1>1. PageSize \in Nat /\ Header \in Nat /\ PageSize - Header \in Nat
    BY PagedAssumption
  <1>2. DOMAIN R = P /\ \A b \in P : R[b] = Whole
    OBVIOUS
  <1>3. Whole \in Region
    BY <1>1 DEF Whole, Region, Null
  <1>4. \A b \in P : b \in Nat \ {0}
    BY PagedAssumption
  <1>5. Headers(R)
    BY <1>2, <1>3, <1>4 DEF Headers
  <1>6. /\ Whole.byte_size = PageSize - Header /\ Whole.available
        /\ Whole.next = Null /\ Whole.prev = Null
    BY DEF Whole
  <1>7. \A b \in P : End(R, b) = b + PageSize
    <2>1. ASSUME NEW b \in P
          PROVE  b + Header + (PageSize - Header) = b + PageSize
      BY <1>1, <1>4
    <2> QED BY <2>1, <1>2, <1>6 DEF End
  <1>8. \A b \in P : Linked(R, b, b)
    BY <1>1, <1>2, <1>4, <1>6, <1>7 DEF Linked
  <1>9. RegionsApart(R)
    <2>1. \A b, c \in P : b = c \/ b + PageSize <= c \/ c + PageSize <= b
      BY PagedAssumption
    <2> QED BY <2>1, <1>2, <1>7 DEF RegionsApart
  <1>10. Tiles(R, P)
    BY <1>2, <1>8, <1>9 DEF Tiles
  <1> QED BY <1>2, <1>5, <1>6, <1>10 DEF NoFreePair

LEMMA NewPageHolds ==
  ASSUME IInv, alive, NEW q \in Request, NEW b \in Bases, ~TooLarge(q), NewPage(b, q)
  PROVE  IInv'
  <1>1. /\ b \notin PageSet /\ pages' = Append(pages, b) /\ pending' = q
        /\ region' = [r \in DOMAIN region \cup {b} |-> IF r = b THEN Whole ELSE region[r]]
        /\ UNCHANGED <<alive, back, held>>
    BY DEF NewPage
  <1>2. /\ Headers(region) /\ Tiles(region, PageSet) /\ NoFreePair(region)
        /\ PageSet \in SUBSET Bases
    BY TypeFacts DEF IInv, Tiled
  <1>3. /\ PageSize \in Nat /\ Header \in Nat \ {0} /\ PageSize - Header \in Nat
        /\ Word \in Nat /\ b \in Nat \ {0}
    BY PagedAssumption
  <1>4. PageSet' = PageSet \cup {b} /\ pages' \in Seq(Bases)
    <2>1. pages \in Seq(Bases)
      BY DEF IInv, TypeOK
    <2>2. /\ Len(pages) \in Nat /\ DOMAIN pages = 1 .. Len(pages)
          /\ DOMAIN pages' = 1 .. (Len(pages) + 1)
          /\ \A i \in 1 .. Len(pages) : pages'[i] = pages[i]
          /\ pages'[Len(pages) + 1] = b
      BY <2>1, <1>1
    <2>3. \A x : x \in PageSet' <=> x \in PageSet \cup {b}
      <3>1. ASSUME NEW x \in PageSet'
            PROVE  x \in PageSet \cup {b}
        <4>1. PICK i \in 1 .. (Len(pages) + 1) : x = pages'[i]
          BY <2>2 DEF PageSet, Range
        <4>2. CASE i = Len(pages) + 1
          BY <4>1, <4>2, <2>2
        <4>3. CASE i # Len(pages) + 1
          <5>1. i \in 1 .. Len(pages)
            BY <4>3, <2>2
          <5> QED BY <5>1, <4>1, <2>2 DEF PageSet, Range
        <4> QED BY <4>2, <4>3
      <3>2. ASSUME NEW x \in PageSet \cup {b}
            PROVE  x \in PageSet'
        <4>1. CASE x = b
          <5>1. Len(pages) + 1 \in DOMAIN pages'
            BY <2>2
          <5> QED BY <5>1, <4>1, <2>2 DEF PageSet, Range
        <4>2. CASE x \in PageSet
          <5>1. PICK i \in 1 .. Len(pages) : x = pages[i]
            BY <4>2, <2>2 DEF PageSet, Range
          <5>2. i \in DOMAIN pages' /\ pages'[i] = x
            BY <5>1, <2>2
          <5> QED BY <5>2 DEF PageSet, Range
        <4> QED BY <4>1, <4>2
      <3> QED BY <3>1, <3>2
    <2> QED BY <2>1, <2>3, <1>1
  <1>5. \A r \in DOMAIN region : End(region, r) <= b \/ b + PageSize <= r
    <2>1. ASSUME NEW r \in DOMAIN region
          PROVE  End(region, r) <= b \/ b + PageSize <= r
      <3>1. PICK c \in PageSet : Linked(region, r, c)
        BY <1>2 DEF Tiles
      <3>2. c <= r /\ End(region, r) <= c + PageSize
        BY <3>1 DEF Linked
      <3>3. c \in Bases /\ c # b /\ c \in Nat
        BY <1>1, <1>2, PagedAssumption
      <3>4. b + PageSize <= c \/ c + PageSize <= b
        BY <3>3, PagedAssumption
      <3>5. r \in Nat /\ End(region, r) \in Nat
        BY <1>2, Neighbours
      <3> QED BY <3>2, <3>3, <3>4, <3>5, <1>3
    <2> QED BY <2>1
  <1>6. b \notin DOMAIN region
    <2>1. \A r \in DOMAIN region : r \in Nat /\ End(region, r) > r /\ End(region, r) \in Nat
      BY <1>2, Neighbours
    <2> QED BY <2>1, <1>3, <1>5
  <1>7. /\ DOMAIN region' = DOMAIN region \cup {b} /\ region'[b] = Whole
        /\ \A r \in DOMAIN region : region'[r] = region[r]
    BY <1>1, <1>6
  <1>8. /\ Whole \in Region /\ Whole.byte_size = PageSize - Header /\ Whole.available
        /\ Whole.next = Null /\ Whole.prev = Null
    BY <1>3 DEF Whole, Region, Null
  <1>9. Headers(region') /\ region' \in [DOMAIN region' -> Region]
    BY <1>1, <1>2, <1>3, <1>7, <1>8 DEF Headers
  <1>10. /\ \A r \in DOMAIN region : End(region', r) = End(region, r)
         /\ End(region', b) = b + PageSize
    <2>1. b + Header + (PageSize - Header) = b + PageSize
      BY <1>3
    <2> QED BY <2>1, <1>7, <1>8 DEF End
  <1>11. Tiled'
    <2>1. PageSet' \subseteq DOMAIN region'
      BY <1>2, <1>4, <1>7 DEF Tiles
    <2>2. RegionsApart(region')
      <3>1. \A r, s \in DOMAIN region : r = s \/ End(region, r) <= s \/ End(region, s) <= r
        BY <1>2 DEF Tiles, RegionsApart
      <3> QED BY <3>1, <1>5, <1>7, <1>10 DEF RegionsApart
    <2>3. Linked(region', b, b)
      BY <1>3, <1>7, <1>8, <1>10 DEF Linked
    <2>4. ASSUME NEW r \in DOMAIN region, NEW c \in PageSet, Linked(region, r, c)
          PROVE  Linked(region', r, c)
      BY <2>4, <1>7, <1>10 DEF Linked
    <2>5. \A r \in DOMAIN region' : \E c \in PageSet' : Linked(region', r, c)
      <3>1. \A r \in DOMAIN region : \E c \in PageSet : Linked(region, r, c)
        BY <1>2 DEF Tiles
      <3> QED BY <3>1, <2>3, <2>4, <1>4, <1>7
    <2> QED BY <2>1, <2>2, <2>5 DEF Tiled, Tiles
  <1>12. Coalesced'
    <2>1. ASSUME NEW r \in DOMAIN region', region'[r].available, region'[r].next # Null
          PROVE  ~region'[region'[r].next].available
      <3>1. r \in DOMAIN region
        BY <2>1, <1>7, <1>8
      <3>2. region[r].next \in DOMAIN region /\ ~region[region[r].next].available
        BY <2>1, <3>1, <1>2, <1>7, Neighbours DEF NoFreePair
      <3> QED BY <3>1, <3>2, <1>7
    <2> QED BY <2>1 DEF Coalesced
  <1>13. Held'
    <2>1. \A p \in DOMAIN held : /\ back[p] \in DOMAIN region
                                 /\ ~region[back[p]].available
                                 /\ Start(back[p]) + Word <= p
                                 /\ p + held[p].size <= End(region, back[p])
      BY DEF IInv, Held
    <2>2. \A p, u \in DOMAIN held : back[p] = back[u] => p = u
      BY DEF IInv, Held
    <2>3. \A r \in DOMAIN region' : ~region'[r].available =>
            \E p \in DOMAIN held : back[p] = r
      BY <1>7, <1>8 DEF IInv, Held
    <2>4. \A p \in DOMAIN held : /\ back[p] \in DOMAIN region'
                                 /\ ~region'[back[p]].available
                                 /\ p + held[p].size <= End(region', back[p])
      BY <2>1, <1>7, <1>10
    <2> QED BY <2>1, <2>2, <2>3, <2>4, <1>1 DEF Held
  <1>14. FreshPageServes'
    <2>1. q.size \in Nat /\ q.alignment \in Nat /\ q.size + Word + q.alignment + Header <= PageSize
      BY <1>3 DEF TooLarge, Request
    <2>2. /\ AlignedPtr(b, q.alignment) \in Nat /\ Required(b, q) \in Nat
          /\ AlignedPtr(b, q.alignment) <= Start(b) + Word + q.alignment
          /\ AlignedPtr(b, q.alignment) + q.size = Start(b) + Required(b, q)
      BY <1>3, PayloadPlace
    <2>3. Start(b) \in Nat
      BY <1>3 DEF Start
    <2>4. Required(b, q) <= PageSize - Header
      <3>1. Required(b, q) <= Word + q.alignment + q.size
        BY <2>1, <2>2, <2>3, <1>3
      <3> QED BY <3>1, <2>1, <2>2, <1>3
    <2>5. region'[b].byte_size >= Required(b, q) /\ region'[b].available
      BY <2>2, <2>4, <1>3, <1>7, <1>8
    <2>6. b \in Fitting(q)'
      BY <2>5, <1>7 DEF Fitting
    <2> QED BY <2>6, <1>1 DEF FreshPageServes
  <1>15. TypeOK'
    BY <1>1, <1>4, <1>9 DEF IInv, TypeOK, Headers
  <1>16. BlocksAligned' /\ Dormant'
    BY <1>1 DEF IInv, BlocksAligned, Dormant
  <1> QED BY <1>11, <1>12, <1>13, <1>14, <1>15, <1>16 DEF IInv

(* An allocator whose pages have just been laid out, with nothing held.    *)
LEMMA FreshHolds ==
  ASSUME alive' \in BOOLEAN, pages' \in Seq(Bases), alive' \/ pages' = <<>>,
         region' = [b \in PageSet' |-> Whole],
         DOMAIN back' = {}, DOMAIN held' = {},
         back' = Nowhere, held' = Nowhere, pending' = NoRequest
  PROVE  IInv'
  <1>1. PageSet' \in SUBSET Bases
    BY DEF PageSet, Range
  <1>2. /\ Headers(region') /\ Tiles(region', PageSet') /\ NoFreePair(region')
        /\ \A b \in PageSet' : region'[b].available
    <2> DEFINE R == region'
               P == PageSet'
    <2>1. P \in SUBSET Bases /\ R = [b \in P |-> Whole]
      BY <1>1
    <2> HIDE DEF R, P
    <2>2. Headers(R) /\ Tiles(R, P) /\ NoFreePair(R) /\ \A b \in P : R[b].available
      BY <2>1, WholeTiles
    <2> QED BY <2>2 DEF R, P
  <1>3. DOMAIN region' = PageSet' /\ region' \in [DOMAIN region' -> Region]
    <2>1. DOMAIN region' = PageSet'
      OBVIOUS
    <2> QED BY <2>1, <1>2 DEF Headers
  <1>4. TypeOK'
    BY <1>2, <1>3 DEF TypeOK, Headers, Nowhere
  <1>5. Tiled' /\ Coalesced' /\ Held'
    BY <1>2, <1>3 DEF Tiled, Coalesced, NoFreePair, Held
  <1>6. pages' = <<>> => DOMAIN region' = {}
    BY <1>3 DEF PageSet, Range
  <1>7. FreshPageServes' /\ BlocksAligned' /\ Dormant'
    BY <1>6 DEF FreshPageServes, BlocksAligned, Dormant
  <1> QED BY <1>4, <1>5, <1>7 DEF IInv

LEMMA ResetHolds ==
  ASSUME IInv, Reset
  PROVE  IInv'
  <1>1. /\ alive' \in BOOLEAN /\ pages' \in Seq(Bases) /\ alive' /\ PageSet' = PageSet
        /\ region' = [b \in PageSet |-> Whole] /\ back' = Nowhere /\ held' = Nowhere
        /\ pending' = NoRequest
    BY DEF Reset, IInv, TypeOK, PageSet
  <1>2. DOMAIN Nowhere = {}
    BY DEF Nowhere
  <1> QED BY <1>1, <1>2, FreshHolds

LEMMA CreateHolds ==
  ASSUME IInv, NEW n \in 0 .. MaxInitial, NEW initial \in [1 .. n -> Bases], Create(initial)
  PROVE  IInv'
  <1>1. n \in Nat
    BY PagedAssumption
  <1>2. initial \in Seq(Bases)
    BY <1>1
  <1>3. /\ DOMAIN held = {} /\ DOMAIN back = {} /\ pending = NoRequest
        /\ held \in [DOMAIN held -> Request] /\ back \in [DOMAIN back -> Nat]
    BY DEF Create, IInv, Dormant, TypeOK
  <1>4. held = Nowhere /\ back = Nowhere
    BY <1>3 DEF Nowhere
  <1>5. /\ alive' \in BOOLEAN /\ alive' /\ pages' \in Seq(Bases)
        /\ region' = [b \in PageSet' |-> Whole] /\ back' = Nowhere /\ held' = Nowhere
        /\ pending' = NoRequest /\ DOMAIN back' = {} /\ DOMAIN held' = {}
    BY <1>2, <1>3, <1>4 DEF Create, PageSet
  <1> QED BY <1>5, FreshHolds

LEMMA DestroyHolds ==
  ASSUME IInv, Destroy
  PROVE  IInv'
  <1>1. /\ alive' \in BOOLEAN /\ pages' = <<>> /\ back' = Nowhere /\ held' = Nowhere
        /\ region' = Nowhere /\ pending' = NoRequest
    BY DEF Destroy
  <1>2. DOMAIN Nowhere = {} /\ <<>> \in Seq(Bases)
    BY DEF Nowhere
  <1>3. PageSet' = {}
    BY <1>1 DEF PageSet, Range
  <1>4. region' = [b \in PageSet' |-> Whole]
    BY <1>1, <1>3 DEF Nowhere
  <1> QED BY <1>1, <1>2, <1>4, FreshHolds

(* A request that libc and the page size turn down.                        *)
LEMMA NullHolds ==
  ASSUME IInv, NullReturned
  PROVE  IInv'
  <1>1. PageSet' = PageSet
    BY DEF NullReturned, PageSet
  <1> QED BY <1>1 DEF NullReturned, IInv, TypeOK, Tiled, Held, Coalesced,
             FreshPageServes, BlocksAligned, Dormant, NoRequest

LEMMA SearchHolds ==
  ASSUME IInv, alive, NEW q \in Request, Search(q)
  PROVE  IInv'
  <1>1. CASE Fitting(q) # {}
    <2>1. FirstFit(q) \in Fitting(q)
      BY <1>1, FirstFitFits DEF IInv
    <2>2. Serve(FirstFit(q), q)
      BY <1>1 DEF Search
    <2> QED BY <2>1, <2>2, ServeHolds
  <1>2. CASE Fitting(q) = {}
    <2>1. NullReturned \/ (~TooLarge(q) /\ \E b \in Bases : NewPage(b, q))
      <3> QED BY <1>2, Zenon DEF Search
    <2>2. CASE NullReturned
      BY <2>2, NullHolds
    <2>3. CASE ~TooLarge(q) /\ \E b \in Bases : NewPage(b, q)
      BY <2>3, NewPageHolds
    <2> QED BY <2>1, <2>2, <2>3
  <1> QED BY <1>1, <1>2

(* What malloc searches for is a request.                                  *)
LEMMA RequestRounded ==
  ASSUME NEW size \in Sizes, NEW alignment \in Alignments
  PROVE  [size |-> RoundUp(size, Word), alignment |-> alignment] \in Request
  <1>1. size \in Nat \ {0} /\ Word \in Nat /\ alignment \in Nat
    BY PagedAssumption
  <1>2. RoundUp(size, Word) \in Nat /\ size <= RoundUp(size, Word)
    BY <1>1, RoundUpBounds
  <1>3. RoundUp(size, Word) \in Nat \ {0}
    BY <1>1, <1>2
  <1> QED BY <1>1, <1>3 DEF Request

LEMMA StepHolds ==
  ASSUME IInv, [Next]_vars
  PROVE  IInv'
  <1>1. ASSUME NEW size \in Sizes, NEW alignment \in Alignments, Malloc(size, alignment)
        PROVE  IInv'
    BY <1>1, RequestRounded, SearchHolds DEF Malloc
  <1>2. CASE Retry
    <2>1. pending \in Request /\ alive /\ Search(pending)
      BY <1>2 DEF Retry, IInv, TypeOK, Dormant
    <2> QED BY <2>1, SearchHolds
  <1>3. ASSUME NEW ptr \in DOMAIN held, Free(ptr)
        PROVE  IInv'
    BY <1>3, FreeHolds
  <1>4. CASE Reset
    BY <1>4, ResetHolds
  <1>5. ASSUME NEW n \in 0 .. MaxInitial, NEW initial \in [1 .. n -> Bases], Create(initial)
        PROVE  IInv'
    BY <1>5, CreateHolds
  <1>6. CASE Destroy
    BY <1>6, DestroyHolds
  <1>7. CASE UNCHANGED vars
    <2>1. PageSet' = PageSet
      BY <1>7 DEF vars, PageSet
    <2>2. \A q : Fitting(q)' = Fitting(q)
      BY <1>7 DEF vars, Fitting
    <2> QED BY <1>7, <2>1, <2>2 DEF vars, IInv, TypeOK, Tiled, Held, Coalesced,
               FreshPageServes, BlocksAligned, Dormant
  <1> QED BY <1>1, <1>2, <1>3, <1>4, <1>5, <1>6, <1>7 DEF Next

LEMMA InitHolds == Init => IInv
  <1> SUFFICES ASSUME Init PROVE IInv
    OBVIOUS
  <1>1. DOMAIN region = {} /\ DOMAIN back = {} /\ DOMAIN held = {} /\ PageSet = {}
    BY DEF Init, Nowhere, PageSet, Range
  <1>2. TypeOK
    <2>1. pages \in Seq(Bases) /\ alive \in BOOLEAN /\ pending = NoRequest
      <3>1. <<>> \in Seq(Bases)
        OBVIOUS
      <3>2. pages = <<>> /\ alive = FALSE /\ pending = NoRequest
        BY DEF Init
      <3> QED BY <3>1, <3>2
    <2>2. \A S : Nowhere \in [{} -> S]
      BY DEF Nowhere
    <2>3. region = Nowhere /\ back = Nowhere /\ held = Nowhere
      BY DEF Init
    <2> QED BY <1>1, <2>1, <2>2, <2>3 DEF TypeOK
  <1> QED BY <1>1, <1>2 DEF Init, IInv, Tiled, Tiles, RegionsApart, Held, Coalesced,
             FreshPageServes, BlocksAligned, Dormant

THEOREM Inductive == Spec => []IInv
  BY InitHolds, StepHolds, PTL DEF Spec

-----------------------------------------------------------------------------
(* The results.                                                            *)

(* TypeOK: headers stay what the C struct says, sizes never underflow.     *)
THEOREM TypeCorrect == Spec => []TypeOK
  BY Inductive, PTL DEF IInv

(* Tiled: split, merge and reset keep every page covered by a well linked  *)
(* list of regions without gap or overlap.                                 *)
THEOREM TiledAlways == Spec => []Tiled
  BY Inductive, PTL DEF IInv

(* Held: the word in front of a payload leads free to its own region, and  *)
(* the payload ends before the next header.                                *)
THEOREM HeldAlways == Spec => []Held
  BY Inductive, PTL DEF IInv

(* Coalesced: free leaves no two free regions side by side.                *)
THEOREM CoalescedAlways == Spec => []Coalesced
  BY Inductive, PTL DEF IInv

(* FreshPageServes: the goto of line 202 is taken at most once a call.     *)
THEOREM RetrySucceeds == Spec => []FreshPageServes
  BY Inductive, PTL DEF IInv

(* Tiled, held and coalesced pages are whole when nothing is held.         *)
LEMMA WholeWhenEmpty ==
  ASSUME IInv
  PROVE  Reclaimed
  <1> SUFFICES ASSUME DOMAIN held = {}
               PROVE  region = [b \in PageSet |-> Whole]
    BY DEF Reclaimed
  <1>1. /\ Headers(region) /\ Tiles(region, PageSet) /\ NoFreePair(region)
        /\ PageSet \in SUBSET Bases /\ region = [r \in DOMAIN region |-> region[r]]
    BY TypeFacts DEF IInv, Tiled, TypeOK
  <1>2. ASSUME NEW r \in DOMAIN region
        PROVE  region[r].available /\ region[r].next = Null
    <2>1. \A s \in DOMAIN region : region[s].available
      BY DEF IInv, Held
    <2> QED BY <2>1, <1>1, Neighbours DEF NoFreePair
  <1>3. ASSUME NEW r \in DOMAIN region
        PROVE  r \in PageSet /\ region[r] = Whole
    <2>1. PICK b \in PageSet : Linked(region, r, b)
      BY <1>1 DEF Tiles
    <2>2. region[r].prev = Null
      <3>1. r # Null
        BY <1>1 DEF Headers, Null
      <3> QED BY <3>1, <1>1, <1>2, Neighbours
    <2>3. r = b /\ End(region, r) = b + PageSize
      BY <2>1, <2>2, <1>2 DEF Linked
    <2>4. region[r] \in Region /\ r \in Nat /\ PageSize \in Nat /\ Header \in Nat
      BY <1>1, PagedAssumption DEF Headers
    <2>5. region[r].byte_size \in Nat /\ region[r].available \in BOOLEAN
      BY <2>4 DEF Region
    <2>6. region[r].byte_size = PageSize - Header
      BY <2>3, <2>4, <2>5 DEF End
    <2>7. region[r].available = TRUE
      BY <2>5, <1>2
    <2> QED BY <2>2, <2>3, <2>4, <2>6, <2>7, <1>2 DEF Region, Whole
  <1>4. DOMAIN region = PageSet
    BY <1>1, <1>3 DEF Tiles
  <1> QED BY <1>1, <1>3, <1>4

(* Reclaimed: whatever the order of mallocs and frees, when all is given   *)
(* back every page is one free region again.                               *)
THEOREM ReclaimedAlways == Spec => []Reclaimed
  BY Inductive, WholeWhenEmpty, PTL

-----------------------------------------------------------------------------
(* Refinement.                                                             *)

Blocks == {[at |-> p, size |-> held[p].size, alignment |-> held[p].alignment] : p \in DOMAIN held}

LEMMA ServeRefines ==
  ASSUME IInv, NEW q \in Request, NEW r \in Fitting(q), Serve(r, q)
  PROVE  Contract!Malloc
  <1> DEFINE ptr == AlignedPtr(r, q.alignment)
             new == [at |-> ptr, size |-> q.size, alignment |-> q.alignment]
  <1>1. /\ ptr \in Nat \ {0} /\ ptr \notin DOMAIN held
        /\ q.alignment = 0 \/ (ptr % q.alignment) = 0
        /\ \A p \in DOMAIN held : ptr + q.size <= p \/ p + held[p].size <= ptr
    BY PayloadApart
  <1>2. held' = [p \in DOMAIN held \cup {ptr} |-> IF p = ptr THEN q ELSE held[p]]
    BY DEF Serve
  <1>3. /\ new.at = ptr /\ new.size = q.size /\ new.alignment = q.alignment
        /\ new = [at |-> ptr, size |-> q.size, alignment |-> q.alignment]
    OBVIOUS
  <1> HIDE DEF ptr, new
  <1>4. q.size \in Nat \ {0} /\ q.alignment \in Nat
    BY DEF Request
  <1>5. Blocks' = Blocks \cup {new}
    <2>1. /\ DOMAIN held' = DOMAIN held \cup {ptr} /\ held'[ptr] = q
          /\ \A p \in DOMAIN held : held'[p] = held[p]
      BY <1>1, <1>2
    <2> QED BY <2>1, <1>3 DEF Blocks
  <1>6. new \in Contract!Block
    BY <1>1, <1>3, <1>4 DEF Contract!Block
  <1>7. Contract!Aligned(new)
    BY <1>1, <1>3 DEF Contract!Aligned
  <1>8. \A c \in Blocks : Contract!Apart(new, c)
    <2>1. ASSUME NEW p \in DOMAIN held
          PROVE  Contract!Apart(new, [at |-> p, size |-> held[p].size,
                                      alignment |-> held[p].alignment])
      BY <1>1, <1>3 DEF Contract!Apart
    <2> QED BY <2>1 DEF Blocks
  <1>9. new.size > 0 /\ new \in Blocks'
    BY <1>3, <1>4, <1>5
  <1> QED BY <1>5, <1>6, <1>7, <1>8, <1>9 DEF Contract!Malloc, Blocks

LEMMA FreeRefines ==
  ASSUME IInv, NEW ptr \in DOMAIN held, Free(ptr)
  PROVE  Contract!Free
  <1> DEFINE old == [at |-> ptr, size |-> held[ptr].size, alignment |-> held[ptr].alignment]
  <1>1. held' = [p \in DOMAIN held \ {ptr} |-> held[p]]
    BY DEF Free
  <1>2. Blocks' = Blocks \ {old}
    <2>1. \A p \in DOMAIN held \ {ptr} :
            [at |-> p, size |-> held[p].size, alignment |-> held[p].alignment] # old
      OBVIOUS
    <2>2. DOMAIN held' = DOMAIN held \ {ptr} /\ \A p \in DOMAIN held' : held'[p] = held[p]
      BY <1>1
    <2> HIDE DEF old
    <2>3. old = [at |-> ptr, size |-> held[ptr].size, alignment |-> held[ptr].alignment]
      BY DEF old
    <2> QED BY <2>1, <2>2, <2>3 DEF Blocks
  <1>3. old \in Blocks
    BY DEF Blocks
  <1> QED BY <1>2, <1>3 DEF Contract!Free, Blocks

LEMMA SearchRefines ==
  ASSUME IInv, NEW q \in Request, Search(q)
  PROVE  Contract!Malloc \/ held' = held
  <1>1. CASE Fitting(q) # {}
    <2>1. FirstFit(q) \in Fitting(q)
      BY <1>1, FirstFitFits DEF IInv
    <2>2. Serve(FirstFit(q), q)
      BY <1>1 DEF Search
    <2> QED BY <2>1, <2>2, ServeRefines
  <1>2. CASE Fitting(q) = {}
    <2>1. NullReturned \/ (~TooLarge(q) /\ \E b \in Bases : NewPage(b, q))
      BY <1>2, Zenon DEF Search
    <2> QED BY <2>1 DEF NullReturned, NewPage
  <1> QED BY <1>1, <1>2

LEMMA StepRefines ==
  ASSUME IInv, [Next]_vars
  PROVE  [Contract!Next]_Blocks
  <1>1. ASSUME held' = held
        PROVE  Blocks' = Blocks
    BY <1>1 DEF Blocks
  <1>2. ASSUME held' = Nowhere
        PROVE  Contract!Reset
    <2>1. DOMAIN held' = {}
      BY <1>2 DEF Nowhere
    <2> QED BY <2>1 DEF Contract!Reset
  <1>3. ASSUME NEW size \in Sizes, NEW alignment \in Alignments, Malloc(size, alignment)
        PROVE  Contract!Malloc \/ held' = held
    BY <1>3, RequestRounded, SearchRefines DEF Malloc
  <1>4. CASE Retry
    <2>1. pending \in Request /\ Search(pending)
      BY <1>4 DEF Retry, IInv, TypeOK
    <2>2. Contract!Malloc \/ held' = held
      BY <2>1, SearchRefines
    <2> QED BY <2>2, <1>1 DEF Contract!Next
  <1>5. ASSUME NEW ptr \in DOMAIN held, Free(ptr)
        PROVE  Contract!Free
    BY <1>5, FreeRefines
  <1>6. CASE Reset \/ Destroy
    BY <1>6, <1>2 DEF Reset, Destroy, Contract!Next
  <1>7. ASSUME NEW initial, Create(initial)
        PROVE  held' = held
    BY <1>7 DEF Create
  <1>8. CASE UNCHANGED vars
    BY <1>8, <1>1 DEF vars
  <1> QED BY <1>1, <1>3, <1>4, <1>5, <1>6, <1>7, <1>8 DEF Next, Contract!Next

(* ImplementsAllocator: blocks are aligned as asked and never overlap, for *)
(* every size, alignment, page size and number of pages.                   *)
THEOREM Refinement == Spec => ImplementsAllocator
  <1>1. Init => Contract!Init
    BY DEF Init, Nowhere, Contract!Init
  <1>2. IInv /\ [Next]_vars => [Contract!Next]_Blocks
    BY StepRefines
  <1> QED BY <1>1, <1>2, Inductive, PTL DEF Spec, ImplementsAllocator, Contract!Spec, Blocks
=============================================================================

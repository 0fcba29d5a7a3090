------------------------ MODULE MemoryDebuggerProofs ------------------------
(***************************************************************************)
(* The memory debugger knows who has every block, counts exactly, and      *)
(* never takes a correct free for a double free, for any number of         *)
(* threads, addresses, call sites and contexts, any block size and any     *)
(* size of the ring of freed blocks.                                       *)
(***************************************************************************)
EXTENDS MemoryDebugger, FiniteSetTheorems, TLAPS

Stats == [liveBytes : Nat, liveBlocks : Nat, peakBytes : Nat,
          count : Nat, bytes : Nat, largest : Nat]

-----------------------------------------------------------------------------
(* Counting blocks and bytes.                                              *)

Entries(si) == {a \in Addresses : si[a] # None}

At(si, s) == {a \in Entries(si) : si[a] = s}

(* One pair per user-visible byte of the blocks of S.                      *)
Cells(S, sz) == {b \in S \X Size : b[2] <= sz[b[1]]}

(* The live figures st and sb are those of the table si, sz.               *)
Live(st, sb, si, sz) ==
  /\ st.liveBlocks = Cardinality(Entries(si))
  /\ st.liveBytes = Cardinality(Cells(Entries(si), sz))
  /\ \A s \in Sites : sb[s] = Cardinality(Cells(At(si, s), sz))
  /\ st.liveBytes <= st.peakBytes

(* Blocks and their bytes can be counted.                                  *)
LEMMA Countable ==
  ASSUME NEW S \in SUBSET Addresses, NEW sz
  PROVE  /\ IsFiniteSet(S) /\ Cardinality(S) \in Nat
         /\ IsFiniteSet(Cells(S, sz)) /\ Cardinality(Cells(S, sz)) \in Nat
  <1>1. IsFiniteSet(S)
    BY FS_Subset, DebuggerAssumption
  <1>2. IsFiniteSet(Size)
    BY FS_Interval, DebuggerAssumption DEF Size
  <1>3. IsFiniteSet(S \X Size)
    BY <1>1, <1>2, FS_Product
  <1>4. Cells(S, sz) \in SUBSET (S \X Size)
    BY DEF Cells
  <1>5. IsFiniteSet(Cells(S, sz))
    BY <1>3, <1>4, FS_Subset
  <1> QED BY <1>1, <1>5, FS_CardinalityType

(* A further block of n bytes adds n bytes.                                *)
LEMMA CellsGrow ==
  ASSUME NEW S \in SUBSET Addresses, NEW a \in Addresses \ S,
         NEW f, NEW g, \A b \in S : f[b] = g[b], g[a] \in 0..MaxSize
  PROVE  Cardinality(Cells(S \cup {a}, g)) = Cardinality(Cells(S, f)) + g[a]
  <1> DEFINE new == {a} \X (1..g[a])
  <1>1. Cells(S \cup {a}, g) = Cells(S, f) \cup new
    <2>1. \A b \in (S \cup {a}) \X Size :
            b[2] <= g[b[1]] <=> b \in Cells(S, f) \cup new
      <3>1. TAKE b \in (S \cup {a}) \X Size
      <3>2. CASE b[1] = a
        <4>1. b \notin Cells(S, f)
          BY <3>2 DEF Cells
        <4>2. b \in new <=> b[2] <= g[a]
          BY <3>1, <3>2, DebuggerAssumption DEF Size
        <4> QED BY <3>2, <4>1, <4>2
      <3>3. CASE b[1] # a
        <4>1. b \notin new
          BY <3>3
        <4>2. b \in S \X Size /\ f[b[1]] = g[b[1]]
          BY <3>1, <3>3
        <4> QED BY <4>1, <4>2 DEF Cells
      <3> QED BY <3>2, <3>3
    <2>2. new \subseteq (S \cup {a}) \X Size
      BY DebuggerAssumption DEF Size
    <2>3. Cells(S, f) \subseteq (S \cup {a}) \X Size
      BY DEF Cells
    <2> HIDE DEF new
    <2> QED BY <2>1, <2>2, <2>3 DEF Cells
  <1>2. Cells(S, f) \cap new = {}
    BY DEF Cells
  <1>3. IsFiniteSet(1..g[a]) /\ Cardinality(1..g[a]) = g[a]
    BY FS_Interval
  <1>4. IsFiniteSet(new) /\ Cardinality(new) = g[a]
    <2>1. IsFiniteSet({a}) /\ Cardinality({a}) = 1
      BY FS_Singleton
    <2>2. IsFiniteSet(new) /\ Cardinality(new) = 1 * Cardinality(1..g[a])
      BY <1>3, <2>1, FS_Product
    <2> QED BY <1>3, <2>2
  <1> HIDE DEF new
  <1>5. IsFiniteSet(Cells(S, f)) /\ Cardinality(Cells(S, f)) \in Nat
    BY Countable
  <1>6. Cardinality(Cells(S, f) \cup new)
          = Cardinality(Cells(S, f)) + Cardinality(new)
              - Cardinality(Cells(S, f) \cap new)
    BY <1>4, <1>5, FS_Union
  <1>7. Cardinality(Cells(S, f) \cap new) = 0
    BY <1>2, FS_EmptySet
  <1>8. Cardinality(Cells(S, f) \cup new) = Cardinality(Cells(S, f)) + g[a]
    BY <1>4, <1>5, <1>6, <1>7
  <1> QED BY <1>1, <1>8

(* Blocks of unchanged size have as many bytes as before.                  *)
LEMMA CellsSame ==
  ASSUME NEW S, NEW f, NEW g, \A b \in S : f[b] = g[b]
  PROVE  Cells(S, f) = Cells(S, g)
  <1>1. \A b \in S \X Size : f[b[1]] = g[b[1]]
    OBVIOUS
  <1> QED BY <1>1 DEF Cells

(* Entering a block keeps the live figures right.                          *)
LEMMA Entered ==
  ASSUME NEW st \in Stats, NEW sb \in [Sites -> Nat],
         NEW si \in [Addresses -> Sites \cup {None}],
         NEW sz \in [Addresses -> 0..MaxSize],
         NEW a \in Addresses, NEW n \in Size, NEW s \in Sites,
         Live(st, sb, si, sz), si[a] = None
  PROVE  Live(Added(st, n), [sb EXCEPT ![s] = @ + n],
              [si EXCEPT ![a] = s], [sz EXCEPT ![a] = n])
  <1> DEFINE ti == [si EXCEPT ![a] = s]
             tz == [sz EXCEPT ![a] = n]
  <1>1. n \in 0..MaxSize /\ s # None
    BY DebuggerAssumption DEF Size
  <1>2. /\ Entries(ti) = Entries(si) \cup {a}
        /\ Entries(si) \in SUBSET Addresses /\ a \notin Entries(si)
    BY <1>1 DEF Entries
  <1>3. At(ti, s) = At(si, s) \cup {a}
    BY <1>1 DEF At, Entries
  <1>4. \A r \in Sites \ {s} : At(ti, r) = At(si, r)
    BY <1>1 DEF At, Entries
  <1>5. \A r \in Sites : At(si, r) \in SUBSET Addresses /\ a \notin At(si, r)
    BY DebuggerAssumption DEF At, Entries
  <1>6. tz[a] = n /\ \A b \in Addresses \ {a} : sz[b] = tz[b]
    OBVIOUS
  <1> HIDE DEF ti, tz
  <1>7. Cardinality(Entries(ti)) = Cardinality(Entries(si)) + 1
    BY <1>2, Countable, FS_AddElement
  <1>8. Cardinality(Cells(Entries(ti), tz)) = Cardinality(Cells(Entries(si), sz)) + n
    <2>1. \A b \in Entries(si) : sz[b] = tz[b]
      BY <1>2, <1>6
    <2>2. a \in Addresses \ Entries(si) /\ tz[a] \in 0..MaxSize
      BY <1>1, <1>2, <1>6
    <2>3. Cardinality(Cells(Entries(si) \cup {a}, tz))
            = Cardinality(Cells(Entries(si), sz)) + tz[a]
      BY <1>2, <2>1, <2>2, CellsGrow
    <2> QED BY <1>2, <1>6, <2>3
  <1>9. \A r \in Sites : Cardinality(Cells(At(ti, r), tz))
                           = [sb EXCEPT ![s] = @ + n][r]
    <2>1. Cardinality(Cells(At(ti, s), tz)) = Cardinality(Cells(At(si, s), sz)) + n
      <3>1. \A b \in At(si, s) : sz[b] = tz[b]
        BY <1>5, <1>6
      <3>2. a \in Addresses \ At(si, s) /\ tz[a] \in 0..MaxSize
        BY <1>1, <1>5, <1>6
      <3>3. Cardinality(Cells(At(si, s) \cup {a}, tz))
              = Cardinality(Cells(At(si, s), sz)) + tz[a]
        BY <1>5, <3>1, <3>2, CellsGrow
      <3> QED BY <1>3, <1>6, <3>3
    <2>2. \A r \in Sites \ {s} : Cells(At(ti, r), tz) = Cells(At(si, r), sz)
      <3>1. \A r \in Sites : \A b \in At(si, r) : sz[b] = tz[b]
        BY <1>5, <1>6
      <3> QED BY <1>4, <3>1, CellsSame
    <2> QED BY <2>1, <2>2 DEF Live
  <1>10. LET u == Added(st, n) IN
         /\ u.liveBlocks = st.liveBlocks + 1
         /\ u.liveBytes = st.liveBytes + n
         /\ u.liveBytes <= u.peakBytes
    BY DEF Added, Counted, Larger, Stats, Size
  <1> QED BY <1>7, <1>8, <1>9, <1>10 DEF Live, ti, tz

(* So does removing one, and nothing underflows.                           *)
LEMMA Removed ==
  ASSUME NEW st \in Stats, NEW sb \in [Sites -> Nat],
         NEW si \in [Addresses -> Sites \cup {None}],
         NEW sz \in [Addresses -> 0..MaxSize],
         NEW a \in Addresses,
         Live(st, sb, si, sz), si[a] # None
  PROVE  Live(Dropped(st, sz[a]), [sb EXCEPT ![si[a]] = Less(@, sz[a])],
              [si EXCEPT ![a] = None], [sz EXCEPT ![a] = 0])
  <1> DEFINE ti == [si EXCEPT ![a] = None]
             tz == [sz EXCEPT ![a] = 0]
             s  == si[a]
  <1>1. s \in Sites /\ sz[a] \in 0..MaxSize
    OBVIOUS
  <1>2. /\ Entries(si) = Entries(ti) \cup {a}
        /\ Entries(ti) \in SUBSET Addresses /\ a \notin Entries(ti)
    BY DEF Entries
  <1>3. At(si, s) = At(ti, s) \cup {a}
    BY <1>1 DEF At, Entries
  <1>4. \A r \in Sites \ {s} : At(ti, r) = At(si, r)
    BY DebuggerAssumption DEF At, Entries
  <1>5. \A r \in Sites : At(ti, r) \in SUBSET Addresses /\ a \notin At(ti, r)
    BY DebuggerAssumption DEF At, Entries
  <1>6. \A b \in Addresses \ {a} : tz[b] = sz[b]
    OBVIOUS
  <1> HIDE DEF ti, tz
  <1>7. /\ Cardinality(Entries(si)) = Cardinality(Entries(ti)) + 1
        /\ Cardinality(Entries(ti)) \in Nat
    BY <1>2, Countable, FS_AddElement
  <1>8. /\ Cardinality(Cells(Entries(si), sz)) = Cardinality(Cells(Entries(ti), tz)) + sz[a]
        /\ Cardinality(Cells(Entries(ti), tz)) \in Nat
    <2>1. \A b \in Entries(ti) : tz[b] = sz[b]
      BY <1>2, <1>6
    <2> QED BY <1>1, <1>2, <2>1, CellsGrow, Countable
  <1>9. \A r \in Sites : Cardinality(Cells(At(ti, r), tz))
                           = [sb EXCEPT ![s] = Less(@, sz[a])][r]
    <2>1. /\ Cardinality(Cells(At(si, s), sz)) = Cardinality(Cells(At(ti, s), tz)) + sz[a]
          /\ Cardinality(Cells(At(ti, s), tz)) \in Nat
      <3>1. \A b \in At(ti, s) : tz[b] = sz[b]
        BY <1>1, <1>5, <1>6
      <3> QED BY <1>1, <1>3, <1>5, <3>1, CellsGrow, Countable
    <2>2. \A r \in Sites \ {s} : Cells(At(ti, r), tz) = Cells(At(si, r), sz)
      <3>1. \A r \in Sites : \A b \in At(ti, r) : tz[b] = sz[b]
        BY <1>5, <1>6
      <3> QED BY <1>4, <3>1, CellsSame
    <2> HIDE DEF s
    <2> QED BY <1>1, <2>1, <2>2 DEF Live, Less
  <1>10. LET u == Dropped(st, sz[a]) IN
         /\ u.liveBlocks = Cardinality(Entries(ti))
         /\ u.liveBytes = Cardinality(Cells(Entries(ti), tz))
         /\ u.liveBytes <= u.peakBytes
    BY <1>1, <1>7, <1>8 DEF Dropped, Less, Stats, Live
  <1> QED BY <1>9, <1>10 DEF Live, ti, tz

-----------------------------------------------------------------------------
(* The inductive invariant.                                                *)

(* Where the ring keeps what was buried k burials ago.                     *)
Back(k) == IF k < next THEN next - 1 - k ELSE next - 1 - k + RingSize

(* Retained, with the place.                                               *)
Aged == \A a \in Addresses : age[a] < RingSize => ring[Back(age[a])] = a

(* A thread outside the lock has the only hold on the block it moves.      *)
Requested ==
  /\ \A t \in Threads : request[t].old # None =>
       pc[t] = "libc" /\ request[t].old \in foreign
  /\ \A t, u \in Threads :
       request[t].old = request[u].old => t = u \/ request[t].old = None

(* Measured, without the cut-off at zero.                                  *)
Intervals ==
  \A c \in measuring :
    /\ c \notin disturbed =>
         /\ stats.count = baseline[c].count + since[c].count
         /\ stats.bytes = baseline[c].bytes + since[c].bytes
    /\ c \in nodes => largest[c] = since[c].largest

Figures == Live(stats, siteBytes, site, size)

IInv ==
  TypeOK /\ Owned /\ Figures /\ NoFalseAlarm /\ Aged /\ Requested /\ Intervals

-----------------------------------------------------------------------------
(* What the actions have in common.                                        *)

(* The larger number and the difference cut off at zero are numbers.       *)
LEMMA Figure ==
  ASSUME NEW m \in Nat, NEW n \in Nat
  PROVE  Larger(m, n) \in Nat /\ Less(m, n) \in Nat
  BY DEF Larger, Less

(* Statistics stay statistics, and only allocations are events.            *)
LEMMA StatsTypes ==
  ASSUME NEW st \in Stats, NEW n \in Nat
  PROVE  /\ Counted(st, n) \in Stats
         /\ Added(st, n) \in Stats
         /\ Dropped(st, n) \in Stats
         /\ Counted(st, n).count = st.count + 1
         /\ Counted(st, n).bytes = st.bytes + n
         /\ Added(st, n).count = st.count + 1
         /\ Added(st, n).bytes = st.bytes + n
         /\ Dropped(st, n).count = st.count
         /\ Dropped(st, n).bytes = st.bytes
  <1>1. /\ st.liveBytes \in Nat /\ st.liveBlocks \in Nat /\ st.peakBytes \in Nat
        /\ st.count \in Nat /\ st.bytes \in Nat /\ st.largest \in Nat
    BY DEF Stats
  <1>2. /\ Counted(st, n) \in Stats
        /\ Counted(st, n).count = st.count + 1
        /\ Counted(st, n).bytes = st.bytes + n
    <2>1. Larger(st.largest, n) \in Nat
      BY <1>1, Figure
    <2>2. st.count + 1 \in Nat /\ st.bytes + n \in Nat
      BY <1>1
    <2>3. Counted(st, n) \in Stats
      <3> DEFINE l == Larger(st.largest, n)
                 k == st.count + 1
                 m == st.bytes + n
      <3>1. Counted(st, n) = [st EXCEPT !.count = k, !.bytes = m, !.largest = l]
        BY DEF Counted
      <3>2. k \in Nat /\ m \in Nat /\ l \in Nat
        BY <2>1, <2>2
      <3> HIDE DEF k, l, m
      <3> QED BY <3>1, <3>2 DEF Stats
    <2> QED BY <1>1, <2>3 DEF Stats, Counted
  <1>3. /\ Added(st, n) \in Stats
        /\ Added(st, n).count = st.count + 1
        /\ Added(st, n).bytes = st.bytes + n
    <2> DEFINE cs == Counted(st, n)
    <2>1. /\ cs.liveBytes \in Nat /\ cs.liveBlocks \in Nat /\ cs.peakBytes \in Nat
      <3>1. cs \in Stats
        BY <1>2
      <3> HIDE DEF cs
      <3> QED BY <3>1 DEF Stats
    <2>2. Larger(cs.peakBytes, st.liveBytes + n) \in Nat
      <3>1. st.liveBytes + n \in Nat
        BY <1>1
      <3> HIDE DEF cs
      <3> QED BY <2>1, <3>1, Figure
    <2>3. cs.liveBytes + n \in Nat /\ cs.liveBlocks + 1 \in Nat
      BY <2>1
    <2> HIDE DEF cs
    <2> QED BY <1>2, <2>2, <2>3 DEF Added, Stats, cs
  <1>4. /\ Dropped(st, n) \in Stats
        /\ Dropped(st, n).count = st.count
        /\ Dropped(st, n).bytes = st.bytes
    <2>1. Less(st.liveBytes, n) \in Nat /\ Less(st.liveBlocks, 1) \in Nat
      BY <1>1, Figure
    <2> QED BY <1>1, <2>1 DEF Stats, Dropped
  <1> QED BY <1>2, <1>3, <1>4

(* A tracked block has a size, which is a natural number.                  *)
LEMMA SizeTypes ==
  ASSUME TypeOK, NEW a \in Addresses
  PROVE  size[a] \in Nat
  <1>1. size[a] \in 0..MaxSize
    BY DEF TypeOK
  <1> QED BY <1>1, DebuggerAssumption

(* Counting an untracked block leaves the live figures alone.              *)
LEMMA CountedAlive ==
  ASSUME NEW st \in Stats, NEW n \in Nat, NEW sb, NEW si, NEW sz,
         Live(st, sb, si, sz)
  PROVE  Live(Counted(st, n), sb, si, sz)
  <1>1. /\ Counted(st, n).liveBlocks = st.liveBlocks
        /\ Counted(st, n).liveBytes = st.liveBytes
        /\ Counted(st, n).peakBytes = st.peakBytes
    BY DEF Stats, Counted
  <1> QED BY <1>1 DEF Live

(* An event that is counted once is counted once in every open interval.   *)
LEMMA Measures ==
  ASSUME TypeOK, Intervals, NEW n \in Nat, Measure(n),
         stats'.count = stats.count + 1, stats'.bytes = stats.bytes + n,
         UNCHANGED <<nodes, baseline, measuring, disturbed>>
  PROVE  /\ Intervals'
         /\ largest' \in [Contexts -> Nat]
         /\ since' \in [Contexts -> [count : Nat, bytes : Nat, largest : Nat]]
  <1> DEFINE Events == [count : Nat, bytes : Nat, largest : Nat]
  <1>1. \A c \in Contexts : since[c] \in Events /\ largest[c] \in Nat
    BY DEF TypeOK
  <1>2. \A e \in Events :
          /\ Counted(e, n) \in Events
          /\ Counted(e, n).count = e.count + 1
          /\ Counted(e, n).bytes = e.bytes + n
          /\ Counted(e, n).largest = Larger(e.largest, n)
    <2>1. TAKE e \in Events
    <2>2. e.largest \in Nat /\ e.count \in Nat /\ e.bytes \in Nat
      BY <2>1
    <2>3. e.count + 1 \in Nat /\ e.bytes + n \in Nat
      BY <2>2
    <2>4. Larger(e.largest, n) \in Nat
      BY <2>2, Figure
    <2> QED BY <2>1, <2>3, <2>4 DEF Counted
  <1>3. \A m \in Nat : Larger(m, n) \in Nat
    BY Figure
  <1>4. since' \in [Contexts -> Events] /\ largest' \in [Contexts -> Nat]
    <2> HIDE DEF Events
    <2> QED BY <1>1, <1>2, <1>3 DEF Measure
  <1>5. Intervals'
    <2>1. ASSUME NEW c \in measuring
          PROVE  /\ c \in Contexts
                 /\ since'[c] = Counted(since[c], n)
                 /\ c \in nodes => largest'[c] = Larger(largest[c], n)
      BY <2>1 DEF Measure, TypeOK
    <2>2. \A c \in Contexts : /\ baseline[c].count \in Nat
                              /\ baseline[c].bytes \in Nat
                              /\ since[c].count \in Nat
                              /\ since[c].bytes \in Nat
      BY DEF TypeOK
    <2>3. ASSUME NEW c \in measuring, c \notin disturbed
          PROVE  /\ stats'.count = baseline[c].count + since'[c].count
                 /\ stats'.bytes = baseline[c].bytes + since'[c].bytes
      <3>1. /\ since'[c].count = since[c].count + 1
            /\ since'[c].bytes = since[c].bytes + n
        BY <1>1, <1>2, <2>1
      <3>2. /\ stats.count = baseline[c].count + since[c].count
            /\ stats.bytes = baseline[c].bytes + since[c].bytes
        BY <2>3 DEF Intervals
      <3> QED BY <2>1, <2>2, <3>1, <3>2
    <2>4. ASSUME NEW c \in measuring, c \in nodes
          PROVE  largest'[c] = since'[c].largest
      BY <1>1, <1>2, <2>1, <2>4 DEF Intervals
    <2> QED BY <2>3, <2>4 DEF Intervals
  <1> QED BY <1>4, <1>5

(* The index of the ring goes round.                                       *)
LEMMA Advances ==
  ASSUME TypeOK
  PROVE  /\ Advance \in Slot
         /\ Advance = IF next + 1 = RingSize THEN 0 ELSE next + 1
  <1>1. next \in Nat /\ next < RingSize /\ RingSize \in Nat \ {0}
    <2>1. next \in Slot
      BY DEF TypeOK
    <2> QED BY <2>1, DebuggerAssumption DEF Slot
  <1>2. CASE next + 1 = RingSize
    <2>1. (next + 1) % RingSize = 0
      BY <1>1, <1>2
    <2> QED BY <1>1, <1>2, <2>1 DEF Slot, Advance
  <1>3. CASE next + 1 # RingSize
    <2>1. (next + 1) % RingSize = next + 1
      BY <1>1, <1>3
    <2> QED BY <1>1, <1>3, <2>1 DEF Slot, Advance
  <1> QED BY <1>2, <1>3

(* Burying a block ages the others by one and evicts the oldest.           *)
LEMMA Buries ==
  ASSUME TypeOK, Owned, Aged, NEW a \in Tracked, Bury(a)
  PROVE  /\ Aged'
         /\ InRing' = (InRing \ Evicted) \cup {a}
         /\ \A i, j \in Slot : ring'[i] = ring'[j] => i = j \/ ring'[i] = None
         /\ ring' \in [Slot -> Addresses \cup {None}]
         /\ next' \in Slot
         /\ age' \in [Addresses -> 0..RingSize]
  <1>1. a \in Addresses /\ a # None /\ a \notin InRing
    BY DebuggerAssumption DEF Tracked, Owned
  <1>2. next \in Slot /\ RingSize \in Nat
    BY DebuggerAssumption DEF TypeOK
  <1>3. ring'[next] = a /\ \A i \in Slot \ {next} : ring'[i] = ring[i]
    BY <1>2 DEF Bury, TypeOK
  <1>4. \A i \in Slot : ring[i] # a
    BY <1>1 DEF InRing
  <1>5. InRing' = (InRing \ Evicted) \cup {a}
    <2>1. \A i \in Slot \ {next} : ring[i] = ring[next] => ring[i] = None
      BY <1>2 DEF Owned
    <2> QED BY <1>1, <1>2, <1>3, <2>1 DEF InRing, Evicted
  <1>6. \A i, j \in Slot : ring'[i] = ring'[j] => i = j \/ ring'[i] = None
    BY <1>3, <1>4 DEF Owned
  <1>7. /\ ring' \in [Slot -> Addresses \cup {None}]
        /\ next' \in Slot
        /\ age' \in [Addresses -> 0..RingSize]
    <2>1. \A b \in Addresses : age[b] \in 0..RingSize
      BY DEF TypeOK
    <2>2. age' \in [Addresses -> 0..RingSize]
      BY <1>2, <2>1 DEF Bury
    <2> QED BY <1>1, <1>2, <2>2, Advances DEF Bury, TypeOK
  <1>8. Aged'
    <2>1. SUFFICES ASSUME NEW b \in Addresses, age'[b] < RingSize
                   PROVE  ring'[Back(age[b])'] = b
      BY DEF Aged
    <2>2. next' = IF next + 1 = RingSize THEN 0 ELSE next + 1
      BY Advances DEF Bury
    <2>3. CASE b = a
      <3>1. age'[b] = 0
        BY <1>1, <2>3 DEF Bury
      <3>2. Back(age[b])' = next
        BY <1>2, <2>2, <3>1 DEF Back, Slot
      <3> QED BY <1>3, <2>3, <3>2
    <2>4. CASE b # a
      <3>1. age[b] \in 0..RingSize
        BY DEF TypeOK
      <3>2. age[b] < RingSize - 1 /\ age'[b] = age[b] + 1
        BY <1>2, <2>1, <2>4, <3>1 DEF Bury
      <3>3. Back(age[b])' = Back(age[b])
        BY <1>2, <2>2, <3>1, <3>2 DEF Back, Slot
      <3>4. Back(age[b]) \in Slot \ {next}
        BY <1>2, <3>1, <3>2 DEF Back, Slot
      <3>5. ring[Back(age[b])] = b
        BY <1>2, <3>1, <3>2 DEF Aged
      <3> QED BY <1>3, <3>3, <3>4, <3>5
    <2> QED BY <2>3, <2>4
  <1> QED BY <1>5, <1>6, <1>7, <1>8

(* The initial state.                                                      *)
LEMMA InitHolds == Init => IInv
  <1> SUFFICES ASSUME Init
               PROVE  IInv
    OBVIOUS
  <1>1. TypeOK
    BY DebuggerAssumption DEF Init, TypeOK, NoRequest, NoEvents, Slot
  <1>2. Tracked = {} /\ InRing = {}
    BY DEF Init, Tracked, InRing
  <1>3. Owned
    BY <1>2 DEF Init, Owned
  <1>4. Figures
    <2>1. Entries(site) = {} /\ \A s \in Sites : At(site, s) = {}
      BY <1>2 DEF Entries, Tracked, At
    <2>2. Cells({}, size) = {}
      BY DEF Cells
    <2>3. Cardinality({}) = 0
      BY FS_EmptySet
    <2>4. /\ stats.liveBlocks = 0 /\ stats.liveBytes = 0 /\ stats.peakBytes = 0
          /\ \A s \in Sites : siteBytes[s] = 0
      BY DEF Init
    <2> QED BY <2>1, <2>2, <2>3, <2>4 DEF Figures, Live
  <1>5. Aged
    BY DebuggerAssumption DEF Init, Aged
  <1> QED BY <1>1, <1>3, <1>4, <1>5
        DEF Init, IInv, NoFalseAlarm, Requested, Intervals, NoRequest

-----------------------------------------------------------------------------
(* Every step keeps the invariant.                                         *)

(* An address libc may return is nobody's.                                 *)
LEMMA Nobodys ==
  ASSUME Owned, NEW a \in Available
  PROVE  a \in Addresses /\ site[a] = None /\ a \notin InRing /\ a \notin foreign
  BY DEF Owned, Available, Tracked

(* A call site and a size, where they are needed.                          *)
LEMMA Typed ==
  ASSUME TypeOK
  PROVE  /\ site \in [Addresses -> Sites \cup {None}]
         /\ siteBytes \in [Sites -> Nat]
         /\ \A n \in Size : n \in Nat /\ n \in 0..MaxSize
         /\ \A a \in Tracked :
              a \in Addresses /\ site[a] \in Sites /\ size[a] \in Nat
  <1>1. site \in [Addresses -> Sites \cup {None}] /\ siteBytes \in [Sites -> Nat]
    BY DEF TypeOK
  <1>2. \A n \in Size : n \in Nat /\ n \in 0..MaxSize
    BY DebuggerAssumption DEF Size
  <1> QED BY <1>1, <1>2, SizeTypes DEF Tracked

(* What a step leaves alone stays right.                                   *)
LEMMA TableKept ==
  ASSUME UNCHANGED <<heap, table, foreign>>, Owned, Aged
  PROVE  Owned' /\ Aged'
  <1>1. Owned'
    BY DEF table, Owned, Tracked, InRing
  <1>2. Aged'
    BY DEF table, Aged, Back
  <1> QED BY <1>1, <1>2

LEMMA FiguresKept ==
  ASSUME UNCHANGED <<table, stats>>, Figures
  PROVE  Figures'
  BY DEF table, Figures

LEMMA RequestsKept ==
  ASSUME UNCHANGED <<threads, foreign>>, Requested
  PROVE  Requested'
  BY DEF threads, Requested

LEMMA IntervalsKept ==
  ASSUME UNCHANGED <<stats, measures>>, Intervals
  PROVE  Intervals'
  BY DEF measures, Intervals

LEMMA MallocHolds ==
  ASSUME IInv, NEW t \in Threads, NEW n \in Size, NEW s \in Sites, Malloc(t, n, s)
  PROVE  IInv'
  <1> USE DEF IInv
  <1>1. PICK a \in Available :
          /\ heap' = heap \cup {a}
          /\ site' = [site EXCEPT ![a] = s]
          /\ size' = [size EXCEPT ![a] = n]
    BY DEF Malloc
  <1>2. a \in Addresses /\ site[a] = None /\ a \notin InRing /\ a \notin foreign
    BY Nobodys
  <1>3. n \in Nat /\ n \in 0..MaxSize
    BY DebuggerAssumption DEF Size
  <1>4. /\ stats' \in Stats
        /\ stats'.count = stats.count + 1 /\ stats'.bytes = stats.bytes + n
    <2>1. stats \in Stats /\ stats' = Added(stats, n)
      BY DEF TypeOK, Stats, Malloc
    <2> QED BY <1>3, <2>1, StatsTypes
  <1>5. /\ Intervals'
        /\ largest' \in [Contexts -> Nat]
        /\ since' \in [Contexts -> [count : Nat, bytes : Nat, largest : Nat]]
    <2>1. Measure(n) /\ UNCHANGED <<nodes, baseline, measuring, disturbed>>
      BY DEF Malloc
    <2> QED BY <1>3, <1>4, <2>1, Measures
  <1>6. TypeOK'
    <2>1. siteBytes' \in [Sites -> Nat]
      BY <1>3, Typed DEF Malloc
    <2> QED BY <1>1, <1>2, <1>3, <1>4, <1>5, <2>1
          DEF TypeOK, Stats, Malloc, threads
  <1>7. Owned'
    <2>1. Tracked' = Tracked \cup {a}
      BY <1>1, <1>2, Typed, DebuggerAssumption DEF Tracked
    <2>2. InRing' = InRing /\ ring' = ring /\ foreign' = foreign
      BY DEF InRing, Malloc
    <2> QED BY <1>1, <1>2, <2>1, <2>2 DEF Owned
  <1>8. Figures'
    <2>1. /\ stats \in Stats /\ siteBytes \in [Sites -> Nat]
          /\ site \in [Addresses -> Sites \cup {None}]
          /\ size \in [Addresses -> 0..MaxSize]
      BY DEF TypeOK, Stats
    <2>2. Live(Added(stats, n), [siteBytes EXCEPT ![s] = @ + n],
               [site EXCEPT ![a] = s], [size EXCEPT ![a] = n])
      BY <1>2, <2>1, Entered DEF Figures
    <2> QED BY <1>1, <2>2 DEF Figures, Malloc
  <1>9. NoFalseAlarm' /\ Aged' /\ Requested'
    BY DEF Malloc, threads, NoFalseAlarm, Aged, Back, Requested
  <1> QED BY <1>5, <1>6, <1>7, <1>8, <1>9

LEMMA FreeHolds ==
  ASSUME IInv, NEW t \in Threads, NEW a \in Addresses, Free(t, a)
  PROVE  IInv'
  <1> USE DEF IInv
  <1>1. a \in Tracked /\ Bury(a) /\ size[a] \in Nat /\ site[a] \in Sites
    BY SizeTypes DEF Free, Tracked, TypeOK
  <1>2. /\ Aged'
        /\ InRing' = (InRing \ Evicted) \cup {a}
        /\ \A i, j \in Slot : ring'[i] = ring'[j] => i = j \/ ring'[i] = None
        /\ ring' \in [Slot -> Addresses \cup {None}]
        /\ next' \in Slot
        /\ age' \in [Addresses -> 0..RingSize]
    BY <1>1, Buries
  <1>3. /\ stats \in Stats /\ stats' \in Stats
        /\ stats'.count = stats.count /\ stats'.bytes = stats.bytes
    <2>1. stats \in Stats /\ stats' = Dropped(stats, size[a])
      BY DEF TypeOK, Stats, Free
    <2> QED BY <1>1, <2>1, StatsTypes
  <1>4. TypeOK'
    <2>1. siteBytes' \in [Sites -> Nat]
      <3>1. Less(siteBytes[site[a]], size[a]) \in Nat
        BY <1>1, Figure DEF TypeOK
      <3> QED BY <1>1, <3>1 DEF TypeOK, Free
    <2>2. 0 \in 0..MaxSize
      BY DebuggerAssumption
    <2> QED BY <1>2, <1>3, <2>1, <2>2 DEF TypeOK, Stats, Free, measures, threads
  <1>5. Owned'
    <2>1. Tracked' = Tracked \ {a}
      BY DEF Tracked, Free, TypeOK
    <2>2. heap' = heap \ Evicted /\ foreign' = foreign
      BY DEF Free
    <2>3. Evicted \subseteq InRing \cup {None}
      BY DEF Evicted, InRing, TypeOK
    <2>4. None \notin heap
      BY DebuggerAssumption DEF TypeOK
    <2> QED BY <1>1, <1>2, <2>1, <2>2, <2>3, <2>4 DEF Owned
  <1>6. Figures'
    <2>1. /\ siteBytes \in [Sites -> Nat]
          /\ site \in [Addresses -> Sites \cup {None}]
          /\ size \in [Addresses -> 0..MaxSize]
          /\ site[a] # None
      BY <1>1 DEF TypeOK, Tracked
    <2>2. Live(Dropped(stats, size[a]),
               [siteBytes EXCEPT ![site[a]] = Less(@, size[a])],
               [site EXCEPT ![a] = None], [size EXCEPT ![a] = 0])
      BY <1>3, <2>1, Removed DEF Figures
    <2> QED BY <2>2 DEF Figures, Free
  <1>7. NoFalseAlarm' /\ Requested' /\ Intervals'
    BY <1>3 DEF Free, threads, measures, NoFalseAlarm, Requested, Intervals
  <1> QED BY <1>2, <1>4, <1>5, <1>6, <1>7

LEMMA ReallocHolds ==
  ASSUME IInv, NEW t \in Threads, NEW a \in Addresses, NEW n \in Size,
         NEW s \in Sites, Realloc(t, a, n, s)
  PROVE  IInv'
  <1> USE DEF IInv
  <1>1. PICK b \in Available :
          /\ heap' = (heap \cup {b}) \ Evicted
          /\ site' = [site EXCEPT ![b] = s, ![a] = None]
          /\ size' = [size EXCEPT ![b] = n, ![a] = 0]
    BY DEF Realloc
  <1>2. b \in Addresses /\ site[b] = None /\ b \notin InRing /\ b \notin foreign
    BY Nobodys
  <1>3. /\ a \in Tracked /\ Bury(a) /\ size[a] \in Nat /\ site[a] \in Sites
        /\ a # b /\ n \in Nat /\ n \in 0..MaxSize
    <2>1. a \in Tracked /\ Bury(a)
      BY DEF Realloc
    <2> QED BY <1>2, <2>1, Typed DEF Tracked
  <1>4. /\ Aged'
        /\ InRing' = (InRing \ Evicted) \cup {a}
        /\ \A i, j \in Slot : ring'[i] = ring'[j] => i = j \/ ring'[i] = None
        /\ ring' \in [Slot -> Addresses \cup {None}]
        /\ next' \in Slot
        /\ age' \in [Addresses -> 0..RingSize]
    BY <1>3, Buries
  <1>5. /\ stats \in Stats /\ Added(stats, n) \in Stats /\ stats' \in Stats
        /\ stats'.count = stats.count + 1 /\ stats'.bytes = stats.bytes + n
    <2>1. stats \in Stats /\ stats' = Dropped(Added(stats, n), size[a])
      BY DEF TypeOK, Stats, Realloc
    <2>2. /\ Added(stats, n) \in Stats
          /\ Added(stats, n).count = stats.count + 1
          /\ Added(stats, n).bytes = stats.bytes + n
      BY <1>3, <2>1, StatsTypes
    <2>3. /\ Dropped(Added(stats, n), size[a]) \in Stats
          /\ Dropped(Added(stats, n), size[a]).count = Added(stats, n).count
          /\ Dropped(Added(stats, n), size[a]).bytes = Added(stats, n).bytes
      BY <1>3, <2>2, StatsTypes
    <2> QED BY <2>1, <2>2, <2>3
  <1>6. /\ Intervals'
        /\ largest' \in [Contexts -> Nat]
        /\ since' \in [Contexts -> [count : Nat, bytes : Nat, largest : Nat]]
    <2>1. Measure(n) /\ UNCHANGED <<nodes, baseline, measuring, disturbed>>
      BY DEF Realloc
    <2> QED BY <1>3, <1>5, <2>1, Measures
  <1> DEFINE grown == [siteBytes EXCEPT ![s] = @ + n]
  <1>7. grown \in [Sites -> Nat]
    BY <1>3, Typed
  <1>8. siteBytes' = [grown EXCEPT ![site[a]] = Less(@, size[a])]
    BY DEF Realloc
  <1> HIDE DEF grown
  <1>9. TypeOK'
    <2>1. siteBytes' \in [Sites -> Nat]
      <3>1. Less(grown[site[a]], size[a]) \in Nat
        BY <1>3, <1>7, Figure
      <3> QED BY <1>3, <1>7, <1>8, <3>1
    <2>2. 0 \in 0..MaxSize
      BY DebuggerAssumption
    <2>3. site' \in [Addresses -> Sites \cup {None}] /\ size' \in [Addresses -> 0..MaxSize]
      BY <1>1, <1>2, <1>3, <2>2 DEF TypeOK
    <2>4. heap' \in SUBSET Addresses
      BY <1>1, <1>2 DEF TypeOK
    <2> QED BY <1>4, <1>5, <1>6, <2>1, <2>3, <2>4
          DEF TypeOK, Stats, Realloc, threads
  <1>10. Owned'
    <2>1. Tracked' = (Tracked \cup {b}) \ {a}
      BY <1>1, <1>2, <1>3, Typed, DebuggerAssumption DEF Tracked
    <2>2. foreign' = foreign
      BY DEF Realloc
    <2>3. Evicted \subseteq InRing \cup {None}
      BY DEF Evicted, InRing, TypeOK
    <2>4. None \notin heap /\ b # None
      BY <1>2, DebuggerAssumption DEF TypeOK
    <2> QED BY <1>1, <1>2, <1>3, <1>4, <2>1, <2>2, <2>3, <2>4 DEF Owned
  <1>11. Figures'
    <2> DEFINE si == [site EXCEPT ![b] = s]
               sz == [size EXCEPT ![b] = n]
    <2>1. /\ siteBytes \in [Sites -> Nat]
          /\ site \in [Addresses -> Sites \cup {None}]
          /\ size \in [Addresses -> 0..MaxSize]
      BY DEF TypeOK
    <2>2. Live(Added(stats, n), grown, si, sz)
      BY <1>2, <1>5, <2>1, Entered DEF Figures, grown
    <2>3. /\ si \in [Addresses -> Sites \cup {None}]
          /\ sz \in [Addresses -> 0..MaxSize]
          /\ si[a] = site[a] /\ sz[a] = size[a] /\ si[a] # None
      BY <1>2, <1>3, <2>1 DEF Tracked
    <2>4. site' = [si EXCEPT ![a] = None] /\ size' = [sz EXCEPT ![a] = 0]
      BY <1>1
    <2> HIDE DEF si, sz
    <2>5. Live(Dropped(Added(stats, n), sz[a]),
               [grown EXCEPT ![si[a]] = Less(@, sz[a])],
               [si EXCEPT ![a] = None], [sz EXCEPT ![a] = 0])
      BY <1>5, <1>7, <2>2, <2>3, Removed
    <2>6. stats' = Dropped(Added(stats, n), size[a])
      BY DEF Realloc
    <2> QED BY <1>8, <2>3, <2>4, <2>5, <2>6 DEF Figures
  <1>12. NoFalseAlarm' /\ Requested'
    BY DEF Realloc, threads, NoFalseAlarm, Requested
  <1> QED BY <1>4, <1>6, <1>9, <1>10, <1>11, <1>12

LEMMA ReallocToLibcHolds ==
  ASSUME IInv, NEW t \in Threads, NEW a \in Addresses, NEW n \in Size,
         ReallocToLibc(t, a, n)
  PROVE  IInv'
  <1> USE DEF IInv
  <1>1. PICK b \in Available :
          /\ heap' = (heap \cup {b}) \ Evicted
          /\ foreign' = foreign \cup {b}
    BY DEF ReallocToLibc
  <1>2. b \in Addresses /\ site[b] = None /\ b \notin InRing /\ b \notin foreign
    BY Nobodys
  <1>3. /\ a \in Tracked /\ Bury(a) /\ size[a] \in Nat /\ site[a] \in Sites
        /\ a # b /\ n \in Nat
    <2>1. a \in Tracked /\ Bury(a)
      BY DEF ReallocToLibc
    <2> QED BY <1>2, <2>1, Typed DEF Tracked
  <1>4. /\ Aged'
        /\ InRing' = (InRing \ Evicted) \cup {a}
        /\ \A i, j \in Slot : ring'[i] = ring'[j] => i = j \/ ring'[i] = None
        /\ ring' \in [Slot -> Addresses \cup {None}]
        /\ next' \in Slot
        /\ age' \in [Addresses -> 0..RingSize]
    BY <1>3, Buries
  <1>5. /\ stats \in Stats /\ Dropped(stats, size[a]) \in Stats /\ stats' \in Stats
        /\ stats'.count = stats.count + 1 /\ stats'.bytes = stats.bytes + n
    <2>1. stats \in Stats /\ stats' = Counted(Dropped(stats, size[a]), n)
      BY DEF TypeOK, Stats, ReallocToLibc
    <2>2. /\ Dropped(stats, size[a]) \in Stats
          /\ Dropped(stats, size[a]).count = stats.count
          /\ Dropped(stats, size[a]).bytes = stats.bytes
      BY <1>3, <2>1, StatsTypes
    <2>3. /\ Counted(Dropped(stats, size[a]), n) \in Stats
          /\ Counted(Dropped(stats, size[a]), n).count = Dropped(stats, size[a]).count + 1
          /\ Counted(Dropped(stats, size[a]), n).bytes = Dropped(stats, size[a]).bytes + n
      BY <1>3, <2>2, StatsTypes
    <2> QED BY <2>1, <2>2, <2>3
  <1>6. /\ Intervals'
        /\ largest' \in [Contexts -> Nat]
        /\ since' \in [Contexts -> [count : Nat, bytes : Nat, largest : Nat]]
    <2>1. Measure(n) /\ UNCHANGED <<nodes, baseline, measuring, disturbed>>
      BY DEF ReallocToLibc
    <2> QED BY <1>3, <1>5, <2>1, Measures
  <1>7. TypeOK'
    <2>1. siteBytes' \in [Sites -> Nat]
      <3>1. Less(siteBytes[site[a]], size[a]) \in Nat
        BY <1>3, Figure DEF TypeOK
      <3> QED BY <1>3, <3>1 DEF TypeOK, ReallocToLibc
    <2>2. 0 \in 0..MaxSize
      BY DebuggerAssumption
    <2>3. heap' \in SUBSET Addresses /\ foreign' \in SUBSET Addresses
      BY <1>1, <1>2 DEF TypeOK
    <2> QED BY <1>4, <1>5, <1>6, <2>1, <2>2, <2>3
          DEF TypeOK, Stats, ReallocToLibc, threads
  <1>8. Owned'
    <2>1. Tracked' = Tracked \ {a}
      BY DEF Tracked, ReallocToLibc, TypeOK
    <2>2. Evicted \subseteq InRing \cup {None}
      BY DEF Evicted, InRing, TypeOK
    <2>3. None \notin heap /\ b # None /\ b \notin Tracked
      BY <1>2, DebuggerAssumption DEF TypeOK, Tracked
    <2> QED BY <1>1, <1>2, <1>3, <1>4, <2>1, <2>2, <2>3 DEF Owned
  <1>9. Figures'
    <2>1. /\ siteBytes \in [Sites -> Nat]
          /\ site \in [Addresses -> Sites \cup {None}]
          /\ size \in [Addresses -> 0..MaxSize]
          /\ site[a] # None
      BY <1>3 DEF TypeOK, Tracked
    <2>2. Live(Dropped(stats, size[a]),
               [siteBytes EXCEPT ![site[a]] = Less(@, size[a])],
               [site EXCEPT ![a] = None], [size EXCEPT ![a] = 0])
      BY <1>5, <2>1, Removed DEF Figures
    <2>3. Live(Counted(Dropped(stats, size[a]), n),
               [siteBytes EXCEPT ![site[a]] = Less(@, size[a])],
               [site EXCEPT ![a] = None], [size EXCEPT ![a] = 0])
      BY <1>3, <1>5, <2>2, CountedAlive
    <2> QED BY <2>3 DEF Figures, ReallocToLibc
  <1>10. NoFalseAlarm' /\ Requested'
    BY <1>1 DEF ReallocToLibc, threads, NoFalseAlarm, Requested
  <1> QED BY <1>4, <1>6, <1>7, <1>8, <1>9, <1>10

(* A block that is in no table goes back to libc: the ring does not know   *)
(* it.                                                                     *)
LEMMA FreeForeignHolds ==
  ASSUME IInv, NEW t \in Threads, NEW a \in Addresses, FreeForeign(t, a)
  PROVE  IInv'
  <1> USE DEF IInv
  <1>1. a \in foreign /\ a \notin InRing /\ a \notin Tracked
    BY DEF FreeForeign, Owned
  <1>2. /\ heap' = heap \ {a} /\ foreign' = foreign \ {a}
        /\ UNCHANGED <<active, table, stats, measures, threads, halted>>
    BY <1>1 DEF FreeForeign
  <1>3. TypeOK'
    BY <1>2 DEF TypeOK, table, measures, threads
  <1>4. Owned'
    BY <1>1, <1>2 DEF Owned, Tracked, InRing, table
  <1>5. Requested'
    BY <1>2 DEF FreeForeign, Mine, Requested, threads
  <1> QED BY <1>2, <1>3, <1>4, <1>5
        DEF table, measures, Figures, NoFalseAlarm, Aged, Back, Intervals

LEMMA BypassHolds ==
  ASSUME IInv, NEW t \in Threads, NEW n \in Size, NEW old \in foreign \cup {None},
         Bypass(t, n, old)
  PROVE  IInv'
  <1> USE DEF IInv
  <1>1. /\ pc' = [pc EXCEPT ![t] = "libc"]
        /\ request' = [request EXCEPT ![t] = [size |-> n, old |-> old]]
        /\ UNCHANGED <<active, heap, table, stats, measures, halted, foreign>>
        /\ old # None => \A u \in Threads : request[u].old # old
    BY DEF Bypass, Mine
  <1>2. n \in 0..MaxSize /\ old \in Addresses \cup {None}
    BY Typed DEF TypeOK
  <1>3. pc' \in [Threads -> {"idle", "libc", "count"}]
    BY <1>1 DEF TypeOK
  <1>4. request' \in [Threads -> [size : 0..MaxSize, old : Addresses \cup {None}]]
    BY <1>1, <1>2 DEF TypeOK
  <1>5. TypeOK'
    BY <1>1, <1>3, <1>4 DEF TypeOK, table, measures
  <1>6. Requested'
    <2>1. /\ request'[t].old = old /\ pc'[t] = "libc"
          /\ \A u \in Threads \ {t} : request'[u] = request[u] /\ pc'[u] = pc[u]
      BY <1>1 DEF TypeOK
    <2> QED BY <1>1, <2>1 DEF Requested
  <1> QED BY <1>1, <1>5, <1>6
        DEF table, measures, Owned, Tracked, InRing, Figures, NoFalseAlarm,
            Aged, Back, Intervals

(* libc returns a block nobody has, or the one the call holds.             *)
LEMMA LibcReturnsHolds ==
  ASSUME IInv, NEW t \in Threads, LibcReturns(t)
  PROVE  IInv'
  <1> USE DEF IInv
  <1> DEFINE old == {request[t].old} \ {None}
  <1>1. PICK b \in Available \cup old :
          heap' = (heap \ old) \cup {b} /\ foreign' = (foreign \ old) \cup {b}
    BY DEF LibcReturns
  <1>2. /\ pc' = [pc EXCEPT ![t] = "count"]
        /\ request' = [request EXCEPT ![t].old = None]
        /\ UNCHANGED <<active, table, stats, measures, halted>>
    BY DEF LibcReturns
  <1>3. old \subseteq foreign
    BY DEF Requested
  <1>4. b \in Addresses /\ b \notin Tracked /\ b \notin InRing
    <2>1. CASE b \in Available
      BY <2>1, Nobodys DEF Tracked
    <2>2. CASE b \in old
      BY <1>3, <2>2 DEF Owned, TypeOK
    <2> QED BY <2>1, <2>2
  <1>5. /\ \A u \in Threads : request[u].old \in Addresses \cup {None}
        /\ request'[t].old = None
        /\ \A u \in Threads \ {t} : request'[u] = request[u] /\ pc'[u] = pc[u]
    BY <1>2 DEF TypeOK
  <1>6. TypeOK'
    <2>1. request' \in [Threads -> [size : 0..MaxSize, old : Addresses \cup {None}]]
      BY <1>2 DEF TypeOK
    <2>2. pc' \in [Threads -> {"idle", "libc", "count"}]
      BY <1>2 DEF TypeOK
    <2>3. heap' \in SUBSET Addresses /\ foreign' \in SUBSET Addresses
      BY <1>1, <1>4 DEF TypeOK
    <2> QED BY <1>2, <2>1, <2>2, <2>3 DEF TypeOK, table, measures
  <1>7. Owned'
    <2>1. Tracked' = Tracked /\ InRing' = InRing /\ ring' = ring
      BY <1>2 DEF Tracked, InRing, table
    <2>2. old \cap Tracked = {} /\ old \cap InRing = {}
      BY <1>3 DEF Owned
    <2> HIDE DEF old
    <2> QED BY <1>1, <1>4, <2>1, <2>2 DEF Owned
  <1>8. Requested'
    <2>1. ASSUME NEW u \in Threads, request'[u].old # None
          PROVE  pc'[u] = "libc" /\ request'[u].old \in foreign'
      <3>1. u # t /\ request[u].old # None
        BY <1>5, <2>1
      <3>2. request[u].old \in foreign /\ request[u].old # request[t].old
        BY <3>1 DEF Requested
      <3>3. request[u].old \in foreign'
        BY <1>1, <3>2
      <3> QED BY <1>5, <3>1, <3>3 DEF Requested
    <2>2. ASSUME NEW u \in Threads, NEW v \in Threads,
                 request'[u].old = request'[v].old
          PROVE  u = v \/ request'[u].old = None
      BY <1>5, <2>2 DEF Requested
    <2> QED BY <2>1, <2>2 DEF Requested
  <1> QED BY <1>2, <1>6, <1>7, <1>8
        DEF table, measures, Figures, NoFalseAlarm, Aged, Back, Intervals

(* A call that is over holds nothing.                                      *)
LEMMA Finishes ==
  ASSUME TypeOK, Requested, NEW t \in Threads, Finish(t), foreign' = foreign
  PROVE  /\ Requested'
         /\ pc' \in [Threads -> {"idle", "libc", "count"}]
         /\ request' \in [Threads -> [size : 0..MaxSize, old : Addresses \cup {None}]]
  <1>1. /\ request'[t].old = None
        /\ \A u \in Threads \ {t} : request'[u] = request[u] /\ pc'[u] = pc[u]
    BY DEF Finish, TypeOK, NoRequest
  <1>2. NoRequest \in [size : 0..MaxSize, old : Addresses \cup {None}]
    BY DebuggerAssumption DEF NoRequest
  <1>3. request' \in [Threads -> [size : 0..MaxSize, old : Addresses \cup {None}]]
    BY <1>2 DEF Finish, TypeOK
  <1>4. pc' \in [Threads -> {"idle", "libc", "count"}]
    BY DEF Finish, TypeOK
  <1> QED BY <1>1, <1>3, <1>4 DEF Requested

LEMMA CountBypassedHolds ==
  ASSUME IInv, NEW t \in Threads, CountBypassed(t)
  PROVE  IInv'
  <1> USE DEF IInv
  <1> DEFINE n == request[t].size
  <1>1. n \in Nat
    <2>1. n \in 0..MaxSize
      BY DEF TypeOK
    <2> QED BY <2>1, DebuggerAssumption
  <1>2. /\ stats' = Counted(stats, n) /\ Measure(n) /\ Finish(t)
        /\ UNCHANGED <<active, heap, table, nodes, baseline, halted, foreign,
                       measuring, disturbed>>
    BY DEF CountBypassed
  <1> HIDE DEF n
  <1>3. /\ stats \in Stats /\ stats' \in Stats
        /\ stats'.count = stats.count + 1 /\ stats'.bytes = stats.bytes + n
    <2>1. stats \in Stats
      BY DEF TypeOK, Stats
    <2> QED BY <1>1, <1>2, <2>1, StatsTypes
  <1>4. /\ Intervals'
        /\ largest' \in [Contexts -> Nat]
        /\ since' \in [Contexts -> [count : Nat, bytes : Nat, largest : Nat]]
    BY <1>1, <1>2, <1>3, Measures
  <1>5. /\ Requested'
        /\ pc' \in [Threads -> {"idle", "libc", "count"}]
        /\ request' \in [Threads -> [size : 0..MaxSize, old : Addresses \cup {None}]]
    BY <1>2, Finishes
  <1>6. TypeOK'
    BY <1>2, <1>3, <1>4, <1>5 DEF TypeOK, Stats, table
  <1>7. Figures'
    <2>1. Live(Counted(stats, n), siteBytes, site, size)
      BY <1>1, <1>3, CountedAlive DEF Figures
    <2> QED BY <1>2, <2>1 DEF Figures, table
  <1>8. Owned' /\ Aged'
    BY <1>2, TableKept
  <1>9. NoFalseAlarm'
    BY <1>2 DEF NoFalseAlarm
  <1> QED BY <1>4, <1>5, <1>6, <1>7, <1>8, <1>9

(* A reset keeps what is live; every open interval is disturbed.           *)
LEMMA ResetHolds ==
  ASSUME IInv, NEW t \in Threads, Reset(t)
  PROVE  IInv'
  <1> USE DEF IInv
  <1>1. /\ stats' = Cleared /\ disturbed' = measuring
        /\ UNCHANGED <<active, heap, table, nodes, largest, baseline, threads,
                       halted, foreign, measuring, since>>
    BY DEF Reset
  <1>2. stats \in Stats
    BY DEF TypeOK, Stats
  <1>3. /\ stats' \in Stats
        /\ stats'.liveBlocks = stats.liveBlocks
        /\ stats'.liveBytes = stats.liveBytes
        /\ stats'.peakBytes = stats.liveBytes
    BY <1>1, <1>2 DEF Cleared, Stats
  <1>4. TypeOK'
    BY <1>1, <1>3 DEF TypeOK, Stats, table, threads
  <1>5. Figures'
    <2>1. stats.liveBytes <= stats.liveBytes
      BY <1>2 DEF Stats
    <2> QED BY <1>1, <1>3, <2>1 DEF Figures, Live, table
  <1>6. Intervals'
    BY <1>1 DEF Intervals
  <1>7. Owned' /\ Aged' /\ Requested'
    BY <1>1, TableKept, RequestsKept
  <1>8. NoFalseAlarm'
    BY <1>1 DEF NoFalseAlarm
  <1> QED BY <1>4, <1>5, <1>6, <1>7, <1>8

(* An interval begins at the present counts, with nothing seen.            *)
LEMMA MeasurementBeginHolds ==
  ASSUME IInv, NEW t \in Threads, NEW c \in Contexts, MeasurementBegin(t, c)
  PROVE  IInv'
  <1> USE DEF IInv
  <1>1. /\ baseline' = [baseline EXCEPT ![c] = [count |-> stats.count, bytes |-> stats.bytes]]
        /\ nodes' \in {nodes, nodes \cup {c}}
        /\ largest' = [largest EXCEPT ![c] = 0]
        /\ measuring' = measuring \cup {c}
        /\ since' = [since EXCEPT ![c] = NoEvents]
        /\ disturbed' = disturbed \ {c}
        /\ UNCHANGED <<active, heap, table, stats, threads, halted, foreign>>
    BY DEF MeasurementBegin, Restarted
  <1>2. /\ stats.count \in Nat /\ stats.bytes \in Nat
        /\ NoEvents \in [count : Nat, bytes : Nat, largest : Nat]
    BY DEF TypeOK, NoEvents
  <1>3. /\ baseline' \in [Contexts -> [count : Nat, bytes : Nat]]
        /\ largest' \in [Contexts -> Nat]
        /\ since' \in [Contexts -> [count : Nat, bytes : Nat, largest : Nat]]
    BY <1>1, <1>2 DEF TypeOK
  <1>4. TypeOK'
    BY <1>1, <1>3 DEF TypeOK, table, threads
  <1>5. /\ baseline'[c].count = stats.count /\ baseline'[c].bytes = stats.bytes
        /\ largest'[c] = 0
        /\ since'[c].count = 0 /\ since'[c].bytes = 0 /\ since'[c].largest = 0
        /\ \A d \in Contexts \ {c} :
             /\ baseline'[d] = baseline[d] /\ since'[d] = since[d]
             /\ largest'[d] = largest[d]
    BY <1>1 DEF TypeOK, NoEvents
  <1>6. Intervals'
    <2>1. ASSUME NEW d \in measuring'
          PROVE  /\ d \notin disturbed' =>
                      /\ stats'.count = baseline'[d].count + since'[d].count
                      /\ stats'.bytes = baseline'[d].bytes + since'[d].bytes
                 /\ d \in nodes' => largest'[d] = since'[d].largest
      <3>1. CASE d = c
        BY <1>1, <1>2, <1>5, <3>1
      <3>2. CASE d # c
        <4>1. /\ d \in measuring /\ d \in Contexts
              /\ d \in nodes' => d \in nodes
              /\ d \notin disturbed' => d \notin disturbed
          BY <1>1, <2>1, <3>2 DEF TypeOK
        <4> QED BY <1>1, <1>5, <3>2, <4>1 DEF Intervals
      <3> QED BY <3>1, <3>2
    <2> QED BY <2>1 DEF Intervals
  <1>7. Owned' /\ Aged' /\ Figures' /\ Requested'
    BY <1>1, TableKept, FiguresKept, RequestsKept
  <1>8. NoFalseAlarm'
    BY <1>1 DEF NoFalseAlarm
  <1> QED BY <1>4, <1>6, <1>7, <1>8

LEMMA MeasurementEndHolds ==
  ASSUME IInv, NEW t \in Threads, NEW c \in Contexts, MeasurementEnd(t, c)
  PROVE  IInv'
  <1> USE DEF IInv
  <1>1. /\ nodes' = nodes \ {c}
        /\ largest' = [largest EXCEPT ![c] = 0]
        /\ measuring' = measuring \ {c}
        /\ since' = [since EXCEPT ![c] = NoEvents]
        /\ disturbed' = disturbed \ {c}
        /\ UNCHANGED <<active, heap, table, stats, baseline, threads, halted, foreign>>
    BY DEF MeasurementEnd
  <1>2. NoEvents \in [count : Nat, bytes : Nat, largest : Nat]
    BY DEF NoEvents
  <1>3. /\ largest' \in [Contexts -> Nat]
        /\ since' \in [Contexts -> [count : Nat, bytes : Nat, largest : Nat]]
    BY <1>1, <1>2 DEF TypeOK
  <1>4. TypeOK'
    BY <1>1, <1>3 DEF TypeOK, table, threads
  <1>5. \A d \in Contexts \ {c} : since'[d] = since[d] /\ largest'[d] = largest[d]
    BY <1>1 DEF TypeOK
  <1>6. Intervals'
    <2>1. \A d \in measuring' : d \in measuring /\ d \in Contexts \ {c}
      BY <1>1 DEF TypeOK
    <2> QED BY <1>1, <1>5, <2>1 DEF Intervals
  <1>7. Owned' /\ Aged' /\ Figures' /\ Requested'
    BY <1>1, TableKept, FiguresKept, RequestsKept
  <1>8. NoFalseAlarm'
    BY <1>1 DEF NoFalseAlarm
  <1> QED BY <1>4, <1>6, <1>7, <1>8

(* Steps that change no more than the switch, or why the program ended.    *)
LEMMA Quiet ==
  ASSUME IInv, UNCHANGED <<heap, table, stats, measures, threads, foreign>>,
         active' \in BOOLEAN,
         halted' \in {"no", "memory", "double free", "realloc"},
         halted' # "double free"
  PROVE  IInv'
  <1>1. TypeOK'
    BY DEF IInv, TypeOK, table, measures, threads
  <1>2. Owned' /\ Aged' /\ Figures' /\ Requested' /\ Intervals'
    BY TableKept, FiguresKept, RequestsKept, IntervalsKept DEF IInv
  <1> QED BY <1>1, <1>2 DEF IInv, NoFalseAlarm

(* Every step of every thread.                                             *)
LEMMA StepHolds ==
  ASSUME IInv, [Next]_vars
  PROVE  IInv'
  <1> USE DEF IInv
  <1>1. ASSUME NEW t \in Threads, OutOfMemory(t)
        PROVE  IInv'
    <2>1. /\ UNCHANGED <<heap, table, stats, measures, threads, foreign>>
          /\ active' \in BOOLEAN
          /\ halted' \in {"no", "memory", "double free", "realloc"}
          /\ halted' # "double free"
      BY <1>1 DEF OutOfMemory, TypeOK, NoFalseAlarm
    <2> QED BY <2>1, Quiet
  <1>2. ASSUME NEW t \in Threads, NEW a \in Addresses, ReallocForeign(t, a)
        PROVE  IInv'
    <2>1. /\ UNCHANGED <<heap, table, stats, measures, threads, foreign>>
          /\ active' \in BOOLEAN
          /\ halted' \in {"no", "memory", "double free", "realloc"}
          /\ halted' # "double free"
      BY <1>2 DEF ReallocForeign, TypeOK, NoFalseAlarm
    <2> QED BY <2>1, Quiet
  <1>3. ASSUME NEW t \in Threads, SetActive(t)
        PROVE  IInv'
    <2>1. /\ UNCHANGED <<heap, table, stats, measures, threads, foreign>>
          /\ active' \in BOOLEAN
          /\ halted' \in {"no", "memory", "double free", "realloc"}
          /\ halted' # "double free"
      BY <1>3 DEF SetActive, TypeOK, NoFalseAlarm
    <2> QED BY <2>1, Quiet
  <1>4. ASSUME NEW t \in Threads, LibcFails(t)
        PROVE  IInv'
    <2>1. /\ Finish(t) /\ UNCHANGED <<active, heap, table, stats, measures, halted, foreign>>
          /\ TypeOK /\ Requested
      BY <1>4 DEF LibcFails, IInv
    <2>2. /\ Requested'
          /\ pc' \in [Threads -> {"idle", "libc", "count"}]
          /\ request' \in [Threads -> [size : 0..MaxSize, old : Addresses \cup {None}]]
      BY <2>1, Finishes
    <2>3. TypeOK'
      BY <2>1, <2>2 DEF TypeOK, table, measures
    <2>4. Owned' /\ Aged' /\ Figures' /\ Intervals' /\ NoFalseAlarm'
      BY <2>1, TableKept, FiguresKept, IntervalsKept DEF IInv, NoFalseAlarm
    <2> QED BY <2>2, <2>3, <2>4 DEF IInv
  <1>5. CASE UNCHANGED vars
    <2>1. /\ UNCHANGED <<heap, table, stats, measures, threads, foreign>>
          /\ active' \in BOOLEAN
          /\ halted' \in {"no", "memory", "double free", "realloc"}
          /\ halted' # "double free"
      BY <1>5 DEF vars, table, measures, threads, TypeOK, NoFalseAlarm
    <2> QED BY <2>1, Quiet
  <1>6. CASE Next
    BY <1>1, <1>2, <1>3, <1>4, <1>6, MallocHolds, FreeHolds, ReallocHolds,
       ReallocToLibcHolds, FreeForeignHolds, BypassHolds, LibcReturnsHolds,
       CountBypassedHolds, ResetHolds, MeasurementBeginHolds, MeasurementEndHolds
       DEF Next
  <1> QED BY <1>5, <1>6

-----------------------------------------------------------------------------
(* The theorems.                                                           *)

THEOREM Invariance == Spec => []IInv
  <1>1. IInv /\ [Next]_vars => IInv'
    BY StepHolds
  <1> QED BY InitHolds, <1>1, PTL DEF Spec

(* Every variable keeps its type; the ring's index stays inside the ring.  *)
THEOREM TypeCorrect == Spec => []TypeOK
  <1>1. IInv => TypeOK
    BY DEF IInv
  <1> QED BY Invariance, <1>1, PTL

(* Every block libc has given out is tracked, in the ring or with the      *)
(* program, and in one of the three.                                       *)
THEOREM OwnedAlways == Spec => []Owned
  <1>1. IInv => Owned
    BY DEF IInv
  <1> QED BY Invariance, <1>1, PTL

(* The live figures are those of the blocks in the table.                  *)
THEOREM LiveExactAlways == Spec => []LiveExact
  <1>1. IInv => LiveExact
    <2> SUFFICES ASSUME IInv
                 PROVE  LiveExact
      OBVIOUS
    <2>1. Tracked = Entries(site)
      BY DEF Tracked, Entries
    <2>2. \A S : Bytes(S) = Cardinality(Cells(S, size))
      BY DEF Bytes, Cells
    <2>3. \A s \in Sites : {a \in Tracked : site[a] = s} = At(site, s)
      BY <2>1 DEF At
    <2> QED BY <2>1, <2>2, <2>3 DEF IInv, Figures, Live, LiveExact
  <1> QED BY Invariance, <1>1, PTL

(* No correct free is taken for a double free.                             *)
THEOREM NoFalseAlarmAlways == Spec => []NoFalseAlarm
  <1>1. IInv => NoFalseAlarm
    BY DEF IInv
  <1> QED BY Invariance, <1>1, PTL

(* The last RingSize blocks freed are in the ring.                         *)
THEOREM RetainedAlways == Spec => []Retained
  <1>1. IInv => Retained
    <2> SUFFICES ASSUME IInv, NEW a \in Addresses, age[a] < RingSize
                 PROVE  a \in InRing
      BY DEF Retained
    <2>1. age[a] \in 0..RingSize /\ next \in Slot
      BY DEF IInv, TypeOK
    <2>2. Back(age[a]) \in Slot
      BY <2>1, DebuggerAssumption DEF Back, Slot
    <2>3. ring[Back(age[a])] = a /\ a # None
      BY DebuggerAssumption DEF IInv, Aged
    <2> QED BY <2>2, <2>3 DEF InRing
  <1> QED BY Invariance, <1>1, PTL

(* A measurement reports exactly what happened in its interval.            *)
THEOREM MeasuredExactly == Spec => []Measured
  <1>1. IInv => Measured
    <2> SUFFICES ASSUME IInv, NEW c \in measuring
                 PROVE  /\ c \notin disturbed =>
                             /\ Report(c).count = since[c].count
                             /\ Report(c).bytes = since[c].bytes
                        /\ c \in nodes => Report(c).largest = since[c].largest
      BY DEF Measured
    <2>1. \A d \in Contexts : /\ baseline[d].count \in Nat
                              /\ baseline[d].bytes \in Nat
                              /\ since[d].count \in Nat
                              /\ since[d].bytes \in Nat
      BY DEF IInv, TypeOK
    <2>2. c \in Contexts
      BY DEF IInv, TypeOK
    <2>3. \A m, n \in Nat : Less(m + n, m) = n
      BY DEF Less
    <2>4. /\ Report(c).count = Less(stats.count, baseline[c].count)
          /\ Report(c).bytes = Less(stats.bytes, baseline[c].bytes)
          /\ c \in nodes => Report(c).largest = largest[c]
      BY DEF Report
    <2> QED BY <2>1, <2>2, <2>3, <2>4 DEF IInv, Intervals
  <1> QED BY Invariance, <1>1, PTL
=============================================================================

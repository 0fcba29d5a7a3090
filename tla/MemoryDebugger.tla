--------------------------- MODULE MemoryDebugger ---------------------------
(***************************************************************************)
(* The memory debugger (n_debug.c), which stands between the program's     *)
(* malloc, calloc, realloc and free and those of libc.  While it is active *)
(* a block is tracked: entered in the table of its call site and counted.  *)
(* While it is suspended a block comes straight from libc and is only      *)
(* counted, so the debugger later meets blocks it has never seen.  A freed *)
(* tracked block is not given back to libc but kept in a ring, where a     *)
(* second free of it is recognised, until later frees push it out.         *)
(*                                                                         *)
(* Each call holds the debugger's lock from end to end, except that        *)
(* suspended calls leave it to call libc and take it again to count: only  *)
(* these are several actions.  A call that fails for lack of memory        *)
(* changes nothing, or aborts.  The program is correct: it frees and       *)
(* reallocates blocks it holds, one thread at a time.                      *)
(*                                                                         *)
(* Guard bytes, comments, the log and the printed reports are left out.    *)
(***************************************************************************)
EXTENDS Integers, FiniteSets

CONSTANTS Threads,
          Addresses,   \* what libc may return
          None,        \* no address, no call site
          Sites,       \* the file and line of a call
          MaxSize,     \* a block has 1..MaxSize bytes
          RingSize,    \* NEXUS_MEMORY_FREE_POINTER_BUFFER_SIZE (1024)
          Contexts,    \* measurement contexts
          MaxEvents    \* bound: allocations counted between two resets, or
                       \* within one measurement

ASSUME DebuggerAssumption ==
  /\ None \notin Addresses /\ None \notin Sites
  /\ IsFiniteSet(Addresses)
  /\ MaxSize \in Nat
  /\ RingSize \in Nat \ {0}
  /\ MaxEvents \in Nat

VARIABLES
  active,      \* nexus_memory_active
  heap,        \* libc: the addresses it has given out
  site,        \* n_alloc_lines: the call site an address is tracked under
  size,        \* the size recorded there
  siteBytes,   \* per call site: its size field
  ring,        \* n_freed_memory: the pointer of every record
  next,        \* n_freed_memory_count, as the index it selects
  stats,       \* n_mem_stats_*
  nodes,       \* n_mem_measurements: the contexts that have a node
  largest,     \* largest_allocation_bytes of a context's node
  baseline,    \* what measurement_begin wrote into a context
  pc,          \* per thread: "idle", or where its suspended call is
  request,     \* per thread: the size, and the old block, of that call
  halted,      \* why abort() was called, or "no"
  foreign,     \* history: blocks the program holds that are not tracked
  measuring,   \* history: contexts between begin and end
  since,       \* history: what was allocated since a context's begin
  disturbed,   \* history: contexts that saw a reset since their begin
  age          \* history: how many tracked blocks were freed since this one
               \* was, RingSize for many or if it was not freed

table    == <<site, size, siteBytes, ring, next, age>>
measures == <<nodes, largest, baseline, measuring, since, disturbed>>
threads  == <<pc, request>>
vars     == <<active, heap, site, size, siteBytes, ring, next, stats,
              nodes, largest, baseline, pc, request, halted, foreign,
              measuring, since, disturbed, age>>

Size == 1..MaxSize
Slot == 0..(RingSize - 1)

NoRequest == [size |-> 0, old |-> None]
NoEvents  == [count |-> 0, bytes |-> 0, largest |-> 0]

Init ==
  /\ active = TRUE
  /\ heap = {}
  /\ site = [a \in Addresses |-> None]
  /\ size = [a \in Addresses |-> 0]
  /\ siteBytes = [s \in Sites |-> 0]
  /\ ring = [i \in Slot |-> None]
  /\ next = 0
  /\ stats = [liveBytes |-> 0, liveBlocks |-> 0, peakBytes |-> 0,
              count |-> 0, bytes |-> 0, largest |-> 0]
  /\ nodes = {}
  /\ largest = [c \in Contexts |-> 0]
  /\ baseline = [c \in Contexts |-> [count |-> 0, bytes |-> 0]]
  /\ pc = [t \in Threads |-> "idle"]
  /\ request = [t \in Threads |-> NoRequest]
  /\ halted = "no"
  /\ foreign = {}
  /\ measuring = {}
  /\ since = [c \in Contexts |-> NoEvents]
  /\ disturbed = {}
  /\ age = [a \in Addresses |-> RingSize]

Larger(m, n) == IF m < n THEN n ELSE m
Less(m, n)   == IF m >= n THEN m - n ELSE 0

Tracked   == {a \in Addresses : site[a] # None}
InRing    == {ring[i] : i \in Slot} \ {None}
Available == Addresses \ heap

-----------------------------------------------------------------------------
(* Counting.                                                               *)

(* One more allocation, tracked or not (..._on_untracked_alloc).           *)
Counted(s, n) ==
  [s EXCEPT !.count = @ + 1, !.bytes = @ + n, !.largest = Larger(@, n)]

(* A tracked one (..._on_alloc).                                           *)
Added(s, n) ==
  [Counted(s, n) EXCEPT !.liveBytes  = @ + n,
                        !.liveBlocks = @ + 1,
                        !.peakBytes  = Larger(@, s.liveBytes + n)]

(* A tracked block freed (..._on_free).                                    *)
Dropped(s, n) ==
  [s EXCEPT !.liveBytes = Less(@, n), !.liveBlocks = Less(@, 1)]

(* Every open interval sees the allocation.                                *)
Measure(n) ==
  /\ largest' = [c \in Contexts |->
                   IF c \in nodes THEN Larger(largest[c], n) ELSE largest[c]]
  /\ since' = [c \in Contexts |->
                 IF c \in measuring THEN Counted(since[c], n) ELSE since[c]]

Room ==
  /\ stats.count < MaxEvents
  /\ \A c \in measuring : since[c].count < MaxEvents

-----------------------------------------------------------------------------
Idle(t) == halted = "no" /\ pc[t] = "idle"

(* A block the thread may pass to free or realloc: nobody else is doing so. *)
Mine(a) == \A u \in Threads : request[u].old # a

(* nexus_debug_mem_malloc and _calloc, active: libc has memory, and the    *)
(* tables could grow (nexus_debug_mem_add_unlocked).                       *)
Malloc(t, n, s) ==
  /\ Idle(t) /\ active /\ Room
  /\ \E a \in Available :
       /\ heap' = heap \cup {a}
       /\ site' = [site EXCEPT ![a] = s]
       /\ size' = [size EXCEPT ![a] = n]
  /\ siteBytes' = [siteBytes EXCEPT ![s] = @ + n]
  /\ stats' = Added(stats, n)
  /\ Measure(n)
  /\ UNCHANGED <<active, ring, next, age, nodes, baseline, threads, halted,
                 foreign, measuring, disturbed>>

(* NEXUS_MEMORY_NULL_ALLOCATION_ERROR, or a table that cannot grow.        *)
OutOfMemory(t) ==
  /\ Idle(t) /\ active
  /\ halted' = "memory"
  /\ UNCHANGED <<active, heap, table, stats, measures, threads, foreign>>

(* Mutants: the index stays; it is not wrapped. *)
AdvanceNot       == next
AdvanceUnwrapped == next + 1
Advance          == (next + 1) % RingSize

(* Mutants: the next record's block is evicted; no block is. *)
EvictedNext    == {ring[(next + 1) % RingSize]}
EvictedNothing == {}

(* What libc gets back when a tracked block is freed: the block of the     *)
(* oldest record.                                                          *)
Evicted == {ring[next]}

(* The end of nexus_debug_mem_remove_unlocked for a tracked block.         *)
Bury(a) ==
  /\ ring' = [ring EXCEPT ![next] = a]
  /\ next' = Advance
  /\ age' = [b \in Addresses |->
               IF b = a THEN 0
               ELSE IF age[b] < RingSize THEN age[b] + 1 ELSE RingSize]

Free(t, a) ==
  /\ Idle(t) /\ a \in Tracked
  /\ heap' = heap \ Evicted
  /\ site' = [site EXCEPT ![a] = None]
  /\ size' = [size EXCEPT ![a] = 0]
  /\ siteBytes' = [siteBytes EXCEPT ![site[a]] = Less(@, size[a])]
  /\ Bury(a)
  /\ stats' = Dropped(stats, size[a])
  /\ UNCHANGED <<active, measures, threads, halted, foreign>>

(* nexus_debug_mem_free of a block that is in no table: if the ring knows  *)
(* it, it must be a double free.                                           *)
FreeForeign(t, a) ==
  /\ Idle(t) /\ a \in foreign /\ Mine(a)
  /\ IF a \in InRing
     THEN halted' = "double free" /\ UNCHANGED <<heap, foreign>>
     ELSE /\ heap' = heap \ {a}
          /\ foreign' = foreign \ {a}
          /\ UNCHANGED halted
  /\ UNCHANGED <<active, table, stats, measures, threads>>

(* nexus_debug_mem_realloc, active: the new block is entered before the    *)
(* old one is removed.                                                     *)
Realloc(t, a, n, s) ==
  /\ Idle(t) /\ active /\ a \in Tracked /\ Room
  /\ \E b \in Available :
       /\ heap' = (heap \cup {b}) \ Evicted
       /\ site' = [site EXCEPT ![b] = s, ![a] = None]
       /\ size' = [size EXCEPT ![b] = n, ![a] = 0]
  /\ LET grown == [siteBytes EXCEPT ![s] = @ + n]
     IN  siteBytes' = [grown EXCEPT ![site[a]] = Less(@, size[a])]
  /\ Bury(a)
  /\ stats' = Dropped(Added(stats, n), size[a])
  /\ Measure(n)
  /\ UNCHANGED <<active, nodes, baseline, threads, halted, foreign, measuring,
                 disturbed>>

(* nexus_debug_mem_realloc, suspended, of a tracked block: it moves to an  *)
(* untracked one.                                                          *)
ReallocToLibc(t, a, n) ==
  /\ Idle(t) /\ ~active /\ a \in Tracked /\ Room
  /\ \E b \in Available :
       /\ heap' = (heap \cup {b}) \ Evicted
       /\ foreign' = foreign \cup {b}
  /\ site' = [site EXCEPT ![a] = None]
  /\ size' = [size EXCEPT ![a] = 0]
  /\ siteBytes' = [siteBytes EXCEPT ![site[a]] = Less(@, size[a])]
  /\ Bury(a)
  /\ stats' = Counted(Dropped(stats, size[a]), n)
  /\ Measure(n)
  /\ UNCHANGED <<active, nodes, baseline, threads, halted, measuring, disturbed>>

(* nexus_debug_mem_realloc, active, of a block that is in no table.        *)
ReallocForeign(t, a) ==
  /\ Idle(t) /\ active /\ a \in foreign /\ Mine(a)
  /\ halted' = "realloc"
  /\ UNCHANGED <<active, heap, table, stats, measures, threads, foreign>>

(* malloc, calloc, and realloc of an untracked block, suspended: the call  *)
(* leaves the lock ...                                                     *)
Bypass(t, n, old) ==
  /\ Idle(t) /\ ~active
  /\ old # None => old \in foreign /\ Mine(old)
  /\ pc' = [pc EXCEPT ![t] = "libc"]
  /\ request' = [request EXCEPT ![t] = [size |-> n, old |-> old]]
  /\ UNCHANGED <<active, heap, table, stats, measures, halted, foreign>>

Finish(t) ==
  /\ pc' = [pc EXCEPT ![t] = "idle"]
  /\ request' = [request EXCEPT ![t] = NoRequest]

(* ... calls libc, which may return the old block grown in place ...       *)
LibcReturns(t) ==
  /\ halted = "no" /\ pc[t] = "libc"
  /\ LET old == {request[t].old} \ {None} IN
     \E b \in Available \cup old :
       /\ heap' = (heap \ old) \cup {b}
       /\ foreign' = (foreign \ old) \cup {b}
  /\ pc' = [pc EXCEPT ![t] = "count"]
  /\ request' = [request EXCEPT ![t].old = None]
  /\ UNCHANGED <<active, table, stats, measures, halted>>

LibcFails(t) ==
  /\ halted = "no" /\ pc[t] = "libc"
  /\ Finish(t)
  /\ UNCHANGED <<active, heap, table, stats, measures, halted, foreign>>

(* ... and takes the lock again to count.                                  *)
CountBypassed(t) ==
  /\ halted = "no" /\ pc[t] = "count" /\ Room
  /\ stats' = Counted(stats, request[t].size)
  /\ Measure(request[t].size)
  /\ Finish(t)
  /\ UNCHANGED <<active, heap, table, nodes, baseline, halted, foreign,
                 measuring, disturbed>>

(* nexus_debug_mem_active_exchange.                                        *)
SetActive(t) ==
  /\ Idle(t)
  /\ active' = ~active
  /\ UNCHANGED <<heap, table, stats, measures, threads, halted, foreign>>

(* Mutant: a reset clears the live figures too. *)
ClearedWithLive == [stats EXCEPT !.liveBytes = 0, !.liveBlocks = 0,
                                 !.peakBytes = 0, !.count = 0, !.bytes = 0, !.largest = 0]

Cleared == [stats EXCEPT !.peakBytes = stats.liveBytes,
                         !.count = 0, !.bytes = 0, !.largest = 0]

Reset(t) ==
  /\ Idle(t)
  /\ stats' = Cleared
  /\ disturbed' = measuring
  /\ UNCHANGED <<active, heap, table, nodes, largest, baseline, threads, halted,
                 foreign, measuring, since>>

(* Mutant: beginning again keeps what the context's node has seen. *)
RestartedKept(c) == IF c \in nodes THEN largest ELSE [largest EXCEPT ![c] = 0]

Restarted(c) == [largest EXCEPT ![c] = 0]

(* The node is found, or made; making it may fail, which is not reported.  *)
MeasurementBegin(t, c) ==
  /\ Idle(t)
  /\ baseline' = [baseline EXCEPT ![c] = [count |-> stats.count, bytes |-> stats.bytes]]
  /\ nodes' \in {nodes, nodes \cup {c}}
  /\ largest' = Restarted(c)
  /\ measuring' = measuring \cup {c}
  /\ since' = [since EXCEPT ![c] = NoEvents]
  /\ disturbed' = disturbed \ {c}
  /\ UNCHANGED <<active, heap, table, stats, threads, halted, foreign>>

(* What nexus_debug_mem_measurement_end reports.                           *)
Report(c) ==
  [count   |-> Less(stats.count, baseline[c].count),
   bytes   |-> Less(stats.bytes, baseline[c].bytes),
   largest |-> IF c \in nodes THEN largest[c] ELSE 0]

MeasurementEnd(t, c) ==
  /\ Idle(t) /\ c \in measuring
  /\ nodes' = nodes \ {c}
  /\ largest' = [largest EXCEPT ![c] = 0]
  /\ measuring' = measuring \ {c}
  /\ since' = [since EXCEPT ![c] = NoEvents]
  /\ disturbed' = disturbed \ {c}
  /\ UNCHANGED <<active, heap, table, stats, baseline, threads, halted, foreign>>

Next ==
  \E t \in Threads :
    \/ \E n \in Size, s \in Sites : Malloc(t, n, s)
    \/ \E a \in Addresses :
         \/ Free(t, a) \/ FreeForeign(t, a) \/ ReallocForeign(t, a)
         \/ \E n \in Size : ReallocToLibc(t, a, n)
         \/ \E n \in Size, s \in Sites : Realloc(t, a, n, s)
    \/ \E n \in Size, old \in foreign \cup {None} : Bypass(t, n, old)
    \/ LibcReturns(t) \/ LibcFails(t) \/ CountBypassed(t)
    \/ OutOfMemory(t) \/ SetActive(t) \/ Reset(t)
    \/ \E c \in Contexts : MeasurementBegin(t, c) \/ MeasurementEnd(t, c)

Spec == Init /\ [][Next]_vars
-----------------------------------------------------------------------------
(* Every variable has its type; the ring's index stays inside it.          *)
TypeOK ==
  /\ active \in BOOLEAN
  /\ heap \in SUBSET Addresses
  /\ site \in [Addresses -> Sites \cup {None}]
  /\ size \in [Addresses -> 0..MaxSize]
  /\ siteBytes \in [Sites -> Nat]
  /\ ring \in [Slot -> Addresses \cup {None}]
  /\ next \in Slot
  /\ stats \in [liveBytes : Nat, liveBlocks : Nat, peakBytes : Nat,
                count : Nat, bytes : Nat, largest : Nat]
  /\ nodes \in SUBSET Contexts
  /\ largest \in [Contexts -> Nat]
  /\ baseline \in [Contexts -> [count : Nat, bytes : Nat]]
  /\ pc \in [Threads -> {"idle", "libc", "count"}]
  /\ request \in [Threads -> [size : 0..MaxSize, old : Addresses \cup {None}]]
  /\ halted \in {"no", "memory", "double free", "realloc"}
  /\ foreign \in SUBSET Addresses
  /\ measuring \in SUBSET Contexts
  /\ since \in [Contexts -> [count : Nat, bytes : Nat, largest : Nat]]
  /\ disturbed \in SUBSET Contexts
  /\ age \in [Addresses -> 0..RingSize]

(* Every block libc has given out is tracked, retained in the ring, or     *)
(* held by the program from a suspended call, and only one of the three:   *)
(* nothing is leaked and nothing given back while somebody has it, through *)
(* any sequence of suspending, resuming, reallocating and evicting.        *)
Owned ==
  /\ heap = Tracked \cup InRing \cup foreign
  /\ Tracked \cap InRing = {}
  /\ Tracked \cap foreign = {}
  /\ InRing \cap foreign = {}
  /\ \A i, j \in Slot : ring[i] = ring[j] => i = j \/ ring[i] = None

(* The user-visible bytes of a set of tracked blocks.                      *)
Bytes(S) == Cardinality({b \in S \X Size : b[2] <= size[b[1]]})

(* The live figures, in all and per call site, are those of the blocks in  *)
(* the table, across resets and changes of regime; so no free can make     *)
(* them underflow ("later frees cannot underflow or corrupt live-          *)
(* allocation accounting", nexus.h), and the peak is no lower.             *)
LiveExact ==
  /\ stats.liveBlocks = Cardinality(Tracked)
  /\ stats.liveBytes = Bytes(Tracked)
  /\ \A s \in Sites : siteBytes[s] = Bytes({a \in Tracked : site[a] = s})
  /\ stats.liveBytes <= stats.peakBytes

(* No free by a correct program is taken for a double free: an address     *)
(* libc hands out again is in no record of the ring.                       *)
NoFalseAlarm == halted # "double free"

(* The last RingSize blocks freed are still in the ring, so that a second  *)
(* free of one of them is recognised.                                      *)
Retained == \A a \in Addresses : age[a] < RingSize => a \in InRing

(* A measurement reports exactly what was allocated in its interval, in    *)
(* any regime and however intervals overlap, unless the statistics were    *)
(* reset meanwhile; its largest size (if it has a node) even then.         *)
Measured ==
  \A c \in measuring :
    /\ c \notin disturbed => /\ Report(c).count = since[c].count
                             /\ Report(c).bytes = since[c].bytes
    /\ c \in nodes => Report(c).largest = since[c].largest

(* nexus.h of NexusDebugMemMeasurement: "allocation_count is the number of *)
(* allocation events during the interval."                                 *)
MeasuredAlways == \A c \in measuring : Report(c).count = since[c].count

(* nexus.h of nexus_debug_mem_realloc: its pointer may refer to "an        *)
(* allocation created while full memory debugging was suspended."          *)
ReallocAccepts == halted # "realloc"
=============================================================================

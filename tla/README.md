# Nexus-C: models, checks and proofs

Nexus-C is a C89 platform library (`src/nexus.h`, `src/src/n_*.c`): identity and
entropy, containers, allocators, threads, processes, files, strings, time. This
directory holds TLA+ models of the parts whose correctness depends on an order of
steps or on arithmetic at a boundary, the TLC configurations that check small instances
of them, and TLAPS proofs of the properties that matter most, for every value of the
constants.

    tlc -workers 2 -config MCUuidV7.cfg MCUuidV7      # a run
    tlapm HashMapProofs.tla                           # a proof module

## 1. Inventory

The library has no tests. Its parts, the state each keeps, and where it is hard:

| Part (source) | State | Operations | What is hard | What makes it correct |
|---|---|---|---|---|
| UUIDv7 generator (`n_identity.c`) | one process-wide logical clock behind a mutex | `generate_monotonic[_with_entropy]` | the clock is sampled before the lock; wall clock steps back; carries and overflow | unique and increasing keys, never older than the sample, lock always released |
| Wait group (`n_threads.c`) | counter, mutex, condition variable | create, add, done, wait, try_wait, destroy | spurious wake-ups, lost wake-ups, destroy while the last closer is still inside | a wait outlasts the work it saw; no use after destroy; no wait forgotten |
| Hash map (`n_data.c`) | groups of slots, two counters | put, get, delete, collect, enumerate, destroy | tombstones in probe chains, resize in the middle of a put, failing allocation | a finite map; exact counters; always a free slot; exact enumeration |
| Memory debugger (`n_debug.c`) | table of live blocks per call site, quarantine ring, statistics, measurements, process lock | malloc, calloc, realloc, free, reset, suspend/resume, measure, check, print | blocks that change regime (tracked, suspended), address reuse after quarantine, counters across a reset | ownership of each block, exact live statistics, exact measurements |
| Processes (`n_process.c`) | pid, three pipe ends, one channel socket, the parent's descriptor table | three spawns, spawn_wait, stdin/stdout I/O, running_get, wait, terminate, destroy, replace | fork inherits descriptors; a dozen calls of a spawn may fail; ids are used again; interrupted waits | each end has one owner and is closed once; children find their streams; a child is reaped once, by its object |
| Child channel (`n_process.c`) | one socket | read, write, open_from_environment, destroy | partial and interrupted transfers | every byte once, in order, or an error |
| Paged allocator (`n_memory.c`) | pages, each a list of regions | create, malloc, calloc, free, reset, destroy | split threshold, alignment padding, coalescing | regions tile the page, payloads never overlap, no two free neighbours |
| Signals (`n_signals.c`) | one flag and one saved handler per signal | capture, release, get, exchange, clear | the handler runs between any two steps | nothing is left behind by a release |
| Poller (`n_async.c`) | two parallel arrays on Windows, a kernel object elsewhere | create, add, modify, remove, wait, destroy | growth of two arrays, half failing; swap-with-last | registrations match what the caller asked for |
| Performance counters (`n_hardware.c`) | per thread: descriptors, depth of suspension | read, suspend, resume, metric reader | an ioctl of three fails; opening while suspended | counters stop and start together |
| Error registry (`n_errors.c`) | table of formatters | register, unregister, write message | swap-with-last | lookups match registrations |
| Tabular reports (`n_tabular.c`) | bounded buffer, staged rows | report and table operations | sizing pass against writing pass; pointers into a growing array | the measured size is enough, the lines are aligned |
| Files and paths (`n_filesystem.c`, `n_paths.c`) | the tree of files | create_parents, recursive delete, collect, open, relative paths, ancestors | check, then act, on a tree others change; two passes over it | what a call reports is so |
| Texts (`n_strings.c`, `n_locale.c`, ...) | a buffer | bounded copies, writer, width, split, words, numerals | cutting inside a character; overflow | nothing is cut in half, nothing lost, values exact |
| Words (`n_uint128.c`, `n_time.c`, `n_hash.c`, bits of `nexus.h`) | none | 128-bit arithmetic, saturating times, SHA-1 blocks, bit and byte orders, Zobrist | carries, wrap-around, byte orders, padding | equal to the arithmetic of numbers |
| Atomics (`n_threads.c`) | a word | load, add, exchange, compare-exchange | signed values over unsigned bits | no change lost |
| Mutexes, threads, thread-locals, environment, entropy, stdio | operating-system objects | wrappers | none of their own | out of scope, see 6 |

How they interact: with `NEXUS_MEMORY_DEBUG_ENABLED` (the default) every `malloc` of
every part goes through the memory debugger, whose lock `nexus_threads_create`
installs; the hash map copies bytes through `n_memory.c`; the generator takes bytes
from `n_entropy.c` and the time from `n_time.c`; a captured signal interrupts the
system calls of `n_process.c`. The parts share no other state, so each is modelled on
its own and what it uses is external: a clock that may read anything, an allocation
that may fail, a mutex, a condition variable that may wake anybody, a kernel.

## 2. Modules

| Module | What it is |
|---|---|
| `UuidKey` | the ordered part of a UUIDv7, its order, and a clock reading as a key |
| `MonotonicIssuer` | abstract: what "process-monotonic" promises to callers |
| `UuidV7`, `ValuesProofs` | the generator, one action per step a thread can be interrupted at; its invariants and `Spec => Issuer!Spec` |
| `WaitGroup`, `WaitGroupProofs` | the wait group, split wherever the mutex changes hands; its safety theorems |
| `MapContract` | abstract: a finite map |
| `HashMap`, `HashMapProofs` | probing, tombstones, resize turn by turn, enumerator; `Spec => Contract!Spec` |
| `MemoryDebugger`, `MemoryDebuggerProofs` | the debugging malloc family: table, ring of freed blocks, suspended calls, statistics, measurements |
| `Processes`, `ProcessesProofs` | children, their pipes and channels, system call by system call; ownership of descriptors and children |
| `Allocator` | abstract: aligned blocks that share no byte |
| `PagedAllocator`, `PagedAllocatorProofs` | pages of regions; `Spec => Contract` of `Allocator` |
| `PollerContract`, `AsyncPoller` | abstract registry of handles; the two arrays that implement it |
| `Signals`, `PerfCounters`, `ByteStream`, `FileTree`, `Atomics` | small state machines with an interrupt, failures, partial transfers or other threads |
| `ErrorFormatters`, `Tabular`, `StringWriter`, `Sha1Stream`, `Bits` | objects of one thread under long sequences of calls |
| `Utf8`, `Tokens`, `PathNames`, `CommandLine`, `ExecutableSearch`, `Numerals`, `WideNumbers`, `UuidText` | algorithms, over all short inputs |
| `Library`, `LibraryProofs` | seven of the parts that keep state of their own, under one set of constants; the theorems about `Signals`, `PerfCounters`, `ByteStream`, `AsyncPoller`, `ErrorFormatters` and `Atomics` |
| `FileTreeProofs` | the theorem about `FileTree` |
| `Values`, `ValuesProofs` | `Numerals`, `WideNumbers`, `CommandLine` and `Sha1Stream` under one set of constants; the theorems about them, beside the generator's |
| `MCLibrary` | `Library`, `Values`, the paged allocator and the other algorithms, side by side |
| other `MC*` | instances for TLC |

Mutants (operators commented `Mutant:`, used by no specification) stand before the
definition they vary; each shows that a property would notice a plausible bug.

### The UUIDv7 generator

`logical` and `initialized` are `n_identity_uuid_v7_monotonic_state`; `owner` is its
mutex; `pc`, `sample`, `out` and `succeeded` are each thread's locals. A call is
`Call`, `EntropyFilled`, `ReadClock`, `Acquire`, then `AdoptSample` (the sample is
ahead of the logical clock) or `AdvanceCounter`, then `CopyAndRelease` and `Return`.
The error paths are `EntropyFailed` and `ReturnCapacity`. The clock is any number of
its type at each read: that covers a clock stepped backwards and a sample that went
stale while the thread waited for the lock. The type is 64 bits of nanoseconds
(`nexus.h:290`), which ends in 2554, at 1.8e13 milliseconds; the last timestamp is
2^48 - 1, or 2.8e14. So `ClockMax < TimestampMax * NanosPerMs` (`ClockAssumption`),
and the range check of `n_identity_uuid_real_time_get` (`n_identity.c:91`), which
cannot fail, has no action. `floor`, `returned`, `newest` and `spent` are history. `floor[t]` is the newest key that had been returned when `t`'s
call began, so `Monotonic` is about calls that follow one another; overlapping calls
may return in either order, which `MonotonicIssuer` allows too.

`spent` turns true when an increment overflows the 48-bit millisecond. The promise
ends there, as the failing increment has already cleared the counter and the fraction.
No clock reading leads there, only increments do: 2^24 calls for every millisecond
between the last reading of the clock and the last timestamp. So it is out of a
program's reach and no finding; it is in the model because the code has the path, and
`CallsComplete` needs the lock to be released on it.

### The wait group

`AddLock`, `AddUpdate`, `AddBroadcast`, `AddUnlock` are `nexus_threads_waitgroup_add`;
`WaitLock`, `Sleep`, `Relock`, `WaitReturn` are `wait`; `WakeSpuriously` is the
condition variable's own freedom. Units of work have identities (`adding`, `closing`,
`open`), so "the work that was open when the wait began" (`before`) is a set; the
code has their number. The callers do what nexus.h demands and no more: a unit is
closed once, after it was added; the group is destroyed by a thread that saw it
finished (`cleared`), when nobody waits. A thread that closed the last unit may then
still be inside `add`, and `NoUseAfterDestroy` says the code survives it.

### The hash map

`cell` and `stored` are the slots of `storage`, `groups` is `capacity_groups`,
`elements` and `deleted` the two counters. A probe is stated as what it finds:
`Rank` is the number of groups looked at before a slot's group, `Reached` says no
earlier group has an empty slot, `First` takes the earliest. A put that must resize
is `PutResizes`, then a `Rehash` per entry, `Swap`, and `PutAfterResize`; a put whose
allocation fails is `PutFails`, which changes nothing. The seed and the hash function
are one arbitrary function `hash` chosen in `Init`. The table is single-threaded and
the puts, gets and deletes of a caller cannot interleave with a resize, hence
`pc = "idle"` in their guards.

### The memory debugger

`site` and `size` are the table of live blocks (`n_alloc_lines[].allocs`, as a
function of the address), `siteBytes` each call site's `size`, `ring` and `next` the
freed-pointer history, `stats` the `n_mem_stats_*` figures, `nodes` and `largest` the
list of measurement nodes, `baseline` what a measurement context remembers. An active
call holds the lock from end to end and is one action: `Malloc` (also calloc), `Free`,
`Realloc`; `FreeForeign` and `ReallocForeign` meet a block that is in no table. A
suspended call leaves the lock, calls libc and takes the lock again to count: `Bypass`,
`LibcReturns` or `LibcFails`, `CountBypassed`; a suspended realloc of a tracked block
(`ReallocToLibc`) keeps it. Every removal ends with `Bury`: the block enters the ring
and the one it displaces goes back to libc, whose addresses (`heap`) may then be handed
out again. The errors that end in `NEXUS_MEMORY_CALL_ON_ERROR` set `halted`, because
its default is `abort()`. `foreign`, `measuring`, `since`, `disturbed` and `age` are
history. The program is correct: it frees what it holds, once, and no two threads at
the same time; so `"double free"` can only be a false alarm.

### Children, pipes and channels

`files` and `cloexec` are the parent's descriptor table; a new descriptor takes the
lowest free number, as POSIX demands, for the code depends on it: an end may be born
with the number 2. `child` is the kernel's table of processes, with the descriptor
table each got at the fork; `process` and `channel` are the objects of each thread,
`call` the call it is in. A spawn is `Spawn` (allocation), a `Socketpair` per stream,
`Mark` (close-on-exec), `Fork`, `Publish`, with `Fails` wherever a call may fail. In
the child, `Arranged` is the code between fork and execve: close the parent's ends,
dup2, close the originals. `RunningGet`, `WaitCall`/`Wait`, `TerminateCall`/`Kill`,
`DestroyCall`/`PollAgain`/`Kill`/`Wait`/`DestroyClose`, `StdinClose` and
`ChannelDestroy` are the calls on an object. `Exec`, `Exit` and `Die` are the kernel
and the child's program, which may do what it likes.

What the model says about the code beside its properties: the ends of `spawn_piped`
are not close-on-exec, so a child forked later holds an earlier child's stdin open;
with two of the standard descriptors closed at the start, the redirections of a child
overwrite each other (`Wired` fails; with at most one it is a theorem).

### The paged allocator

A page is a sequence of regions with the C struct's four fields; `Search` walks pages
and regions as `malloc` does, `Carved` splits, `NewPage` adds, `Free` merges right and
then left, `Reset` makes every page one region. `malloc` after a new page is a second
step (`Retry`), so that `FreshPageServes` can say that it succeeds.

### The smaller parts

* `Signals`: the handler may run between the two statements of `exchange`, and what
  arrives there is lost; `Quiet` is about release.
* `AsyncPoller`: the Windows arrays. Growing is two reallocations of which the second
  may fail, with the first kept. A wait scans them from the front until the caller's
  array is full (`Scanned`); which handles a contract's wait leaves out is open. It
  implements `PollerContract`.
* `PerfCounters`: opening while suspended, the roll-back of a suspension that an ioctl
  refuses, nested depth, and a reader whose event is not suspended.
* `ByteStream`: a writer and a reader of the parent and an echoing child, with partial
  transfers in both directions.
* `FileTree`: threads, each in one call, one system call per step. `FilesAgree`
  has a part per call: `CreatedTogether`, `DeletedTogether`, `Collected`.
* `ErrorFormatters`, `Tabular`, `StringWriter`, `Sha1Stream`, `Bits`: a sequence of
  calls on one object; a history variable holds what the object should amount to.
  `Sha1Stream` takes a piece in by one `Turn` of the loop after another, and nothing else
  is called until the piece is at its end.
* The algorithms have one variable, the input, which grows by a character (or counts
  up) per step, so that the states are all inputs up to a bound; the property compares
  the code's walk with a definition of what it should compute. Bytes are classes
  (a lead of so many bytes and columns, a continuation), machine words are narrow.

## 3. Runs

| Run | Instance | States | Shows |
|---|---|---|---|
| `UuidV7` | 2 threads, 3 x 2 x 2 keys, clock of 2 ns per ms with 3 readings | 655,947 | `TypeOK`, `Unique`, `Monotonic`, `NotBeforeSample`, `ImplementsIssuer`, `CallsComplete` |
| `WaitGroup` | 3 threads, 2 units | 24,208 | `TypeOK`, `NoUseAfterDestroy`, `WaitOutlastsWork`, `WaitersReturn` |
| `WaitGroupReuse` | 2 threads, 1 unit | counterexample | `ZeroUnblocks` is violated |
| `HashMap` | 3 keys, 2 values, 2 hashes, groups of 2 slots, up to 4 groups | 84,574 | `TypeOK`, `CountsExact`, `InsertableAlways`, `EnumerationExact`, `ImplementsMap` |
| `MemoryDebugger` | 2 threads, 3 addresses, 2 sites, sizes 1 and 2, ring of 2, 1 context, 2 events between resets | 784,842 up to symmetry | `TypeOK`, `Owned`, `LiveExact`, `NoFalseAlarm`, `Retained`, `Measured` |
| `Processes` | 2 threads, 2 spawns of any kind, 2 process ids, 11 descriptors, standard error closed | 1,718,377 up to symmetry | `Owned`, `Wired`, `Apart`, `Reaping`, `NoHang` |
| `ProcessesSpawnWait` | the same | counterexample | `WaitsForCompletion` is violated |
| `Library` | the nineteen parts below | 171,777 | `TypeOK`, `Tiled`, `Held`, `Coalesced`, `Reclaimed`, `FreshPageServes`, `ImplementsAllocator`, `ImplementsRegistry`, `Registered`, `CountsKept`, `Delivered`, `FilesAgree`, `ValuesExact`, `Conversions` |
| `UuidTextReadsBack` | the same parts; 3 choices of 16 bytes, 2 times | counterexample | `ReadsBack` is violated |
| `MemoryDebuggerReset` | 1 thread, 2 addresses | counterexample | `MeasuredAlways` is violated |
| `MemoryDebuggerRealloc` | 1 thread, 2 addresses | counterexample | `ReallocAccepts` is violated |

Why the bounds are enough. Generator: two threads are all a stale sample needs (one
holds it, one moves the clock), and every carry (counter to fraction, fraction to
millisecond, overflow) happens within twelve keys, the third millisecond by carries
only. Wait group: one waiter and two closers, or two waiters and a closer; two units
let one add open or close several.
Hash map: a load limit of one of two slots keeps the code's slack of one slot per
group; three keys fill a group and spill into the next; hashes 0 and 3 start a probe
at the first and at the last group, so it wraps around.
Memory debugger: with a ring of two, a block is evicted by the second free after its
own, and three addresses leave one to be held meanwhile; `MaxEvents` bounds the event
counters only, and a reset makes room for more. Two threads let a resume, a reset or a
measurement fall between the two halves of a suspended call. Deadlock is not checked
there: `abort()` ends the program. The proofs remove the bounds.
Processes: a spawn can meet the ends of one that is finished and of one that is
half-way, and the id of a reaped child is used again; with standard error closed the
first end is number 2, so that a redirection meets an end that is in place and one that
is in the way. Two spawns with two pairs each, beside two open standard descriptors,
need ten numbers.

`Library` chooses one part in its initial state and stays with it; the others rest, as
they share nothing. The state space is the sum, not the product, of the parts', and
one run asks of each what its module says. `TypeOK` to `FreshPageServes` and
`ImplementsAllocator` are the allocator's. `Registered` is what signals and error
formatters promise, `CountsKept` what counters and atomics do, `ValuesExact` what the
numerals, the wide numbers, the command line and the blocks of SHA-1 do. `Conversions` takes the property of
whichever other algorithm runs:

| Part | Module and property | Instance |
|---|---|---|
| allocator | `PagedAllocator` | pages of 216 bytes at two bases, sizes at the split threshold and at the largest that fits, alignment 64 |
| signals | `Signals!Quiet` | unbounded |
| poller | `AsyncPoller!ImplementsRegistry` | 3 handles, room for 1 that grows |
| counters | `PerfCounters!Paused` | 3 events, nesting 2 |
| streams | `ByteStream!Delivered` | 5 bytes in buffers of 1 and 3, sockets that hold 2 |
| files | `FileTree!FilesAgree` | 2 threads, 4 paths, every tree to begin with |
| arguments | `CommandLine!RoundTrip` | argument vectors of 7 characters |
| writer | `StringWriter!Written`, `Measured` | capacity 5, characters of 1 to 3 bytes, escape sequences |
| tokens | `Tokens!Tokenized` | texts of 6 characters |
| paths | `PathNames!PathsAgree` | 3 names, depth 3, every pair |
| numerals | `Numerals!NarrowExact` | words of 8 bits, types of 4, numerals of 5 characters, the digits 0, 2, 9 and f, signs and prefixes |
| wide | `WideNumbers!Exact` | words of 4 bits, every pair of 8-bit numbers |
| identity | `UuidText!TextRead` | 3 choices of bytes |
| table | `Tabular!Sized`, `Aligned` | 1 column that grows, 2 rows, every buffer |
| errors | `ErrorFormatters!Worded` | 3 facilities, 2 formatters, room for 2 |
| bits | `Bits!Exchanged`, `Incremental` | 8-bit words in 4 units, 4 features |
| digest | `Sha1Stream!Blocked` | blocks of 8, messages of 40 in pieces of 1, 3, 8, 17 |
| search | `ExecutableSearch!Resolved` | values of PATH of 6 characters, names that do not fit |
| atomics | `Atomics!Counted` | 2 threads, 3-bit words |

For `Registered`, `CountsKept`, `ValuesExact` and `Conversions` one mutant is kept with the
run; the mutants of the other parts were refuted the same way. The words are narrow because nothing in the algorithms
depends on their width but through it: a bound of 2^w stays one, and an overflow is
reached by short inputs.

Symmetry is used by `MemoryDebugger` and `Processes` only, which check invariants; the
other passing runs check temporal properties.

## 4. Fairness

`UuidV7!FairSpec`: weak fairness of each thread's steps inside a call (the entropy
provider and the clock return; the mutex is handed on). No call has to be made.
`WaitGroup!FairSpec`: weak fairness of each thread's steps inside a call, waking up
spuriously excluded. Weak fairness does not stop a mutex from starving a waiter while
other threads keep calling, and pthread mutexes do not promise otherwise; so
`CallsComplete` and `WaitersReturn` are stated for executions in which threads
eventually stop calling. `HashMap`, `MemoryDebugger` and the parts of `Library` have no
liveness property: each call is a bounded sequence of steps, and no caller waits for
another but for the lock. In `Processes` two calls block: `wait`, for ever if the child
never ends, which is what it is for, and `destroy`. That `destroy` returns would need
fairness of the kernel only, and is stated as the safety property it rests on: it blocks
only on a child that is dead or has been killed (`NoHang`).

## 5. Proofs

All theorems assume only the named `ASSUME`s of the modules.

* `ValuesProofs`, the generator. The inductive invariant says who may be between `Acquire` and
  `CopyAndRelease` (the owner only), that the logical clock is at or above every key
  taken, that keys held by threads which have released the lock are distinct, not yet
  returned and above those threads' floors, and that the logical clock is at or above
  the sample of a thread that has advanced it. From it: `TypeOK`, `Unique`,
  `Monotonic`, `NotBeforeSample`, and step by step the refinement of
  `MonotonicIssuer`, where a key is taken under the lock by the step that advances
  the clock.
* `WaitGroupProofs`. The mutex belongs to exactly the threads inside a critical
  section; the counter is the number of open units; a unit is opened or closed by at
  most one call under way; nobody who saw zero has work open. `WaitOutlastsWork`
  follows because a wait leaves only with the counter at zero, under the mutex;
  `NoUseAfterDestroy` because a thread that saw zero did so under the mutex, which
  the closer of the last unit gives up only when it is done with the group.
* `HashMapProofs`. The inductive invariant is the conjunction of `TypeOK`, `Sound`
  (no key in two slots; every key's slot is reached by its probe), `CountsExact`,
  `Loaded` (entries and tombstones within the load limit, so some slot is empty),
  `Copied` (while a resize runs, the new table is sound, holds exactly the entries
  already passed with their values, and no tombstone) and `Walked` (an enumerator's
  `due` keys lie ahead of it, its `seen` keys behind). `InsertableAlways` follows from
  `Loaded` by counting; `ImplementsMap` from `Sound` and `Copied`: `Swap` changes no
  lookup.
* `MemoryDebuggerProofs`. The inductive invariant is `TypeOK`, `Owned`, `Figures`
  (`LiveExact` with its sums named), `NoFalseAlarm`, `Aged` (a block freed `k` frees
  ago is in the slot `k + 1` before the index), `Requested` (a thread outside the lock
  has the only hold on the block it moves) and `Intervals` (counter = baseline + what
  the interval has seen). `NoFalseAlarm` follows from `Owned`: a block the program
  holds is in no record. `LiveExact` needs bytes as a set (one element per byte), so
  that entering and removing a block are facts about cardinalities (`Entered`,
  `Removed`), and shows that the cut-off at zero is never used. The lemmas `Buries` and
  `Measures` state what the actions have in common; then there is one lemma per action.

* `PagedAllocatorProofs`. The inductive invariant is `TypeOK`, `Tiled` (regions follow
  one another from the page's first byte to its last, and the list's links say so),
  `Held` (each payload lies in a region of its own, behind its back-pointer),
  `Coalesced`, `FreshPageServes`, `BlocksAligned` and `Dormant` (a destroyed allocator
  has nothing). `Tiled` is what makes the merge in `free` right: the bytes of the
  absorbed header become payload. `Reclaimed` follows from `Held` and `Coalesced`; the
  refinement of `Allocator` from `Tiled`, as payloads in different regions are disjoint.
* `ProcessesProofs`. The inductive invariant is `TypeOK`; `AllShaped` (where a call is
  says what it has opened and which objects its thread has); `AllForked`; `Claimed`;
  and `NoHang`. `Claimed` is the heart: every child of an object is claimed by exactly
  one thread, by the call that makes it or by the object that has not yet reaped it,
  and the claimant's number of the spawn is the child's. An id is given to a new child
  only when no child has it, and whoever reaps a child gives up its claim in the same
  step; so a claim never comes to mean another child. `Reaping` follows. On top of it,
  `Descriptors`: each number with an end of the library's is in the objects or in the
  spawn under way of one thread (`Mine`), no number is in two threads', the pairs of a
  spawn are the ends of its streams, and the numbers an object holds are distinct near
  ends of its own spawn. `ClosedDescriptors` (closing some of one's own) and
  `SameDescriptors` serve all actions but `Socketpair`; `Publish` needs that the ends
  of different streams differ. `Owned` follows.
  `Apart` needs to know what a fork copies, `Lineage`: what a thread has open are ends of
  the four streams (`Named`); a spawn's number is its own, and no end with that number is
  anywhere but in its hands until it returns (`Fresh`); the near ends of channels and
  captured stderrs are close-on-exec but for those a thread is about to mark (`Marks`);
  and the table of a child between fork and execve has, beside its own pairs, only near
  ends that are marked or belong to a stdin or stdout, unless another spawn was under way
  at the fork (`AllSealed`). `Arranged` and execve take its own near ends and the marked
  ones away.
  `Wired` follows three redirections through one table. That they do not overwrite each
  other rests on `Standards`: at most one standard number is not the inherited one
  (`OneOpen`); a far end is never a standard number, because the near end of its pair
  took the lower number first (`FarEnds`), in the forked child too (`AllClear`). The
  hypothesis of `WiredAsPromised` is that at most one standard descriptor was closed at
  the start; with two it is false, see 7.
* `LibraryProofs`. `SigInv`: without a handler a signal is pending only in the middle of a
  release. `CntInv`: only opened counters and the reader's event count. `StrInv`: what has
  been received, is in the second socket, with the child, in the first socket, and still
  to be written are consecutive pieces of what was offered, with nothing missing between
  them as long as the child runs; `Delivered` reads that off. `PolInv`: the arrays are
  `Parallel`, with the types of their elements. From it the refinement of
  `PollerContract`: the map from handles to what was asked for them is read off the first
  array (`WatchedAt`, `WatchedIs`), moving the last element into a gap permutes it, and a
  scan that stops early has as many places as the contract's wait reports (`ScanCounted`,
  by cardinalities). The assumptions: a handle is ready to be read or written or has an
  error, the caller's event array has room for one, and a new poller too. `ErrInv`: a
  facility has an entry exactly when it has registered, and one only, with that
  formatter; so the first found is the last registered. `AtInv`: the bits are those of
  the number meant. Its lemmas are about congruence: a signed number is known by the bits
  of any congruent one (`ReadBack`), so wrapping, adding and comparing bits does what it
  should to numbers, whatever the width (the assumption: the modulus is even).
* `FileTreeProofs`, for any finite tree closed under prefixes (`TreeAssumption`), any
  number of threads and any calls. The inductive invariant has four parts. `Shapes`: the
  files form a tree (`IsTree`: what exists is in directories), each call is at a path
  where its operation can have taken it (`Placed`), and the open directories of a walk lie
  one in the other from the path it was called for down to where it is (`Walk`).
  `Created`, as long as nothing deletes or opens files: on the way from where
  `create_parents` is to the path it makes there is no file (`Climbed`). `Deleted`, as
  long as nothing is created: a path that is gone lies below one that some call was to
  delete; whatever still exists in a directory that is being deleted has not been read
  yet or is under work (`Swept`), and what a walk meets was there in the beginning
  (`Known`). `Counted`, as long as nothing changes the tree: what has been counted or
  listed and what remains in the open directories make up all that exists (`Tally`), so
  the second walk writes what the first has counted. The three parts of `FilesAgree`
  follow when a call is done and nothing remains.

* `ValuesProofs`, the conversions. Here the inductive invariants only say what the input
  is (any sequence of characters, any vector of arguments, any pair of words); the work is
  that the code's walk over it computes what the definition says, for inputs of every
  length. The prover has no induction over data, so the module makes its own, for sets
  instead of predicates: a set of numbers that has 0 and each successor is `Nat`
  (`Induction`, from the least element, `LeastNatural`), and a set of sequences that has
  the empty one and each extension is all of them (`Growing`). `FoldLeft` of the
  community modules unfolds to a recursive function on sets of indices; `Folded` is the
  same fold step by step along a sequence, and there is one lemma per fold that the two
  agree (`ValueFolds`, `DecimalFolds`, `HexFolds`, ...). On top of that:
  * `NumeralsRead`, for texts of any length, all decimal and hexadecimal digits, and words
    of any width: after each character the loop holds the value of what it has read, or
    has refused it and the value is beyond the bound, from which no digit leads back. This
    is where the word's overflow comes in: a type narrower than the word has room for one
    digit more (`NumeralsAssumption`), the word itself has not, and so the theorem, like
    the property, is silent about a decimal numeral beyond 64 bits (see 7).
  * `ArgumentsSurvive`, for any number of arguments of any letters, blanks, quotes and
    backslashes, and any buffers: what the C runtime's parser has read from what is written
    of an argument, and the backslashes the writer still holds back, are the part of the
    argument gone through (`Carried`), so behind an argument the parser has that argument
    and behind the line all of them.
  * `WideNumbersExact`, for words of any even number of bits: the four partial products
    with their carries are the product (`MulWords` modulo the word), a shift of two words
    is a division, and saturating times stop at the ends. Nonlinear arithmetic is split
    into facts about quotients and remainders that the solver can do one at a time.
  * `MessagesBlocked`, for blocks and lengths of any size, messages of any length and
    pieces of any lengths: what was processed (whole blocks only), what waits in the block
    and what the loop still has of the piece are one behind the other the message
    (`ShaInv`); so at the end marker, zeros and length fill the block that waits or, when
    the length has no room in it, that one and another. `DigestAssumption`: the length
    and the marker fit a block.

  `ValuesAlways` puts them together as `ValuesExact`. `PowersAssumption` says what a power
  of two is up to the width of the wide word, for tlapm knows nothing of `^`; it holds
  for every width, and TLC evaluates it on the instance. `NumeralsAssumption` says of the
  powers in `Numerals` what the code's types have: half of the numbers are negative, four
  bits to a hexadecimal digit.

The theorems state every property that the passing runs check but three. `CallsComplete`
and `WaitersReturn` are liveness under fairness, which with `ENABLED` is beyond the
prover. `Conversions` holds the algorithms that are only model-checked: the string writer
and display width, tokens, paths, UUID texts, tabular reports, bits and
the search of PATH. Most compare a walk with a definition over nested sequences of
texts; the induction above would serve them, at a proof the size of the command line's
for each. The modules with theorems have no recursive operator.

## 6. Not modelled

* Failures of `pthread_mutex_lock` and of the other primitives inside a call (the code
  returns `NEXUS_ERROR_IO`, or ignores them). Mutexes, threads, thread-locals, the
  environment, entropy, stdio and assertions are wrappers around one system call and
  keep no state of their own.
* Generator: the random part of a UUID. Hash map: fingerprints, which only spare
  comparisons, and `nexus_data_hashmap_destroy`.
* Memory debugger: the guard bytes and `nexus_debug_mem_check_bounds`, comments, the log
  callback, the printed reports, the peak block count, free totals. The table's arrays
  and their swap-with-last removal are a function from addresses: no loop goes on after
  it removed.
* Processes: `nexus_process_replace`, which is execve; opening a channel from the
  environment in the child; calls on one object by two threads at once, which the code
  does not protect either; the Windows branches, but for the command line.
* Files: copying, seeking, renaming; symbolic links; the Windows twins; the number of
  open directory handles, of which a recursive delete that fails further down leaves one
  per level (`n_filesystem.c:789,793` return without `closedir`).
* Reports: a header written over a deferred one, and a column added behind staged rows.
  These calls do not assert, but the `emit` behind them does, on its second header
  (`n_tabular.c:377`) or on the number of cells (`n_tabular.c:483`).
* Hardware: cycle counters, resource usage, Windows process information.
* Texts and words: formatting of numbers and reals, colours, the terminal's
  capabilities, versions, FNV, the rounds of SHA-1, the calendar, vendored code.

Hazards without a property are listed with the reason in `PROJECT.json`. The map names
6,520 of about 20,700 lines; most of the rest is declarations and documentation in
`nexus.h`, the second platform's branch of each function, and the wrappers above.

## 7. Findings

Shown by a run:

* `WaitGroupReuse`: `nexus.h:3839` says that when the counter drops to zero "all
  waiting threads are unblocked"; a waiter that does not get the mutex before another
  thread adds work sleeps on (`n_threads.c:1540`).
* `MemoryDebuggerReset`: `nexus.h:1476` says a measurement's `allocation_count` "is the
  number of allocation events during the interval"; after `nexus_debug_mem_reset` inside
  the interval it is too small, down to zero (`n_debug.c:402`).
* `MemoryDebuggerRealloc`: `nexus.h:1284` allows `realloc` of "an allocation created
  while full memory debugging was suspended"; once the debugger is active again it
  reports an untracked pointer and aborts (`n_debug.c:1064`).
* `ProcessesSpawnWait`: `spawn_wait` gives up when a captured signal interrupts waitpid
  (`n_process.c:1939`), and the child is left behind; `nexus_process_wait` tries again.
* `UuidTextReadsBack`: `nexus_uint128_bytes_big_endian_write` puts the low word first
  (`n_uint128.c:130`), the read the high word; UUID texts have their halves swapped, and
  version 5 hashes the namespace in that order (`n_identity.c:277`).

Met while modelling, where a property is stated around what the code does or the code
is outside the models:

* `n_strings.c:666`: a decimal numeral beyond 64 bits wraps and is read as another
  number; `nexus.h:2508` says it is refused (`NarrowExact` is stated for values that fit).
* `n_strings.c:42`: the clip drops a complete multibyte character that ends the text.
* `n_strings.c:959`: the right part of a split at the first delimiter is cut silently.
* `n_paths.c:84`: the relative path to a directory below reads one byte behind the
  terminator of the first; `n_paths.c:451`: nothing lies within `/`; `n_paths.c:468`:
  the parent of `/` is `.`, `nexus.h:3316` says otherwise.
* `n_tabular.c:165`: a cell cut in front of a wide character is one column short.
* `n_paths.c:323`: files created between the two passes of a collection are written past
  the array. `n_filesystem.c:303`: an
  empty line is answered as the end of the file is: no bytes and no error.
* `n_time.c:224`: subtracting the smallest duration negates it, which 64 bits cannot
  hold (`Exact` is stated for the others).
* `n_process.c:1055,1397`: with two standard descriptors closed, redirections collide.

## 8. Plan

Done, in order of importance: UUIDv7 generator, wait group, hash map, memory debugger,
paged allocator, processes and their channels, signals, poller, formatters and reports,
files, texts, words. What could follow:

1. Liveness of `Processes`: `destroy` returns under fairness of the kernel, checked on an
   instance without symmetry.
2. `Wired` with two standard descriptors closed: the exact condition under which the
   redirections keep apart, as a theorem beside `WiredAsPromised`.
3. The algorithms of `Conversions`, with the folds and inductions of `ValuesProofs`: tokens
   and paths first.
4. The memory debugger's guard bytes and bounds check, over blocks that other threads
   overwrite; the installation of its lock by `nexus_threads_create`.

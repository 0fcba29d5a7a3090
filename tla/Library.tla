------------------------------ MODULE Library ------------------------------
(***************************************************************************)
(* The parts of the library that keep state of their own, share none with  *)
(* another part, and are proved about (LibraryProofs), each under its own  *)
(* instance.                                                               *)
(***************************************************************************)
EXTENDS Integers, Sequences, FiniteSets, Values

CONSTANTS
  Handle, Datum,   \* of the poller: handles and user_data
  Interest,        \* the interest sets of its calls
  ReadyFor,        \* what a handle may be ready for
  EventArrays,     \* max_events of its waits
  PollerCapacity,  \* the room of a new poller's arrays
  Counter,         \* the hardware's performance counters
  Depths,          \* suspensions of them that may be open at once
  WriteLengths,    \* byte_count of a write to a child
  WriteBytes,      \* bound: bytes written in all
  SocketRoom,      \* bytes a socket holds
  Thread,          \* of the calls on files and atomics
  FileName,        \* the components of their paths
  TreePath,        \* the paths of the tree
  TreeCall,        \* the calls on it
  Facility,        \* the facilities of errors
  NexusFacility,   \* and the library's own
  Formatter,       \* those who word errors
  Nil,
  FormatterCapacity,  \* formatters there is room for
  AtomicBits,      \* of an atomic: 32 or 64
  AtomicDelta      \* numbers added to atomics and stored in them

(* A handle is ready to be read or written or has an error; arrays of      *)
(* nothing are refused; a new poller has room.                             *)
ASSUME PollerAssumption ==
  /\ ReadyFor \subseteq SUBSET {"READ", "WRITE", "ERROR"}
  /\ EventArrays \subseteq Nat \ {0}
  /\ PollerCapacity \in Nat \ {0}

(* The reader's event is none of the counters'.                            *)
ASSUME CountersAssumption == "reader" \notin Counter

ASSUME StreamsAssumption == WriteLengths \subseteq Nat /\ SocketRoom \in Nat

(* The tree is finite, and what a path runs through is in it.              *)
ASSUME TreeAssumption ==
  /\ IsFiniteSet(TreePath)
  /\ TreePath \subseteq Seq(FileName) \ {<< >>}
  /\ \A p \in TreePath : \A n \in 1 .. Len(p) : SubSeq(p, 1, n) \in TreePath
  /\ TreeCall \subseteq [op : {"create_parents", "delete", "rmdir", "collect", "open_write"}, path : TreePath]

ASSUME FormattersAssumption ==
  /\ NexusFacility \notin Facility
  /\ FormatterCapacity \in Nat

VARIABLES
  sigInstalled, sigReceived, sigAt,
  polItems, polFds, polCapacity, polRoom, polAnswer, polEvents,
  cntOpened, cntFailed, cntDepth, cntRunning, cntStuck, cntReader,
  strOffered, strWriting, strAccepted, strOpen, strStdin, strHeld, strAlive, strStdout, strReceived, strEof,
  fsTree, fsCall, fsFirst,
  errEntries, errRegistered, errError,
  atStorage, atLoaded, atMeant, atAnswer, atExpected

sigVars == <<sigInstalled, sigReceived, sigAt>>
polVars == <<polItems, polFds, polCapacity, polRoom, polAnswer, polEvents>>
cntVars == <<cntOpened, cntFailed, cntDepth, cntRunning, cntStuck, cntReader>>
strVars == <<strOffered, strWriting, strAccepted, strOpen, strStdin, strHeld, strAlive, strStdout, strReceived, strEof>>
fsVars == <<fsTree, fsCall, fsFirst>>
errVars == <<errEntries, errRegistered, errError>>
atVars == <<atStorage, atLoaded, atMeant, atAnswer, atExpected>>

-----------------------------------------------------------------------------
Signal == INSTANCE Signals WITH installed <- sigInstalled, received <- sigReceived, at <- sigAt

Poller == INSTANCE AsyncPoller WITH
  Handles <- Handle, Interests <- Interest, Data <- Datum,
  Readiness <- ReadyFor, Arrays <- EventArrays, Capacity <- PollerCapacity,
  items <- polItems, poll_fds <- polFds, capacity <- polCapacity, room <- polRoom,
  answer <- polAnswer, events <- polEvents

Counters == INSTANCE PerfCounters WITH
  Counters <- Counter, MaxDepth <- Depths,
  opened <- cntOpened, failed <- cntFailed, depth <- cntDepth, running <- cntRunning,
  stuck <- cntStuck, reader <- cntReader

Streams == INSTANCE ByteStream WITH
  Lengths <- WriteLengths, MaxBytes <- WriteBytes, Room <- SocketRoom,
  offered <- strOffered, writing <- strWriting, accepted <- strAccepted, open <- strOpen,
  stdin <- strStdin, held <- strHeld, alive <- strAlive, stdout <- strStdout,
  received <- strReceived, eof <- strEof

Files == INSTANCE FileTree WITH
  Threads <- Thread, Paths <- TreePath, Calls <- TreeCall,
  tree <- fsTree, call <- fsCall, first <- fsFirst

Errors == INSTANCE ErrorFormatters WITH
  Facilities <- Facility, Nexus <- NexusFacility, Formatters <- Formatter, Null <- Nil,
  Capacity <- FormatterCapacity,
  entries <- errEntries, registered <- errRegistered, error <- errError

Atomic == INSTANCE Atomics WITH
  Threads <- Thread, WordBits <- AtomicBits, Deltas <- AtomicDelta, Null <- Nil,
  storage <- atStorage, loaded <- atLoaded, meant <- atMeant, answer <- atAnswer, expected <- atExpected

(* A word has bits: half of its numbers are negative.                      *)
ASSUME AtomicsAssumption ==
  /\ Atomic!Modulus \in Nat \ {0}
  /\ Atomic!Modulus = 2 * (Atomic!Modulus \div 2)
  /\ AtomicDelta \subseteq Atomic!Signed

-----------------------------------------------------------------------------
(* A signal is kept until someone takes it (Signals).                      *)
Quiet == Signal!Quiet

(* Errors are worded by who registered last for them (ErrorFormatters).    *)
Worded == Errors!Worded

(* Registered: nothing acts for what was taken back.  A released signal    *)
(* leaves nothing behind, and an error is worded by the formatter that is  *)
(* registered for it.                                                      *)
Registered == Quiet /\ Worded

(* The poller's arrays stay parallel, and a wait reports what a registry   *)
(* of handles would (AsyncPoller).                                         *)
ImplementsRegistry == Poller!ImplementsRegistry

(* Counters count exactly outside suspensions (PerfCounters).              *)
Paused == Counters!Paused

(* What is written to a child arrives once and in order (ByteStream).      *)
Delivered == Streams!Delivered

(* What the calls on directories report is so (FileTree).                  *)
FilesAgree == Files!FilesAgree

(* No change of an atomic is lost or made twice (Atomics).                 *)
AtomicsCount == Atomic!Counted

(* CountsKept: counters stop and go on together, whichever fails, and      *)
(* an atomic has the sum of what was done to it.                           *)
CountsKept == Paused /\ AtomicsCount
=============================================================================

CONSTANTS
  Word = 8
  Header = 32
  MinSplit = 32
  PageSize = 216
  Bases = {1056, 2096}
  Sizes = {1, 104, 112, 128}
  Alignments = {0, 64}
  MaxInitial = 2
  Handle = {h1, h2, h3}
  Datum = {d1, d2}
  Interest = {{"READ"}, {"READ", "WRITE"}}
  ReadyFor = {{}, {"WRITE", "ERROR"}}
  EventArrays = {2}
  PollerCapacity = 1
  Counter = {c1, c2, c3}
  Depths = 2
  WriteLengths = {1, 3}
  WriteBytes = 5
  SocketRoom = 2
  Thread = {t1, t2}
  FileName = {"a", "b", "c", "f"}
  TreePath <- SomePaths
  TreeCall <- SomeCalls
  Facility = {f1, f2, f3}
  Formatter = {w1, w2}
  Nil = Nil
  NexusFacility = "NX"
  FormatterCapacity = 2
  AtomicBits = 3
  AtomicDelta <- SomeDeltas
  NumeralBits = 8
  NarrowBits = 4
  NumeralTyped = {"0", "2", "9", "f", "-", "+", "X"}
  NumeralLength = 5
  WideHalfBits = 2
  CommandLength = 7
  LineBuffers = {4, 100}
  DigestBlock = 8
  DigestLength = 2
  DigestPieces = {1, 3, 8, 17}
  DigestBytes = 40
SPECIFICATION LibrarySpec
CHECK_DEADLOCK FALSE
INVARIANT ReadsBack

CONSTANTS
  Threads = {t1, t2}
  NoThread = NoThread
  TimestampMax = 2
  FractionMax = 1
  CounterMax = 1
  NanosPerMs = 2
  ClockMax <- LastReading
  FineClock = TRUE
SPECIFICATION FairSpec
INVARIANTS TypeOK Unique Monotonic NotBeforeSample
PROPERTIES ImplementsIssuer CallsComplete

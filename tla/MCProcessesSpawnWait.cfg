CONSTANTS
  Threads = {t1, t2}
  Pids = {1, 2}
  MaxFd = 10
  MaxSpawns = 2
  Closed <- StderrClosed
  SignalCaptured = TRUE
  Null = Null
SPECIFICATION Spec
SYMMETRY ThreadSymmetry
INVARIANT WaitsForCompletion
\* The number of spawns is bounded: the system stops when all is given back.
CHECK_DEADLOCK FALSE

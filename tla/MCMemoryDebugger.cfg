CONSTANTS
  Threads = {t1, t2}
  Addresses = {a1, a2, a3}
  None = None
  Sites = {s1, s2}
  MaxSize = 2
  RingSize = 2
  Contexts = {c1}
  MaxEvents = 2
SPECIFICATION Spec
SYMMETRY Symmetry
INVARIANTS TypeOK Owned LiveExact NoFalseAlarm Retained Measured
CHECK_DEADLOCK FALSE

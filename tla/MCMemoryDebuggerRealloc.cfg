CONSTANTS
  Threads = {t1}
  Addresses = {a1, a2}
  None = None
  Sites = {s1}
  MaxSize = 2
  RingSize = 2
  Contexts = {c1}
  MaxEvents = 2
SPECIFICATION Spec
INVARIANT ReallocAccepts
CHECK_DEADLOCK FALSE

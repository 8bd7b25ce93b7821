SPECIFICATION Spec
CONSTANTS
  Threads = {t1, t2, t3}
  ThreadSafe = TRUE
  MaxObjects = 3
SYMMETRY Symmetry
INVARIANTS TypeOK LiveExactlyWhileUsed
CHECK_DEADLOCK FALSE

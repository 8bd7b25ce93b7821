SPECIFICATION Spec
CONSTANTS
  Threads = {t1, t2}
  ThreadSafe = FALSE
  MaxObjects = 3
INVARIANTS HeldIsLive
CHECK_DEADLOCK FALSE

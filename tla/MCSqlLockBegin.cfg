SPECIFICATION Spec
CONSTANTS
  Threads = {t1, t2}
  NoThread = NoThread
  MaxNested = 3
  MaxValue = 2
  ExecInTransaction = FALSE
SYMMETRY Symmetric
CHECK_DEADLOCK FALSE
INVARIANTS NothingHalfDone

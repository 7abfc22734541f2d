SPECIFICATION LocksSpec
CONSTANTS
  Threads = {t1, t2, t3}
  MaxDepth = 2
  NoThread = NoThread
  MaxNested = 4
  MaxValue = 2
  ExecInTransaction = FALSE
  Names = {a, b}
  BatchSize = 2
  MaxOps = 4
  MaxLost = 1
  MaxCrashes = 1
  MaxForeign = 0
  BusyRmdir = FALSE
SYMMETRY Symmetric
INVARIANTS
  LockInv AssertionsHold WakeupInv Accounting ConsistentRows
  RowsInv NoLostWakeup RestartAgrees ViewAgrees
PROPERTIES ImplementsRWLock CallbacksTellTheTruth SameNameInOrder

SPECIFICATION Spec
CONSTANTS
  Names = {1, 2}
  Files = {1}
  Contents = {1, 2}
  Uploaders = {1, 2}
  MaxParallel = 1
  MaxChanges = 3
  MaxFaults = 0
INVARIANT NoTasksInSync
CHECK_DEADLOCK FALSE

SPECIFICATION Spec
CONSTANTS
  Names = {a, b}
  BatchSize = 2
  MaxOps = 4
  MaxLost = 0
  MaxCrashes = 0
  MaxForeign = 0
  BusyRmdir = TRUE
INVARIANTS ReleaseConsistent
CHECK_DEADLOCK FALSE

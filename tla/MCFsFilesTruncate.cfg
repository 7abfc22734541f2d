SPECIFICATION Spec
CONSTANTS
  Handles = {h1, h2}
  Timer = timer
  MaxOps = 3
  MaxOpen = 1
  MaxFaults = 0
  Trunc = {FALSE, TRUE}
SYMMETRY Symmetric
INVARIANTS ChangedFails
CHECK_DEADLOCK FALSE

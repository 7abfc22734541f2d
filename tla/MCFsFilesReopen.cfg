SPECIFICATION Spec
CONSTANTS
  Handles = {h1, h2}
  Timer = timer
  MaxOps = 5
  MaxOpen = 1
  MaxFaults = 0
  Trunc = {FALSE}
SYMMETRY Symmetric
INVARIANTS ChangedFails
CHECK_DEADLOCK FALSE

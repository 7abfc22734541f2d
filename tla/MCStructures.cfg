SPECIFICATION StructuresSpec
VIEW StructuresView
SYMMETRY Symmetric
CONSTANTS
  Handles = {h1, h2}
  Timer = timer
  MaxOps = 4
  MaxOpen = 2
  MaxFaults = 1
  Trunc = {FALSE}
  MaxPoint = 9
  MaxNodes = 12
INVARIANTS
  OpenFilesOK ChangedFailsUnlessRaced ShowsWant CatchesUp Arrives
  TreeOK Canonical Represents
CHECK_DEADLOCK FALSE

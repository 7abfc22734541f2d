SPECIFICATION UploadsSpec
CONSTANTS
  Names = {1, 2, 3, 4}
  Files = {1, 2}
  Contents = {1, 2}
  Uploaders = {1, 2}
  MaxParallel = 1
  MaxChanges = 2
  MaxFaults = 1
  FolderNames = {a}
  BatchSize = 2
  MaxOps = 3
  MaxLost = 1
  MaxCrashes = 1
  MaxForeign = 1
  BusyRmdir = FALSE
INVARIANT Uploaded
PROPERTIES UploadsEnd Settles
CHECK_DEADLOCK FALSE

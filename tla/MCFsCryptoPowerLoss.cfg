SPECIFICATION Spec
CONSTANTS
    HTS = 2
    Writes <- AppendWrites
    Sizes = {}
    Remotes = {6}
    MaxLog = 4
    MaxOps = 1
    MaxCrashes = 1
INVARIANT DownloadsNeedNoSync
CHECK_DEADLOCK FALSE

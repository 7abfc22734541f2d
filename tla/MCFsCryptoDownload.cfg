SPECIFICATION Spec
CONSTANTS
    HTS = 2
    Writes <- DownloadWrites
    Sizes = {3, 7}
    Remotes = {9}
    MaxLog = 4
    MaxOps = 4
    MaxCrashes = 0
INVARIANT DownloadsFillHoles
CHECK_DEADLOCK FALSE

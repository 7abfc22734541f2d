SPECIFICATION CryptoSpec
CONSTANTS
    HTS = 2
    Writes <- WriteSet
    Sizes <- SizeSet
    Remotes = {3, 6, 9}
    MaxLog = 4
    MaxOps = 3
    MaxCrashes = 1
    Callers = {w, r}
    Writer = w
    MaxSize = 3
    Over = 2
    MaxLogged = 2
    MaxCalls = 3
INVARIANTS
    TypesOK
    LayoutExact
    ReadsLatest
    CommitsAreAtomic
    NoHoles
    ReadsAreFilled
PROPERTY CallsReturn
CHECK_DEADLOCK FALSE

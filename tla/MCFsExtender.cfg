SPECIFICATION Spec
CONSTANTS
    Callers = {w, r}
    Writer = w
    MaxSize = 3
    Over = 2
    MaxLogged = 2
    MaxCalls = 4
INVARIANT FinalizeSeesTarget
CHECK_DEADLOCK FALSE

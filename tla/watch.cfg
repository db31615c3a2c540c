SPECIFICATION Spec
CONSTANTS
    w1 = w1  f1 = f1  f2 = f2
    Modes = {TRUE, FALSE}
    Flags = {f1, f2}
    Watchers = {w1}
    MaxWrites = 4
    BadWrites = {2}
    Foreign = TRUE
    NoDoc = NoDoc
    Unread = Unread
    Cap = 1
    MaxTries = 2
    MaxFaults = 0
INVARIANTS
    CacheNeverRegresses
    CacheIsOneDocument
    NothingMissed
    NoStreamLeaks
SYMMETRY FlagSymmetry
CHECK_DEADLOCK FALSE

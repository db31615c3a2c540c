SPECIFICATION PFairSpec
CONSTANTS
    w1 = w1  w2 = w2  f1 = f1  f2 = f2
    Modes = {TRUE, FALSE}
    Flags = {f1}
    Watchers = {w1, w2}
    MaxWrites = 1
    BadWrites = {}
    Foreign = FALSE
    NoDoc = NoDoc
    Unread = Unread
    Cap = 1
    MaxTries = 1
    MaxFaults = 1
    Startup <- StartupOrder
    ShutdownFns <- ShutdownOrder
    MaxInits = 2
INVARIANTS
    ReadyIsWatched
PROPERTIES
    InitReturnsOrLocks
    ShutdownStopsWatchers
CHECK_DEADLOCK FALSE

SPECIFICATION PFairSpec
CONSTANTS
    w1 = w1  w2 = w2  f1 = f1  f2 = f2
    Modes = {FALSE}
    Flags = {f1}
    Watchers = {w1}
    MaxWrites = 1
    BadWrites = {}
    Foreign = FALSE
    NoDoc = NoDoc
    Unread = Unread
    Cap = 1
    MaxTries = 1
    MaxFaults = 0
    Startup <- StartupOrder
    ShutdownFns <- ShutdownOrder
    MaxInits = 1
PROPERTY InitReturnsToTheCaller
CHECK_DEADLOCK FALSE

SPECIFICATION FairSpec
CONSTANTS
    w1 = w1  f1 = f1  f2 = f2
    Modes = {TRUE}
    Flags = {f1}
    Watchers = {w1}
    MaxWrites = 2
    BadWrites = {}
    Foreign = FALSE
    NoDoc = NoDoc
    Unread = Unread
    Cap = 1
    MaxTries = 1
    MaxFaults = 0
PROPERTY SetFieldReachesCache
CHECK_DEADLOCK FALSE

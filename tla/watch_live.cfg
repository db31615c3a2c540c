SPECIFICATION FairSpec
CONSTANTS
    w1 = w1  f1 = f1  f2 = f2
    Modes = {TRUE, FALSE}
    Flags = {f1, f2}
    Watchers = {w1}
    MaxWrites = 2
    BadWrites = {1}
    Foreign = TRUE
    NoDoc = NoDoc
    Unread = Unread
    Cap = 1
    MaxTries = 2
    MaxFaults = 2
PROPERTIES
    StreamDelivers
    PollingConverges
    GivesUpAloud
CHECK_DEADLOCK FALSE

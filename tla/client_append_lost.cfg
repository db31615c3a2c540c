SPECIFICATION Spec
CONSTANTS
    c1 = c1  c2 = c2
    Modes = {FALSE}
    Clients = {c1}
    MaxTries = 2
    MaxCalls = 2
    MaxFaults = 1
    NoFlag = NoFlag
INVARIANT AtomicWhole
CHECK_DEADLOCK FALSE

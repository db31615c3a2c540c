SPECIFICATION FairSpec
CONSTANTS
    c1 = c1  c2 = c2
    Conns = {c1}
    MaxRounds = 2
    MaxChunks = 2
    MaxCalls = 2
INVARIANTS
    ReplaysInOrder
    NoLostWakeup
    ServedInFull
    OneTerminalEvent
PROPERTIES
    EveryoneIsServed
CHECK_DEADLOCK FALSE

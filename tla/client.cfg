SPECIFICATION Spec
CONSTANTS
    c1 = c1  c2 = c2
    Modes = {TRUE, FALSE}
    Clients = {c1, c2}
    MaxTries = 3
    MaxCalls = 3
    MaxFaults = 3
    NoFlag = NoFlag
INVARIANTS
    NilMeansApplied
    AppendedAtMostOnce
    NilMeansWhole
PROPERTIES
    UpdateNeverCreates
SYMMETRY ClientSymmetry
CHECK_DEADLOCK FALSE

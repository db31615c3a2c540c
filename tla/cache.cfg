SPECIFICATION FairSpec
CONSTANTS
    p1 = p1  p2 = p2  p3 = p3  f1 = f1  f2 = f2  d1 = d1  d2 = d2
    Procs = {p1, p2, p3}
    Flags = {f1}
    Defs = {d1, d2}
    Malformed = Malformed
    NoDef = NoDef
    NoProc = NoProc
    Unanswered = Unanswered
    SetAllArgs <- SomeSetAllDefs
INVARIANTS
    Exclusion
PROPERTIES
    ImplementsAtomic
    CallsReturnOrWedge
CHECK_DEADLOCK FALSE

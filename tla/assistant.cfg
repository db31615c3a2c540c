SPECIFICATION FairSpec
CONSTANTS
    c1 = c1  c2 = c2
    Chats = {c1, c2}
    First = c1
    MaxTurns = 2
    MaxMoves = 3
    Scripts <- MCScripts
INVARIANTS
    TurnsAlternate
    UsageCountedOnce
    StreamsRemembered
    NothingTwice
    PanelIsWhole
PROPERTIES
    HistoryOnlyGrows
    EveryTurnIsSettled
CHECK_DEADLOCK FALSE

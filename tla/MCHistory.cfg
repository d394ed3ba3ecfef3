SPECIFICATION Spec
CONSTANTS
    None = None
    States <- MCStates
    Units <- MCUnits
    Times <- MCTimes
    MaxEntries = 3
    MaxSourceCodeUnits = 5
    CoalesceWindow = 1
    MaxGroup = 4
INVARIANTS
    HistoryInv
    TrimIsTheLoop
PROPERTIES
    WalksTimeline
    NeighboursKept
    BurstsJoin

SPECIFICATION FairSpec
CONSTANTS
    None = None
    a = a
    b = b
    Docs = {a, b}
    MaxAttempts = 3
    MaxDepth = 3
INVARIANTS
    ReaderInv
    ShowsLatest
PROPERTIES
    Settles
CHECK_DEADLOCK FALSE

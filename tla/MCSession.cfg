SPECIFICATION Spec
CONSTANTS
    None = None
    a = a
    b = b
    bad = bad
    Docs = {a, b, bad}
    Refused = {bad}
    MaxAttempts = 3
    MaxRevision = 4
    MaxDepth = 4
INVARIANTS
    SessionInv
    ChangesAreTheEdits
PROPERTIES
    DisposedIsFinal
    Settles
CHECK_DEADLOCK FALSE

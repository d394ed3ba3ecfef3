CONSTANTS
    MaxEdits = 1
    MaxPages = 1
    MaxRetired = 2
    Work = 1
    Faults = {"adopt"}
SPECIFICATION Spec
INVARIANT FaultIsTyped
CHECK_DEADLOCK FALSE

\* Every failure of the environment.
CONSTANTS
    MaxEdits = 3
    MaxPages = 2
    MaxRetired = 2
    Work = 2
    Faults = {"parse", "adopt", "adoptStart", "fallback", "undrained", "edit", "page", "panic", "pumpClosing"}
SPECIFICATION FairSpec
INVARIANTS DocumentInv ClosedIsDrained
PROPERTIES AnswersAreTrue Progress
CHECK_DEADLOCK FALSE

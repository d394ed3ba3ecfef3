SPECIFICATION Spec
CONSTANTS
    None = None
    Sources <- MCSources
    Reads <- MCReads
    Length <- MCLength
    Selections <- MCSelections
    Start = "start"
    Cell = "cell"
    Reasons = {"unsupportedEdit", "sourceLimit"}
    Snap <- MCSnap
    MaxEntries = 1
    MaxSourceCodeUnits = 10
    MaxGroup = 2
INVARIANTS
    EditorInv
    RefusedLeavesAll
    PublishedExactly
    CancelRestores
    CompositionIsOneStep

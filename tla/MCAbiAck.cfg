SPECIFICATION Spec
CONSTANTS
    Uses <- LossyUses
    TokenOverhead = 64
    SpliceOverhead = 32
    IntentCapacity = 64
    MaxSteps = 3
    MaxReplay = 8
    MaxLive = 1
INVARIANT AckProvesReceipt
CHECK_DEADLOCK FALSE

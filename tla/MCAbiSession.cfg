SPECIFICATION Spec
CONSTANTS
    Uses <- AllUses
    TokenOverhead = 64
    SpliceOverhead = 32
    IntentCapacity = 64
    MaxSteps = 3
    MaxReplay = 8
    MaxLive = 1
INVARIANTS AbiInv StateNamesSource ReceiptHeld
PROPERTIES CallsKeepPromises
CHECK_DEADLOCK FALSE

SPECIFICATION FairSpec
CONSTANTS
    None = None
    c1 = c1
    c2 = c2
    c3 = c3
    c4 = c4
    Leases <- MCLeases
    MaxLoads = 3
INVARIANTS
    LeaseInv
PROPERTIES
    KeepsContract
    LeasesSettle
CHECK_DEADLOCK FALSE

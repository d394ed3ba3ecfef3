SPECIFICATION FairSpec
CONSTANTS
  MaxRev = 5
  MaxPages = 2
  Sessions <- MCSessions
INVARIANTS EndpointInv DeltaFromPublished
PROPERTIES BaseNeverLost Progress
CHECK_DEADLOCK FALSE

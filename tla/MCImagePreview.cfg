SPECIFICATION PreviewFairSpec
CONSTANTS
    p1 = p1
    p2 = p2
    Previews = {p1, p2}
    MaxActive = 1
    MaxQueued = 1
    MaxEpoch <- MCMaxEpoch
INVARIANTS ImageInv QueueIsLive ShowsItsUri
PROPERTIES Progress
CHECK_DEADLOCK FALSE

SPECIFICATION Spec
CONSTANTS
    Tag <- TwoTags
    NoTag = NoTag
    Kind <- TwoKinds
    Item <- OneEach
    Quantity = 1
    HeldAtStart <- OneVial
    Cap = 3
    MinAbsent = 2
    MaxVerify = 2
    Count <- NewCounts
    Forced <- NoForce
    MaxRuns = 2
    MaxMoves = 0
INVARIANT OnlySettledIsReissued
CHECK_DEADLOCK FALSE

SPECIFICATION DeliverySpec
CONSTANTS
    Tag <- TwoTags
    NoTag = NoTag
    Kind <- TwoKinds
    Item <- OneEach
    Quantity = 1
    HeldAtStart <- OneVial
    Cap = 3
    MinAbsent = 2
    MaxVerify = 2
    Count <- AllCounts
    Forced <- NoForce
    MaxRuns = 3
    MaxMoves = 1
    t1 = t1
    t2 = t2
    t3 = t3
    Thread = {t1, t2, t3}
    Site <- TwoSites
    Unborn = {t3}
    ExitAt <- Whenever
    BornAt <- NotWhileSuspending
    Budget = 2
    MaxInstalls = 2
SYMMETRY SymmetricThreads
INVARIANT TypeOK GivenOnce ArmedIsAccounted CompletedWasGiven NobodyStaysFrozen
PROPERTY CaveRunsWholeRequest LoopDisarms NobodyUnderTheWrite
CHECK_DEADLOCK FALSE

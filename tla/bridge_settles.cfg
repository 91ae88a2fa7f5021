SPECIFICATION FairSpec
CONSTANTS
    Seeds <- OneRoom
    Items <- TwoGoods
    Kinds <- BothKinds
    HeldAtStart <- HoldsVial
    HeldCap = 3
    Patience = 1
    ClientBuild = "r7"
    TableBuild = "r7"
    MaxQuantity = 3
    MaxAttaches = 2
    MaxKills = 1
    MaxMoves = 1
    Gainable <- Nothing
    Usable <- GoodOnly
    PlayerAt <- BetweenPolls
    DieAt <- BetweenPolls
    KillAt <- ClientPlaces
    PollAt <- NotInFiles
    MaxSends = 12
    TornRecords = TRUE
PROPERTY EveryItemSettles
CHECK_DEADLOCK FALSE

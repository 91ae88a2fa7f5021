SPECIFICATION Spec
CONSTANTS
    Seeds <- OneRoom
    Items <- TwoGoods
    Kinds <- BothKinds
    HeldAtStart <- HoldsVial
    HeldCap = 3
    Patience = 2
    ClientBuild = "r7"
    TableBuild = "r7"
    MaxQuantity = 3
    MaxAttaches = 3
    MaxKills = 1
    MaxMoves = 0
    Gainable <- GoodOnly
    Usable <- Nothing
    PlayerAt <- BetweenPolls
    DieAt <- BetweenPolls
    KillAt <- NotInReceipt
    PollAt <- NotBetweenLooks
    MaxSends = 4
    TornRecords = FALSE
INVARIANT GivenOnce
CHECK_DEADLOCK FALSE

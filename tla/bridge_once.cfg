SPECIFICATION Spec
CONSTANTS
    Seeds <- OneRoom
    Items <- TwoGoods
    Kinds <- BothKinds
    HeldAtStart <- HoldsVial
    HeldCap = 3
    Patience = 2
    ClientBuild = "r7"
    TableBuild = "r7"
    MaxQuantity = 3
    MaxAttaches = 2
    MaxKills = 1
    MaxMoves = 1
    Gainable <- BothKinds
    Usable <- Nothing
    PlayerAt <- NotUnverified
    DieAt <- NotUnverified
    KillAt <- NotInReceipt
    PollAt <- NotBetweenLooks
    MaxSends = 4
    TornRecords = FALSE
INVARIANT GivenOnce
CHECK_DEADLOCK FALSE

SPECIFICATION Spec
CONSTANTS
    Seeds <- OneRoom
    Items <- TwoItems
    Kinds <- BothKinds
    HeldAtStart <- HoldsGood
    HeldCap = 3
    Patience = 1
    ClientBuild = "r7"
    TableBuild = "r7"
    MaxQuantity = 3
    MaxAttaches = 2
    MaxKills = 1
    MaxMoves = 1
    Gainable <- VialOnly
    Usable <- GoodOnly
    PlayerAt <- TablePlaces
    DieAt <- TablePlaces
    KillAt <- ClientPlaces
    PollAt <- AnyClientPlace
    MaxSends = 3
    TornRecords = TRUE
INVARIANT TypeOK AckedWasGiven WitnessIsTrue CellIsFree
PROPERTY GivenInOrder VialsAreNotMade
CHECK_DEADLOCK FALSE

SPECIFICATION FairMigrationSpec
CONSTANTS
  k1 = k1
  k2 = k2
  e1 = e1
  e2 = e2
  NoKey = NoKey
  NoEdition = NoEdition
  Key = {k1, k2}
  Edition = {e1, e2}
  CrashAt <- Anywhere
  MaxDeaths = 1
  PlayerAt <- BetweenCalls
  World = {"game"}
  Merging = {e1}
  MigrationAt <- Nowhere
  CompanionWaits = TRUE
PROPERTIES
  TransactionsClose
  MigrationFinishes

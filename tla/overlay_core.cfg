SPECIFICATION MigrationSpec
CONSTANTS
  k1 = k1
  k2 = k2
  e1 = e1
  e2 = e2
  NoKey = NoKey
  NoEdition = NoEdition
  Key = {k1, k2}
  Edition = {e1}
  CrashAt <- OutsideLateRollback
  MaxDeaths = 2
  PlayerAt <- BetweenCalls
  World = {"edit", "game"}
  Merging = {e1}
  MigrationAt <- NotBeforeRecording
  CompanionWaits = FALSE
SYMMETRY Symmetric
PROPERTIES
  ImplementsSwitch
  ForeignIsLeftAlone
  OnlyVerifiedInstalled
  HealsUnlessDeactivating
  PlayerFilesReturn

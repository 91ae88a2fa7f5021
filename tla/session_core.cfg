SPECIFICATION FrontsSpec
CONSTANTS
  p1 = r1
  p2 = r2
  i1 = i1
  i2 = i2
  r1 = r1
  r2 = r2
  s1 = s1
  NoPlay = NoPlay
  Play = {r1, r2}
  Pid = {i1, i2}
  MaxSwitches = 3
  MaxStarts = 2
  MaxGames = 1
  MaxClients = 2
  MaxDeaths = 1
  DieAt <- NotUnrecorded
  StartsWhileArming = FALSE
  NoRoom = NoRoom
  NoServer = NoServer
  Room = {r1, r2}
  Server = {s1}
  EditAt <- BetweenReads
  BootAt <- ByHand
  SwitchAt <- AroundVerification
  PackageAt <- AroundExport
  MaxBoots = 2
  MaxLogins = 2
  MaxFaults = 1
  MaxActivations = 2
  MaxAttached = 1
  MaxHosts = 2
SYMMETRY SymmetricFronts
CHECK_DEADLOCK FALSE
INVARIANTS
  TypeOK
  ClientMatchesGame
  OneClientPerGame
  SessionIsTruthful
  NoStrayServer
  SpeaksForItsGame
  CacheIsTrue
  AttachedToVerifiedBoot
  PackageHasReceipt
PROPERTIES
  ReleaseOnlyDead
  NoSilentRoomChange
  EditedIsKept
  HostedRoomIsPlayed

SPECIFICATION Spec
CONSTANTS
  k1 = k1
  k2 = k2
  e1 = e1
  e2 = e2
  NoKey = NoKey
  NoEdition = NoEdition
  Key = {k1, k2}
  Edition = {e1}
  CrashAt <- Anywhere
  MaxDeaths = 2
  PlayerAt <- BetweenCalls
  World = {}
PROPERTIES
  PromiseKept

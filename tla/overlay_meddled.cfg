SPECIFICATION Spec
CONSTANTS
  k1 = k1
  k2 = k2
  e1 = e1
  e2 = e2
  NoKey = NoKey
  NoEdition = NoEdition
  Key = {k1, k2}
  Edition = {e1, e2}
  CrashAt <- OutsideLateRollback
  MaxDeaths = 3
  PlayerAt <- DuringCalls
  World = {"edit", "game", "cache"}
SYMMETRY Symmetric
INVARIANTS
  TypeOK
  PromiseHeld
PROPERTIES
  PromiseKept
  PreviousIsTruthful

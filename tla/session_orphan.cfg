SPECIFICATION Spec
CONSTANTS
  p1 = p1
  p2 = p2
  i1 = i1
  i2 = i2
  NoPlay = NoPlay
  Play = {p1, p2}
  Pid = {i1, i2}
  MaxSwitches = 3
  MaxStarts = 2
  MaxGames = 1
  MaxClients = 2
  MaxDeaths = 1
  DieAt <- Anywhere
  StartsWhileArming = FALSE
SYMMETRY Symmetric
CHECK_DEADLOCK FALSE
INVARIANT
  OneClientPerGame

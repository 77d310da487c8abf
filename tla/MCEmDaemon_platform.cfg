SPECIFICATION FairSpec
CONSTANTS
  N = 4
  Deps <- PlatformDeps
  RestartEnabled = {3}
  MaxRestarts <- PlatformRestarts
  Degradable = {1}
  FGs = {"MachineFG"}
  States = {}
  FgOf <- MachineFg
  ActiveIn <- NoActiveIn
  FgInitial <- NoInitial
  NoState = NoState
  Torn = Torn
  ModeApp = 0
  HasDeadline = TRUE
  MaxExits = 4
  MaxPublishes = 0
  MaxSpawnFails = 1
INVARIANTS
  ReturnCodeSound
  RestartCap
PROPERTIES
  DeadlineEnds

SPECIFICATION FairSpec
CONSTANTS
  N = 3
  Deps <- ModeDeps
  RestartEnabled = {1, 3}
  MaxRestarts <- ModeRestarts
  Degradable = {}
  FGs = {"DriveParkFG"}
  States = {"drive", "park"}
  FgOf <- ModeFgOf
  NoState = NoState
  Torn = Torn
  ModeApp = 1
  ActiveIn <- ModeActiveIn
  FgInitial <- Unseeded
  HasDeadline = FALSE
  MaxExits = 2
  MaxPublishes = 3
  MaxSpawnFails = 1
INVARIANTS
  PidMatchesChild
PROPERTIES
  NoDoubleLaunch
  ModeConverges

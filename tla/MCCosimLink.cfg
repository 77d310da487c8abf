SPECIFICATION FairSpec
CONSTANTS
    Clients = 2
    MaxTs = 2
    MaxHero = 2
    MaxUp = 1
    MaxUnits = 6
    MaxSplits = 1
    HdrLen = 2
    CmdLen = 3
INVARIANTS
  PlansFromOneTick
  NoTornCommand
PROPERTIES
  NoOlderCommand
  SessionEnds
CHECK_DEADLOCK FALSE

SPECIFICATION Spec
CONSTANTS
    Batch <- AebFollowAeb
    MaxTicks = 2
    MinSamples = 2
INVARIANTS
  EveryCaseAccounted
  SeedIsOfThisCase
  NothingLeftBehind
PROPERTIES
  PassIsEarned
CHECK_DEADLOCK FALSE

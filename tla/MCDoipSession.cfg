CONSTANTS
  Configs <- AllModes
  Blocks = 2
  SeqMax = 1
  MaxRuns = 2
  MaxFaults = 1
SPECIFICATION FairSpec
INVARIANTS
  OkMeansActivated
  FailureHasCause
PROPERTIES
  ActivationSound
  Realigns
  LossNoticed
  WorkersEnd
CHECK_DEADLOCK FALSE

SPECIFICATION FairSpec
CONSTANTS
    Ipc = {"stdio", "file"}
    MaxViews = 2
    MaxOct = 2
    MaxTries = 2
INVARIANTS
  AnswerMatchesQuestion
  OrphanHasCause
PROPERTIES
  StopEnds
CHECK_DEADLOCK FALSE

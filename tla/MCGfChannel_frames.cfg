SPECIFICATION FairSpec
CONSTANTS
  reader = reader
  Buffers = 2
  Readers = {reader}
  InOrder = FALSE
  MaxFrames = 4

  
PROPERTIES
  
  WaiterReturns
CHECK_DEADLOCK FALSE

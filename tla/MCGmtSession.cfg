SPECIFICATION Spec
CONSTANTS
    Files = {"f"}
    Content <- MCContent
    WindowMax = 1
    MaxRows = 1
    MaxWire = 3
    MaxInbox = 1
INVARIANTS
  BoardHoldsSession
PROPERTIES
  LiveKeepsOut
  StopsWithLink
  LossNoticed

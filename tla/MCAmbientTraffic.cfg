SPECIFICATION TrafficSpec
CONSTANTS
    Poses <- MCPoses
    Leads <- MCLeads
    Numbers <- MCNumbers
    Period = 2
    MaxElapsed = 3
    MaxCars = 5
INVARIANTS
  BubbleRoom
  ExamWindowKept
CHECK_DEADLOCK FALSE

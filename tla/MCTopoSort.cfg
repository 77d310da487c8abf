SPECIFICATION SortSpec
CONSTANTS
  Rows = 3
  Names = {"a", "b", "c"}
INVARIANTS
  SortSound

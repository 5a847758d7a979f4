CONSTANTS
  Length = 2
  MaxEdits = 4
  MaxMeets = 1
SPECIFICATION Spec
INVARIANTS
  Normal
  Exact
  Merged
CHECK_DEADLOCK FALSE

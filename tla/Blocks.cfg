CONSTANTS
  Client = {a, b}
  HistoryPerBlock = 1
  PullMax = 1
  MaxEdits = 4
  MaxRemoves = 1
SPECIFICATION Spec
INVARIANTS
  TypeOK
  Kept
  Leads
PROPERTIES
  PullWholeUncut
  Implements

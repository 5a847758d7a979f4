CONSTANTS
  Client = {a, b}
  HistoryPerBlock = 1
  PullMax = 1
  MaxEdits = 4
  MaxRemoves = 0
SPECIFICATION Spec
PROPERTIES
  SnapshotWhole

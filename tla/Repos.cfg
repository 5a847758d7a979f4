CONSTANTS
  Device = {a, b}
  Worker = {1, 2}
  PullMax = 1
  MaxEdits = 3
  Cases <- MCCases
SPECIFICATION FairSpec
INVARIANTS
  TypeOK
  SeqPulled
  NothingLost
PROPERTIES
  Implements
  NothingUnseen
  Converge
CHECK_DEADLOCK FALSE

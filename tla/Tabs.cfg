CONSTANTS
  Sid = {1}
  Tab = {a, b}
  Edits = {"type", "erase", "retype"}
  Timeouts = {TRUE, FALSE}
  MaxEdits = 3
SPECIFICATION FairSpec
INVARIANTS
  TypeOK
  FrontierDisjoint
  NothingLost
  Agree
PROPERTIES
  ComesToRest
CHECK_DEADLOCK FALSE

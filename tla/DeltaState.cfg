CONSTANTS
  Sid = {1, 2}
  Keys = {}
  Docs = {{"ins_str"}}
  Exclusive = {{"ins_str"}}
  MaxOps = 4
  MaxSyncs = 3
SPECIFICATION Spec
INVARIANTS
  SameState
CHECK_DEADLOCK FALSE

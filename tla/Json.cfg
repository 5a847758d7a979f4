CONSTANTS
  Sid = {1, 2}
  Keys = {"a"}
  MaxIndex = 1
  Docs = {{"con", "obj"}, {"con", "vec"}, {"con", "arr"}}
  MaxPatches = 4
SPECIFICATION Spec
INVARIANTS
  Materialized
  NoneMissing
PROPERTIES
  LocalWins

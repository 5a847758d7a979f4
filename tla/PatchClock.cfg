CONSTANTS
  Sid = {1, 2, 3}
  Spans = {1, 2}
  MaxOps = 4
SPECIFICATION Spec
INVARIANTS
  TypeOK
  IdsUnique
  PatchContiguous
  ClockAhead
  HasExact

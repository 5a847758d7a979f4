CONSTANTS
  Sid = {1, 2, 3}
  Groups = {{1, 2}, {1, 2, 3}}
  Spans = {1, 2}
  MaxWork = 6
SPECIFICATION Spec
INVARIANTS
  Materialized
  DeletedExactly
  LinksGenuine
PROPERTIES
  LocalIntent

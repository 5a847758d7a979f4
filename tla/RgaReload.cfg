CONSTANTS
  Sid = {1, 2}
  Groups = {{1, 2}}
  Spans = {1}
  MaxWork = 7
SPECIFICATION ReloadSpec
INVARIANT UniqueChunkIds

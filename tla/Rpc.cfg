CONSTANTS
  Makes <- MCMakes
  MaxBreaks = 2
  MaxId = 2
  BufferSize = 1
  Cases <- MCCases
SPECIFICATION FairSpec
INVARIANTS
  TypeOK
  AnswersOwn
  InOrder
  OncePerConnection
PROPERTIES
  Answered
  KeepsConnected
CHECK_DEADLOCK FALSE

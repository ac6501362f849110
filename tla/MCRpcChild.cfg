SPECIFICATION FairSpec
CONSTANTS
  n1 = n1
  n2 = n2
  Nested <- MCOne
  MaxQuestions = 2
  MaxMessages = 1
INVARIANTS
  ReplyAccepted
PROPERTIES
  CompleteIsFinal
  StopEnds
CHECK_DEADLOCK FALSE

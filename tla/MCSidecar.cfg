SPECIFICATION MCSpec
CONSTANTS
  MaxQuestions = 2
  MaxCommands = 3
  MaxReloads = 2
  Absent = Absent
CHECK_DEADLOCK FALSE
INVARIANTS
  HeardOnce
  OutcomeTrue
PROPERTIES
  NothingMissed

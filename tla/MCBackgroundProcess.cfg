SPECIFICATION FairSpec
CONSTANTS
  p1 = p1
  p2 = p2
  Procs <- MCProcs
  Services <- MCSecond
  Timed <- MCFirst
  MaxRunning = 2
  MaxRecent = 1
  BatchSize = 1
  MaxChanges = 1
  MaxDrops = 1
  Absent = Absent
INVARIANTS
  Supervised
  ResultsKept
PROPERTIES
  OutcomeKept
  DeliveryKept

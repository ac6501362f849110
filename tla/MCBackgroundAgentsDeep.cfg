SPECIFICATION MCSpec
CONSTANTS
  r1 = r1
  r2 = r2
  r3 = r3
  Runs <- MCRuns
  Pane <- MCFirst
  Worktree <- MCFirst
  StartsEarly = FALSE
  MaxChanges = 3
  MaxDrops = 2
  Absent = Absent
INVARIANTS
  ResultsKept
PROPERTIES
  FailureDelivered
  DeliveryKept

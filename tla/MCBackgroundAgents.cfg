SPECIFICATION LeafSpec
CONSTANTS
  r1 = r1
  r2 = r2
  r3 = r3
  Runs <- MCRuns
  Pane <- MCFirst
  Worktree <- MCSecond
  StartsEarly = FALSE
  MaxChanges = 2
  MaxDrops = 0
  Absent = Absent
INVARIANTS
  Supervised

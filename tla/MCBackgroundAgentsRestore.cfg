SPECIFICATION Spec
CONSTANTS
  r1 = r1
  r2 = r2
  r3 = r3
  Runs <- MCThree
  Pane <- MCThree
  Worktree <- MCNone
  StartsEarly = TRUE
  MaxChanges = 1
  MaxDrops = 0
  Absent = Absent
INVARIANT LostIsOver
SYMMETRY MCSymmetry
CHECK_DEADLOCK FALSE

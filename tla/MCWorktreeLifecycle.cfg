SPECIFICATION MCSpec
CONSTANTS
  p1 = p1
  p2 = p2
  r1 = r1
  r2 = r2
  w1 = w1
  Procs <- MCProcs
  Runs <- MCRuns
  Trees <- MCTrees
  Parent <- MCParent
  TreeOf <- MCTreeOf
  MaxCommits = 2
  MaxFaults = 1
  Absent = Absent
CHECK_DEADLOCK FALSE
SYMMETRY MCSymmetry
INVARIANTS
  RecordsTrue
PROPERTIES
  NoneRemovedInUse
  ReviewedIntegrated

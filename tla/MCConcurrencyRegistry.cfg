SPECIFICATION BurstSpec
CONSTANTS
  MaxCalls = 4
  p1 = p1
  p2 = p2
  i1 = i1
  i2 = i2
  o1 = o1
  o2 = o2
  Procs <- MCProcs
  Ids <- MCIds
  Ops <- MCOps
  Limit = 1
  CrashProcs <- MCOne
  SlowProcs <- MCOther
  NoId = NoId
  NoCall = NoCall
  Free = Free
  Orphan = Orphan
INVARIANTS
  HeldWithinLimit
PROPERTIES
  CallsEnd
CHECK_DEADLOCK FALSE

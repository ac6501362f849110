SPECIFICATION FairSpec
CONSTANTS
  NumJobs = 2
  Shell <- MCFirst
  Recurring <- MCFirst
  Policy <- MCPolicy
  MaxRuns = 2
  MaxJobs = 2
  MaxFaults = 1
  Absent = Absent
PROPERTIES
  ExecutionsApart
  WakesDelivered

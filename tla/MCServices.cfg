SPECIFICATION ServicesSpec
CONSTANTS
  SudoCalls = {c1, c2}
  MaxPasswords = 2
  NoHandle = NoHandle
  Nobody = Nobody
  Procs = {p1}
  Services = {}
  Timed = {p1}
  MaxRunning = 1
  MaxRecent = 1
  BatchSize = 1
  MaxChanges = 1
  MaxDrops = 1
  Absent = Absent
  MaxCommands = 3
  MaxCalls = 1
  MaxMail = 2
CHECK_DEADLOCK FALSE
PROPERTIES
  CommandsEnd
  ShutdownKills
  RunsConclude

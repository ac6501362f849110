SPECIFICATION Extensions
CONSTANTS
  SegmentSize = 2
  MaxOutput = 6
  MaxFailures = 1
  Missing = Missing
  Sessions = {s1, s2}
  Accounts = {a1, a2}
  MaxOperations = 3
  MaxSuspensions = 1
  NoAccount = NoAccount
  Vaults = {a1, a2}
  Pi = Pi
  Unpinned = Unpinned
  MaxEvents = 4
  Messages = {1, 2, 3, 4}
  TimeOf <- MCTimes
  MaxKept = 3
  Limit = 1
  MaxDeaths = 2
  MaxAppends = 4
  Drafts = {1, 2}
  MaxServers = 2
  MaxTurns = 2
  MaxGenerations = 5
  SkillSessions = {s1, s2}
  MaxEdits = 3
  NoPanel = NoPanel
  Reviewers = {r1, r2}
  Items = {i1}
  MaxReviewCommands = 4
  NoReport = NoReport
  Nobody = Nobody
  Images = {f1, f2}
  MaxTexts = 2
  MaxSending = 2
  MaxAppendFailures = 1
  BashCalls = {1, 2, 3}
  PiProcs = {1, 2}
  ProcOf <- MCProcOf
  Content <- MCContent
  MaxFiles = 2
  MaxWorkers = 1
  MaxFaults = 1
  Guides = {1, 2, 3}
  NoGuide = NoGuide
  Paths <- MCPaths
  Sizes = {1, 2}
  Activation = 3
  Context = 4
  Notices = 2
  MaxReads = 2
  Questions = {q1, q2, q3}
  NoQuestion = NoQuestion
  SudoCalls = {c1, c2}
  MaxPasswords = 2
  NoHandle = NoHandle
  MaxCommands = 2
  MaxCalls = 1
  MaxDrops = 1
  MaxMail = 2
SYMMETRY MCSymmetry
CHECK_DEADLOCK FALSE
INVARIANTS
  AllTypeOK
  OnePiece
  TokensLive
  NoFallback
  IndexTrue
  ServersUnloaded
  ShownIsStored
  ReviewTrue
  PromptKept
  OriginalsTrue
  GuidesTold
  PopupsSerial
  WorkerIsCurrent
PROPERTIES
  PromptSentOrKept
  NoStaleResult
  WorkersAlone

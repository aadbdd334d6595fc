SPECIFICATION MixedSpec
CONSTANTS
  Plan <- DefaultPollPlan
  MaximumRequests = 32
  Interval <- ShortInterval
  Gap = 17
  LoopDelay = 1
  Freshness = 100
  ResponseTimeout = 30
  ReplyTimes = {1, 30}
  CommandLengths = {4}
  Installations <- AllInstallations
  RejectedSets <- Rejections
  MaxSessions = 2
INVARIANTS TypeOK NeverStuckOnEmptyBlock StatusSoonRead SnapshotStaysFresh 
PROPERTIES StatusBecomesKnown

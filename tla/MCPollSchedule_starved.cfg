SPECIFICATION FairSpec
CONSTANTS
  Plan <- DefaultPollPlan
  MaximumRequests = 32
  Interval <- CadenceInterval
  Gap = 17
  LoopDelay = 1
  Freshness = 100
  ResponseTimeout = 30
  ReplyTimes = {2}
  CommandLengths = {}
  Installations <- Household
  RejectedSets <- NoneRejected
  MaxSessions = 1
PROPERTIES EveryBlockPolled

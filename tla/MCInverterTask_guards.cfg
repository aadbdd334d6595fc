SPECIFICATION FairSpec
CONSTANTS
  HoldingCatalog <- GuardCells
  InputCatalog <- InputCells
  Command <- GuardCommands
  PollRead <- GuardPolls
  StatusPoll <- StatusBlock
  PanelWord = {0}
  InitialWord = {0}
  RawStatus = {0, 1}
  Gap = 1
  ReplyWindow = 2
  Freshness = 2
  MaxLate = 1
  MaxCommands = 1
INVARIANTS TypeOK
PROPERTIES StandbyWriteEvidence CommandAnswered

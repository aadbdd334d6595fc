\* Two commands, frames that are performed late, a front-panel user.
SPECIFICATION Spec
CONSTANTS
  HoldingCatalog <- OutcomeCells
  InputCatalog <- InputCells
  Command <- OutcomeCommands
  PollRead <- OutcomePolls
  StatusPoll <- StatusBlock
  PanelWord = {0}
  InitialWord = {1}
  RawStatus = {0}
  Gap = 0
  ReplyWindow = 0
  Freshness = 0
  MaxLate = 1
  MaxCommands = 2
ACTION_CONSTRAINTS Unmistakable
INVARIANTS RefusedNeverWritten
PROPERTIES ConfirmedWasSeen FeatureBitIsolated ContractSpec

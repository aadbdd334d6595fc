SPECIFICATION Spec
CONSTANTS
  HoldingCatalog <- LateCells
  InputCatalog <- InputCells
  Command <- LateCommands
  PollRead <- LatePolls
  StatusPoll <- StatusBlock
  PanelWord = {}
  InitialWord = {0, 1}
  RawStatus = {1}
  Gap = 0
  ReplyWindow = 0
  Freshness = 0
  MaxLate = 1
  MaxCommands = 1
PROPERTIES ConfirmedWasSeen

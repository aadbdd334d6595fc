\* Commands for two inverters in every arrangement of ESPs, telemetry in between, one fault.
SPECIFICATION FairSpec
CONSTANTS
  Topologies = {"standalone", "combined", "gateway"}
  Member <- TwoInverters
  Command <- MixedCommands
  RingSize = 2
  QueueCap = 2
  LinkCap = 1
  PublishCap = 1
  Emits = TRUE
  MaxAccepted = 3
  MaxFaults = 1
INVARIANTS TypeOK NoEarlyRepeat ExecutedInOrder AnsweredInOrder
PROPERTIES AnsweredUnlessDropped
CHECK_DEADLOCK FALSE

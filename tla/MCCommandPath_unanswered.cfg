\* One ESP, no fault: commands that come faster than the inverter answers.
SPECIFICATION FairSpec
CONSTANTS
  Topologies = {"standalone"}
  Member <- OneInverter
  Command <- OwnCommands
  RingSize = 2
  QueueCap = 2
  LinkCap = 1
  PublishCap = 2
  Emits = FALSE
  MaxAccepted = 4
  MaxFaults = 0
PROPERTIES EveryCommandAnswered
CHECK_DEADLOCK FALSE

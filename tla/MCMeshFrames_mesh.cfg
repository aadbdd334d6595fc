\* A board and one listener: number races, losses, repeats and restarts.
SPECIFICATION FairSpec
CONSTANTS
  Listener = {m1}
  Roles = {"coordinator", "member"}
  InboxCap = 2
  Interval = 1
  MaxNumber = 4
  MaxSent = 2
  MaxFaults = 2
INVARIANTS TypeOK
PROPERTIES ChannelSpec RefusedForAReason HeardWhenQuiet

\* A member whose announcement was lost, among boards that are heard all the time.
SPECIFICATION FairSpec
CONSTANTS
  Listener = {m1}
  Roles = {"member"}
  InboxCap = 1
  Interval = 2
  MaxNumber = 2
  MaxSent = 1
  MaxFaults = 2
PROPERTIES AnnouncedUntilLearned

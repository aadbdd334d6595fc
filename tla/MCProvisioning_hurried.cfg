\* A second form of the same household is posted while the first is verified.
SPECIFICATION Spec
CONSTANTS
  Forms <- CoordinatorForms
  Hellos <- Partners
  OwnSite = "own"
  MasterSite = "master"
  Slots = 2
  Stable = 1
  MaxForms = 2
  MaxFaults = 0
INVARIANTS FinalIsVerified
CHECK_DEADLOCK FALSE

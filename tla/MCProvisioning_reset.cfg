\* A factory reset of a paired coordinator, whose member goes on announcing.
SPECIFICATION Spec
CONSTANTS
  Forms <- CoordinatorForms
  Hellos <- Partners
  OwnSite = "own"
  MasterSite = "master"
  Slots = 2
  Stable = 1
  MaxForms = 1
  MaxFaults = 1
INVARIANTS ResetErases

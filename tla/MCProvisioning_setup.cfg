\* Every role with partners, two forms, one fault: setup, verification, pairing and restarts.
SPECIFICATION FairSpec
CONSTANTS
  Forms <- PartnerForms
  Hellos <- Partners
  OwnSite = "own"
  MasterSite = "master"
  Slots = 2
  Stable = 1
  MaxForms = 2
  MaxFaults = 1
INVARIANTS TypeOK FinalIsVerifiedOrHasty FinalHasPartners SavedIsResumed
PROPERTIES FinalKeepsPairing VerificationEnds
CHECK_DEADLOCK FALSE

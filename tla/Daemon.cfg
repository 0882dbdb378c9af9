SPECIFICATION Spec
CONSTANTS
  Fingerprints = {p}
  NoFingerprint = none
  PlanVerdicts = {"PASS", "VULNERABLE"}
  Fixed = 1
  PlansPerCycle = 2
  MaxPlans = 2
  Persist = TRUE
  MaxCycles = 2
  Endless = null
  StartLimit = 2
  MaxCampaigns = 2
INVARIANTS TypeOK LatestHasItsReport EvidenceAccounted GreenIsEarned FoundIsNotGreen
  AccusationIsFounded NoOrphanEvidence
PROPERTY StopDrawsNear

SPECIFICATION Spec
CONSTANTS
  Fingerprints = {p, q}
  NoFingerprint = none
  Adapters = {"http_request"}
  MaxSteps = 3
  MaxRequests = 2
  Responses = {seen}
  Budget = exhausted
  Metadata = {"any", "few"}
  OracleIds = {"status", "effect", "unregistered"}
  Registered = {"status", "effect"}
  AnswerSet <- MCAnswerSet
  Answers <- MCAnswers
  Plans <- AllPlans
  Proposals <- MCProposals
  MaxPlans = 2
  Required = 3
INVARIANTS
  TypeOK PromotedOnlyIfReproduced PromotedOnlyIfDecided EffectsAuthorized PlanEffectsBounded
PROPERTIES
  ImplementsPromotion SteadyRejectionHasNoEffect CampaignDrawsNear CampaignEnds

SPECIFICATION ProbeSpec
CONSTANTS
  Fingerprints <- MCFingerprints
  NoFingerprint = none
  Adapters <- MCAdapters
  MaxSteps = 4
  MaxRequests = 4
  Responses <- MCResponses
  Budget <- MCBudget
  Metadata <- MCMetadata
  OracleIds <- MCOracleIds
  Registered <- MCOracleIds
  AnswerSet <- MCAnswerSet
  Answers <- ProbeAnswers
  Plans <- Moved
  Proposals <- OneAtMost
  MaxPlans = 2
  Required = 2
  Gateway = {"deny", "leak", "allow", "accept", "challenge", "late", "lost"}
  Service = {"refuse", "serve", "break", "expose", "lost"}
  MaxHits = 4
  MaxStrays = 2
  MaxRestarts = 0
PROPERTY PassMeansBlocked

SPECIFICATION ProbeSpec
CONSTANTS
  Fingerprints <- MCFingerprints
  NoFingerprint = none
  Adapters <- MCAdapters
  MaxSteps = 4
  MaxRequests = 4
  Responses <- MCResponses
  Budget <- MCBudget
  Metadata <- MCMetadata
  OracleIds <- MCOracleIds
  Registered <- MCOracleIds
  AnswerSet <- MCAnswerSet
  Answers <- ProbeAnswers
  Plans <- MCPlans
  Proposals <- OneAtMost
  MaxPlans = 1
  Required = 2
  Gateway = {"deny", "leak", "allow", "accept", "challenge", "late", "lost"}
  Service = {"refuse", "serve", "break", "expose", "lost"}
  MaxHits = 4
  MaxStrays = 2
  MaxRestarts = 1
PROPERTIES PassMeansDenied VulnerableMeansDefect CuratedSilenceIsNotPass DiagnosticNeverAccuses

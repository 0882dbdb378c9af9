SPECIFICATION Spec
CONSTANTS
  Providers = {"codex", "claude", "gemini"}
  Roster <- MCRoster
  Role = {"recon", "planner", "critic", "mutator", "minimizer"}
  RolesOf <- PairRoles
  MaxAsked = 18
  Spelling <- MCSpelling
  Host = {"127.0.0.1", "192.168.56.20", "example"}
  OriginOf <- MCOrigin
  BaseOf <- MCBase
  HostOf <- MCHost
  NoHost = "nowhere"
  Loopback = {"127.0.0.1"}
  Private = {"192.168.56.20"}
  OracleName = {"http_status", "upstream_zero", "reachability", "homemade"}
  Metadata = {"diagnostic", "rejection", "denial", "lenient"}
  Callback <- MCCallback
  AgentPlan <- MCAgentPlan
  OracleIds = {"http_status", "upstream_zero", "reachability"}
  Labs <- MCLabs
  CustomPlans <- MCCustomPlans
INVARIANTS
  TypeOK VariationsKeepTheirSeed AgentsNeverStopTheCycle AuthorizationIsSettled
  SentAsClassified CatalogPassesItsGate

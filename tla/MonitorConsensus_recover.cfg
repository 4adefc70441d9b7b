SPECIFICATION FairSpec
CONSTANTS
  Evaluators = {e1}
  Agents = {a1}
  Regions = {"eu", "agent"}
  Configured = {"eu"}
  PrimaryRegion = "default"
  AgentRegion = "agent"
  MinRegions = 2
  Freshness = 1
  MetricsWindow = 1
  Maintenance = {1}
  Overlap = TRUE
  MaxLag = 0
  FailureCap = 1
  MaxTime = 2
  Budget <- BudgetRecover
INVARIANTS DownIsAnnounced
PROPERTIES EventuallyRecovered

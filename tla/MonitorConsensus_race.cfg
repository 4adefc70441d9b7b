SPECIFICATION Spec
CONSTANTS
  Evaluators = {e1, e2}
  Agents = {}
  Regions = {"eu", "us", "stray", "agent"}
  Configured = {"eu", "us"}
  PrimaryRegion = "eu"
  AgentRegion = "agent"
  MinRegions = 2
  Freshness = 0
  MetricsWindow = 1
  Maintenance = {}
  Overlap = TRUE
  MaxLag = 1
  FailureCap = 1
  MaxTime = 2
  Budget <- BudgetRace
SYMMETRY EvaluatorSymmetry
INVARIANTS QuorumBacksEveryIncident
PROPERTIES ForeignIncidentsUntouched SilenceDecidesNothing

SPECIFICATION Spec
CONSTANTS
  Concurrency = 2
  Primary = "eu"
  Remotes = {"us"}
  Intervals = {2}
  Sights = {"up", "down"}
  FirstSight = "down"
  Caps = {2}
  MinRegions = 2
  Freshness = 5
  FailureCap = 3
  Old = 9
  Overdue = 4
  Settled = 16
  Budget <- BudgetLoop
INVARIANTS WatchedInTime PaceKept StatusFollows

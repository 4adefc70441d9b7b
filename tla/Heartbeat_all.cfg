SPECIFICATION FairSpec
CONSTANTS
  Pings = {p1, p2}
  Ticks = {t1}
  NextExpected <- EveryTwo
  Grace = 1
  Maintenance = {}
  MaxTime = 7
  Budget <- BudgetAll
INVARIANTS DownHasAReason IncidentMatchesStatus OneIncidentPerCause
PROPERTIES OverdueEndsDown

SPECIFICATION FairSpec
CONSTANTS
  Pings = {p1}
  Ticks = {t1}
  NextExpected <- EveryTwo
  Grace = 1
  Maintenance = {4}
  MaxTime = 6
  Budget <- BudgetWindow
PROPERTIES StillFailingOpensIncident

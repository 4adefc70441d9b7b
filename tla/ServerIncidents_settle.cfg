SPECIFICATION FairSpec
CONSTANTS
  Handlers = {w1}
  Ticks = {t1}
  Hosts = {"web-01", "web-02"}
  Metrics = {"cpu"}
  Windows = {1, 2}
  Maintenance = {2}
  MaxTime = 3
  Budget <- BudgetLive
INVARIANTS AtMostOneOfAKind
PROPERTIES EventuallySettled

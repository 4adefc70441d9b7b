SPECIFICATION Spec
CONSTANTS
  Handlers = {w1, w2}
  Ticks = {t1}
  Hosts = {"web-01"}
  Metrics = {"cpu"}
  Windows = {1, 2}
  Maintenance = {4}
  MaxTime = 4
  Budget <- BudgetRace
SYMMETRY HandlerSymmetry
INVARIANTS IncidentsNeverStack ReconciledAtRest
PROPERTIES QuietOnlyWhenOverdue StatusPromise

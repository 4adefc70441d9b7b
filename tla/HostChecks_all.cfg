SPECIFICATION FairSpec
CONSTANTS
  Kinds = {"dns", "port_scan"}
  RecordTypes <- TwoTypes
  Versions = 2
  Workers = {w1, w2}
  MaxPending = 1
  Budgets <- BudgetsAll
INVARIANTS TypeOK OneOfACause ChangesAreTold
PROPERTIES SnapshotsCatchUp WrongPortsStayOpen

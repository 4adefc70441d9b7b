SPECIFICATION Spec
CONSTANTS
  Monitors = {1, 2, 3}
  TokenOf <- Box
  OwnerOf <- Owners
  Bare = {2}
  LegacyOpen = {3}
  Batch = 2
  Budget <- BudgetRoundTrip
INVARIANTS ReadingsKeptOnce BoxesNeverMix RoundTrip CompleteMeansServed
CHECK_DEADLOCK FALSE

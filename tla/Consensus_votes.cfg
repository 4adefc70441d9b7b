SPECIFICATION Spec
CONSTANTS
  Regions = {"eu", "us", "ap", "sa"}
  Thresholds <- AnyThreshold
  Probes = {"eu", "us", "ap"}
  Confirm = 2
  Interval = 4
  Spread = 1
  DayLength = 5
  DayDownBelow = 99
  RoundFloor = 1
  RoundCeiling = 3
INVARIANTS ThresholdOnlyConfirms RoundsAreTicks
PROPERTIES WorseNeverBetter
CHECK_DEADLOCK FALSE

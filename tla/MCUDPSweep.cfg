SPECIFICATION Spec
CONSTANTS
  MaxRates = {6, 2000000}
  MaxSteps = 12
  TolerancePct = 5
  NumSizes = 2
INVARIANTS
  TypeOK
  FailureIsThorough
  BestIsHighestUsable
  LimitingMeansCeiling
  SweepInvariant
PROPERTIES
  SweepEnds
CHECK_DEADLOCK FALSE

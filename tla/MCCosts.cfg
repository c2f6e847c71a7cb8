SPECIFICATION Spec
CONSTANTS
  GRID = 3
  PENNY = 6
  LastDay = 5
  TaxYearStart = 1
  TaxYearEnd = 5
  BED_AND_BREAKFAST_DAYS = 2
  Histories <- CostHistories
INVARIANTS
  CostConserved
  PassesAgreeOnUnits
  NoAssertionFails
  EriReachesEveryUnit
PROPERTIES
  ClaimsFollowTheRatio
CHECK_DEADLOCK FALSE

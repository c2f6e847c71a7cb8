SPECIFICATION Spec
CONSTANTS
  GRID = 1
  PENNY = 1
  LastDay = 4
  TaxYearStart = 1
  TaxYearEnd = 4
  BED_AND_BREAKFAST_DAYS = 2
  Histories <- EriHistories
INVARIANT
  EriChargedOncePerUnit
CHECK_DEADLOCK FALSE

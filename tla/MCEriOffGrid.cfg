SPECIFICATION Spec
CONSTANTS
  GRID = 3
  PENNY = 6
  LastDay = 4
  TaxYearStart = 1
  TaxYearEnd = 4
  BED_AND_BREAKFAST_DAYS = 2
  Histories <- OffGridEriHistories
INVARIANT
  NoAssertionFails
CHECK_DEADLOCK FALSE

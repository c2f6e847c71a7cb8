SPECIFICATION Spec
CONSTANTS
  GRID = 1
  PENNY = 1
  LastDay = 5
  TaxYearStart = 1
  TaxYearEnd = 5
  BED_AND_BREAKFAST_DAYS = 2
  Histories <- FreeShareHistories
INVARIANT
  RepurchaseBasisNotNegative
CHECK_DEADLOCK FALSE

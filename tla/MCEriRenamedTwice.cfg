SPECIFICATION Spec
CONSTANTS
  GRID = 1
  PENNY = 1
  LastDay = 3
  TaxYearStart = 1
  TaxYearEnd = 3
  BED_AND_BREAKFAST_DAYS = 2
  Tickers = 3
  NamedByIsin = {2}
  balance_check = FALSE
  Account <- Accounts
  Ledgers <- RenameLedgers
INVARIANTS
  ReportsFollowEveryRename
CHECK_DEADLOCK FALSE

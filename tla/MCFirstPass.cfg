SPECIFICATION Spec
CONSTANTS
  GRID = 1
  PENNY = 1
  LastDay = 3
  TaxYearStart = 1
  TaxYearEnd = 3
  BED_AND_BREAKFAST_DAYS = 2
  Tickers = 3
  NamedByIsin = {2, 3}
  balance_check = TRUE
  Account <- Accounts
  Ledgers <- AllLedgers
INVARIANTS
  OverdraftsAreReal
  ConnectedGiftStandsAlone
  HandsOverAcceptedHistory
  BrokerDeltaIsWhole
  ClosesOnBrokersCount
  PassesAgreeAtEachClose
  ReorganisationDayOrderFree
  RenameDayOrderFree
  SourcesMatchHolding
  ReportsReachEveryName
CHECK_DEADLOCK FALSE

SPECIFICATION RecordsSpec
CONSTANTS
  LastYear = 2
  DaysInYear = 3
  DaysInMonth = 2
  DIVIDEND_TAX_MATCH_DAYS = 2
  DIVIDEND_TAX_LEAD_DAYS = 1
  DIVIDEND_DOUBLE_TAXATION_RULES <- MCTreaties
  Parts = 4
  Penny = 4
  InterestFunds = {"F"}
  NoValue = NoValue
  Rate <- MCRate
  IsinCountry <- MCIsinCountry
  CurrencyCountry <- MCCurrencyCountry
  Accounts <- MCIncomes
  Runs = {r1, r2}
  NoRate = 0
  Dates <- MCDates
  Currencies <- MCCurrencies
  MonthOf <- MCMonthOf
  Shipped <- MCShipped
  ShippedMonths = {1, 2}
  FIRST_DOWNLOADED_RATES_MONTH = 2
  Listed <- MCListed
  Tables <- MCTables
  Typable <- MCTypable
  MaxEdits = 1
  MaxQuestions = 2
  Bundled <- MCBundled
  UsIsins = {"U1"}
  OverTheCounter = {"OPENF"}
  Aliases <- MCAliases
  Lookups <- MCLookups
  Inputs <- MCInputs
  UserFiles <- MCUserFiles
  NoTicker = ""
  NoIsin = "none"
  MaxRuns = 2
INVARIANTS
  WithholdingInOneYear
  SummariesCountEachOnce
  ReportMatchesRows
  ReliefIsWithheld
  TypedRowsSurvive
  EveryRateUsedIsOnFile
  IdentityOrderFree
  SavedTableLoads
SYMMETRY MCRunsAlike
CHECK_DEADLOCK FALSE

CONSTANTS
    OptionAssignmentShares = 2
    SettlementMatchDays = 2
    CancelBuySearchDays = 2
    AwardSearchDays = 1
    Symbol <- MCSymbols
    Missing = Missing
    Accounts <- MCAccounts
    AwardFiles <- MCAwardFiles
SPECIFICATION Spec
INVARIANTS
    CancelledInPairs
    DirectoryEqualsOneFile
    ContractsEndOnce
    OneReadingOfSettlements
    CashAndSharesKept
    VestCostsAreTheirs
CHECK_DEADLOCK FALSE

CONSTANTS
    OptionAssignmentShares = 2
    SettlementMatchDays = 2
    CancelBuySearchDays = 2
    AwardSearchDays = 1
    Symbol <- MCSymbols
    Missing = Missing
    Accounts <- Cancellations
    AwardFiles <- MCAwardFiles
SPECIFICATION Spec
INVARIANTS
    RefusedOnlyWithoutABuy
CHECK_DEADLOCK FALSE

CONSTANTS
    WholeShare = 2
    PriceFloor = 3
    Blank = Blank
    Exports <- AwardExports
    TicksPerSecond = 3
    SecondsPerDay = 4
    SplitPairMaxGap = 3
    SplitCandidateWindow = 4
    CandidateLimit = 3
    QuantityEpsilon = 1
    RatioSearchBound = 6
    AccountCurrency = "EUR"
    NoValue = NoValue
    Directories <- MCDirectories
SPECIFICATION ExportsSpec
INVARIANTS
    UnitsAreCurrent
    RestatedDisposalWarned
    AccountCountedOnce
    EveryTradeOnItsSide
    RatioIsTrue
    MergeIgnoresFileNames
CHECK_DEADLOCK FALSE

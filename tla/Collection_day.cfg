\* One ticker through a day, a sliding window; requests, appends and the process fail.
SPECIFICATION Spec
CONSTANTS
    Keys <- AllKeys
    Symbols <- ThreeStrikes
    MayFailSave = FALSE
    MayFailRead = FALSE
    MayFailQuarantine = FALSE
    MayLosePower = FALSE
    MaxCrashes = 1
    Tickers <- OneTicker
    Dates <- OneDate
    Windows <- SlidingWindows
    BatchSize = 2
    DiscoveryInterval = 2
    MayFailRequest = TRUE
    MayFailAppend = TRUE
    MaxCycles = 4
    Expected <- ThreeCycles
    WarningPct = 60
    HealthyPct = 98
    MorningCycles = 1
    TailCycles = 0
    SampleContracts = 2
INVARIANTS
    RowsAreOfKnownContracts
    QuotedIsPersisted
    LossIsReported
    FailureShows
    FullCycleValidates
PROPERTIES
    StickySpec

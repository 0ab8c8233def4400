\* Two tickers over two sessions: failing requests, appends, saves and reads, a death of the
\* process or of the machine, which damages metadata and Parquet files.
SPECIFICATION Spec
CONSTANTS
    Keys <- AllKeys
    Symbols <- TwoStrikes
    MayFailSave = TRUE
    MayFailRead = TRUE
    MayFailQuarantine = FALSE
    MayLosePower = TRUE
    MaxCrashes = 1
    Tickers <- TwoTickers
    Dates <- TwoDates
    Windows <- GrowingWindows
    BatchSize = 2
    DiscoveryInterval = 2
    MayFailRequest = TRUE
    MayFailAppend = TRUE
    MaxCycles = 2
INVARIANTS
    OneSessionInMemory
    UnderlyingFirst
PROPERTIES
    CorruptFilesPreserved
    SavedContractsStay
    DiscoveryTimesStay
    EveryTickerReports
    ListedStays

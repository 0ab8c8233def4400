\* One ticker, whose quotes come in two batches, over two sessions: failing requests, appends,
\* saves, reads and health writes, a death, damaged metadata, Parquet and health files; fairness.
SPECIFICATION FairCollectorSpec
CONSTANTS
    Keys <- AllKeys
    Symbols <- TwoStrikes
    MayFailSave = TRUE
    MayFailRead = TRUE
    MayFailQuarantine = FALSE
    MayLosePower = TRUE
    MaxCrashes = 1
    Tickers <- OneTicker
    Dates <- TwoDates
    Windows <- SlidingWindows
    BatchSize = 1
    DiscoveryInterval = 2
    MayFailRequest = TRUE
    MayFailAppend = TRUE
    MaxCycles = 3
    Expected <- ThreeCycles
    WarningPct = 60
    HealthyPct = 98
    MorningCycles = 1
    TailCycles = 0
    SampleContracts = 2
    HealthWriteEvery = 2
    MayFailWrite = TRUE
    None = None
INVARIANTS
    CountedIsStored
PROPERTIES
    CycleIsRecorded

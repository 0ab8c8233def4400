\* A failed save and a restart, nothing else.
SPECIFICATION Spec
CONSTANTS
    Keys <- AllKeys
    Symbols <- ThreeStrikes
    MayFailSave = TRUE
    MayFailRead = FALSE
    MayFailQuarantine = FALSE
    MayLosePower = FALSE
    MaxCrashes = 1
    Tickers <- OneTicker
    Dates <- OneDate
    Windows <- SlidingWindows
    BatchSize = 2
    DiscoveryInterval = 2
    MayFailRequest = FALSE
    MayFailAppend = FALSE
    MaxCycles = 3
PROPERTIES
    StickySpec

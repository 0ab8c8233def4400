\* Sleeps and cycles that fit the interval, fair: nothing expected is missed, what is begun ends.
SPECIFICATION FairSpec
CONSTANTS
    Horizon = 24
    LastDay = 1
    DateOf <- WideDateOf
    TradingDays <- MCTrading
    SessionOpen <- WideOpen
    SessionClose <- WideClose
    EquityClose <- WideEquity
    RegularEquityClose <- WideRegular
    EarlyCloseExtra = 1
    Interval = 4
    SearchDays = 15
    NoWindow = NoWindow
    None = None
    Grace = 2
    SleepSlice = 1
    Second = 1
    Minute = 2
    HealthWriteEvery = 2
    RestartDelay = 3
    MaxLag = 1
    MaxStep = 1
    MaxWork = 2
    MaxBoots = 2
    MaxDeaths = 0
    MayStop = TRUE
    MayFailWrite = FALSE
    MayRunOnce = FALSE
INVARIANTS
    NoBoundaryMissed
    StopIsPrompt
PROPERTIES
    StopLeadsToExit
    DayFinalised

\* Stalls of any length, kills, failed writes, stops, `--once` and one restart.
SPECIFICATION Spec
CONSTANTS
    Horizon = 19
    LastDay = 1
    DateOf <- MCDateOf
    TradingDays <- MCTrading
    SessionOpen <- MCOpen
    SessionClose <- MCClose
    EquityClose <- MCEquity
    RegularEquityClose <- MCRegular
    EarlyCloseExtra = 1
    Interval = 3
    SearchDays = 15
    NoWindow = NoWindow
    None = None
    Grace = 1
    SleepSlice = 1
    Second = 1
    Minute = 2
    HealthWriteEvery = 2
    RestartDelay = 2
    MaxLag = 17
    MaxStep = 2
    MaxWork = 2
    MaxBoots = 2
    MaxDeaths = 1
    MayStop = FALSE
    MayFailWrite = TRUE
    MayRunOnce = TRUE
INVARIANTS
    TypeOK
    BoundariesAdvance
    LossBounded
    CountsAreOfTheDay
PROPERTIES
    OnTheGrid
    NeverEarlyNeverStale
    CountersNeverDrop

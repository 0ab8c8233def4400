\* A longer session without failures, watched as it goes.
SPECIFICATION Spec
CONSTANTS
    Horizon = 19
    LastDay = 0
    DateOf <- MCDateOf
    TradingDays <- MCTrading
    SessionOpen <- MCOpen
    SessionClose <- LongClose
    EquityClose <- LongEquity
    RegularEquityClose <- LongEquity
    EarlyCloseExtra = 0
    Interval = 2
    SearchDays = 1
    NoWindow = NoWindow
    None = None
    Day = 0
    Tickers = {SPY, QQQ}
    Grace = 1
    HealthWriteEvery = 2
    MaxSilence = 6
    HealthyPct = 75000
    WarningPct = 50000
    RestartDelay = 2
    MaxWork = 1
    MaxBoots = 1
    MaxDeaths = 0
    MayStop = FALSE
    MayLosePower = FALSE
    MayRunOnce = FALSE
INVARIANTS
    RecentCycleIsHealthy

\* Two tickers over a session of four boundaries; stops, kills, damaged files, `--once`.
SPECIFICATION Spec
CONSTANTS
    Horizon = 11
    LastDay = 0
    DateOf <- MCDateOf
    TradingDays <- MCTrading
    SessionOpen <- MCOpen
    SessionClose <- MCClose
    EquityClose <- MCEquity
    RegularEquityClose <- MCEquity
    EarlyCloseExtra = 0
    Interval = 2
    SearchDays = 1
    NoWindow = NoWindow
    None = None
    Day = 0
    Tickers = {SPY, QQQ}
    Grace = 1
    HealthWriteEvery = 2
    MaxSilence = 6
    HealthyPct = 75000
    WarningPct = 50000
    RestartDelay = 2
    MaxWork = 1
    MaxBoots = 2
    MaxDeaths = 1
    MayStop = TRUE
    MayLosePower = TRUE
    MayRunOnce = TRUE
INVARIANTS
    SilenceIsSeen
    SilenceAlarmIsReal
    VerdictIsSound
    VerdictIsExact

SPECIFICATION AccountsSpec
CONSTANTS
    None = None
    Counts <- AllCounts
    Candles <- AllCandles
    AiModes = {TRUE, FALSE}
    InitialEquity = 100000
    RiskBps <- MCRiskBps
    MaxConcurrent = 2
    MaxExposureBps = 200
    MaxDailyBps = 150
    MaxTotalBps = 1200
    SlippageBps = 2
    FeeBps = 4
    MaxOpened = 3
    Ticks <- FewTicks
    Cooldown = 2
    MaxTime = 5
    Books <- FewBooks
    SlipBps = 1
    StopPermille = 4
    TargetPermille = 6
    TakerFee = 55
    MaxHold = 3
    MaxFillGap = 1
    MaxBookAge = 1
    MaxOpen = 1
    MaxTrades = 2
    Prices = {"low", "high"}
    Buckets = {1}
    Horizons = {1, 2}
    MaxResolved = 3
    LoadLimit = 2
    LastTick = 4
    MaxHeard = 2
    MaxAsked = 2
    MaxRestarts = 1
    MaxLate = 1
INVARIANTS
    TypeOK RiskBookMatchesPositions PositionLimits ExposureWithinCap NoPositionOutlivesItsStop
    OneExposure OneTradePerTransition EntryAfterSignal OutcomesAreCausal FiledByOne
PROPERTY HaltIsFinal
CHECK_DEADLOCK FALSE

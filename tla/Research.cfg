SPECIFICATION ResearchSpec
CONSTANTS
    QueueLength = 2
    MaxAttempts = 3
    SendDelay = 1
    AckDelay = 0
    CancelDelay = 1
    Participation = 2
    QueueFactor = 50
    CancelHelps = TRUE
    MinNotional = 10
    TakerFee = 1
    MakerFee = 0
    Strategies = {"order_flow_impulse", "spread_capture", "sweep_reversion"}
    Books <- FewBooks
    Trades <- FewTrades
    Views <- FewViews
    Steps = {1, 3}
    Lags = {0, 2}
    StaleBook = 1
    GapLimit = 2
    Rewarm = 1
    MinSamples = 1
    Qty = 2
    PassiveTtl = 1
    MaxHold = 2
    StopPermille = 50
    MaxExtension = 0
    MaxNotional = 30
    MaxDailyLoss = 20
    MaxDrawdown = 30
    Scale = 10
    MaxOrders = 4
    MaxTime = 4
INVARIANTS StartsBounded BookedOnce
PROPERTIES EndedStaysEnded JobsEnd Simulator EntriesOnGoodData
CHECK_DEADLOCK FALSE

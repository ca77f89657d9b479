SPECIFICATION ViewsSpec
CONSTANTS
    FractalWidth = 1
    MaxCandles = 6
    Tolerance = 0
    MinClosedBars = 7
    BackfillBars = 5
    Tapes <- TapeThatTurns
    ConnectAt = {7}
    MaxLag = 1
    MaxOutages = 1
    MaxBackfills = 2
    Readers = {r1, r2, r3}
    Forced = {r3}
    Interval = 2
    BookLimit = 0
    TradeDead = 1
    TickerLimit = 1
    MaxTime = 4
    WallPrices = {1, 2, 3, 4}
    MaxSize = 4
    Lots = {1, 3}
    WallBooks <- MCWallBooks
    WallMultiple = 6
    MaxWallSteps = 3
    MaxResyncs = 1
    ShortWindow = 1
    LongWindow = 3
    LargeMultiple = 5
    MinSamples = 2
    FlushNotional = 3
    CascadeGain = 6
    FlatChange = 50
    FullChange = 300
    MinPairs = 3
    MaxLeadLag = 1
    Depths <- MCDepths
    StackMultiple = 4
    DepthSamples = 2
    Compression = 2
    Starts <- MCMarkets
    Trades <- MCTrades
    Liquidated <- MCLiquidated
    Interest <- MCInterest
    Books <- ScoredBooks
    Structures <- MCStructures
    MaxMessages = 3
INVARIANTS MinutesAreTrue SampledOnce ServedFrameIsFresh PullsAreReal MirrorHolds
PROPERTIES NoRepaint
CHECK_DEADLOCK FALSE

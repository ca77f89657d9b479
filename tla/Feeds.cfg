SPECIFICATION FeedsSpec
CONSTANTS
    QueueLimit = 2
    WireLimit = 1
    MaxUpdates = 3
    MaxEpochs = 2
    MaxLost = 1
    MaxConnects = 2
    BufferLimit = 1
    Budget = 3
    RecordedUpdates = 3
    RecordedLost = 1
    MaxTrades = 2
    MaxSeeds = 1
    MaxRows = 2
    Prices = {1, 2}
    BarLength = 2
    MaxTime = 4
    MaxTradesPerTick = 1
    MaxSessions = 2
    MaxDrops = 2
INVARIANTS SyncedBookIsTrue ReplayIsExact TapeIsWhole BarsAreTrue
PROPERTIES ResyncEnds
CHECK_DEADLOCK FALSE

SPECIFICATION WavesSpec
CONSTANTS
    FractalWidth = 1
    MaxCandles = 20
    Tolerance = 0
    MinClosedBars = 7
    BackfillBars = 5
    Tapes <- MCTapes
    ConnectAt = {0}
    MaxLag = 1
    MaxOutages = 0
    MaxBackfills = 0
INVARIANT ContextFollowsTime
CHECK_DEADLOCK FALSE

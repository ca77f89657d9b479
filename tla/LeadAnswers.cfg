SPECIFICATION WavesSpec
CONSTANTS
    FractalWidth = 1
    MaxCandles = 7
    Tolerance = 0
    MinClosedBars = 7
    BackfillBars = 5
    Tapes <- MCTapes
    ConnectAt = {0}
    MaxLag = 1
    MaxOutages = 0
    MaxBackfills = 0
PROPERTIES AnswerMovesWithACloseOnly
CHECK_DEADLOCK FALSE

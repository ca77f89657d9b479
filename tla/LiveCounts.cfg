SPECIFICATION StudiesSpec
CONSTANTS
    None = None
    Requests = {"analyst", "multi"}
    KindOf <- BothKinds
    StoreKinds = {"rest"}
    MaxJobs = 0
    MaxCandle = 0
    Pollers = {"first", "second"}
    Shapes <- MCShapes
    Deviation = 6
    MinBreak = 5
    MinSubCandles = 2
    MaxCandles = 0
    MaxQuiet = 2
    MinPivots = 7
    Charts <- MCCharts
    Ends <- MCEnds
    MaxMaxSteps = 1
    MaxCalls = 1
    MaxRetries = 1
PROPERTY ReanalysisTakesEffect
CHECK_DEADLOCK FALSE

SPECIFICATION StudiesSpec
CONSTANTS
    None = None
    Requests = {"analyst", "multi"}
    KindOf <- BothKinds
    StoreKinds = {"rest", "sql"}
    MaxJobs = 0
    MaxCandle = 1
    Pollers = {"first", "second"}
    Shapes <- MCShapes
    Deviation = 6
    MinBreak = 5
    MinSubCandles = 2
    MaxCandles = 7
    MaxQuiet = 2
    MinPivots = 7
    Charts <- MCCharts
    Ends <- MCEnds
    MaxMaxSteps = 2
    MaxCalls = 1
    MaxRetries = 1
INVARIANTS RunningStaysFindable CountsAgree ChainIsOneReading ScenariosAreLegal CoverageIsTrue MotiveOutranks
PROPERTIES AnswerSurvives LastCountIsTraded
CHECK_DEADLOCK FALSE

SPECIFICATION RecordsSpec
CONSTANTS
    MaxTrades = 5
    JournalLimit = 2
    BatchSize = 2
    BufferLimit = 2
    Traders = {A, B}
    Warmup = 1
    LoadLimit = 2
    MaxBoots = 2
    PaperTrades = 1
    MaxTime = 2
    A = A
    B = B
INVARIANTS JournalIsTrue
PROPERTIES LossIsBounded LedgerTradesAreFiled ClosedTradesAreFiled
CHECK_DEADLOCK FALSE

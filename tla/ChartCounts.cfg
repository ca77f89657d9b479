SPECIFICATION Spec
CONSTANTS
    Frames <- TwoFrames
    Fallbacks <- OneFallback
    Runs = {"build", "warmup", "analyst"}
    KindOf <- NamedByKind
    Chunks = 2
    MaxAge = 2
    MaxBars = 3
INVARIANTS DrawnOnItsBars
CHECK_DEADLOCK FALSE

SPECIFICATION Spec
CONSTANTS
    c1 = c1
    c2 = c2
    w1 = w1
    w2 = w2
    None = None
    Empty = Empty
    Client <- OneClient
    Worker <- TwoWorkers
    MaxAttempt = 2
    Retries = 1
    MaxTicks = 0
    Timeouts = FALSE
    Lossy = FALSE
    GarblePasses = TRUE
INVARIANT HelloNeverReachesMirror
CHECK_DEADLOCK FALSE

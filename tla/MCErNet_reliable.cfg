SPECIFICATION FairSpec
CONSTANTS
    c1 = c1
    c2 = c2
    w1 = w1
    w2 = w2
    None = None
    Empty = Empty
    Client <- TwoClients
    Worker <- TwoWorkers
    MaxAttempt = 1
    Retries = 1
    MaxTicks = 0
    Timeouts = FALSE
    Lossy = FALSE
    GarblePasses = TRUE
PROPERTY ReliableHandshake
CHECK_DEADLOCK FALSE

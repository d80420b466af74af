SPECIFICATION FairSpec
CONSTANTS
    c1 = c1
    c2 = c2
    w1 = w1
    w2 = w2
    None = None
    Empty = Empty
    Client <- OneClient
    Worker <- OneWorker
    MaxAttempt = 2
    Retries = 2
    MaxTicks = 0
    Timeouts = TRUE
    Lossy = TRUE
    GarblePasses = TRUE
INVARIANT TypeOK
INVARIANT KeyAgreement
INVARIANT VerdictStands
PROPERTY KeepsPromise
PROPERTY HandshakeEnds
CHECK_DEADLOCK FALSE

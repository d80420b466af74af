SPECIFICATION Spec
CONSTANTS
    c1 = c1
    c2 = c2
    w1 = w1
    w2 = w2
    None = None
    Empty = Empty
    Client <- OneClient
    Worker <- TwoWorkers
    MaxAttempt = 1
    Retries = 1
    MaxTicks = 1
    Timeouts = TRUE
    Lossy = TRUE
    GarblePasses = TRUE
SYMMETRY WorkerSymmetry
INVARIANT KeyAgreement
INVARIANT EchoAgreement
INVARIANT TrackedUntilReaped
INVARIANT CrashOnlyByReaping
PROPERTY KeepsPromise
CHECK_DEADLOCK FALSE

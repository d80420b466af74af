SPECIFICATION Spec
CONSTANTS
    c1 = c1
    c2 = c2
    t1 = t1
    t2 = t2
    w1 = w1
    None = None
    Garbage = Garbage
    Client <- Pair
    Tun <- TwoTunnels
    Worker <- OneWorker
    Message <- Payload
    Own <- OwnTunnel
    Peer <- OtherOne
    MaxRounds = 2
    Reaping = TRUE
    Timeouts = TRUE
    Timeout = 1
    Recent = 1
    UnitsPerSec = 1
    MaxAge = 3
    MaxLag = 1
    MaxQueue = 3
CHECK_DEADLOCK FALSE
INVARIANT HelloAgreement
INVARIANT InOrder

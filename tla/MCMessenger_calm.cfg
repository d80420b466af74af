SPECIFICATION FairSpec
CONSTANTS
    c1 = c1
    c2 = c2
    t1 = t1
    t2 = t2
    w1 = w1
    None = None
    Garbage = Garbage
    Client <- Pair
    Tun <- TwoTunnels
    Worker <- OneWorker
    Message <- Payload
    Own <- OwnTunnel
    Peer <- OtherOne
    MaxRounds = 3
    Reaping = FALSE
    Timeouts = FALSE
    Timeout = 1
    Recent = 1
    UnitsPerSec = 1
    MaxAge = 3
    MaxLag = 1
    MaxQueue = 3
CHECK_DEADLOCK FALSE
INVARIANT TypeOK
INVARIANT NeverBothOwn
INVARIANT AtMostTwoWaiting
PROPERTY OwnerTalks

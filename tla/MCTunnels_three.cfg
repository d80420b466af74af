SPECIFICATION FairTunnels
CONSTANTS
    c1 = c1
    c2 = c2
    c3 = c3
    t1 = t1
    w1 = w1
    w2 = w2
    None = None
    Garbage = Garbage
    Client <- ThreeClients
    Tun <- OneTunnel
    Worker <- TwoWorkers
    m1 = m1
    m2 = m2
    Message <- TwoMessages
    Timeout = 1
    Recent = 1
    UnitsPerSec = 1
    MaxAge = 3
    MaxLag = 1
    MaxQueue = 2
INVARIANT TunnelsTypeOK
INVARIANT NoSelfTunnel
INVARIANT Tracked
PROPERTY PeerFixed
PROPERTY InUseIsKept
PROPERTY AbandonedIsCollected

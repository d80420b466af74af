SPECIFICATION SpecTunnels
CONSTANTS
    c1 = c1
    c2 = c2
    c3 = c3
    t1 = t1
    w1 = w1
    w2 = w2
    None = None
    Garbage = Garbage
    Client <- TwoClients
    Tun <- OneTunnel
    Worker <- OneWorker
    m1 = m1
    m2 = m2
    Message <- TwoMessages
    Timeout = 1
    Recent = 1
    UnitsPerSec = 3
    MaxAge = 4
    MaxLag = 1
    MaxQueue = 1
PROPERTY FiveMinutes

SPECIFICATION FairSpec
CONSTANTS
    w1 = w1
    w2 = w2
    w3 = w3
    d1 = d1
    d2 = d2
    None = None
    Worker <- ThreeWorkers
    Datagram <- TwoDatagrams
CHECK_DEADLOCK FALSE
INVARIANT TypeOK
INVARIANT OneCopy
PROPERTY Served
PROPERTY WorkersStop

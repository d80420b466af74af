SPECIFICATION Spec
CONSTANTS
    c1 = c1
    c2 = c2
    t1 = t1
    w1 = w1
    None = None
    Garbage = Garbage
    Client <- Pair
    Tun <- OneTunnel
    Worker <- OneWorker
    Message <- Payload
    Retries <- TwiceAndOnce
    MaxCalls = 3
    Blank <- BlankOne
    Program <- WriterAndReader
    MaxFaults = 2
    Timeout = 1
    Recent = 1
    UnitsPerSec = 1
    MaxAge = 3
    MaxLag = 1
    MaxQueue = 6
CHECK_DEADLOCK FALSE
INVARIANT CallsTypeOK
INVARIANT AnswerAge
INVARIANT LossIsNoticed
PROPERTY ReadInOrder

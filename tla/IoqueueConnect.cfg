SPECIFICATION FairSpec
CONSTANTS
    p1 = p1  p2 = p2  a1 = a1  a2 = a2
    Threads = {p1, p2, a1}
    Keys = {k1}
    Ops = {o1}
    None = None
    Calls <- CallsConnect
    CbCalls = {}
    Concurrent = FALSE
    Faults = {}
    MaxFd = 1
    MaxRx = 0
    MaxEvents = 16
INVARIANTS NoDeadlock
PROPERTIES UnregisterReturns ClosedKeyReleased

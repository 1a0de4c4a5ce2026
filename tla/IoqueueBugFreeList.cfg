SPECIFICATION Spec
CONSTANTS
    p1 = p1  p2 = p2  a1 = a1  a2 = a2
    Threads = {p1, a1}
    Keys = {k1}
    Ops = {o1}
    None = None
    Calls <- CallsLife
    CbCalls = {}
    Concurrent = FALSE
    Faults = {}
    MaxFd = 2
    MaxRx = 1
    MaxEvents = 16
INVARIANTS FreeListNotEmpty

SPECIFICATION Spec
CONSTANTS
    p1 = p1  p2 = p2  a1 = a1  a2 = a2
    Threads = {p1, a1}
    Keys = {k1}
    Ops = {o1, o2}
    None = None
    Calls <- CallsIo
    CbCalls = {"send"}
    Concurrent = TRUE
    Faults = {"add", "del", "send"}
    MaxFd = 2
    MaxRx = 1
    MaxEvents = 16
SYMMETRY KeyOpSymmetry
INVARIANTS OneCustodian PendingWriteIsPolled

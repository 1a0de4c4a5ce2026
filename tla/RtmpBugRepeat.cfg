CONSTANTS
    None = None
    e1 = e1
    e2 = e2
    e3 = e3
    e4 = e4
    Repeats = TRUE
    Running = {"chunk"}
SPECIFICATION MCSpec
INVARIANTS RtmpDelivered
CHECK_DEADLOCK FALSE

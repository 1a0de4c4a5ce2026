CONSTANTS
    None = None
    e1 = e1
    e2 = e2
    e3 = e3
    e4 = e4
    Repeats = FALSE
    Running = {"http", "ini", "chunk", "rb", "hash"}
SPECIFICATION MCSpec
INVARIANTS HttpCutsInvisible HttpMessagesReported IniReadsBack RtmpDelivered RbOrdered HashSound
CHECK_DEADLOCK FALSE

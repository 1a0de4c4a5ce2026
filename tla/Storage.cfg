CONSTANTS
    c1 = c1
    c2 = c2
    s1 = s1
    port1 = port1
    port2 = port2
    port3 = port3
    port4 = port4
    q1 = q1
    q2 = q2
    p1 = p1
    p2 = p2
    None = None
    gki <- MCGki
    aki <- MCAki
    circular <- MCCircular
    pool <- MCPool
    rtspV <- MCRtspV
    rtspAV <- MCRtspAV
    rtspMsg <- MCMsg
    rtpEnc <- MCRtp
    session <- MCSession
    negan <- MCNegan
    drivers <- MCDrivers
    null <- MCNull
    audio <- MCAudio
    video <- MCVideo
    delay <- MCDelay
    simple <- MCSimple
    ports <- MCPorts
    Running = {"gki", "aki", "ring", "blocks", "pool"}
SPECIFICATION Spec
INVARIANTS BufferPoolsAccounted RingNewest FifoBlocksKept PoolChunksKept
PROPERTIES BufferPoolsImplementPools
CHECK_DEADLOCK FALSE

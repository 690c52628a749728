SPECIFICATION ModFairSpec
CONSTANTS
    Interfaces = {"pppd", "tun", "tap", "stdio"}
    Transports = {"udp", "http", "xmpp"}
    MaxSignals = 3
INVARIANTS
    TypeOK
    PostsLiveSemaphore
    ChildIsReaped
    ReleasesWhatItTook
    HoldsWhatItUses
PROPERTY
    EndsOnSignal
CHECK_DEADLOCK FALSE

SPECIFICATION Spec
CONSTANTS
    p1 = p1
    p2 = p2
    p3 = p3
    Pkts <- Three
    Mtu = 2
    DecLens = {0, 1}
    MaxQueued = 1
SYMMETRY Addresses
INVARIANTS
    WithinBuffer
    WholePackets
    CacheBounded
PROPERTY
    ImplementsStore
CHECK_DEADLOCK FALSE

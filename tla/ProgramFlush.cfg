SPECIFICATION Spec
CONSTANTS
    Interfaces = {"pppd"}
    Transports = {"udp"}
    MaxSignals = 3
INVARIANT
    FlushesLiveModules
CHECK_DEADLOCK FALSE

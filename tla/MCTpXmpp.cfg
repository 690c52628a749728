SPECIFICATION FairSpec
CONSTANTS
    Left = Left
    Right = Right
    MaxSent <- TwoOne
    HasRemote <- Hosts
    MaxLost = 2
    FailEvents <- OneSided
INVARIANTS
    TypeOK
    KeepsTrying
    OneAttempt
    NoConnectWhileStopping
PROPERTIES
    Fifo
    StopReturns
    SendsWhileConnected
CHECK_DEADLOCK FALSE

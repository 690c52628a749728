SPECIFICATION Spec
CONSTANTS
    Left = Left
    Right = Right
    MaxSent <- TwoOne
    HasRemote <- OneSided
    MaxLost = 1
    FailEvents = {}
INVARIANT
    LocksRemote
CHECK_DEADLOCK FALSE

SPECIFICATION FairSpec
CONSTANTS
    Packets = {p1, p2}
    None = None
    N = 3
    Type <- ForwardType
    Kind <- XmppKind
    Returns <- Plugins
    StartMayFail = FALSE
INVARIANTS
    TypeOK
    SemCounts
    ExitLeak
PROPERTY
    Terminates

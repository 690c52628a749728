SPECIFICATION Spec
CONSTANTS
    MaxSent <- One
    Modes = {FALSE, TRUE}
    Chunks = 2
    Fragmenting = TRUE
    FastAnswers = {"client"}
    Stops = TRUE
    Bodies <- Samples
INVARIANTS
    TypeOK
    AtMostOnce
    CutsAreCaughtOrShort
CHECK_DEADLOCK FALSE

SPECIFICATION FairSpec
CONSTANTS
    MaxSent <- TwoThree
    Modes = {FALSE, TRUE}
    Chunks = 2
    Fragmenting = FALSE
    FastAnswers = {}
    Stops = FALSE
    Bodies = {}
INVARIANTS
    OneToken
    OneMessage
    InStep
PROPERTIES
    Fifo
    QueueDrains

SPECIFICATION Spec
CONSTANTS
    MaxSent <- Two
    Modes = {TRUE}
    Chunks = 2
    Fragmenting = FALSE
    FastAnswers = {"client"}
    Stops = FALSE
    Bodies = {}
INVARIANT
    HeadComesFirst

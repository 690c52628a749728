SPECIFICATION Spec
CONSTANTS
    Records = {r1, r2, r3}
    Keys = {k1, k2}
    Threads = {main, t1}
    Main = main
    None = None
    MaxGen = 3
INVARIANT
    UnlocksLiveRecord
CHECK_DEADLOCK FALSE

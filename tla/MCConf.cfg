SPECIFICATION Spec
CONSTANTS
    Records = {r1, r2, r3, r4}
    Keys = {k1, k2}
    Threads = {main, t1, t2}
    Main = main
    None = None
    MaxGen = 4
SYMMETRY Symmetry
INVARIANTS
    TypeOK
    RefCounts
    FreedWhenUnused
    UniqueKeys
    ArgvWins
PROPERTY
    GenGrows
CHECK_DEADLOCK FALSE

CONSTANTS
    h1 = h1
    h2 = h2
    t1 = t1
    t2 = t2
    NULL = NULL
    Handlers <- MCHandlers
    Trappers <- MCTrappers
    MaxSets = 3
SYMMETRY MCSymmetry
INIT Init
NEXT Next
INVARIANT NoBptAssert
CHECK_DEADLOCK FALSE

CONSTANTS
    K = 2
    MaxExp = 3
    Inf = Inf
    NegInf = NegInf
    Inputs <- MCFinite
SPECIFICATION Spec
INVARIANT TypeOK
INVARIANT FloorNonNeg
PROPERTY Terminates
CHECK_DEADLOCK FALSE

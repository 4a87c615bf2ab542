CONSTANTS
    N = 3
    MaxRecv = 3
    MaxOpen = 2
    b1 = b1
    b2 = b2
    b3 = b3
    b4 = b4
    Buf <- MCBuf
    NoBuf = NoBuf
SPECIFICATION Spec
INVARIANT TypeOK
PROPERTY DevRingReplenished
CHECK_DEADLOCK FALSE

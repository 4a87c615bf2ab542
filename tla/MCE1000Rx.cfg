CONSTANTS
    N = 3
    MaxRecv = 5
    b1 = b1
    b2 = b2
    b3 = b3
    b4 = b4
    b5 = b5
    Buf <- MCBuf
    NoBuf = NoBuf
SPECIFICATION Spec
INVARIANT TypeOK
INVARIANT BufferOwnership
INVARIANT InOrderDelivery
INVARIANT FrameAccounting
PROPERTY RingReplenished
PROPERTY ImplementsRxChannel
CHECK_DEADLOCK FALSE

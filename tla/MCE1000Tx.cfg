CONSTANTS
    N = 4
    p1 = p1
    p2 = p2
    p3 = p3
    p4 = p4
    p5 = p5
    t1 = t1
    t2 = t2
    Pkt <- MCPkt
    Tasks <- MCTasks
    NoPkt = NoPkt
SPECIFICATION Spec
SYMMETRY MCSymmetry
INVARIANT TypeOK
INVARIANT QueuesFifo
INVARIANT SentInOrder
CHECK_DEADLOCK FALSE

CONSTANTS
    n1 = n1
    n2 = n2
    n3 = n3
    Root = Root
    Archive <- MCArchive
    Names <- MCNames
    Perm <- MCPerm
    Ino <- MCIno
    PoolSize = 3
    W = 3
    MaxPos = 3
    MaxBuf = 1
INIT Init
NEXT Next
SYMMETRY MCSymmetry
INVARIANT TypeOK
INVARIANT PoolAccounting
 

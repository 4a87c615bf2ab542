CONSTANTS
    NULL = NULL
    Fs5 = TRUE
    Dfsrs <- MCDfsrsV7
    Tables <- MCTables
SPECIFICATION Spec
INVARIANT HandlerGetsFaultStatus
CHECK_DEADLOCK FALSE

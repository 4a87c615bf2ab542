CONSTANTS
    NoNum = NoNum
    W = 16
    Devs <- MCGoodDevs
    CmdLines <- MCCmdLines
SPECIFICATION Spec
INVARIANT TypeOK ShowsMatching
 
CHECK_DEADLOCK FALSE

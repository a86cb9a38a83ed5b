CONSTANTS
    Process = {p1, p2}
    initproc = p1
    NoProc = NoProc
    Path <- MCPath
    Files <- MCFiles
    BSIZE = 2
    NDIRECT = 2
    NINODES = 5
    NINODE = 3
    FSSIZE = 18
    nlog = 2
    CONSOLE = 1
    NFILE = 2
    NOFILE = 2
    MAXOPBLOCKS = 6
    MaxCalls = 3
    Lens = {1, 7}
SPECIFICATION Spec
INVARIANTS RefsCounted ICacheOK BlocksConsistent LinksCounted OnlyFullTablesPanic OpFits HoldersRun

\* The protocol with one address translation; as in mkfs the log area has room
\* for its header and LOGSIZE - 1 blocks.
CONSTANTS
    Process = {p1, p2}
    Block = {1, 2, 3}
    Val = {v1, v2}
    NoBuf = NoBuf
    LBA = 0
    MAXOPBLOCKS = 2
    MaxWrite = 1
    LOGSIZE = 4
    nlog = 4
SPECIFICATION FairSpec
INVARIANTS LogWithinBounds SleeperHasWaker CommitAlone
PROPERTIES CrashAtomic BeginWoken

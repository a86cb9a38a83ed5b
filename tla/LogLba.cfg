CONSTANTS
    Process = {p1, p2}
    Block = {1, 2}
    Val = {v1, v2}
    NoBuf = NoBuf
    LBA = 10
    MAXOPBLOCKS = 2
    MaxWrite = 1
    LOGSIZE = 4
    nlog = 4
SYMMETRY Symm
SPECIFICATION Spec
INVARIANT CommitWritesHome

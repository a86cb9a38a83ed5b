CONSTANTS
    CPU = {c1, c2}
    NoCPU = NoCPU
    NPROC = 2
    SleepLock = {s1}
    MaxPid = 2
SPECIFICATION Spec
INVARIANT RunsOnItsStack

CONSTANTS
    CPU = {c1, c2}
    NoCPU = NoCPU
    NPROC = 3
    SleepLock = {s1}
    MaxPid = 3
SPECIFICATION FairSpec
INVARIANTS TypeOK NoPanic RunsOnOneCpu NoLostWakeup HoldingSleep ParentCanWait PidsDistinct
PROPERTIES LifeCycle SleepLockIsMutex WaiterRuns

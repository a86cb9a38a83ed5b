CONSTANTS
    CPU = {c0}
    Boot = c0
    Block = {0, 1}
    Words = 2
    Val = {x, y}
    Sig = x
    Retries = 2
    MaxFault = 2
SPECIFICATION FairSpec
INVARIANTS BroughtUpRight AssertsHold
PROPERTIES RwSyncs RwEnds

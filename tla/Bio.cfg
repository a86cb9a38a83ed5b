CONSTANTS
    Process = {p1, p2, p3}
    Buf = {b1, b2}
    Block = {1, 2, 3}
    Val = {v1, v2}
    None = None
SYMMETRY Symm
SPECIFICATION Spec
INVARIANTS ListOK RefcntCounts
PROPERTY CacheIsTransparent

CONSTANTS
    Page = {1, 2, 3, 4, 5, 6, 7, 8, 9, 10, 11, 12, 13, 14, 15, 16}
    PGSIZE = 2
    Radix = 2
    MaxPage = 6
    Program <- MCProgram
    ArgSize = {1, 3}
    Brk <- MCBrk
    IntMod = 32
    Length = {1, 3, 33, 35}
SPECIFICATION Spec
INVARIANT MemPromises

CONSTANTS
    Reader = {p1, p2}
    INPUT_BUF = 3
    Plain = {a}
    NL = NL
    EOF = EOF
    NUL = NUL
    Intr = Intr
    Nobody = Nobody
    MaxRead = 2
    MaxIndex = 4
SPECIFICATION FairSpec
INVARIANTS TypeOK IndexOrder AsleepMeansEmpty
PROPERTIES EOFReadsZero IsLineDiscipline LineIsRead

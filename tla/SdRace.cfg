\* Two CPUs in the driver, with the interrupts of the controller enabled.
CONSTANTS
    CPU = {c0, c1}
    Boot = c0
    Block = {0, 1, 2}
    Words = 2
    Val = {x, y}
    Sig = x
    Retries = 0
    MaxFault = 0
SPECIFICATION SmpSpec
INVARIANT AssertsHold

SPECIFICATION Spec
CONSTANTS
    Publishers = {p1, p2}
    Names = {n1, n2}
    Stoppers = {s1, s2}
    BusCap = 2
    SubCap = 1
    MaxChunks = 3
CHECK_DEADLOCK FALSE
INVARIANTS TypeOK NoSendOnClosed StopDrains
PROPERTY StopReturns

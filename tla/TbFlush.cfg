CONSTANTS
    t1 = t1  t2 = t2
    A = A  B = B  C = C
    NoKey = NoKey
    NoThread = NoThread
    Threads = {t1, t2}
    Keys = {A, B, C}
    InitKey = A
    Goto <- FlushGoto
    Indirect <- FlushIndirect
    TrapNext <- FlushTrapNext
    JcIndex <- FlushJcIndex
    MaxTbs = 2
    BufSize = 6
    CodeGenStart = 1
    MinRemaining = 3
    TbSizes = {1, 3}
SPECIFICATION FlushSpec
INVARIANTS TypeOK GetInBounds ReserveHolds
PROPERTIES FlushTransparent RetryProgresses LookupCompletes

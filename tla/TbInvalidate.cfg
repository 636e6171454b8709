CONSTANTS
    t1 = t1  p1 = p1
    A = A  B = B
    NoKey = NoKey
    NoThread = NoThread
    Threads = {t1}
    Invalidators = {p1}
    Keys = {A, B}
    InitKey = A
    Goto <- PairGoto
    Indirect <- PairIndirect
    TrapNext <- PairTrapNext
    JcIndex <- PairJcIndex
    MaxTbs = 3
    BufSize = 6
    CodeGenStart = 1
    MinRemaining = 1
    TbSizes = {1}
SPECIFICATION InvFairSpec
INVARIANTS InvIInv ExecutesGuestPc ChainSound QuiescedUnlinked DeadNotExecuted
PROPERTY InvalidateReturns

CONSTANTS
    t1 = t1  t2 = t2
    A = A  B = B  C = C
    NoKey = NoKey
    NoThread = NoThread
    InitKey = A
    Threads = {t1, t2}
    Keys = {A, B, C}
    Goto <- MCGoto
    Indirect <- MCIndirect
    TrapNext <- MCTrapNext
    JcIndex <- MCJcIndex
    MaxTbs = 4
    BufSize = 5
    CodeGenStart = 1
    MinRemaining = 2
    TbSizes = {2}
SPECIFICATION Spec
INVARIANT FullIsReported

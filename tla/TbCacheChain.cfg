CONSTANTS
    t1 = t1  t2 = t2
    A = A  B = B  C = C
    NoKey = NoKey
    NoThread = NoThread
    InitKey = A
    Threads = {t1, t2}
    Keys = {A, B, C}
    Goto <- MCGoto
    Indirect <- MCIndirect
    TrapNext <- MCTrapNext
    JcIndex <- MCJcIndex
    MaxTbs = 3
    BufSize = 6
    CodeGenStart = 1
    MinRemaining = 1
    TbSizes = {1, 5}
SPECIFICATION Spec
INVARIANTS
    IInv
    UniqueTranslation
    ExecutesGuestPc
    ChainSound
    ChainRegistered
    EdgeOnce
PROPERTY GuestTransparent

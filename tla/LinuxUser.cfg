CONSTANTS
    PageSize = 16
    SpaceSize = 256
    MaxFails = 1
    WordSize = 2
    PhdrSize = 3
    StackTop = 224
    StackSize = 80
    Images <- MCImages
    Commands <- MCCommands
    Gap = 32
    BrkArgs <- MCBrkArgs
    Addrs <- MCAddrs
    MmapLens = {16, 17}
    Prots <- MCProts
    Buffers <- MCBuffers
    Iovs = {0, 3}
    MaxCalls = 3
    Tracked = {44, 66, 85, 97, 116}
SPECIFICATION UserSpec
CHECK_DEADLOCK FALSE
INVARIANTS
    LoadFaithful
    StackAbi
    LoadInside
    MemoryKept
    HeapMapped
    UserIInv
PROPERTY FreshMapping

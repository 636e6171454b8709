CONSTANTS
    A = A  B = B  C = C
    Keys = {A, B, C}
    Bucket <- MCBucket
    MaxTbs = 4
SPECIFICATION HashSpec
INVARIANTS ChainsExact LookupExact
CHECK_DEADLOCK FALSE

CONSTANTS
    W = 2
    Burst = 2
    MaxSeq = 4
SPECIFICATION Spec
INVARIANT AtMostOnce

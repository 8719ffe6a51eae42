CONSTANTS
    W = 3
    Burst = 2
    MaxSeq = 4
SPECIFICATION FairSpec
INVARIANTS
    TypeOK
    AtMostOnce
    NoLoss
 

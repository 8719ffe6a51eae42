SPECIFICATION FairSpec
CONSTANTS
    N = 4
    MaxAggr = 2
    Mixes <- MCMixes
    GroupSize = 3
    Losses = 2
    Failures = 1
INVARIANTS GroupsFit IndexesAgree DroppedIsServed
PROPERTIES NoGroupMissed 
CHECK_DEADLOCK FALSE

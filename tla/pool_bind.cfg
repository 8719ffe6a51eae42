CONSTANTS
    Pids = {p1}
    Groups = {g1, g2}
    NoPid = NoPid
    Cap = 2
    MaxGroup = 1
SPECIFICATION FairSpec
PROPERTY GroupStarts
CHECK_DEADLOCK FALSE

CONSTANTS
    Pids = {p1, p2}
    Groups = {g1, g2, g3, g4}
    NoPid = NoPid
    Cap = 3
    MaxGroup = 2
SPECIFICATION Spec
INVARIANTS
    TypeOK
    GroupOnce
    IdsRoute
    CapacityReturns
SYMMETRY Symmetry
CHECK_DEADLOCK FALSE

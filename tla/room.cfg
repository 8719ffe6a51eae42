CONSTANTS
    Sessions = {s1, s2}
    Chests = {c1}
    Items = {i1}
    Npcs = {n1}
    Places = {p1, p2}
    RecallZone = p1
    ChestPlace = p1
    NoOne = NoOne
    MaxAggro = 2
    RequiredPasses = 1
    Interval = 1
    Spawns = 1
    Recalls = 0
    MaxTime = 0
SPECIFICATION Spec
INVARIANTS
    TypeOK
    ItemsOnce
    ContainerHeldByOne
    NpcDrivenFromRoom

    
SYMMETRY Symmetry
CHECK_DEADLOCK FALSE

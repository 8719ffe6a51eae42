CONSTANTS
    Sessions = {s1}
    Chests = {}
    Items = {i1}
    Npcs = {n1}
    Places = {p1, p2}
    RecallZone = p1
    ChestPlace = p1
    NoOne = NoOne
    MaxAggro = 2
    RequiredPasses = 2
    Interval = 2
    Spawns = 1
    Recalls = 2
    MaxTime = 4
SPECIFICATION FairSpec
INVARIANTS FullRecall ItemsOnce
PROPERTIES
    
    RoomEnds
CHECK_DEADLOCK FALSE

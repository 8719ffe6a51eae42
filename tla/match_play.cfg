CONSTANTS
    Users = {u1, u2}
    Reqs = {r1, r2}
    MaxTickets = 3
    MaxGroup = 2
    MaxBind = 1
    NoUser = NoUser
    SerialClients = TRUE
    TicketTTL = FALSE
    MySqlFault = FALSE
    RedisFault = FALSE
    SpawnFault = TRUE
SPECIFICATION FairSpec
INVARIANTS
    TypeOK
    OneSeatPerUser
    FinishedGameUnlocks
PROPERTIES
    
    PromisesMatchLife
CHECK_DEADLOCK FALSE

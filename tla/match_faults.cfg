CONSTANTS
    Users = {u1}
    Reqs = {r1, r2}
    MaxTickets = 2
    MaxGroup = 2
    MaxBind = 1
    NoUser = NoUser
    SerialClients = FALSE
    TicketTTL = TRUE
    MySqlFault = TRUE
    RedisFault = TRUE
    SpawnFault = TRUE
SPECIFICATION Spec
INVARIANT CancelWins
CHECK_DEADLOCK FALSE

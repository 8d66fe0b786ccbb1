SPECIFICATION Spec
CONSTANTS
    a = a
    b = b
    Client <- OneClient
    Port = {1, 2}
    FirstPort <- OnePort
    MAXCLIENTS = 1
    MAX_CHALLENGES = 2
    PrivateClients = 0
    Trusted = {a}
    Rebinding = TRUE
    Picky = TRUE
    Ordered = FALSE
    MaxIssued = 3
    MaxInFlight = 1
INVARIANT
    GameAgrees
CHECK_DEADLOCK FALSE

SPECIFICATION FairSpec
CONSTANTS
    a = a
    b = b
    Client <- OneClient
    Port = {1}
    FirstPort <- OnePort
    MAXCLIENTS = 1
    MAX_CHALLENGES = 2
    PrivateClients = 0
    Trusted = {a}
    Rebinding = FALSE
    Picky = FALSE
    Ordered = TRUE
    MaxIssued = 3
    MaxInFlight = 2
INVARIANT
    ConnectionAgrees
PROPERTIES
    GoneIsFreed
    HandshakeFinishes
CHECK_DEADLOCK FALSE

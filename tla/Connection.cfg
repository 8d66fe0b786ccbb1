SPECIFICATION Spec
CONSTANTS
    a = a
    b = b
    Client <- TwoClients
    Port = {1, 2}
    FirstPort <- TwoPorts
    MAXCLIENTS = 2
    MAX_CHALLENGES = 2
    PrivateClients = 1
    Trusted = {a}
    Rebinding = FALSE
    Picky = TRUE
    Ordered = TRUE
    MaxIssued = 2
    MaxInFlight = 1
INVARIANTS
    OneSlotEach
    SlotsHold
PROPERTY
    SlotKept
CHECK_DEADLOCK FALSE

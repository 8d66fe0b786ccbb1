SPECIFICATION Spec
CONSTANTS
    MAX_RELIABLE_COMMANDS = 3
    MaxPending = 4
    MaxCommands = 5
    MaxInFlight = 1
    GameCommands = {0, 1, 2}
INVARIANTS
    ServerExecutesInOrder
    ClientExecutesInOrder
    NoGap
    RingsHold
CHECK_DEADLOCK FALSE

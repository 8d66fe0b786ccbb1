SPECIFICATION FairSpec
CONSTANTS
    MAX_RELIABLE_COMMANDS = 2
    MaxPending = 1
    MaxCommands = 2
    MaxInFlight = 2
    GameCommands = {0}
PROPERTIES
    CommandsArrive
CHECK_DEADLOCK FALSE

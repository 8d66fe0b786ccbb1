SPECIFICATION FairSpec
CONSTANTS
    GameString = {warmup}
    SystemInfo = systeminfo
    MaxValue = 1
    Restricting = FALSE
    Delayed = TRUE
    MaxServerId = 2
    MaxCommands = 2
    MaxInFlight = 2
PROPERTIES
    CatchesUp
CHECK_DEADLOCK FALSE

SPECIFICATION Spec
CONSTANTS
    GameString = {warmup}
    SystemInfo = systeminfo
    MaxValue = 1
    Restricting = TRUE
    Delayed = FALSE
    MaxServerId = 3
    MaxCommands = 2
    MaxInFlight = 2
INVARIANTS
    StringsHold
PROPERTIES
    OneGamestatePerMap
CHECK_DEADLOCK FALSE

SPECIFICATION Spec
CONSTANTS
    Numbers = {1, 2, 3}
    Views = {{3}, {2, 3}, {1, 2, 3}}
    PACKET_BACKUP = 6
    RingSize = 6
    MAX_PARSE_ENTITIES = 4
    ParseMargin = 2
    MaxSequence = 5
    MaxMaps = 2
    MaxMapSequence = 2
    MaxOthers = 2
    MaxDown = 2
    MaxUp = 1
INVARIANTS
    CgameSeesWhatWasSent
    BasesHold
    BaseIsIntact
CHECK_DEADLOCK FALSE

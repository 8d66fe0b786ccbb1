SPECIFICATION FairSpec
CONSTANTS
    a = a
    b = b
    Byte = {a, b}
    Message <- MCMessage
    FRAGMENT_SIZE = 2
    MAX_MSGLEN = 4
    MaxSequence = 3
INVARIANTS
    TypeOK
    DeliveredWhole
    DeliveredInOrder
    ReassemblyCanContinue
PROPERTIES
    RefinesMessageChannel
    FragmentsFinish
CHECK_DEADLOCK FALSE

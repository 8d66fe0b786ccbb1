SPECIFICATION FairSpec
CONSTANTS
    Modulus = 3
    Commands = 2
    MaxPackets = 3
    MaxQueue = 2
PROPERTY
    SentInOrder

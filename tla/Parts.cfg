SPECIFICATION Spec
CONSTANTS
    DownloadCases <- SmallDownloads
    MAX_DOWNLOAD_WINDOW = 3
    ShortRange = 8
    MaxDown = 4
    MaxCommands = 6
    Slots = 5
    Lengths = {1, 2}
    MAX_DOWNLOAD_BLKSIZE = 4
    MaxVoice = 6
    QueryAddresses = {1, 2, 3, 4}
    QueryHash <- SmallQueryHash
    MAX_BUCKETS = 3
    Burst = 1
    Period = 2
    MaxQueryTime = 5
    POOLSIZE = 7
    Sizes = {1, 2, 3}
    MAX_CLIENTS = 3
    QueueTeams = {"aliens"}
    StickySpec = {}
    RotationCases <- SmallRotations
    MaxCalls = 6
    MaxStack = 3
    Clients = {1, 2}
    VoteTeams = {"none", "aliens"}
    Thresholds = {50}
    VOTE_TIME = 2
    ExecuteDelay = 1
    MaxVotes <- SmallVotes
    RESET_TIME = 1
    FastTime = 0
    Nudges = {0, 1}
    Ring = 2
    MaxSnaps = 3
    MaxTime = 3
    MaxStep = 3
    MaxInits = 2
    NumSlots = 3
    BaseSites <- SmallSites
    CreepRange = 1
    BaseCost <- SmallCost
    BuildPoints = 2
    MarkModes = {0, 3}
    Addresses = {1, 2, 3}
    Hash <- SmallHash
    MaxServers = 2
    TIMEOUT_HEARTBEAT = 1
    TIMEOUT_INFORESPONSE = 2
    TIMEOUT_CHALLENGE = 1
    MaxMasterTime = 4
INVARIANTS
    DownloadHolds
    VoiceHolds
    BucketsHold
    ServersHold
PROPERTIES
    HeapHolds
    QueuesHold
    RotationsHold
    VotesHold
    TimeHolds
    BaseHolds
    DownloadsFinish
CHECK_DEADLOCK FALSE

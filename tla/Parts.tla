-------------------------------- MODULE Parts --------------------------------
(***************************************************************************)
(* The parts that keep to themselves: of the server, downloads (Download), *)
(* relayed voice (Voip) and rate limits (RateLimit); of the game, its heap *)
(* (BGAlloc), spawn queues (SpawnQueue), map rotation (MapRotation), votes *)
(* (Votes) and the aliens' base (AlienBase); of the client, its time       *)
(* (ClientTime); and the master server's table (Master).  They share no    *)
(* state, so one of them runs and the others stay in an initial state:     *)
(* every state of every part is reached.                                   *)
(***************************************************************************)
EXTENDS Integers, Sequences

\* The constants of the parts, explained there.
CONSTANTS
    DownloadCases, MAX_DOWNLOAD_WINDOW, ShortRange, MaxDown, MaxCommands,
    Slots, Lengths, MAX_DOWNLOAD_BLKSIZE, MaxVoice,
    QueryAddresses, QueryHash, MAX_BUCKETS, Burst, Period, MaxQueryTime,
    POOLSIZE, Sizes,
    MAX_CLIENTS, QueueTeams, StickySpec,
    RotationCases, MaxCalls, MaxStack,
    Clients, VoteTeams, Thresholds, VOTE_TIME, ExecuteDelay, MaxVotes,
    RESET_TIME, FastTime, Nudges, Ring, MaxSnaps, MaxTime, MaxStep, MaxInits,
    NumSlots, BaseSites, CreepRange, BaseCost, BuildPoints, MarkModes,
    Addresses, Hash,
    MaxServers, TIMEOUT_HEARTBEAT, TIMEOUT_INFORESPONSE, TIMEOUT_CHALLENGE, MaxMasterTime

VARIABLES
    part,               \* the part that runs
    files, punctual, dl, window, late, state, clc, saved, commands, down,
    voipPacket, queuedVoipPackets, downloading, queuedIds, written, halves,
    now, buckets, bucketHashes, answered,
    node, freeHead, freeMem, used, refused, fault,
    sessions, queues, strayed,
    rotations, console, current, stack, nodes, holds, calls, issued, left,
    voters, level, restarted, ballots, passed, executed, returned,
    svTime, sent, arrived, cl, cg,
    mark, ents, base,
    crt_time, servers, hash_table, last_alloc, asked, listeners

download == <<files, punctual, dl, window, late, state, clc, saved, commands, down>>
voip     == <<voipPacket, queuedVoipPackets, downloading, queuedIds, written, halves>>
rate     == <<now, buckets, bucketHashes, answered>>
heap     == <<node, freeHead, freeMem, used, refused, fault>>
spawn    == <<sessions, queues, strayed>>
maps     == <<rotations, console, current, stack, nodes, holds, calls, issued, left>>
votes    == <<voters, level, restarted, ballots, passed, executed, returned>>
time     == <<svTime, sent, arrived, cl, cg>>
aliens   == <<mark, ents, base>>
master   == <<crt_time, servers, hash_table, last_alloc, asked, listeners>>

vars == <<part, download, voip, rate, heap, spawn, maps, votes, time, aliens, master>>

-----------------------------------------------------------------------------
(* The instances *)

D == INSTANCE Download WITH cl <- clc, Cases <- DownloadCases
V == INSTANCE Voip
R == INSTANCE RateLimit WITH MaxTime <- MaxQueryTime,
                             Addresses <- QueryAddresses, Hash <- QueryHash
B == INSTANCE BGAlloc
S == INSTANCE SpawnQueue WITH clients <- sessions, Teams <- QueueTeams
P == INSTANCE MapRotation WITH Cases <- RotationCases
Q == INSTANCE Votes WITH clients <- voters, Teams <- VoteTeams
T == INSTANCE ClientTime
A == INSTANCE AlienBase WITH level <- base, Sites <- BaseSites, Cost <- BaseCost
E == INSTANCE Master WITH answered <- listeners, MaxTime <- MaxMasterTime

ASSUME DownloadInstance == D!DownloadAssumption
ASSUME VoipInstance == V!VoipAssumption
ASSUME RateLimitInstance == R!RateLimitAssumption
ASSUME VotesInstance == Q!VotesAssumption
ASSUME TimeInstance == T!TimeAssumption
ASSUME MasterInstance == E!MasterAssumption

-----------------------------------------------------------------------------
\* Parts with several initial states keep to one where they do not run.
Init ==
    /\ part \in {"download", "voip", "rate", "heap", "spawn", "maps", "votes", "time", "aliens", "master"}
    /\ D!Init /\ V!Init /\ R!Init /\ B!Init /\ S!Init /\ P!Init /\ Q!Init /\ T!Init /\ A!Init /\ E!Init
    /\ part # "download" => <<files, punctual>> = CHOOSE c \in DownloadCases : TRUE
    /\ part # "maps" => /\ <<rotations, console>> = CHOOSE c \in RotationCases : TRUE
                        /\ current = CHOOSE r \in DOMAIN rotations : TRUE
    /\ part # "aliens" => mark = CHOOSE m \in MarkModes : TRUE

RunDownload == part = "download" /\ D!Next /\ UNCHANGED <<part, voip, rate, heap, spawn, maps, votes, time, aliens, master>>
RunVoip  == part = "voip"  /\ V!Next /\ UNCHANGED <<part, download, rate, heap, spawn, maps, votes, time, aliens, master>>
RunRate  == part = "rate"  /\ R!Next /\ UNCHANGED <<part, download, voip, heap, spawn, maps, votes, time, aliens, master>>
RunHeap  == part = "heap"  /\ B!Next /\ UNCHANGED <<part, download, voip, rate, spawn, maps, votes, time, aliens, master>>
RunSpawn == part = "spawn" /\ S!Next /\ UNCHANGED <<part, download, voip, rate, heap, maps, votes, time, aliens, master>>
RunMaps  == part = "maps"  /\ P!Next /\ UNCHANGED <<part, download, voip, rate, heap, spawn, votes, time, aliens, master>>
RunVotes == part = "votes" /\ Q!Next /\ UNCHANGED <<part, download, voip, rate, heap, spawn, maps, time, aliens, master>>
RunTime  == part = "time"  /\ T!Next /\ UNCHANGED <<part, download, voip, rate, heap, spawn, maps, votes, aliens, master>>
RunMaster == part = "master" /\ E!Next /\ UNCHANGED <<part, download, voip, rate, heap, spawn, maps, votes, time, aliens>>
RunAliens == part = "aliens" /\ A!Next /\ UNCHANGED <<part, download, voip, rate, heap, spawn, maps, votes, time, master>>

Next ==
    \/ RunDownload \/ RunVoip \/ RunRate \/ RunHeap
    \/ RunSpawn \/ RunMaps \/ RunVotes \/ RunTime \/ RunAliens \/ RunMaster

\* Only downloads have a liveness property: D!Fairness, where they run.
Downloads(Step) == part = "download" /\ Step
Fairness ==
    /\ WF_download(Downloads(D!SV_WriteDownloadToClient))
    /\ WF_download(Downloads(D!SecondPasses))
    /\ WF_download(Downloads(D!SV_ClientCommand))
    /\ \A n \in 0..ShortRange - 1 : SF_download(Downloads(D!Arrives(n)))

Spec == Init /\ [][Next]_vars /\ Fairness

-----------------------------------------------------------------------------
(* Properties; they are stated and explained in the modules *)

\* The window of blocks is the file's, and what is saved is what is served.
DownloadHolds == part = "download" => D!DownloadHolds

\* Files that are not refused arrive, whatever is lost.
DownloadsFinish == part = "download" => D!DownloadsFinish

\* Voice is relayed once and in order, where no snapshot leaves more than it takes.
VoiceHolds == part = "voip" => V!QueueHolds

\* The hash chains are whole, and no address is answered too often.
BucketsHold == part = "rate" => R!BucketsHold

\* Nodes and blocks tile the pool, and what is refused fits nowhere.
HeapHolds ==
    /\ [](part = "heap" => B!TypeOK /\ B!PoolTiled /\ B!ListWhole)
    /\ B!LeastLeft /\ B!RefusedForGood

\* Who waits is in his queue, once, and is not overtaken.
QueuesHold ==
    /\ [](part = "spawn" => S!TypeOK /\ S!QueueWhole /\ S!MembersBelong)
    /\ S!NobodyOvertakes

\* Rotations go on where they were left, and every advance ends with a map.
RotationsHold ==
    /\ [](part = "maps" => P!TypeOK /\ P!Resumes /\ P!AdvanceEnds)
    /\ P!FindsMap

\* Ballots of those still there decide, and what they decided is done once.
VotesHold ==
    /\ [](part = "votes" => Q!TypeOK /\ Q!CountsExact /\ Q!ExecutedInTurn)
    /\ Q!MajorityPasses

\* What is drawn lies between two snapshots, and does not run back.
TimeHolds ==
    /\ [](part = "time" => T!TypeOK /\ T!NoError)
    /\ T!ViewHolds /\ T!ForwardUnlessReset

\* The aliens' base spends no more than it has, and keeps its creep, its last egg
\* and its one overmind.
BaseHolds ==
    /\ [](part = "aliens" => A!TypeOK /\ A!ParentIsCreep)
    /\ A!OnlyStaleCountOverspends /\ A!LastSpawnKept /\ A!OneOvermind

\* The master's table is whole, lists who has answered, and refuses nobody it has
\* room for.
ServersHold ==
    part = "master" =>
        E!TypeOK /\ E!TableWhole /\ E!ListedHaveAnswered /\ E!RefusedOnlyIfFull
=============================================================================

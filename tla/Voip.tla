-------------------------------- MODULE Voip --------------------------------
(***************************************************************************)
(* The queue of voice packets the server relays to one client:             *)
(* SV_UserVoip puts packets of other clients in it, every snapshot takes   *)
(* as many from its head as MAX_DOWNLOAD_BLKSIZE bytes hold and moves the  *)
(* rest down.  A packet is an id, in the order of queueing, and a length.  *)
(***************************************************************************)
EXTENDS Integers, Sequences, Functions, Lists

CONSTANTS
    Slots,              \* length of client->voipPacket, 64
    Lengths,            \* lengths of packets
    MAX_DOWNLOAD_BLKSIZE,
    MaxVoice            \* bound on packets queued in a run

\* There is room for a packet.
VoipAssumption ==
    Slots \in Nat \ {0} /\ Lengths \subseteq Nat /\ MAX_DOWNLOAD_BLKSIZE \in Nat /\ MaxVoice \in Nat

VARIABLES
    voipPacket,         \* the array, with what earlier packets left in it
    queuedVoipPackets,
    downloading,        \* *client->downloadName
    queuedIds,          \* history: packets put in, less those thrown away
    written,            \* history: ids of the packets written to snapshots
    halves              \* history: no snapshot left more packets than it took

vars == <<voipPacket, queuedVoipPackets, downloading, queuedIds, written, halves>>

NoPacket == [id |-> 0, len |-> 0]

Init ==
    /\ voipPacket = [i \in 0..Slots - 1 |-> NoPacket]
    /\ queuedVoipPackets = 0
    /\ downloading = FALSE
    /\ queuedIds = <<>> /\ written = <<>>
    /\ halves = TRUE

NextId == IF queuedIds = <<>> THEN 1 ELSE queuedIds[Len(queuedIds)] + 1

\* BUG: the queue may hold one packet more than the array.
BugHasRoom == queuedVoipPackets <= Slots

\* "Too many VoIP packets queued": the packet is not taken.
HasRoom == queuedVoipPackets < Slots

\* SV_UserVoip of another client, addressed to this one.
SV_UserVoip ==
    /\ NextId <= MaxVoice /\ HasRoom
    /\ \E len \in Lengths :
          voipPacket' = [i \in DOMAIN voipPacket |->
              IF i = queuedVoipPackets THEN [id |-> NextId, len |-> len] ELSE voipPacket[i]]
    /\ queuedVoipPackets' = queuedVoipPackets + 1
    /\ queuedIds' = Append(queuedIds, NextId)
    /\ UNCHANGED <<downloading, written, halves>>

\* Length of the first n packets.
TotalBytes(n) ==
    FoldFunctionOnSet(+, 0, [i \in DOMAIN voipPacket |-> voipPacket[i].len], 0..n - 1)

\* Where the loop over the packets may end: behind the last one, and where the
\* next one does not fit.
Stops ==
    {n \in 0..queuedVoipPackets :
        n = queuedVoipPackets \/ TotalBytes(n + 1) > MAX_DOWNLOAD_BLKSIZE}

\* Packets a snapshot takes.
Taken == CHOOSE n \in Stops : \A m \in Stops : n <= m

\* BUG: the packets are moved from the start of the queue.
BugMoved(n) == voipPacket

\* memmove of as many packets as were taken, whatever is left; reading goes on
\* behind the array's end, into places above those that are still queued.
Moved(n) ==
    [i \in DOMAIN voipPacket |->
        IF i < n THEN (IF i + n < Slots THEN voipPacket[i + n] ELSE NoPacket)
        ELSE voipPacket[i]]

SV_WriteVoipToClient ==
    /\ queuedVoipPackets > 0
    /\ IF downloading
       THEN /\ queuedVoipPackets' = 0
            /\ queuedIds' = Kept(queuedIds, {voipPacket[i].id : i \in 0..queuedVoipPackets - 1})
            /\ UNCHANGED <<voipPacket, written, halves>>
       ELSE /\ written' = written \o [k \in 1..Taken |-> voipPacket[k - 1].id]
            /\ queuedVoipPackets' = queuedVoipPackets - Taken
            /\ voipPacket' = IF queuedVoipPackets = Taken THEN voipPacket ELSE Moved(Taken)
            /\ halves' = (halves /\ queuedVoipPackets - Taken <= Taken)
            /\ UNCHANGED queuedIds
    /\ UNCHANGED downloading

BeginOrEndDownload ==
    /\ downloading' = ~downloading
    /\ UNCHANGED <<voipPacket, queuedVoipPackets, queuedIds, written, halves>>

Next == SV_UserVoip \/ SV_WriteVoipToClient \/ BeginOrEndDownload

Spec == Init /\ [][Next]_vars

-----------------------------------------------------------------------------
(* Properties *)

\* The count stays in the array.
TypeOK ==
    /\ queuedVoipPackets \in 0..Slots
    /\ \A i \in DOMAIN voipPacket : voipPacket[i] = NoPacket \/
          (voipPacket[i].id \in 1..MaxVoice /\ voipPacket[i].len \in Lengths)
    /\ downloading \in BOOLEAN

Pending == [k \in 1..queuedVoipPackets |-> voipPacket[k - 1].id]

\* Every packet that was queued, and not thrown away for a download, is written
\* once and in order, or still queued: as long as no snapshot leaves more
\* packets behind than it takes.
RelayedOnceIfHalved == halves => written \o Pending = queuedIds

\* "Check to see if there is any VoIP queued for a client, and send if there is"
\* (sv_client.c:860): what is queued is sent once, however little fits.
RelayedOnce == written \o Pending = queuedIds

\* What the queue keeps to: its size, and everything in it relayed once.
QueueHolds == TypeOK /\ RelayedOnceIfHalved
=============================================================================

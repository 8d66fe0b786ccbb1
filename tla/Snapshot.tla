------------------------------ MODULE Snapshot ------------------------------
(***************************************************************************)
(* Delta compressed snapshots between the server and one client:           *)
(* sv_snapshot.c writes a snapshot as a difference from one the client has *)
(* acknowledged; cl_parse.c applies it to its own copy of that one; cgame  *)
(* reads the result through CL_GetSnapshot.                                *)
(*                                                                         *)
(* Three rings may roll over under a base that is still in use: the        *)
(* client's frames and the snapshotEntities of all clients on the server,  *)
(* the snapshots and parseEntities on the client.  Neither side asks the   *)
(* other whether a base is still there; the two sides' age checks have to  *)
(* be enough.                                                              *)
(*                                                                         *)
(* An entity state is its number and the sequence of the message that      *)
(* brought it: every entity changes with every snapshot.  A delta is the   *)
(* list of old states it was made from and of the new ones it describes;   *)
(* applied to anything but that old list it may give anything.             *)
(* Messages come in order, some are lost (Netchan).  A message starts when *)
(* the netchan is free (SvNetchan has the queue).  map_restart, which      *)
(* keeps rings and frames, is left to Configstrings.                       *)
(***************************************************************************)
EXTENDS Integers, Sequences, FiniteSets

CONSTANTS
    Numbers,            \* entity numbers a snapshot may hold
    PACKET_BACKUP,
    RingSize,           \* svs.numSnapshotEntities
    MAX_PARSE_ENTITIES,
    ParseMargin,        \* the 128 of CL_ParseSnapshot
    MaxSequence,        \* bound on messages to the client
    MaxMaps,            \* bound on map changes
    MaxMapSequence,     \* bound on the message number they come at
    MaxOthers,          \* bound on nextSnapshotEntities, for other clients
    Views,              \* sets of numbers the client may see
    MaxDown, MaxUp      \* bounds on messages under way

\* Both rings hold a whole snapshot (MAX_SNAPSHOT_ENTITIES is 1024, for which
\* a listen server needs four slots); the margin (128) may be smaller than one.
ASSUME SnapshotAssumption ==
    /\ Numbers \subseteq Nat \ {0} /\ IsFiniteSet(Numbers) /\ Numbers # {}
    /\ Views \subseteq SUBSET Numbers
    /\ PACKET_BACKUP \in Nat /\ PACKET_BACKUP > 3
    /\ RingSize \in Nat /\ RingSize >= Cardinality(Numbers)
    /\ MAX_PARSE_ENTITIES \in Nat /\ MAX_PARSE_ENTITIES > Cardinality(Numbers)
    /\ ParseMargin \in 1..MAX_PARSE_ENTITIES - 1
    /\ MaxSequence \in Nat /\ MaxMaps \in Nat \ {0}
    /\ MaxMapSequence \in Nat /\ MaxOthers \in Nat
    /\ MaxDown \in Nat \ {0} /\ MaxUp \in Nat \ {0}

VARIABLES
    sv,                 \* the server's client_t, its map, and svs counters
    frames,             \* client->frames
    snapshotEntities,   \* svs.snapshotEntities
    cl,                 \* clc and cl of the client
    snapshots,          \* cl.snapshots
    parseEntities,      \* cl.parseEntities
    down, up,           \* messages under way to and from the client
    meant,              \* history: entity states of the snapshot in a message
    crowded             \* history: deltas with too many entities their base lacks

server == <<sv, frames, snapshotEntities>>
client == <<cl, snapshots, parseEntities>>
vars == <<sv, frames, snapshotEntities, cl, snapshots, parseEntities, down, up, meant, crowded>>

Slot(n) == n % PACKET_BACKUP
Sequence == 0..MaxSequence
Entity == (Numbers \X Sequence) \cup {<<0, 0>>}
Blank == <<0, 0>>

Init ==
    /\ sv = [map |-> 1, state |-> "connected", gentity |-> TRUE, outgoing |-> 1,
             gamestateMessageNum |-> -1, deltaMessage |-> 0, next |-> 0]
    /\ frames = [s \in 0..PACKET_BACKUP - 1 |-> [first |-> 0, num |-> 0]]
    /\ snapshotEntities = [i \in 0..RingSize - 1 |-> Blank]
    /\ cl = [serverId |-> 0, sequence |-> 0, snapNum |-> 0, snapValid |-> FALSE, parseNum |-> 0]
    /\ snapshots = [s \in 0..PACKET_BACKUP - 1 |->
                      [valid |-> FALSE, messageNum |-> 0, first |-> 0, num |-> 0]]
    /\ parseEntities = [i \in 0..MAX_PARSE_ENTITIES - 1 |-> Blank]
    /\ down = <<>> /\ up = <<>>
    /\ meant = [s \in 1..MaxSequence |-> <<>>]
    /\ crowded = {}

-----------------------------------------------------------------------------
(* Rings and the network *)

\* The list written into a ring from place first on.
Written(ring, first, list) ==
    [i \in DOMAIN ring |->
        LET at == {k \in 1..Len(list) : (first + k - 1) % Cardinality(DOMAIN ring) = i}
        IN  IF at = {} THEN ring[i] ELSE list[CHOOSE k \in at : \A j \in at : k >= j]]

ReadFrom(ring, first, num) ==
    [k \in 1..num |-> ring[(first + k - 1) % Cardinality(DOMAIN ring)]]

\* What does not fit in the network is lost, oldest first.
Put(net, max, m) == IF Len(net) < max THEN Append(net, m) ELSE Append(Tail(net), m)

\* A message that is taken makes those before it stale: they are lost.
Rest(net, k) == SubSeq(net, k + 1, Len(net))

-----------------------------------------------------------------------------
(* sv_snapshot.c, sv_client.c, sv_init.c *)

\* BUG: entities that have rolled off are not noticed.
BugDeltaBase(fr, nextEntities) ==
    IF /\ sv.deltaMessage > 0
       /\ sv.state = "active"
       /\ sv.outgoing - sv.deltaMessage < PACKET_BACKUP - 3
    THEN sv.deltaMessage ELSE 0

\* The message a snapshot is a delta from, after the snapshot was built; 0 none.
DeltaBase(fr, nextEntities) ==
    IF /\ sv.deltaMessage > 0
       /\ sv.state = "active"
       /\ sv.outgoing - sv.deltaMessage < PACKET_BACKUP - 3
       /\ fr[Slot(sv.deltaMessage)].first > nextEntities - RingSize
    THEN sv.deltaMessage ELSE 0

\* SV_BuildClientSnapshot: a client without an entity in the game has an
\* empty frame, with the first_entity of whatever was in its slot before.
Frame(list) ==
    IF sv.gentity THEN [first |-> sv.next, num |-> Len(list)]
                  ELSE [frames[Slot(sv.outgoing)] EXCEPT !.num = 0]

\* The numbers in S, sorted as SV_QsortEntityNumbers does.
InOrder(S) ==
    CHOOSE list \in [1..Cardinality(S) -> S] :
        \A j, k \in DOMAIN list : j < k => list[j] < list[k]

\* The new states of a message for entities that are not in its base.
Appearing(m) ==
    {k \in 1..Len(m.new) : \A j \in 1..Len(m.old) : m.old[j][1] # m.new[k][1]}

\* SV_SendClientSnapshot of the visible entities; an overflowed message is
\* sent empty.
SV_SendClientSnapshot(visible, overflowed) ==
    LET order == InOrder(IF sv.gentity THEN visible ELSE {})
        list  == [k \in 1..Len(order) |-> <<order[k], sv.outgoing>>]
        fr    == [frames EXCEPT ![Slot(sv.outgoing)] = Frame(list)]
        ring  == Written(snapshotEntities, sv.next, list)
        base  == DeltaBase(fr, sv.next + Len(list))
        from  == fr[Slot(base)]
        to    == fr[Slot(sv.outgoing)]
        message == [kind |-> "snapshot", sequence |-> sv.outgoing, map |-> sv.map,
                    base |-> base,
                    old |-> IF base = 0 THEN <<>> ELSE ReadFrom(ring, from.first, from.num),
                    new |-> ReadFrom(ring, to.first, to.num)]
    IN  /\ sv.outgoing <= MaxSequence
        /\ sv' = [sv EXCEPT !.outgoing = @ + 1, !.next = @ + Len(list)]
        /\ frames' = fr
        /\ snapshotEntities' = ring
        /\ down' = Put(down, MaxDown, IF overflowed THEN [message EXCEPT !.kind = "empty"] ELSE message)
        /\ meant' = [meant EXCEPT ![sv.outgoing] = list]
        /\ crowded' = IF /\ base # 0
                         /\ base \in crowded \/ Cardinality(Appearing(message)) >= ParseMargin
                      THEN crowded \cup {sv.outgoing} ELSE crowded
        /\ UNCHANGED <<cl, snapshots, parseEntities, up>>

\* A snapshot of another client goes into the same ring of entities.
OtherClientSnapshot ==
    /\ sv.next < MaxOthers
    /\ snapshotEntities' = Written(snapshotEntities, sv.next, <<Blank>>)
    /\ sv' = [sv EXCEPT !.next = @ + 1]
    /\ UNCHANGED <<frames, cl, snapshots, parseEntities, down, up, meant, crowded>>

\* SV_SpawnServer: the ring starts again, the frames of the clients stay; the
\* new game has no entity for the client yet (SV_InitGameVM).
SV_SpawnServer ==
    /\ sv.map < MaxMaps /\ sv.outgoing <= MaxMapSequence
    /\ sv' = [sv EXCEPT !.map = @ + 1, !.state = "connected", !.gentity = FALSE, !.next = 0]
    /\ snapshotEntities' = [i \in DOMAIN snapshotEntities |-> Blank]
    /\ UNCHANGED <<frames, cl, snapshots, parseEntities, down, up, meant, crowded>>

SV_SendClientGameState ==
    /\ sv.outgoing <= MaxSequence
    /\ sv' = [sv EXCEPT !.state = "primed", !.gamestateMessageNum = sv.outgoing,
                        !.outgoing = @ + 1]
    /\ down' = Put(down, MaxDown, [kind |-> "gamestate", sequence |-> sv.outgoing, map |-> sv.map,
                          base |-> 0, old |-> <<>>, new |-> <<>>])

\* SV_UserMove and, from PRIMED, SV_ClientEnterWorld.
SV_UserMove(p) ==
    [sv EXCEPT !.deltaMessage = IF p.delta /\ sv.state = "active" THEN p.ack ELSE -1,
               !.state = IF @ = "primed" THEN "active" ELSE @,
               !.gentity = @ \/ sv.state = "primed"]

\* SV_ExecuteClientMessage for the k-th packet under way: a move for the map,
\* or a packet of an old gamestate, answered when it acknowledges something
\* later than the gamestate last sent.
SV_ExecuteClientMessage(k) ==
    LET p == up[k]
    IN  /\ up' = Rest(up, k)
        /\ IF p.map = sv.map
           THEN sv' = SV_UserMove(p) /\ UNCHANGED down
           ELSE IF p.ack > sv.gamestateMessageNum
           THEN SV_SendClientGameState
           ELSE UNCHANGED <<sv, down>>
        /\ UNCHANGED <<frames, snapshotEntities, cl, snapshots, parseEntities, meant, crowded>>

-----------------------------------------------------------------------------
(* cl_parse.c, cl_input.c, cl_cgame.c *)

\* Place j of the old list is still what the delta was made from when
\* CL_ParsePacketEntities comes to it: entities written before it, those of
\* smaller numbers, have not gone over its place in the ring.
Intact(m, old, j) ==
    LET before == Cardinality({k \in 1..Len(m.new) : m.new[k][1] < m.old[j][1]})
    IN  /\ parseEntities[(old.first + j - 1) % MAX_PARSE_ENTITIES] = m.old[j]
        /\ cl.parseNum + before < old.first + j - 1 + MAX_PARSE_ENTITIES

\* The states that may come out: from a base that is not whole, as many as the
\* message and what is there for the base make, with anything in them.
CL_ParsePacketEntities(m, old) ==
    IF m.base = 0 \/ (old.num = Len(m.old) /\ \A j \in 1..Len(m.old) : Intact(m, old, j))
    THEN {m.new}
    ELSE {[k \in 1..num |-> Blank] : num \in Len(m.new)..Len(m.new) + old.num}

\* BUG: the age of the base's entities is not looked at.
BugUsable(m, old) ==
    m.base = 0 \/ (old.valid /\ old.messageNum = m.base)

\* The tests on the base in CL_ParseSnapshot.
Usable(m, old) ==
    \/ m.base = 0
    \/ /\ old.valid
       /\ old.messageNum = m.base
       /\ cl.parseNum - old.first <= MAX_PARSE_ENTITIES - ParseMargin

\* Messages since the last snapshot, whose slots do not hold them.
Skipped(m) ==
    {n \in Sequence : /\ n < m.sequence
                      /\ n > cl.snapNum
                      /\ n > m.sequence - PACKET_BACKUP}

\* CL_ParseSnapshot: what a delta from an unusable base gives is read into
\* parseEntities all the same, and there is no snapshot of it.
CL_ParseSnapshot(m) ==
    LET old   == snapshots[Slot(m.base)]
        clear == [s \in DOMAIN snapshots |->
                    IF s \in {Slot(n) : n \in Skipped(m)}
                    THEN [snapshots[s] EXCEPT !.valid = FALSE] ELSE snapshots[s]]
    IN  \E list \in CL_ParsePacketEntities(m, old) :
            /\ parseEntities' = Written(parseEntities, cl.parseNum, list)
            /\ IF Usable(m, old)
               THEN /\ snapshots' = [clear EXCEPT ![Slot(m.sequence)] =
                          [valid |-> TRUE, messageNum |-> m.sequence,
                           first |-> cl.parseNum, num |-> Len(list)]]
                    /\ cl' = [cl EXCEPT !.sequence = m.sequence, !.snapNum = m.sequence,
                                        !.snapValid = TRUE, !.parseNum = @ + Len(list)]
               ELSE /\ cl' = [cl EXCEPT !.sequence = m.sequence, !.parseNum = @ + Len(list)]
                    /\ UNCHANGED snapshots

\* BUG: cl.snap is cleared to -1 instead of 0.
BugParseGamestate(m) ==
    /\ cl' = [serverId |-> m.map, sequence |-> m.sequence, snapNum |-> -1,
              snapValid |-> FALSE, parseNum |-> 0]
    /\ snapshots' = [s \in DOMAIN snapshots |->
                       [valid |-> FALSE, messageNum |-> 0, first |-> 0, num |-> 0]]
    /\ parseEntities' = [i \in DOMAIN parseEntities |-> Blank]

\* CL_ParseGamestate clears everything in cl.
CL_ParseGamestate(m) ==
    /\ cl' = [serverId |-> m.map, sequence |-> m.sequence, snapNum |-> 0,
              snapValid |-> FALSE, parseNum |-> 0]
    /\ snapshots' = [s \in DOMAIN snapshots |->
                       [valid |-> FALSE, messageNum |-> 0, first |-> 0, num |-> 0]]
    /\ parseEntities' = [i \in DOMAIN parseEntities |-> Blank]

CL_ParseServerMessage(k) ==
    LET m == down[k]
    IN  /\ down' = Rest(down, k)
        /\ CASE m.kind = "gamestate" -> CL_ParseGamestate(m)
             [] m.kind = "snapshot"  -> CL_ParseSnapshot(m)
             [] m.kind = "empty"     -> /\ cl' = [cl EXCEPT !.sequence = m.sequence]
                                        /\ UNCHANGED <<snapshots, parseEntities>>
        /\ UNCHANGED <<sv, frames, snapshotEntities, up, meant, crowded>>

\* BUG: a delta is asked for whatever the last message brought.
BugAsksDelta == cl.snapValid

\* clc_move instead of clc_moveNoDelta.
AsksDelta == cl.snapValid /\ cl.sequence = cl.snapNum

CL_WritePacket ==
    /\ up' = Put(up, MaxUp, [map |-> cl.serverId, ack |-> cl.sequence, delta |-> AsksDelta])
    /\ UNCHANGED <<sv, frames, snapshotEntities, cl, snapshots, parseEntities, down, meant, crowded>>

\* CL_GetSnapshot says it has snapshot n.
CL_GetSnapshot(n) ==
    /\ n <= cl.snapNum /\ cl.snapNum - n < PACKET_BACKUP
    /\ snapshots[Slot(n)].valid
    /\ cl.parseNum - snapshots[Slot(n)].first < MAX_PARSE_ENTITIES

-----------------------------------------------------------------------------
Next ==
    \/ \E visible \in Views : SV_SendClientSnapshot(visible, FALSE)
    \/ SV_SendClientSnapshot(Numbers, TRUE)
    \/ OtherClientSnapshot
    \/ SV_SpawnServer
    \/ \E k \in DOMAIN up : SV_ExecuteClientMessage(k)
    \/ \E k \in DOMAIN down : CL_ParseServerMessage(k)
    \/ CL_WritePacket

Spec == Init /\ [][Next]_vars

-----------------------------------------------------------------------------
(* Properties *)

\* Counters, rings and messages have their shapes.
TypeOK ==
    /\ sv \in [map : 1..MaxMaps, state : {"connected", "primed", "active"},
               gentity : BOOLEAN, outgoing : 1..MaxSequence + 1,
               gamestateMessageNum : -1..MaxSequence, deltaMessage : -1..MaxSequence,
               next : Nat]
    /\ frames \in [0..PACKET_BACKUP - 1 -> [first : Nat, num : 0..Cardinality(Numbers)]]
    /\ snapshotEntities \in [0..RingSize - 1 -> Entity]
    /\ cl \in [serverId : 0..MaxMaps, sequence : Sequence, snapNum : Sequence,
               snapValid : BOOLEAN, parseNum : Nat]
    /\ snapshots \in [0..PACKET_BACKUP - 1 ->
          [valid : BOOLEAN, messageNum : Sequence, first : Nat, num : Nat]]
    /\ parseEntities \in [0..MAX_PARSE_ENTITIES - 1 -> Entity]
    /\ Len(down) <= MaxDown /\ Len(up) <= MaxUp

\* Whenever CL_GetSnapshot gives cgame a snapshot, its entities are those the
\* server saw for that message, whatever rolled over in between on either side:
\* unless ParseMargin entities or more appeared at once in a delta it comes
\* from, which nothing keeps the server from and the client does not notice.
CgameSeesWhatWasSent ==
    \A n \in (1..MaxSequence) \ crowded :
        CL_GetSnapshot(n) =>
            LET s == snapshots[Slot(n)]
            IN  ReadFrom(parseEntities, s.first, s.num) = meant[n]

\* "Delta from invalid frame (not supposed to happen!)" and "Delta frame too
\* old" (cl_parse.c:252, 256) do not happen: no message under way is a delta
\* from a snapshot the client has not, unless a gamestate before it is lost.
BaseIsHeld ==
    \A k \in DOMAIN down :
        LET m == down[k]
            old == snapshots[Slot(m.base)]
        IN  m.kind = "snapshot" /\ m.base > 0 /\ m.map = cl.serverId
                => old.valid /\ old.messageNum = m.base

\* What the rings keep to: their types, and that the client has every base.
BasesHold == TypeOK /\ BaseIsHeld

\* The old states a delta is made from are those of the message it names: its
\* frame was not built again, its entities have not rolled off the server's
\* ring, and it is not from a map before the ring was started again.
BaseIsIntact ==
    \A k \in DOMAIN down :
        down[k].kind = "snapshot" /\ down[k].base > 0 => down[k].old = meant[down[k].base]
=============================================================================

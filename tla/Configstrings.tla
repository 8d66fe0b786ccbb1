--------------------------- MODULE Configstrings ---------------------------
(***************************************************************************)
(* How one client follows the server from map to map: the gamestate, which *)
(* holds all configstrings at once, the "cs" commands that change one of   *)
(* them, and the serverId by which each side tells which gamestate the     *)
(* other is at (server/sv_init.c, sv_client.c and sv_ccmds.c,              *)
(* client/cl_parse.c and cl_cgame.c).                                      *)
(*                                                                         *)
(* Module Reliable stands below: a message brings the client every command *)
(* up to the last one there was when it was sent; messages may be lost,    *)
(* but come in order.  The server is not pure and the client downloads     *)
(* nothing, though it may take its time to load a map.                     *)
(*                                                                         *)
(* Definitions named Bug... are plausible mistakes, each the mutated form  *)
(* of the definition that follows it; the specification uses none of them. *)
(***************************************************************************)
EXTENDS Integers, Sequences, FiniteSets

CONSTANTS
    GameString,         \* configstrings the game sets
    SystemInfo,         \* CS_SYSTEMINFO, which holds sv_serverid
    MaxValue,           \* a configstring is a number up to this, 0 is ""
    Restricting,        \* does the game hide configstrings from this client?
    Delayed,            \* are the restarts those SV_Frame orders, at restartTime,
                        \* and not those of the console and the vote?
    MaxServerId,        \* bound on the maps and restarts
    MaxCommands,        \* with so many commands the game is silent
    MaxInFlight         \* bound on the messages in flight each way

ASSUME ConfigstringsAssumption ==
    /\ IsFiniteSet(GameString) /\ SystemInfo \notin GameString
    /\ MaxValue \in Nat /\ MaxServerId \in Nat \ {0} /\ MaxCommands \in Nat
    /\ MaxInFlight \in Nat /\ Restricting \in BOOLEAN /\ Delayed \in BOOLEAN

Index == GameString \cup {SystemInfo}

VARIABLES
    sv,                 \* serverId, restartedServerId, the configstrings
    hidden,             \* those restricted with this client on the list
    cl,                 \* the server's client_t: state, csUpdated
    commands,           \* the "cs" commands for this client, in order
    client,             \* the client: state, its configstrings, what it has
    toServer, toClient, \* messages in flight, oldest first
    history             \* what the properties recall of the client: has it
                        \* executed commands older than its gamestate, and the
                        \* serverId of that gamestate

vars == <<sv, hidden, cl, commands, client, toServer, toClient, history>>

\* The first map, and a client that has just connected.
Init ==
    /\ sv = [serverId |-> 1, restartedServerId |-> 1,
             configstrings |-> [i \in Index |-> IF i = SystemInfo THEN 1 ELSE 0]]
    /\ hidden = {}
    /\ cl = [state |-> "connected", csUpdated |-> {}]
    /\ commands = <<>>
    /\ client = [state |-> "connected", configstrings |-> [i \in Index |-> 0],
                 serverId |-> 0, received |-> 0, executed |-> 0, mark |-> 0,
                 since |-> TRUE]
    /\ toServer = <<>> /\ toClient = <<>>
    /\ history = [replayed |-> FALSE, gamestate |-> 0]

-----------------------------------------------------------------------------
(* server/sv_init.c: configstrings. *)

\* The command SV_SendConfigstring adds: blank if the client may not see it.
CsCommand(strings, i) ==
    [index |-> i, value |-> IF i \in hidden THEN 0 ELSE strings[i]]

\* SV_AddServerCommand: no commands before the gamestate has been sent.
Added(c) == IF cl.state = "connected" THEN commands ELSE Append(commands, c)

\* SV_SetConfigstring of i to value in a running game.
SetConfigstring(i, value) ==
    LET strings == [sv.configstrings EXCEPT ![i] = value]
    IN  /\ value # sv.configstrings[i]
        /\ sv' = [sv EXCEPT !.configstrings = strings]
        /\ commands' = IF cl.state = "active"
                       THEN Append(commands, CsCommand(strings, i)) ELSE commands
        /\ cl' = IF cl.state = "primed" THEN [cl EXCEPT !.csUpdated = @ \cup {i}] ELSE cl

GameSetsConfigstring ==
    /\ Len(commands) < MaxCommands
    /\ \E i \in GameString, value \in 0..MaxValue : SetConfigstring(i, value)
    /\ UNCHANGED <<hidden, client, toServer, toClient, history>>

\* SV_Frame notices that sv_serverid has changed.
UpdateSystemInfo ==
    /\ SetConfigstring(SystemInfo, sv.serverId)
    /\ UNCHANGED <<hidden, client, toServer, toClient, history>>

\* BUG: a client that leaves the list is not sent what it may see now.
BugSetConfigstringRestrictions(i) ==
    /\ Restricting
    /\ Len(commands) < MaxCommands
    /\ hidden' = IF i \in hidden THEN hidden \ {i} ELSE hidden \cup {i}
    /\ commands' = IF i \in hidden THEN commands ELSE Added([index |-> i, value |-> 0])
    /\ UNCHANGED <<sv, cl, client, toServer, toClient, history>>

\* SV_SetConfigstringRestrictions: the client joins or leaves i's list.
SetConfigstringRestrictions(i) ==
    /\ Restricting
    /\ Len(commands) < MaxCommands
    /\ hidden' = IF i \in hidden THEN hidden \ {i} ELSE hidden \cup {i}
    /\ commands' = Added(
          [index |-> i, value |-> IF i \in hidden THEN sv.configstrings[i] ELSE 0])
    /\ UNCHANGED <<sv, cl, client, toServer, toClient, history>>

\* The configstrings that are flagged, one after another.
Flagged(updated) ==
    CHOOSE list \in [1..Cardinality(updated) -> updated] :
        \A i \in updated : \E n \in DOMAIN list : list[n] = i

\* BUG: the flags set while the client was loading are forgotten.
BugEnterWorld(strings, updated) ==
    /\ cl' = [state |-> "active", csUpdated |-> {}]
    /\ UNCHANGED commands

\* SV_ClientEnterWorld: SV_UpdateConfigstrings sends what has changed since.
EnterWorld(strings, updated) ==
    /\ cl' = [state |-> "active", csUpdated |-> {}]
    /\ commands' = commands \o
          [n \in 1..Cardinality(updated) |-> CsCommand(strings, Flagged(updated)[n])]

-----------------------------------------------------------------------------
(* Maps and messages: server/sv_init.c, sv_ccmds.c, sv_client.c. *)

\* SV_SpawnServer: another map, with the strings its loading left; each client
\* will get its gamestate when it is next heard of.
SV_SpawnServer ==
    LET id == sv.serverId + 1
    IN  /\ id <= MaxServerId
        /\ \E strings \in [GameString -> 0..MaxValue] :
              sv' = [serverId |-> id, restartedServerId |-> id,
                     configstrings |-> [i \in Index |->
                         IF i = SystemInfo THEN id ELSE strings[i]]]
        /\ hidden' = {}
        /\ cl' = [cl EXCEPT !.state = "connected"]
        /\ UNCHANGED <<commands, client, toServer, toClient, history>>

\* SV_MapRestart_f: the same map again, where the game's first frames may set a
\* configstring; each client, whatever it was at, is put into the world.
SV_MapRestart_f ==
    /\ sv.serverId < MaxServerId /\ Len(commands) < MaxCommands
    /\ \E i \in GameString, value \in 0..MaxValue :
          LET strings == [sv.configstrings EXCEPT ![i] = value]
              changed == IF value = sv.configstrings[i] THEN {} ELSE {i}
              unsent  == IF cl.state = "connected" THEN {} ELSE changed
          IN  /\ sv' = [sv EXCEPT !.serverId = @ + 1, !.configstrings = strings]
              /\ EnterWorld(strings, cl.csUpdated \cup unsent)
    /\ UNCHANGED <<hidden, client, toServer, toClient, history>>

\* What is in flight was sent before the gamestate that is sent now.
Before(queue) == [n \in DOMAIN queue |-> [queue[n] EXCEPT !.since = FALSE]]

\* SV_SendClientGameState, which does not look at who may see a configstring.
SV_SendClientGameState ==
    /\ Len(toClient) < MaxInFlight
    /\ cl' = [cl EXCEPT !.state = "primed"]
    /\ toClient' = Append(Before(toClient),
          [gamestate |-> sv.configstrings, upTo |-> Len(commands), since |-> FALSE])
    /\ client' = [client EXCEPT !.since = FALSE]
    /\ UNCHANGED <<sv, hidden, commands, history>>

SV_SendClientSnapshot ==
    /\ Len(toClient) < MaxInFlight
    /\ toClient' = Append(toClient,
          [gamestate |-> <<>>, upTo |-> Len(commands), since |-> TRUE])
    /\ UNCHANGED <<sv, hidden, cl, commands, client, toServer, history>>

\* BUG: the last serverId is always the same map's, and no other is.
BugOutdated(m) == m.serverId = sv.serverId - 1

\* "they just haven't caught the map_restart yet"
Outdated(m) == m.serverId \in sv.restartedServerId..sv.serverId - 1

\* SV_ExecuteClientMessage: a client at another gamestate is sent this one if it
\* has received something sent after it; the first move of one that is at this
\* gamestate puts it into the world.  SV_Frame looks at the systeminfo again in
\* the frame of a restart it ordered, but some frames after another, with packets
\* in between.
SV_ExecuteClientMessage(n) ==
    LET m    == toServer[n]
        rest == SubSeq(toServer, n + 1, Len(toServer))
    IN  /\ Delayed => sv.configstrings[SystemInfo] = sv.serverId
        /\ IF m.serverId # sv.serverId /\ ~Outdated(m) /\ m.since
           THEN /\ SV_SendClientGameState
                /\ toServer' = Before(rest)
           ELSE /\ toServer' = rest
                /\ IF m.serverId = sv.serverId /\ m.move /\ cl.state = "primed"
                   THEN EnterWorld(sv.configstrings, cl.csUpdated)
                   ELSE UNCHANGED <<cl, commands>>
                /\ UNCHANGED <<sv, hidden, client, toClient, history>>

-----------------------------------------------------------------------------
(* The client: client/cl_parse.c, cl_cgame.c, cl_input.c. *)

\* CL_ParseServerMessage.  A gamestate replaces all configstrings; the map is
\* loaded at once, or later if that takes time.  A snapshot lets cgame execute
\* the commands there were with it.
CL_ParseServerMessage(n) ==
    LET m == toClient[n]
    IN  /\ toClient' = SubSeq(toClient, n + 1, Len(toClient))
        /\ IF m.gamestate = <<>>
           THEN client' = [client EXCEPT !.received = m.upTo, !.since = m.since]
                /\ UNCHANGED history
           ELSE /\ \E state \in {"loading", "primed"} :
                      client' = [client EXCEPT !.state = state, !.received = client.executed,
                                     !.mark = m.upTo, !.since = m.since,
                                     !.configstrings = m.gamestate,
                                     !.serverId = m.gamestate[SystemInfo]]
                /\ history' = [replayed |-> FALSE, gamestate |-> m.gamestate[SystemInfo]]
        /\ UNCHANGED <<sv, hidden, cl, commands, toServer>>

\* CL_InitCGame
CL_InitCGame ==
    /\ client.state = "loading"
    /\ client' = [client EXCEPT !.state = "primed"]
    /\ UNCHANGED <<sv, hidden, cl, commands, toServer, toClient, history>>

\* BUG: cgame takes the server's word for how many commands it has.
BugExecute ==
    LET n == client.executed + 1
        c == commands[n]
    IN  /\ client.state = "primed" /\ n <= Len(commands)
        /\ client' = [client EXCEPT !.executed = n, !.configstrings[c.index] = c.value]
        /\ UNCHANGED <<sv, hidden, cl, commands, toServer, toClient, history>>

\* cgame executes the next command it has not: CL_GetServerCommand, with
\* CL_ConfigstringModified and CL_SystemInfoChanged.  The commands sent before
\* the gamestate are among them, which history notes.
Execute ==
    LET n == client.executed + 1
        c == commands[n]
    IN  /\ client.state = "primed" /\ n <= client.received
        /\ client' = [client EXCEPT !.executed = n, !.configstrings[c.index] = c.value,
                          !.serverId = IF c.index = SystemInfo THEN c.value ELSE @]
        /\ history' = [history EXCEPT !.replayed = @ \/ n <= client.mark]
        /\ UNCHANGED <<sv, hidden, cl, commands, toServer, toClient>>

CL_WritePacket ==
    /\ Len(toServer) < MaxInFlight
    /\ toServer' = Append(toServer,
          [serverId |-> client.serverId, since |-> client.since,
           move |-> client.state = "primed"])
    /\ UNCHANGED <<sv, hidden, cl, commands, client, toClient, history>>

-----------------------------------------------------------------------------
Next ==
    \/ GameSetsConfigstring \/ UpdateSystemInfo
    \/ \E i \in GameString : SetConfigstringRestrictions(i)
    \/ SV_SpawnServer \/ SV_MapRestart_f
    \/ SV_SendClientSnapshot
    \/ \E n \in DOMAIN toServer : SV_ExecuteClientMessage(n)
    \/ \E n \in DOMAIN toClient : CL_ParseServerMessage(n)
    \/ CL_InitCGame \/ Execute \/ CL_WritePacket

Spec == Init /\ [][Next]_vars

\* Both sides run their frames for ever, maps load, and what is sent again and
\* again arrives at last: among the messages to the client, a gamestate as well.
Fairness ==
    /\ WF_vars(UpdateSystemInfo)
    /\ WF_vars(SV_SendClientSnapshot) /\ WF_vars(CL_WritePacket)
    /\ WF_vars(CL_InitCGame) /\ WF_vars(Execute)
    /\ SF_vars(\E n \in DOMAIN toServer : SV_ExecuteClientMessage(n))
    /\ \A full \in BOOLEAN : SF_vars(\E n \in DOMAIN toClient :
          (toClient[n].gamestate # <<>>) = full /\ CL_ParseServerMessage(n))

FairSpec == Spec /\ Fairness

-----------------------------------------------------------------------------
(* Properties. *)

Strings == [Index -> 0..MaxValue + MaxServerId]

\* The records of server.h and client.h; the client never executes a command it
\* has not received, and a restart's id never runs ahead of the server's.
TypeOK ==
    /\ sv \in [serverId : 1..MaxServerId, restartedServerId : 1..MaxServerId,
               configstrings : Strings]
    /\ sv.restartedServerId <= sv.serverId
    /\ hidden \subseteq GameString
    /\ cl \in [state : {"connected", "primed", "active"}, csUpdated : SUBSET Index]
    /\ \A n \in DOMAIN commands : commands[n].index \in Index /\ commands[n].value \in Nat
    /\ client \in [state : {"connected", "loading", "primed"}, configstrings : Strings,
                   serverId : 0..MaxServerId, received : 0..Len(commands),
                   executed : 0..Len(commands), mark : 0..Len(commands), since : BOOLEAN]
    /\ client.executed <= client.received
    /\ history \in [replayed : BOOLEAN, gamestate : 0..MaxServerId]

\* The client plays the server's map and has done all it was told.
CaughtUp ==
    /\ cl.state = "active" /\ client.state = "primed"
    /\ client.serverId = sv.serverId /\ sv.configstrings[SystemInfo] = sv.serverId
    /\ client.executed = Len(commands)

HasGamestate == history.gamestate >= sv.restartedServerId

\* The client has the server's configstrings, but for those it may not see.
Agrees == \A i \in Index \ hidden : client.configstrings[i] = sv.configstrings[i]

\* A client that has caught up, from a gamestate of this map, has the server's
\* configstrings, whatever changed while it was loading or the map restarted,
\* unless it has executed commands sent before its gamestate.
ReliableUnlessReplayed == CaughtUp /\ HasGamestate /\ ~history.replayed => Agrees

\* What both sides' strings keep to.
StringsHold == TypeOK /\ ReliableUnlessReplayed

GamestateSent ==
    Len(toClient') > Len(toClient) /\ toClient'[Len(toClient')].gamestate # <<>>

\* A client that has this map's gamestate is not sent it again, which would make
\* it load the map again, unless it has executed such commands.
OneGamestatePerMap ==
    [][GamestateSent => history.replayed \/ ~HasGamestate]_vars

\* However maps change and messages get lost, the client catches up with the
\* last map or restart (as far as either side can tell: see PlaysThisMap).
CatchesUp == []<>CaughtUp

(* What the code says of itself, and does not do. *)

\* "any configstring changes should be reliably transmitted to all clients"
ChangesReach == CaughtUp /\ HasGamestate => Agrees

\* "when we get the next packet from a connected client, the new gamestate will
\* be sent"
PlaysThisMap == CaughtUp => HasGamestate

\* "if we can tell that the client has dropped the last gamestate we sent them,
\* resend it"
ResentOnlyIfDropped == [][GamestateSent => ~HasGamestate]_vars

\* "they just haven't caught the map_restart yet"
CatchesRestart == Outdated(client) ~> ~Outdated(client)

\* "Send a blank config string for this client if it's listed"
HiddenIsBlank == CaughtUp => \A i \in hidden : client.configstrings[i] = 0
=============================================================================

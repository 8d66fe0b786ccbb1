------------------------------ MODULE Reliable ------------------------------
(***************************************************************************)
(* Reliable commands between one client and the server: numbered strings,  *)
(* kept in a ring until the other side acknowledges them, repeated in      *)
(* every packet until then.  The string of the last command a side has     *)
(* from the other is also the key its packets are encoded with, looked up  *)
(* again in the ring by the side that decodes.                             *)
(*                                                                         *)
(* clc is the client's clientConnection_t, cl the server's client_t; below *)
(* them is the netchan: messages arrive whole, in order, once, or never.   *)
(* A command's text is its number; 0 is the empty string.  The server's     *)
(* state "active" is any from CS_PRIMED on: before the gamestate            *)
(* SV_AddServerCommand takes nothing for the client.                        *)
(*                                                                         *)
(* Definitions named Bug... are plausible mistakes, each the mutated form  *)
(* of the definition that follows it; the specification uses none of them. *)
(***************************************************************************)
EXTENDS Integers, Sequences, FiniteSetsExt

CONSTANTS
    MAX_RELIABLE_COMMANDS,
    MaxPending,         \* unacknowledged commands the callers let pile up
    MaxCommands,        \* bound on the commands each side issues
    MaxInFlight,        \* bound on the messages in flight each way
    GameCommands        \* how many commands the game may add in a drop

ASSUME ReliableAssumption ==
    /\ MAX_RELIABLE_COMMANDS \in Nat \ {0}
    /\ MaxPending \in Nat /\ MaxCommands \in Nat /\ MaxInFlight \in Nat
    /\ GameCommands \subseteq Nat

VARIABLES
    clc,                \* the client's half
    cl,                 \* the server's half
    toServer, toClient, \* messages in flight, oldest first
    clExecuted,         \* history: texts cgame was given, in order
    svExecuted          \* history: texts the server executed, in order

vars == <<clc, cl, toServer, toClient, clExecuted, svExecuted>>

Slot(n)    == n % MAX_RELIABLE_COMMANDS
Disconnect == -1        \* the text "disconnect", either way
DropNotice == -2        \* the print that tells everyone of a drop
PlayerGone == -3        \* what the game says when it takes the player out

\* The commands s has not seen acknowledged, and what its ring holds for them.
Pending(s) == s.reliableSequence - s.reliableAcknowledge

\* BUG: the newest command is left out.
BugPendingTexts(s) ==
    [i \in 1..Pending(s) - 1 |-> s.reliableCommands[Slot(s.reliableAcknowledge + i)]]

PendingTexts(s) ==
    [i \in 1..Pending(s) |-> s.reliableCommands[Slot(s.reliableAcknowledge + i)]]

\* s with one more command in its ring.
Put(s, text) ==
    LET n == s.reliableSequence + 1
    IN  [s EXCEPT !.reliableSequence = n, !.reliableCommands[Slot(n)] = text]

\* A message's commands are numbered from its first one on.
Last(msg)    == msg.from + Len(msg.texts) - 1
Text(msg, n) == msg.texts[n - msg.from + 1]

\* The ring with those commands of msg written whose numbers are in new: where
\* they go round it, the last one stays.
Written(ring, msg, new) ==
    [i \in DOMAIN ring |->
        LET here == {k \in new : Slot(k) = i}
        IN  IF here = {} THEN ring[i] ELSE Text(msg, Max(here))]

\* s with several more commands in its ring.
PutAll(s, texts) ==
    LET n == s.reliableSequence
        last == n + Len(texts)
    IN  [s EXCEPT !.reliableSequence = last,
                  !.reliableCommands = Written(@, [from |-> n + 1, texts |-> texts], n + 1..last)]

EmptyRing == [i \in 0..MAX_RELIABLE_COMMANDS - 1 |-> 0]

Init ==
    /\ clc = [connected |-> TRUE, reliableSequence |-> 0, reliableAcknowledge |-> 0,
              reliableCommands |-> EmptyRing, serverCommandSequence |-> 0,
              serverCommands |-> EmptyRing, lastExecutedServerCommand |-> 0]
    /\ cl = [state |-> "active", reliableSequence |-> 0, reliableAcknowledge |-> 0,
             reliableCommands |-> EmptyRing, lastClientCommand |-> 0,
             lastClientCommandString |-> 0, drops |-> 0, lost |-> FALSE, skipped |-> 0]
    /\ toServer = <<>> /\ toClient = <<>>
    /\ clExecuted = <<>> /\ svExecuted = <<>>

-----------------------------------------------------------------------------
(* The server's half. *)

\* BUG: one command too many may be pending.
BugOverflows(s) == Pending(s) = MAX_RELIABLE_COMMANDS + 1

\* Adding a command to s would lose one that is not acknowledged.
Overflows(s) == Pending(s) = MAX_RELIABLE_COMMANDS

\* What SV_DropClient says: the notice, as much as the game adds while its
\* GAME_CLIENT_DISCONNECT takes the player out of its configstrings (nothing for
\* a client that is only primed), the disconnect.
Farewell(k) == <<DropNotice>> \o [i \in 1..k |-> PlayerGone] \o <<Disconnect>>

Gone(s) == [s EXCEPT !.state = "zombie", !.drops = @ + 1]

\* SV_DropClient as SV_AddServerCommand calls it, the number of the command
\* that did not fit already taken (skipped) and its slot not written: all the
\* rest finds the difference past the limit, and is put in the ring.
DropOnOverflow(s) ==
    LET n == s.reliableSequence + 1
    IN  {Gone(PutAll([s EXCEPT !.reliableSequence = n, !.skipped = n], Farewell(k))) :
            k \in GameCommands}

\* What s may be with one more command.
SV_AddServerCommand(s, text) ==
    CASE s.state = "zombie" -> {s}
      [] s.state # "zombie" /\ Overflows(s) -> DropOnOverflow(s)
      [] OTHER -> {Put(s, text)}

\* What s may be when it has been dropped.  The first command of the farewell
\* that does not fit drops the client within the drop, and the game is told
\* twice (drops); what is left of the farewell then finds a zombie.
SV_DropClient(s) ==
    LET room == MAX_RELIABLE_COMMANDS - Pending(s)
        Dropped(k) ==
            IF Len(Farewell(k)) <= room
            THEN {Gone(PutAll(s, Farewell(k)))}
            ELSE {[d EXCEPT !.drops = @ + 1] :
                    d \in DropOnOverflow(PutAll(s, SubSeq(Farewell(k), 1, room)))}
    IN  IF s.state = "zombie" THEN {s} ELSE UNION {Dropped(k) : k \in GameCommands}

\* The game or the engine has something to tell this client.
SV_SendServerCommand ==
    /\ cl.state # "zombie"
    /\ cl.reliableSequence < MaxCommands /\ Pending(cl) < MaxPending
    /\ cl' \in SV_AddServerCommand(cl, cl.reliableSequence + 1)
    /\ UNCHANGED <<clc, toServer, toClient, clExecuted, svExecuted>>

\* The server drops the client for reasons of its own: a kick, a timeout.
Drop ==
    /\ cl.state # "zombie"
    /\ cl' \in SV_DropClient(cl)
    /\ UNCHANGED <<clc, toServer, toClient, clExecuted, svExecuted>>

\* BUG: what is sent is taken for acknowledged.
BugSendClientSnapshot ==
    /\ Len(toClient) < MaxInFlight
    /\ toClient' = Append(toClient,
          [ack |-> cl.lastClientCommand, key |-> cl.lastClientCommandString,
           from |-> cl.reliableAcknowledge + 1, texts |-> PendingTexts(cl)])
    /\ cl' = [cl EXCEPT !.reliableAcknowledge = cl.reliableSequence]
    /\ UNCHANGED <<clc, toServer, clExecuted, svExecuted>>

\* Every message to the client, zombie or not, acknowledges its commands, is
\* encoded with the last one's string and repeats the pending ones.
SV_SendClientSnapshot ==
    /\ Len(toClient) < MaxInFlight
    /\ toClient' = Append(toClient,
          [ack |-> cl.lastClientCommand, key |-> cl.lastClientCommandString,
           from |-> cl.reliableAcknowledge + 1, texts |-> PendingTexts(cl)])
    /\ UNCHANGED <<clc, cl, toServer, clExecuted, svExecuted>>

-----------------------------------------------------------------------------
(* What both sides do with a message that arrives. *)

\* A message whose key is not what s's ring holds decodes to garbage.
Garbled(s, msg) == msg.key # s.reliableCommands[Slot(msg.ack)]

\* An acknowledge that makes no sense forgets everything pending.
MakesSense(s, msg) == msg.ack >= s.reliableSequence - MAX_RELIABLE_COMMANDS

\* BUG: any acknowledge forgets everything pending.
BugAcknowledgedBy(s, msg) == [s EXCEPT !.reliableAcknowledge = s.reliableSequence]

AcknowledgedBy(s, msg) ==
    [s EXCEPT !.reliableAcknowledge =
        IF MakesSense(s, msg) THEN msg.ack ELSE s.reliableSequence]

\* The commands of msg after number n.
After(msg, n) == {k \in msg.from..Last(msg) : k > n}

-----------------------------------------------------------------------------
(* The server receives. *)

\* The commands of msg that are executed: the new ones, up to a disconnect.
ToExecute(msg) ==
    {n \in After(msg, cl.lastClientCommand) :
        \A k \in After(msg, cl.lastClientCommand) : k < n => Text(msg, k) # Disconnect}

\* BUG: commands are executed again when a packet repeats them.
BugExecuteCommands(s, msg) ==
    IF msg.texts = <<>> THEN cl' = s /\ UNCHANGED svExecuted
    ELSE /\ cl' = [s EXCEPT !.lastClientCommand = Last(msg),
                            !.lastClientCommandString = Text(msg, Last(msg))]
         /\ svExecuted' = svExecuted \o msg.texts

\* The loop over SV_ClientCommand, for the client record s.
ExecuteCommands(s, msg) ==
    LET todo == ToExecute(msg)
        last == Max(todo)
        done == [s EXCEPT !.lastClientCommand = last,
                          !.lastClientCommandString = Text(msg, last)]
    IN  IF todo = {} THEN cl' = s /\ UNCHANGED svExecuted
        ELSE IF cl.lastClientCommand + 1 \notin todo
        THEN cl' \in SV_DropClient([s EXCEPT !.lost = TRUE]) /\ UNCHANGED svExecuted
        ELSE /\ cl' \in IF Text(msg, last) = Disconnect THEN SV_DropClient(done) ELSE {done}
             /\ svExecuted' = svExecuted \o
                    [i \in 1..Cardinality(todo) |-> Text(msg, cl.lastClientCommand + i)]

\* SV_ExecuteClientMessage.  A message of another map (outdated) has its
\* acknowledge taken and no more; of garbage nothing is executed, unless it
\* reads as a command from the future, for which the client is dropped.
SV_ExecuteClientMessage(msg, outdated) ==
    LET s == AcknowledgedBy(cl, msg)
    IN  IF outdated \/ ~MakesSense(cl, msg)
        THEN cl' = s /\ UNCHANGED svExecuted
        ELSE IF Garbled(cl, msg)
        THEN cl' \in {s} \cup SV_DropClient(s) /\ UNCHANGED svExecuted
        ELSE ExecuteCommands(s, msg)

\* The netchan hands up one of the messages in flight, and no earlier one
\* after it.  A zombie's messages are read no further than that.
SV_PacketEvent(i, outdated) ==
    /\ toServer' = SubSeq(toServer, i + 1, Len(toServer))
    /\ IF cl.state = "zombie"
       THEN UNCHANGED <<cl, svExecuted>>
       ELSE SV_ExecuteClientMessage(toServer[i], outdated)
    /\ UNCHANGED <<clc, toClient, clExecuted>>

-----------------------------------------------------------------------------
(* The client's half. *)

\* What CL_WritePacket writes for connection c.
ClientMessage(c) ==
    [ack |-> c.serverCommandSequence, key |-> c.serverCommands[Slot(c.serverCommandSequence)],
     from |-> c.reliableAcknowledge + 1, texts |-> PendingTexts(c)]

\* CL_Disconnect of connection c: a last command, in packets nobody answers
\* (three copies in the code; here one, lost if too many are in flight).
CL_Disconnect(c) ==
    LET last == Put(c, Disconnect)
    IN  /\ clc' = [last EXCEPT !.connected = FALSE]
        /\ toServer' = IF Len(toServer) < MaxInFlight
                       THEN Append(toServer, ClientMessage(last)) ELSE toServer

\* The user or cgame issues a command; one that would not fit ends it all.
CL_AddReliableCommand ==
    /\ clc.connected
    /\ clc.reliableSequence < MaxCommands /\ Pending(clc) < MaxPending
    /\ IF Pending(clc) >= MAX_RELIABLE_COMMANDS
       THEN CL_Disconnect(clc)
       ELSE clc' = Put(clc, clc.reliableSequence + 1) /\ UNCHANGED toServer
    /\ UNCHANGED <<cl, toClient, clExecuted, svExecuted>>

UserDisconnects ==
    /\ clc.connected
    /\ CL_Disconnect(clc)
    /\ UNCHANGED <<cl, toClient, clExecuted, svExecuted>>

CL_WritePacket ==
    /\ clc.connected
    /\ Len(toServer) < MaxInFlight
    /\ toServer' = Append(toServer, ClientMessage(clc))
    /\ UNCHANGED <<clc, cl, toClient, clExecuted, svExecuted>>

\* BUG: the slot is taken from the sequence before it is advanced.
BugStoreCommands(c, msg) ==
    LET new == After(msg, c.serverCommandSequence)
    IN  IF new = {} THEN c
        ELSE [c EXCEPT !.serverCommandSequence = Last(msg),
                       !.serverCommands = [i \in DOMAIN @ |->
                           LET here == {k \in new : Slot(k - 1) = i}
                           IN  IF here = {} THEN @[i] ELSE Text(msg, Max(here))]]

\* CL_ParseCommandString for each command of msg: new ones go in the ring.
StoreCommands(c, msg) ==
    LET new == After(msg, c.serverCommandSequence)
    IN  IF new = {} THEN c
        ELSE [c EXCEPT !.serverCommandSequence = Last(msg),
                       !.serverCommands = Written(@, msg, new)]

\* CL_ParseServerMessage; garbage reads as the end of the message or as an
\* illegible one.
CL_ParseServerMessage(i) ==
    LET msg == toClient[i]
        c   == AcknowledgedBy(clc, msg)
    IN  /\ clc.connected
        /\ toClient' = SubSeq(toClient, i + 1, Len(toClient))
        /\ IF Garbled(clc, msg)
           THEN \/ clc' = c /\ UNCHANGED toServer
                \/ CL_Disconnect(c)
           ELSE clc' = StoreCommands(c, msg) /\ UNCHANGED toServer
        /\ UNCHANGED <<cl, clExecuted, svExecuted>>

\* BUG: a command whose slot has been reused is not noticed.
BugCycledOut(n) == FALSE

\* The ring has gone round since command n.
CycledOut(n) == n <= clc.serverCommandSequence - MAX_RELIABLE_COMMANDS

\* cgame takes the commands one after the other, up to its snapshot's.
CL_GetServerCommand ==
    LET n    == clc.lastExecutedServerCommand + 1
        text == clc.serverCommands[Slot(n)]
        c    == [clc EXCEPT !.lastExecutedServerCommand = n]
    IN  /\ clc.connected
        /\ n <= clc.serverCommandSequence
        /\ IF CycledOut(n)
           THEN CL_Disconnect(clc) /\ UNCHANGED clExecuted
           ELSE /\ clExecuted' = Append(clExecuted, text)
                /\ IF text = Disconnect
                   THEN CL_Disconnect(c)
                   ELSE clc' = c /\ UNCHANGED toServer
        /\ UNCHANGED <<cl, toClient, svExecuted>>

-----------------------------------------------------------------------------
Next ==
    \/ SV_SendServerCommand
    \/ Drop
    \/ SV_SendClientSnapshot
    \/ \E i \in DOMAIN toServer, outdated \in BOOLEAN : SV_PacketEvent(i, outdated)
    \/ CL_AddReliableCommand
    \/ UserDisconnects
    \/ CL_WritePacket
    \/ \E i \in DOMAIN toClient : CL_ParseServerMessage(i)
    \/ CL_GetServerCommand

Spec == Init /\ [][Next]_vars

\* Both sides send every frame (SV_SendClientMessages, CL_SendCmd), cgame takes
\* its commands every frame, and the network does not lose for ever.
Fairness ==
    /\ WF_vars(SV_SendClientSnapshot)
    /\ WF_vars(CL_WritePacket)
    /\ WF_vars(CL_GetServerCommand)
    /\ SF_vars(\E i \in DOMAIN toServer : SV_PacketEvent(i, FALSE))
    /\ SF_vars(\E i \in DOMAIN toClient : CL_ParseServerMessage(i))

FairSpec == Spec /\ Fairness

-----------------------------------------------------------------------------
(* Properties. *)

Ring == [0..MAX_RELIABLE_COMMANDS - 1 -> Int]

\* The records of client.h and server.h, and no more pending in a live
\* connection than the ring has slots.
TypeOK ==
    /\ clc \in [connected : BOOLEAN, reliableSequence : Nat,
                 reliableAcknowledge : Nat, reliableCommands : Ring,
                 serverCommandSequence : Nat, serverCommands : Ring,
                 lastExecutedServerCommand : Nat]
    /\ cl \in [state : {"active", "zombie"}, reliableSequence : Nat,
                reliableAcknowledge : Nat, reliableCommands : Ring,
                lastClientCommand : Nat, lastClientCommandString : Int,
                drops : 0..2, lost : BOOLEAN, skipped : Nat]
    /\ \A m \in {toServer[i] : i \in DOMAIN toServer} \cup
                {toClient[i] : i \in DOMAIN toClient} :
          m.ack \in Nat /\ m.key \in Int /\ m.from \in Nat /\ m.texts \in Seq(Int)
    /\ clc.connected => Pending(clc) \in 0..MAX_RELIABLE_COMMANDS
    /\ cl.state = "active" => Pending(cl) \in 0..MAX_RELIABLE_COMMANDS

\* The server executes the client's commands in the order they were issued,
\* each once, none left out, until a disconnect: however packets repeat them.
ServerExecutesInOrder ==
    \A i \in DOMAIN svExecuted :
        \/ svExecuted[i] = i
        \/ svExecuted[i] = Disconnect /\ ~clc.connected /\ cl.state = "zombie"

\* cgame is given the server's commands in the order they were issued, each
\* once, none left out, until the server drops the client.  From then on it may
\* be given the notice, what the game adds and the disconnect early, nothing after
\* the disconnect, and, for the number SV_AddServerCommand takes without storing a
\* command, the command of the slot's last round once more.
ClientExecutesInOrder ==
    \A i \in DOMAIN clExecuted :
        \/ clExecuted[i] = i
        \/ /\ cl.state = "zombie"
           /\ \/ clExecuted[i] \in {DropNotice, PlayerGone}
              \/ clExecuted[i] = Disconnect /\ i = Len(clExecuted)
              \/ clExecuted[i] = i - MAX_RELIABLE_COMMANDS /\ i = cl.skipped

\* No message leaves a gap: the first command of any message that may still
\* arrive follows one the receiver has.  CL_ParseCommandString depends on it,
\* for it does not look, and SV_ClientCommand drops the client over it.
NoGap ==
    /\ ~cl.lost
    /\ \A i \in DOMAIN toClient : toClient[i].from <= clc.serverCommandSequence + 1
    /\ \A i \in DOMAIN toServer : toServer[i].from <= cl.lastClientCommand + 1

\* The next message the client would decode finds its key, and so does the
\* next one the server would, as long as the ring holds fewer pending commands
\* than it has slots.
KeyHeldUnlessFull ==
    /\ clc.connected /\ Pending(clc) < MAX_RELIABLE_COMMANDS =>
          \A i \in DOMAIN toClient : ~Garbled(clc, toClient[i])
    /\ cl.state = "active" /\ Pending(cl) < MAX_RELIABLE_COMMANDS =>
          \A i \in DOMAIN toServer : ~Garbled(cl, toServer[i])

\* What the rings keep to: their sizes, and the key of what comes next.
RingsHold == TypeOK /\ KeyHeldUnlessFull

Over == ~clc.connected \/ cl.state = "zombie"

\* A command CL_AddReliableCommand took is executed by the server in the end,
\* unless one side ends the connection.
ClientCommandsArrive ==
    \A n \in 1..MaxCommands :
        clc.reliableSequence >= n ~> Len(svExecuted) >= n \/ Over
\* A command SV_AddServerCommand took is given to cgame in the end, unless one
\* side ends the connection.
ServerCommandsArrive ==
    \A n \in 1..MaxCommands :
        cl.reliableSequence >= n ~> Len(clExecuted) >= n \/ Over

\* Every reliable command arrives, in both directions.
CommandsArrive == ClientCommandsArrive /\ ServerCommandsArrive

(* What the code says of itself, and does not do. *)

\* "we must drop the connection" if "we would be losing an old command that
\* hasn't been acknowledged": then no command is executed twice.  But the number
\* that did not fit names a slot with an old command, and is sent.
NoneTwice == \A i \in DOMAIN clExecuted : clExecuted[i] < 0 \/ clExecuted[i] = i

\* "modify the key with the last sent and with this message acknowledged client
\* command": the command's string is there to be looked up.
ClientFindsKey ==
    clc.connected => \A i \in DOMAIN toClient : ~Garbled(clc, toClient[i])

\* "modify the key with the last sent and acknowledged server command"
ServerFindsKey ==
    cl.state = "active" => \A i \in DOMAIN toServer : ~Garbled(cl, toServer[i])

\* "also leave one slot open for the disconnect command": it takes the slot of
\* no command that is still to be sent.
DisconnectFits ==
    \A i \in DOMAIN toServer :
        \A n \in DOMAIN toServer[i].texts :
            toServer[i].texts[n] = Disconnect => n = Len(toServer[i].texts)

\* "so a broadcast print added by SV_DropClient() doesn't cause a recursive drop
\* client"
DropsOnce == cl.drops <= 1
=============================================================================

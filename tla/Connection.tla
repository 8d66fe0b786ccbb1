----------------------------- MODULE Connection -----------------------------
(***************************************************************************)
(* How clients get a slot on the server, lose it, and notice that they     *)
(* have: the challenge table and client slots of server/sv_client.c and    *)
(* sv_main.c, the handshake of client/cl_main.c, the game's idea of who    *)
(* plays, and a network that loses packets.                                *)
(*                                                                         *)
(* All clients sit behind one router, the case a qport is for: they share  *)
(* the base address, an address is a UDP port the router has given out,    *)
(* and a client's qport is the client itself.  A challenge is its number   *)
(* in the order of issue.  Time is not counted: heard says that a packet   *)
(* came in lately, and may turn false when none does.  Whether the game    *)
(* denies a client, a ping is refused or a connect comes too soon after    *)
(* the last is left open, and a parsed packet may lead to a drop.          *)
(*                                                                         *)
(* Definitions named Bug... are plausible mistakes, each the mutated form  *)
(* of the definition that follows it; the specification uses none of them. *)
(***************************************************************************)
EXTENDS Integers, Sequences, FiniteSetsExt

CONSTANTS
    Client,
    Port,               \* UDP ports the router gives out
    FirstPort,          \* the port each client starts with
    MAXCLIENTS, MAX_CHALLENGES,
    PrivateClients,     \* the first slots, reserved for those with the password
    Trusted,            \* the clients that have it
    Rebinding,          \* does the router ever change a client's port?
    Picky,              \* may the server or the game turn a client away?
    Ordered,            \* do packets arrive in order?
    MaxIssued,          \* bound on the challenges the server issues
    MaxInFlight         \* bound on the packets in flight to and from a client

ASSUME ConnectionAssumption ==
    /\ Port \subseteq Nat \ {0}
    /\ FirstPort \in [Client -> Port]
    /\ \A c, d \in Client : FirstPort[c] = FirstPort[d] => c = d
    /\ MAXCLIENTS \in Nat \ {0} /\ MAX_CHALLENGES \in Nat \ {0}
    /\ PrivateClients \in 0..MAXCLIENTS /\ Trusted \subseteq Client
    /\ Rebinding \in BOOLEAN /\ Picky \in BOOLEAN /\ Ordered \in BOOLEAN
    /\ MaxIssued \in Nat /\ MaxInFlight \in Nat

VARIABLES
    slots,              \* svs.clients
    challenges,         \* svs.challenges
    issued,             \* challenges issued so far
    game,               \* level.clients[].pers.connected
    client,             \* cls.state and clc of each client
    port,               \* the port the router gives each client
    toServer, toClient  \* packets in flight, oldest first

vars == <<slots, challenges, issued, game, client, port, toServer, toClient>>
server == <<slots, challenges, issued, game>>

Slot  == 1..MAXCLIENTS
Entry == 1..MAX_CHALLENGES

Live(s) == s.state \in {"connected", "primed", "active"}

NoEntry == [adr |-> 0, number |-> 0, connected |-> FALSE, wasrefused |-> FALSE, time |-> 0]
NoSlot  == [state |-> "free", adr |-> 0, qport |-> 0, challenge |-> 0, heard |-> FALSE,
            told |-> FALSE]

Init ==
    /\ slots = [i \in Slot |-> NoSlot]
    /\ challenges = [e \in Entry |-> NoEntry]
    /\ issued = 0
    /\ game = [i \in Slot |-> "disconnected"]
    /\ client = [c \in Client |-> [state |-> "disconnected", challenge |-> 0, heard |-> FALSE]]
    /\ port = FirstPort
    /\ toServer = [c \in Client |-> <<>>]
    /\ toClient = [c \in Client |-> <<>>]

-----------------------------------------------------------------------------
(* The network: what finds the way full is lost. *)

Send(queue, packet) ==
    IF Len(queue) < MaxInFlight THEN Append(queue, packet) ELSE queue

\* What may still arrive when packet i of queue has: later ones, and, if
\* packets overtake or double each other, earlier ones and the same again.
Rest(queue, i) ==
    IF Ordered THEN {SubSeq(queue, i + 1, Len(queue))}
    ELSE {queue, SubSeq(queue, 1, i - 1) \o SubSeq(queue, i + 1, Len(queue))}

\* The packets of a kind in queue.
Arrives(queue, kind) == {n \in DOMAIN queue : queue[n].kind = kind}

\* The server sends packet to address adr: to the client that has it now.
Reply(adr, packet) ==
    toClient' = [c \in Client |->
        IF port[c] = adr THEN Send(toClient[c], packet) ELSE toClient[c]]

\* The router gives a client another port.
Rebind(c, p) ==
    /\ Rebinding
    /\ \A d \in Client : port[d] # p
    /\ port' = [port EXCEPT ![c] = p]
    /\ UNCHANGED <<server, client, toServer, toClient>>

-----------------------------------------------------------------------------
(* server/sv_client.c: the challenge table. *)

\* The entry of adr that no client has connected with, else the oldest entry.
EntryFor(adr) ==
    LET unused == {e \in Entry : ~challenges[e].connected /\ challenges[e].adr = adr}
        oldest == {e \in Entry : \A f \in Entry : challenges[e].time <= challenges[f].time}
    IN  Min(IF unused # {} THEN unused ELSE oldest)

\* A reused entry keeps its age, and gets a new number.  Past the bound requests
\* are lost.
SV_GetChallenge(adr) ==
    LET e     == EntryFor(adr)
        reuse == ~challenges[e].connected /\ challenges[e].adr = adr
    IN  \/ /\ issued < MaxIssued
           /\ issued' = issued + 1
           /\ challenges' = [challenges EXCEPT ![e] =
                 [adr |-> adr, number |-> issued + 1, connected |-> FALSE, wasrefused |-> FALSE,
                  time |-> IF reuse THEN @.time ELSE issued + 1]]
           /\ Reply(adr, [kind |-> "challengeResponse", challenge |-> issued + 1])
           /\ UNCHANGED <<slots, game>>
        \/ issued = MaxIssued /\ UNCHANGED <<server, toClient>>

\* The entry adr proves itself with, if any.
Proofs(adr, number) ==
    {e \in Entry : challenges[e].adr = adr /\ challenges[e].number = number}

\* SV_DropClient forgets the first entry of the address.
WithoutFirst(adr) ==
    LET of == {e \in Entry : challenges[e].adr = adr}
    IN  IF of = {} THEN challenges ELSE [challenges EXCEPT ![Min(of)] = NoEntry]

-----------------------------------------------------------------------------
(* server/sv_client.c: getting a slot. *)

\* BUG: a zombie's slot is left alone.
BugSame(i, adr, qport) ==
    Live(slots[i]) /\ (slots[i].qport = qport \/ slots[i].adr = adr)

\* BUG: one base address, one client.
BugSameHost(i, adr, qport) == slots[i].state # "free"

\* Is slot i that of a client which connects from adr with this qport?
Same(i, adr, qport) ==
    slots[i].state # "free" /\ (slots[i].qport = qport \/ slots[i].adr = adr)

\* BUG: the reserved slots are given to anyone.
BugSlotsFor(adr, qport) ==
    LET own == {i \in Slot : Same(i, adr, qport)}
    IN  IF own # {} THEN own ELSE {i \in Slot : slots[i].state = "free"}

\* The slots a connect may be given, of which it gets the first: the client's
\* own, else the free ones, of the reserved ones only with the password.
SlotsFor(adr, qport) ==
    LET own      == {i \in Slot : Same(i, adr, qport)}
        reserved == IF qport \in Trusted THEN {} ELSE 1..PrivateClients
    IN  IF own # {} THEN own
        ELSE {i \in Slot \ reserved : slots[i].state = "free"}

Refused == UNCHANGED <<slots, game, toClient>>

\* The slot is wiped before the game is asked, so a denied client has none.
Deny(i) ==
    /\ slots' = [slots EXCEPT ![i] = NoSlot]
    /\ game' = [game EXCEPT ![i] = "disconnected"]
    /\ UNCHANGED toClient

\* BUG: only a client that is new to the server gets an answer.
BugAdmit(i, adr, qport, number) ==
    /\ slots' = [slots EXCEPT ![i] =
          [state |-> "connected", adr |-> adr, qport |-> qport, challenge |-> number,
           heard |-> TRUE, told |-> FALSE]]
    /\ game' = [game EXCEPT ![i] = "connecting"]
    /\ IF slots[i].state = "free" THEN Reply(adr, [kind |-> "connectResponse"])
                                  ELSE UNCHANGED toClient

Admit(i, adr, qport, number) ==
    /\ slots' = [slots EXCEPT ![i] =
          [state |-> "connected", adr |-> adr, qport |-> qport, challenge |-> number,
           heard |-> TRUE, told |-> FALSE]]
    /\ game' = [game EXCEPT ![i] = "connecting"]
    /\ Reply(adr, [kind |-> "connectResponse"])

\* The client has proved its address with entry e.
Enter(e, adr, qport, number) ==
    LET i == Min(SlotsFor(adr, qport))
    IN  /\ challenges' = [challenges EXCEPT ![e].connected = TRUE]
        /\ IF SlotsFor(adr, qport) = {}
           THEN Refused
           ELSE Admit(i, adr, qport, number) \/ (Picky /\ Deny(i))

SV_DirectConnect(adr, qport, number) ==
    LET e       == Min(Proofs(adr, number))
        tooSoon == Picky /\ \E i \in Slot : Same(i, adr, qport)
        proved  == Proofs(adr, number) # {} /\ ~challenges[e].wasrefused
    IN  /\ UNCHANGED issued
        /\ \/ /\ tooSoon \/ ~proved
              /\ Refused /\ UNCHANGED challenges
           \/ /\ proved /\ Picky                            \* a ping out of bounds
              /\ challenges' = [challenges EXCEPT ![e].wasrefused = TRUE]
              /\ Refused
           \/ proved /\ Enter(e, adr, qport, number)

-----------------------------------------------------------------------------
(* server/sv_client.c and sv_main.c: having a slot, and losing it. *)

\* BUG: the game is not told of a slot that is freed at once.
BugDropTo(i, adr, state) ==
    /\ challenges' = WithoutFirst(adr)
    /\ game' = IF state = "free" THEN game ELSE [game EXCEPT ![i] = "disconnected"]
    /\ slots' = [slots EXCEPT ![i] =
          IF state = "free" THEN NoSlot
          ELSE [@ EXCEPT !.state = state, !.adr = adr, !.heard = FALSE,
                         !.told = slots[i].state # "connected"]]

\* SV_DropClient of the client in slot i, now at address adr.  It is told with a
\* reliable command, which SV_AddServerCommand does not take before the gamestate
\* has been sent.  Nobody reads what is left in a free slot, and a zombie's time
\* is up at any time, whether it was heard or not.
DropTo(i, adr, state) ==
    /\ challenges' = WithoutFirst(adr)
    /\ game' = [game EXCEPT ![i] = "disconnected"]
    /\ slots' = [slots EXCEPT ![i] =
          IF state = "free" THEN NoSlot
          ELSE [@ EXCEPT !.state = state, !.adr = adr, !.heard = FALSE,
                         !.told = slots[i].state # "connected"]]

\* A packet of slot i's client is parsed and leads to state.
HeardIn(i, adr, state) ==
    /\ slots' = [slots EXCEPT ![i].state = state, ![i].adr = adr, ![i].heard = TRUE]
    /\ game' = IF slots[i].state = "primed" /\ state = "active"
               THEN [game EXCEPT ![i] = "connected"] ELSE game
    /\ UNCHANGED challenges

\* Where a packet may take a live client: the first one brings it the gamestate,
\* the first move after that enters the world, a new map starts over.
After(state) ==
    CASE state = "connected" -> {"connected", "primed"}
      [] state = "primed"    -> {"primed", "active"}
      [] state = "active"    -> {"active", "primed"}

\* SV_ExecuteClientMessage.  Nothing is executed, not even a disconnect, of a
\* packet from another gamestate; of which one a packet is, is left open.  One
\* with the key of another connection is garbage: the netchan refuses it, or it
\* says nothing, or it gets one dropped.
SV_ExecuteClientMessage(i, packet) ==
    IF packet.challenge = slots[i].challenge
    THEN \/ \E state \in After(slots[i].state) :
               /\ packet.kind = "disconnect" /\ state = "active" => slots[i].state = "active"
               /\ HeardIn(i, packet.adr, state)
         \/ packet.kind = "disconnect" /\ slots[i].state # "connected"
               /\ DropTo(i, packet.adr, "zombie")
         \/ Picky /\ DropTo(i, packet.adr, "zombie")
    ELSE \/ slots' = [slots EXCEPT ![i].adr = packet.adr] /\ UNCHANGED <<game, challenges>>
         \/ HeardIn(i, packet.adr, slots[i].state)
         \/ Picky /\ DropTo(i, packet.adr, "zombie")

\* A packet of the netchan with this qport: a zombie's is not parsed, and to one
\* that no slot is found for the answer is an out of band disconnect.
SV_SequencedPacket(packet, qport) ==
    LET found == {i \in Slot : slots[i].state # "free" /\ slots[i].qport = qport}
        i     == Min(found)
    IN  /\ UNCHANGED issued
        /\ IF found = {}
           THEN Reply(packet.adr, [kind |-> "oobDisconnect"])
                /\ UNCHANGED <<slots, game, challenges>>
           ELSE /\ UNCHANGED toClient
                /\ IF Live(slots[i])
                   THEN SV_ExecuteClientMessage(i, packet)
                   ELSE slots' = [slots EXCEPT ![i].adr = packet.adr]
                        /\ UNCHANGED <<game, challenges>>

SV_PacketEvent(c, n) ==
    LET packet == toServer[c][n]
    IN  /\ \E rest \in Rest(toServer[c], n) : toServer' = [toServer EXCEPT ![c] = rest]
        /\ UNCHANGED <<client, port>>
        /\ CASE packet.kind = "getchallenge" -> SV_GetChallenge(packet.adr)
             [] packet.kind = "connect" -> SV_DirectConnect(packet.adr, c, packet.challenge)
             [] OTHER -> SV_SequencedPacket(packet, c)

\* Messages go to every slot that is not free, a zombie's with the disconnect if
\* it was told; here the next one when the last has arrived, so that they do not shut the
\* way for everything else.
SV_SendClientMessages(i) ==
    /\ slots[i].state # "free"
    /\ \A c \in Client : port[c] = slots[i].adr => Arrives(toClient[c], "message") = {}
    /\ Reply(slots[i].adr, [kind |-> "message", challenge |-> slots[i].challenge,
                            last |-> slots[i].told])
    /\ UNCHANGED <<server, client, port, toServer>>

\* BUG: only live clients are looked at.
BugCheckTimeouts(i) ==
    /\ Live(slots[i]) /\ ~slots[i].heard
    /\ DropTo(i, slots[i].adr, "free")
    /\ UNCHANGED <<issued, client, port, toServer, toClient>>

\* A zombie's slot is freed when its time is up, a live client that was not
\* heard for long is dropped and its slot freed at once.
SV_CheckTimeouts(i) ==
    /\ \/ /\ slots[i].state = "zombie"
          /\ slots' = [slots EXCEPT ![i] = NoSlot]
          /\ UNCHANGED <<game, challenges>>
       \/ /\ Live(slots[i]) /\ ~slots[i].heard
          /\ DropTo(i, slots[i].adr, "free")
    /\ UNCHANGED <<issued, client, port, toServer, toClient>>

\* The operator or the game has a client dropped.
Kick(i) ==
    /\ Picky
    /\ Live(slots[i])
    /\ DropTo(i, slots[i].adr, "zombie")
    /\ UNCHANGED <<issued, client, port, toServer, toClient>>

\* Time passes without a packet of slot i's client.
SlotSilent(i) ==
    /\ Live(slots[i]) /\ slots[i].heard
    /\ slots' = [slots EXCEPT ![i].heard = FALSE]
    /\ UNCHANGED <<challenges, issued, game, client, port, toServer, toClient>>

-----------------------------------------------------------------------------
(* client/cl_main.c *)

Nobody == [state |-> "disconnected", challenge |-> 0, heard |-> FALSE]

Packet(c, kind) == [kind |-> kind, adr |-> port[c], challenge |-> client[c].challenge]

\* CL_Disconnect, and what client c is afterwards.
CL_Disconnect(c, record) ==
    /\ client' = [client EXCEPT ![c] = record]
    /\ toServer' = IF client[c].state = "connected"
                   THEN [toServer EXCEPT ![c] = Send(@, Packet(c, "disconnect"))]
                   ELSE toServer

\* The user connects, whatever went on before, or gives up.
CL_Connect_f(c) ==
    /\ CL_Disconnect(c, [Nobody EXCEPT !.state = "connecting"])
    /\ UNCHANGED <<server, port, toClient>>

CL_Disconnect_f(c) ==
    /\ client[c].state # "disconnected"
    /\ CL_Disconnect(c, Nobody)
    /\ UNCHANGED <<server, port, toClient>>

\* CL_CheckForResend, and CL_SendCmd once connected: something is sent again
\* and again.
CL_Frame(c) ==
    LET kind == CASE client[c].state = "connecting"  -> "getchallenge"
                  [] client[c].state = "challenging" -> "connect"
                  [] client[c].state = "connected"   -> "move"
    IN  /\ client[c].state # "disconnected"
        /\ Len(toServer[c]) < MaxInFlight
        /\ toServer' = [toServer EXCEPT ![c] = Append(@, Packet(c, kind))]
        /\ UNCHANGED <<server, client, port, toClient>>

CL_CheckTimeout(c) ==
    /\ client[c].state = "connected" /\ ~client[c].heard
    /\ CL_Disconnect(c, Nobody)
    /\ UNCHANGED <<server, port, toClient>>

\* Time passes without a packet for c.
ClientSilent(c) ==
    /\ client[c].state = "connected" /\ client[c].heard
    /\ client' = [client EXCEPT ![c].heard = FALSE]
    /\ UNCHANGED <<server, port, toServer, toClient>>

\* Whether it was heard lately matters once c is connected.
Become(c, record) ==
    /\ client' = [client EXCEPT ![c] = [record EXCEPT !.heard = record.state = "connected"]]
    /\ UNCHANGED toServer

\* BUG: the challenge is not kept.
BugChallenged(r, number) == [r EXCEPT !.state = "challenging"]

Challenged(r, number) == [r EXCEPT !.state = "challenging", !.challenge = number]

\* BUG: any client that wants to connect takes a connectResponse.
BugAwaitsConnect(r) == r.state \in {"connecting", "challenging"}

AwaitsConnect(r) == r.state = "challenging"

\* What client c, which has just heard the packet, makes of it.
CL_ConnectionlessPacket(c, r, packet) ==
    CASE packet.kind = "challengeResponse" /\ r.state = "connecting" ->
           Become(c, Challenged(r, packet.challenge))
      [] packet.kind = "connectResponse" /\ AwaitsConnect(r) ->
           Become(c, [r EXCEPT !.state = "connected"])
      [] packet.kind = "oobDisconnect" /\ r.state = "connected" /\ ~r.heard ->
           CL_Disconnect(c, Nobody)
      [] OTHER -> Become(c, r)

\* A message with the key of another connection is garbage.
CL_ParseServerMessage(c, r, packet) ==
    IF r.state = "connected" /\ packet.challenge = r.challenge /\ packet.last
    THEN CL_Disconnect(c, Nobody)
    ELSE \/ Become(c, r)
         \/ /\ r.state = "connected" /\ packet.challenge # r.challenge /\ Picky
            /\ CL_Disconnect(c, Nobody)

CL_PacketEvent(c, n) ==
    LET packet == toClient[c][n]
        r      == [client[c] EXCEPT !.heard = TRUE]
    IN  /\ \E rest \in Rest(toClient[c], n) : toClient' = [toClient EXCEPT ![c] = rest]
        /\ IF packet.kind = "message" THEN CL_ParseServerMessage(c, r, packet)
                                      ELSE CL_ConnectionlessPacket(c, r, packet)
        /\ UNCHANGED <<server, port>>

-----------------------------------------------------------------------------
Next ==
    \/ \E c \in Client :
          \/ \E n \in DOMAIN toServer[c] : SV_PacketEvent(c, n)
          \/ \E n \in DOMAIN toClient[c] : CL_PacketEvent(c, n)
          \/ CL_Connect_f(c) \/ CL_Disconnect_f(c)
          \/ CL_Frame(c) \/ CL_CheckTimeout(c) \/ ClientSilent(c)
          \/ \E p \in Port : Rebind(c, p)
    \/ \E i \in Slot :
          SV_SendClientMessages(i) \/ SV_CheckTimeouts(i) \/ Kick(i) \/ SlotSilent(i)

Spec == Init /\ [][Next]_vars

\* Both sides run their frame for ever, silence is noticed, and the network does
\* not for ever lose the packets of a kind.
Fairness ==
    /\ \A c \in Client :
          /\ WF_vars(CL_Frame(c))
          /\ WF_vars(ClientSilent(c)) /\ WF_vars(CL_CheckTimeout(c))
          /\ \A kind \in {"getchallenge", "connect", "move"} :
                SF_vars(\E n \in Arrives(toServer[c], kind) : SV_PacketEvent(c, n))
          /\ \A kind \in {"challengeResponse", "connectResponse", "message", "oobDisconnect"} :
                SF_vars(\E n \in Arrives(toClient[c], kind) : CL_PacketEvent(c, n))
    /\ \A i \in Slot : WF_vars(SlotSilent(i)) /\ WF_vars(SV_CheckTimeouts(i))

FairSpec == Spec /\ Fairness

-----------------------------------------------------------------------------
(* Properties. *)

\* The tables of server.h, the fields of client.h; a client that waits for an
\* answer to its challenge, or has had it, knows a challenge.
TypeOK ==
    /\ slots \in [Slot -> [state : {"free", "zombie", "connected", "primed", "active"},
                           adr : Port \cup {0}, qport : Client \cup {0},
                           challenge : 0..MaxIssued, heard : BOOLEAN, told : BOOLEAN]]
    /\ challenges \in [Entry -> [adr : Port \cup {0}, number : 0..MaxIssued,
                                 connected : BOOLEAN, wasrefused : BOOLEAN,
                                 time : 0..MaxIssued]]
    /\ issued \in 0..MaxIssued
    /\ game \in [Slot -> {"disconnected", "connecting", "connected"}]
    /\ client \in [Client -> [state : {"disconnected", "connecting", "challenging",
                                       "connected"},
                              challenge : 0..MaxIssued, heard : BOOLEAN]]
    /\ port \in [Client -> Port]
    /\ \A c \in Client : client[c].challenge # 0
                            <=> client[c].state \in {"challenging", "connected"}
    /\ \A c \in Client : Len(toServer[c]) <= MaxInFlight /\ Len(toClient[c]) <= MaxInFlight

\* The engine and the game agree on who plays: the game has a player exactly in
\* the slots that are live, and it is in the world when the slot is active.
GameAgrees ==
    \A i \in Slot :
        /\ Live(slots[i]) <=> game[i] # "disconnected"
        /\ slots[i].state = "active" => game[i] = "connected"

\* No client holds two slots: its packets would reach the first, and the other
\* would keep a ghost in the game.
OneSlotEach ==
    \A i, j \in Slot :
        slots[i].state # "free" /\ slots[j].state # "free" /\ i # j
            => slots[i].qport # slots[j].qport

\* The reserved slots are held by none but those with the password.
ReservedForTrusted ==
    \A i \in 1..PrivateClients : slots[i].state # "free" => slots[i].qport \in Trusted

\* What the slots keep to: their types, and who may be in them.
SlotsHold == TypeOK /\ ReservedForTrusted

\* A client that thinks it is connected and the server agree on the connection:
\* a slot it holds is of its last challenge, so they can read each other.
ConnectionAgrees ==
    \A c \in Client, i \in Slot :
        client[c].state = "connected" /\ Live(slots[i]) /\ slots[i].qport = c
            => slots[i].challenge = client[c].challenge

\* A live client's slot is not given to another.
SlotKept ==
    [][\A i \in Slot : Live(slots[i]) /\ Live(slots'[i])
                           => slots'[i].qport = slots[i].qport]_vars

\* The slot of a client that has gone is freed.
GoneIsFreed ==
    \A i \in Slot :
        slots[i].state # "free"
            ~> slots[i].state = "free" \/ client[slots[i].qport].state # "disconnected"

\* A client that holds a challenge the server would take gets in.
Usable(c) ==
    \E e \in Proofs(port[c], client[c].challenge) : ~challenges[e].wasrefused

HandshakeFinishes ==
    \A c \in Client :
        client[c].state = "challenging" /\ Usable(c)
            ~> client[c].state # "challenging" \/ ~Usable(c)

(* What the code says of itself, and does not do. *)

\* "Returns a challenge number that can be used in a subsequent connectResponse
\* command."
ChallengeUsable ==
    \A c \in Client : client[c].state = "challenging" => Usable(c)

\* "the server will send out of band disconnect packets to the client so it
\* doesn't have to wait for the full timeout period"
Forgotten(c) ==
    /\ client[c].state = "connected"
    /\ \A i \in Slot : slots[i].state # "free" => slots[i].qport # c

ForgottenNotices == \A c \in Client : Forgotten(c) ~> ~Forgotten(c)
=============================================================================
